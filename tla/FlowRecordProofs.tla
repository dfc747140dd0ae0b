-------------------------- MODULE FlowRecordProofs --------------------------
(***************************************************************************)
(* A host with one flow thread, for every number of flows, every size of   *)
(* the histories and every host. Its flows keep the promise of FlowRecord  *)
(* and are recorded in the session their thread created; at most one node  *)
(* starts after the flag of a flow is up, and a flow that reports SUCCESS  *)
(* was cut nowhere. With two threads a replay takes over the interpreter   *)
(* of a flow that still runs.                                              *)
(***************************************************************************)
EXTENDS FlowEngineProofs

OneThread == \A t, u \in Threads : t = u

\* The frames of a stack write to session s, whose nodes are ns: the node of an open frame still
\* runs and is no other frame's.
FramesSolo(stack, s, ns) ==
    \A k \in DOMAIN stack :
        /\ stack[k].s = s
        /\ Open(stack[k]) => ns[stack[k].node].st = "RUNNING"
        /\ \A l \in DOMAIN stack :
              (k # l /\ Open(stack[k]) /\ Open(stack[l])) => stack[k].node # stack[l].node

Solo ==
    \A t \in Threads : thr[t].pc # "idle" =>
        /\ Running(thr[t].s) /\ engine[thr[t].of].active = thr[t].s
        /\ FramesSolo(thr[t].stack, thr[t].s, sess[thr[t].s].nodes)

SoloInv == FlowInv /\ Solo /\ \A t \in Threads : thr[t].pc = "idle" => thr[t].stack = <<>>

-----------------------------------------------------------------------------
(* Stacks                                                                  *)

LEMMA SoloReplaced ==
    ASSUME NEW stack \in Seq(FrameT), stack # <<>>, NEW s, NEW ns, NEW ns2, FramesSolo(stack, s, ns),
           NEW g \in FrameT, g.s = s,
           Open(g) => Open(stack[Len(stack)]) /\ g.node = stack[Len(stack)].node,
           \A k \in DOMAIN stack :
              Open(stack[k]) /\ (k # Len(stack) \/ Open(g)) => ns2[stack[k].node].st = "RUNNING"
    PROVE  FramesSolo([stack EXCEPT ![Len(stack)] = g], s, ns2)
<1>1. PICK n : n = Len(stack)
  OBVIOUS
<1>2. n \in DOMAIN stack
  BY <1>1, EmptySeq, LenProperties
<1>3. PICK new : new = [stack EXCEPT ![n] = g]
  OBVIOUS
<1>4. /\ DOMAIN new = DOMAIN stack /\ new[n] = g
      /\ \A k \in DOMAIN stack : k # n => new[k] = stack[k]
  BY <1>2, <1>3
<1>5. FramesSolo(new, s, ns2)
  <2> SUFFICES ASSUME NEW k \in DOMAIN stack
               PROVE  /\ new[k].s = s /\ (Open(new[k]) => ns2[new[k].node].st = "RUNNING")
                      /\ \A l \in DOMAIN stack :
                            (k # l /\ Open(new[k]) /\ Open(new[l])) => new[k].node # new[l].node
    BY <1>4 DEF FramesSolo
  <2>1. \A l \in DOMAIN stack : Open(new[l]) => Open(stack[l]) /\ new[l].node = stack[l].node
    BY <1>1, <1>4
  <2>2. new[k].s = s
    BY <1>4 DEF FramesSolo
  <2>3. Open(new[k]) => ns2[new[k].node].st = "RUNNING"
    BY <1>1, <1>4, <2>1
  <2> QED
    BY <2>1, <2>2, <2>3 DEF FramesSolo
<1> QED
  BY <1>1, <1>3, <1>5

LEMMA SoloPopped ==
    ASSUME NEW stack \in Seq(FrameT), stack # <<>>, NEW s, NEW ns, NEW ns2, FramesSolo(stack, s, ns),
           \A k \in DOMAIN stack :
              Open(stack[k]) /\ k # Len(stack) => ns2[stack[k].node].st = "RUNNING"
    PROVE  FramesSolo(Front(stack), s, ns2)
<1>1. PICK new : new = Front(stack)
  OBVIOUS
<1>2. \A k \in DOMAIN new : k \in DOMAIN stack /\ k # Len(stack) /\ new[k] = stack[k]
  BY <1>1, FrontFacts
<1>3. FramesSolo(new, s, ns2)
  BY <1>2 DEF FramesSolo
<1> QED
  BY <1>1, <1>3

LEMMA SoloPushed ==
    ASSUME NEW stack \in Seq(FrameT), NEW s, NEW ns, FramesSolo(stack, s, ns),
           NEW g \in FrameT, g.s = s, ~Open(g)
    PROVE  FramesSolo(Append(stack, g), s, ns)
<1>1. PICK new : new = Append(stack, g)
  OBVIOUS
<1>2. \A k \in DOMAIN new : new[k] = g \/ (k \in DOMAIN stack /\ new[k] = stack[k])
  BY <1>1, AppendProperties, LenProperties
<1>3. FramesSolo(new, s, ns)
  BY <1>2 DEF FramesSolo
<1> QED
  BY <1>1, <1>3

-----------------------------------------------------------------------------
(* What a step inside a flow writes                                        *)

Grown(old, new) ==
    /\ Len(old) <= Len(new)
    /\ \A k \in 1 .. Len(old) :
          new[k].st = old[k].st \/ (old[k].st = "RUNNING" /\ new[k].st \in {"SUCCESS", "ERROR"})

\* The nodes of session s become ns, every session keeps its status.
Writes(s, ns) ==
    /\ Created' = Created /\ sess'[s].nodes = ns /\ Grown(sess[s].nodes, ns)
    /\ \A id \in Created : sess'[id].status = sess[id].status /\ (id # s => sess'[id].nodes = sess[id].nodes)

SameFlow(t) ==
    /\ thr'[t].pc = thr[t].pc /\ thr'[t].s = thr[t].s /\ thr'[t].of = thr[t].of
    /\ UNCHANGED engine

SoloStep(t) ==
    /\ SameFlow(t)
    /\ \E ns \in Seq(NodeT) : Writes(thr[t].s, ns) /\ FramesSolo(thr'[t].stack, thr[t].s, ns)

LEMMA SoloFacts ==
    ASSUME SoloInv, NEW t \in Threads, thr[t].pc # "idle"
    PROVE  /\ thr[t].s \in Created /\ thr[t].of \in Interps /\ thr[t].stack \in Seq(FrameT)
           /\ sess[thr[t].s].nodes \in Seq(NodeT) /\ Len(sess[thr[t].s].nodes) \in Nat
           /\ Running(thr[t].s) /\ engine[thr[t].of].active = thr[t].s
           /\ FramesSolo(thr[t].stack, thr[t].s, sess[thr[t].s].nodes)
<1>1. FlowInv /\ thr[t] \in ThreadT /\ ThreadOK(t)
  BY DEF SoloInv, FlowInv, Types, Links
<1>2. thr[t].s \in Created /\ thr[t].of \in Interps
  BY <1>1 DEF ThreadOK
<1> QED
  BY <1>1, <1>2, SessionFacts DEF SoloInv, Solo, ThreadT

LEMMA FramesRunning ==
    ASSUME NEW stack, NEW s, NEW ns, FramesSolo(stack, s, ns), NEW k \in DOMAIN stack, Open(stack[k])
    PROVE  ns[stack[k].node].st = "RUNNING"
BY DEF FramesSolo

LEMMA SoloTop ==
    ASSUME SoloInv, NEW t \in Threads, thr[t].stack # <<>>
    PROVE  /\ thr[t].pc # "idle" /\ Top(t) \in FrameT /\ Top(t) = thr[t].stack[Len(thr[t].stack)]
           /\ Top(t).s = thr[t].s /\ Len(thr[t].stack) \in DOMAIN thr[t].stack
           /\ Open(Top(t)) => /\ Top(t).node \in 1 .. Len(sess[thr[t].s].nodes)
                              /\ sess[thr[t].s].nodes[Top(t).node].st = "RUNNING"
<1>1. FlowInv
  BY DEF SoloInv
<1>2. /\ Len(thr[t].stack) \in DOMAIN thr[t].stack /\ Top(t) = thr[t].stack[Len(thr[t].stack)]
      /\ Top(t) \in FrameT /\ FrameOK(Top(t)) /\ thr[t].pc \in {"program", "replay"}
  BY <1>1, TopFacts DEF Top, Last
<1>3. /\ FramesSolo(thr[t].stack, thr[t].s, sess[thr[t].s].nodes)
      /\ Len(sess[thr[t].s].nodes) \in Nat
  BY <1>2, SoloFacts
<1>4. Top(t).s = thr[t].s
  BY <1>2, <1>3 DEF FramesSolo
<1>5. ASSUME Open(Top(t))
      PROVE  /\ Top(t).node \in 1 .. Len(sess[thr[t].s].nodes)
             /\ sess[thr[t].s].nodes[Top(t).node].st = "RUNNING"
  <2>1. Top(t).node \in Nat /\ Top(t).node > 0 /\ Top(t).node <= Len(sess[thr[t].s].nodes)
    <3>1. PICK f \in FrameT : f = Top(t) /\ FrameOK(f) /\ Open(f) /\ f.s = thr[t].s
      BY <1>2, <1>4, <1>5
    <3>2. f.node \in Nat /\ f.node > 0 /\ f.node <= Len(sess[f.s].nodes)
      BY <3>1 DEF FrameOK, FrameT
    <3> QED
      BY <3>1, <3>2
  <2>2. sess[thr[t].s].nodes[Top(t).node].st = "RUNNING"
    BY <1>2, <1>3, <1>5, FramesRunning
  <2>3. Top(t).node \in 1 .. Len(sess[thr[t].s].nodes)
    <3>1. PICK l \in Nat : l = Len(sess[thr[t].s].nodes)
      BY <1>3
    <3>2. PICK n \in Nat : n = Top(t).node /\ n > 0 /\ n <= l
      BY <2>1, <3>1
    <3> QED
      BY <3>1, <3>2
  <2> QED
    BY <2>2, <2>3
<1> QED
  BY <1>2, <1>4, <1>5

LEMMA ThreadWritten ==
    ASSUME FlowInv, NEW t \in Threads, UNCHANGED engine
    PROVE  /\ \A g : thr' = WithTop(t, g) =>
                 SameFlow(t) /\ thr'[t].stack = [thr[t].stack EXCEPT ![Len(thr[t].stack)] = g]
           /\ thr' = Pop(t) => SameFlow(t) /\ thr'[t].stack = Front(thr[t].stack)
<1>1. thr \in [Threads -> ThreadT] /\ thr[t] \in ThreadT
  BY DEF FlowInv, Types
<1>2. ASSUME NEW new, thr' = [thr EXCEPT ![t].stack = new]
      PROVE  SameFlow(t) /\ thr'[t].stack = new
  BY <1>1, <1>2 DEF SameFlow, ThreadT
<1>3. ASSUME NEW g, thr' = WithTop(t, g)
      PROVE  SameFlow(t) /\ thr'[t].stack = [thr[t].stack EXCEPT ![Len(thr[t].stack)] = g]
  <2>1. PICK new : new = [thr[t].stack EXCEPT ![Len(thr[t].stack)] = g]
    OBVIOUS
  <2>2. thr' = [thr EXCEPT ![t].stack = new]
    BY <1>3, <2>1 DEF WithTop
  <2> QED
    BY <1>2, <2>1, <2>2
<1>4. ASSUME thr' = Pop(t)
      PROVE  SameFlow(t) /\ thr'[t].stack = Front(thr[t].stack)
  <2>1. PICK new : new = Front(thr[t].stack)
    OBVIOUS
  <2>2. thr' = [thr EXCEPT ![t].stack = new]
    BY <1>4, <2>1 DEF Pop
  <2> QED
    BY <1>2, <2>1, <2>2
<1> QED
  BY <1>3, <1>4

LEMMA SessionWritten ==
    ASSUME FlowInv, NEW s \in Created, NEW S \in SessionT, sess' = [sess EXCEPT ![s] = S],
           S.status = sess[s].status, Grown(sess[s].nodes, S.nodes)
    PROVE  Writes(s, S.nodes)
<1>1. Len(S.nodes) >= Len(sess[s].nodes)
  BY SessionFacts, LenProperties DEF Grown, SessionT
<1> QED
  BY <1>1, SessionReplaced DEF FlowInv, Writes

LEMMA NothingWritten ==
    ASSUME FlowInv, NEW s \in Created, UNCHANGED sess
    PROVE  Writes(s, sess[s].nodes)
BY SessionFacts DEF Writes, Grown, Created

-----------------------------------------------------------------------------
(* The steps inside a flow, one by one                                     *)

LEMMA PlainSolo ==
    ASSUME SoloInv, NEW t \in Threads, thr[t].stack # <<>>, UNCHANGED <<sess, engine>>,
           thr' = Pop(t) \/ \E g \in FrameT : /\ thr' = WithTop(t, g) /\ g.s = Top(t).s
                                              /\ Open(g) => Open(Top(t)) /\ g.node = Top(t).node
    PROVE  SoloStep(t)
<1>1. FlowInv
  BY DEF SoloInv
<1>2. PICK stack \in Seq(FrameT) : stack = thr[t].stack
  BY SoloTop, SoloFacts
<1>3. PICK ns \in Seq(NodeT) : ns = sess[thr[t].s].nodes /\ Writes(thr[t].s, ns)
  BY <1>1, SoloTop, SoloFacts, NothingWritten
<1>4. FramesSolo(stack, thr[t].s, ns) /\ stack # <<>>
  BY <1>2, <1>3, SoloTop, SoloFacts
<1>5. CASE thr' = Pop(t)
  <2>1. SameFlow(t) /\ thr'[t].stack = Front(stack)
    BY <1>1, <1>2, <1>5, ThreadWritten
  <2>2. FramesSolo(Front(stack), thr[t].s, ns)
    <3>1. \A k \in DOMAIN stack : Open(stack[k]) => ns[stack[k].node].st = "RUNNING"
      BY <1>4 DEF FramesSolo
    <3> QED
      BY <1>4, <3>1, SoloPopped
  <2> QED
    BY <1>3, <2>1, <2>2 DEF SoloStep
<1>6. ASSUME NEW g \in FrameT, thr' = WithTop(t, g), g.s = Top(t).s,
             Open(g) => Open(Top(t)) /\ g.node = Top(t).node
      PROVE  SoloStep(t)
  <2>1. SameFlow(t) /\ thr'[t].stack = [stack EXCEPT ![Len(stack)] = g]
    BY <1>1, <1>2, <1>6, ThreadWritten
  <2>2. Top(t) = stack[Len(stack)] /\ Top(t).s = thr[t].s
    BY <1>2, SoloTop
  <2>3. \A k \in DOMAIN stack : Open(stack[k]) => ns[stack[k].node].st = "RUNNING"
    BY <1>4 DEF FramesSolo
  <2>4. FramesSolo([stack EXCEPT ![Len(stack)] = g], thr[t].s, ns)
    BY <1>4, <1>6, <2>2, <2>3, SoloReplaced
  <2> QED
    BY <1>3, <2>1, <2>4 DEF SoloStep
<1> QED
  BY <1>5, <1>6

LEMMA StartNodeSolo ==
    ASSUME SoloInv, NEW t \in Threads, NEW at, thr[t].stack # <<>>, ~Open(Top(t)),
           at \in {"evaluate", "args"}, StartNode(t, at)
    PROVE  SoloStep(t)
<1>1. FlowInv /\ UNCHANGED engine
  BY DEF SoloInv, StartNode
<1>2. PICK stack \in Seq(FrameT) : stack = thr[t].stack /\ stack # <<>>
  BY SoloTop, SoloFacts
<1>3. PICK f \in FrameT : f = Top(t) /\ f = stack[Len(stack)] /\ Len(stack) \in DOMAIN stack
  BY <1>2, SoloTop
<1>4. PICK s \in Created : s = thr[t].s /\ f.s = s
  BY <1>3, SoloTop, SoloFacts
<1>5. PICK old \in Seq(NodeT) : old = sess[s].nodes
  BY <1>1, SessionFacts
<1>6. FramesSolo(stack, s, old) /\ Len(old) \in Nat
  BY <1>2, <1>4, <1>5, SoloTop, SoloFacts
<1>7. PICK node : node = Node(f.c, "RUNNING")
  OBVIOUS
<1>8. PICK ns : ns = Append(old, node)
  OBVIOUS
<1>9. /\ node \in NodeT /\ node.st = "RUNNING"
      /\ ns \in Seq(NodeT) /\ Len(ns) = Len(old) + 1 /\ ns[Len(old) + 1] = node
      /\ \A k \in 1 .. Len(old) : ns[k] = old[k]
  <2>1. node \in NodeT /\ node.st = "RUNNING"
    BY <1>7 DEF Node, NodeT, NodeStatus, FrameT
  <2> QED
    BY <1>8, <2>1, AppendProperties
<1>10. PICK e \in Nat : e = IF sess[s].cancel THEN sess[s].extra + 1 ELSE sess[s].extra
  <2>1. sess[s].extra \in Nat
    BY <1>1, SessionFacts DEF SessionT
  <2> QED
    BY <2>1
<1>11. PICK S \in SessionT : S = [sess[s] EXCEPT !.nodes = ns, !.extra = e]
  BY <1>1, <1>9, NodesWritten
<1>12. S.nodes = ns /\ S.status = sess[s].status
  BY <1>1, <1>11, SessionFacts DEF SessionT
<1>13. sess' = [sess EXCEPT ![s] = S]
  <2>1. sess' = Started(s, f.c)
    BY <1>3, <1>4 DEF StartNode
  <2>2. sess' = [sess EXCEPT ![s].nodes = ns, ![s].extra = e]
    BY <1>5, <1>7, <1>8, <1>10, <2>1 DEF Started
  <2> QED
    BY <1>11, <2>2
<1>14. Grown(old, ns)
  BY <1>6, <1>9 DEF Grown
<1>15. Writes(s, ns)
  BY <1>1, <1>5, <1>12, <1>13, <1>14, SessionWritten
<1>16. PICK g : g = [f EXCEPT !.at = at, !.node = Len(old) + 1]
  OBVIOUS
<1>17. g \in FrameT /\ g.s = s /\ g.node = Len(old) + 1
  <2>1. g = [s |-> f.s, c |-> f.c, left |-> f.left, node |-> Len(old) + 1, at |-> at]
    BY <1>16 DEF FrameT
  <2> QED
    BY <1>4, <1>6, <2>1 DEF FrameT
<1>18. PICK new : new = [stack EXCEPT ![Len(stack)] = g]
  OBVIOUS
<1>19. /\ DOMAIN new = DOMAIN stack /\ new[Len(stack)] = g
       /\ \A k \in DOMAIN stack : k # Len(stack) => new[k] = stack[k]
  BY <1>3, <1>18
<1>20. \A k \in DOMAIN stack : Open(stack[k]) =>
          k # Len(stack) /\ stack[k].node \in 1 .. Len(old) /\ old[stack[k].node].st = "RUNNING"
  <2> SUFFICES ASSUME NEW k \in DOMAIN stack, Open(stack[k])
               PROVE  k # Len(stack) /\ stack[k].node \in 1 .. Len(old) /\ old[stack[k].node].st = "RUNNING"
    OBVIOUS
  <2>1. k # Len(stack) /\ stack[k].s = s /\ old[stack[k].node].st = "RUNNING"
    BY <1>3, <1>6 DEF FramesSolo
  <2>2. stack[k] \in FrameT /\ FrameOK(stack[k])
    BY <1>1, <1>2, TopFacts
  <2>3. stack[k].node \in Nat /\ stack[k].node > 0 /\ stack[k].node <= Len(old)
    BY <1>5, <2>1, <2>2 DEF FrameOK, FrameT
  <2> QED
    BY <1>6, <2>1, <2>3
<1>21. FramesSolo(new, s, ns)
  <2>1. ASSUME NEW k \in DOMAIN stack
        PROVE  /\ new[k].s = s
               /\ Open(new[k]) => /\ ns[new[k].node].st = "RUNNING"
                                  /\ k # Len(stack) => new[k].node \in 1 .. Len(old) /\ new[k] = stack[k]
    <3>1. CASE k = Len(stack)
      BY <1>9, <1>17, <1>19, <3>1
    <3>2. CASE k # Len(stack)
      BY <1>6, <1>9, <1>19, <1>20, <3>2 DEF FramesSolo
    <3> QED
      BY <3>1, <3>2
  <2>2. ASSUME NEW k \in DOMAIN stack, NEW l \in DOMAIN stack, k # l, Open(new[k]), Open(new[l])
        PROVE  new[k].node # new[l].node
    <3>1. CASE k # Len(stack) /\ l # Len(stack)
      BY <1>6, <1>19, <2>2, <3>1 DEF FramesSolo
    <3>2. CASE k = Len(stack) \/ l = Len(stack)
      <4>1. Len(old) + 1 \notin 1 .. Len(old)
        BY <1>6
      <4> QED
        BY <1>17, <1>19, <2>1, <2>2, <3>2, <4>1
    <3> QED
      BY <3>1, <3>2
  <2> QED
    BY <1>19, <2>1, <2>2 DEF FramesSolo
<1>22. thr' = WithTop(t, g)
  BY <1>3, <1>4, <1>5, <1>16 DEF StartNode
<1>23. SameFlow(t) /\ thr'[t].stack = new
  BY <1>1, <1>2, <1>18, <1>22, ThreadWritten
<1> QED
  BY <1>4, <1>9, <1>15, <1>21, <1>23 DEF SoloStep

LEMMA NodesWrites ==
    ASSUME FlowInv, NEW s \in Created, NEW ns \in Seq(NodeT), Grown(sess[s].nodes, ns),
           sess' = [sess EXCEPT ![s].nodes = ns]
    PROVE  Writes(s, ns)
<1>1. PICK S : S = [sess[s] EXCEPT !.nodes = ns]
  OBVIOUS
<1>2. S \in SessionT /\ S.nodes = ns /\ S.status = sess[s].status /\ sess' = [sess EXCEPT ![s] = S]
  BY <1>1, SessionFacts DEF SessionT
<1> QED
  BY <1>2, SessionWritten

LEMMA NodeMarked ==
    ASSUME NEW old \in Seq(NodeT), NEW n \in 1 .. Len(old), NEW st \in NodeStatus
    PROVE  /\ Marked(old, n, st) \in Seq(NodeT) /\ Len(Marked(old, n, st)) = Len(old)
           /\ Len(old) \in Nat /\ Marked(old, n, st)[n].st = st
           /\ \A k \in 1 .. Len(old) : k # n => Marked(old, n, st)[k] = old[k]
<1>1. PICK node : node = [old[n] EXCEPT !.st = st]
  OBVIOUS
<1>2. node \in NodeT /\ node.st = st
  <2>1. old[n] \in NodeT
    BY ElementOfSeq
  <2> QED
    BY <1>1, <2>1 DEF NodeT
<1>3. Marked(old, n, st) = [old EXCEPT ![n] = node]
  BY <1>1 DEF Marked
<1> QED
  BY <1>2, <1>3, ExceptSeq, LenProperties

LEMMA NodesExtended ==
    ASSUME NEW old \in Seq(NodeT), NEW more \in Seq(NodeT)
    PROVE  /\ old \o more \in Seq(NodeT) /\ Len(old) \in Nat /\ Len(old \o more) \in Nat
           /\ Len(old \o more) >= Len(old)
           /\ \A k \in 1 .. Len(old) : (old \o more)[k] = old[k]
<1>1. Len(old) \in Nat /\ Len(more) \in Nat
  BY LenProperties
<1>2. /\ old \o more \in Seq(NodeT) /\ Len(old \o more) = Len(old) + Len(more)
      /\ \A k \in 1 .. Len(old) + Len(more) :
            (old \o more)[k] = IF k <= Len(old) THEN old[k] ELSE more[k - Len(old)]
  BY ConcatProperties
<1>3. \A k \in 1 .. Len(old) : k \in 1 .. Len(old) + Len(more) /\ k <= Len(old)
  BY <1>1
<1> QED
  BY <1>1, <1>2, <1>3

LEMMA FinishSolo ==
    ASSUME SoloInv, NEW t \in Threads, FinishInput(t) \/ FinishStage(t)
    PROVE  SoloStep(t)
<1>1. FlowInv /\ UNCHANGED engine /\ thr[t].stack # <<>> /\ Open(Top(t))
  BY DEF SoloInv, FinishInput, FinishStage, At, Open
<1>2. PICK stack \in Seq(FrameT) : stack = thr[t].stack /\ stack # <<>>
  BY <1>1, SoloTop, SoloFacts
<1>3. PICK f \in FrameT : f = Top(t) /\ f = stack[Len(stack)] /\ Len(stack) \in DOMAIN stack /\ Open(f)
  BY <1>1, <1>2, SoloTop
<1>4. PICK s \in Created : s = thr[t].s /\ f.s = s
  BY <1>1, <1>3, SoloTop, SoloFacts
<1>5. PICK old \in Seq(NodeT) : old = sess[s].nodes
  BY <1>1, SessionFacts
<1>6. FramesSolo(stack, s, old) /\ f.node \in 1 .. Len(old) /\ old[f.node].st = "RUNNING"
  BY <1>1, <1>2, <1>3, <1>4, <1>5, SoloTop, SoloFacts
<1>7. PICK ns : ns = Marked(old, f.node, "SUCCESS")
  OBVIOUS
<1>8. /\ ns \in Seq(NodeT) /\ Len(ns) = Len(old) /\ Len(old) \in Nat /\ ns[f.node].st = "SUCCESS"
      /\ \A k \in 1 .. Len(old) : k # f.node => ns[k] = old[k]
  <2>1. "SUCCESS" \in NodeStatus
    BY DEF NodeStatus
  <2> QED
    BY <1>6, <1>7, <2>1, NodeMarked
<1>9. Writes(s, ns)
  <2>1. Grown(old, ns)
    BY <1>6, <1>8 DEF Grown
  <2>2. SetNode(s, f.node, "SUCCESS")
    BY <1>3, <1>4 DEF FinishInput, FinishStage
  <2>3. sess' = [sess EXCEPT ![s].nodes = ns]
    BY <1>5, <1>7, <2>2 DEF SetNode, Marked
  <2> QED
    BY <1>1, <1>5, <1>8, <2>1, <2>3, NodesWrites
<1>10. PICK left : left = IF FinishInput(t) THEN f.left ELSE f.left - 1
  OBVIOUS
<1>11. PICK g : g = [f EXCEPT !.at = "check", !.left = left]
  OBVIOUS
<1>12. thr' = WithTop(t, g) /\ g.s = s /\ ~Open(g) /\ g \in FrameT
  <2>1. g = [s |-> f.s, c |-> f.c, left |-> left, node |-> f.node, at |-> "check"]
    BY <1>11 DEF FrameT
  <2>2. CASE FinishInput(t)
    <3>1. g = [f EXCEPT !.at = "check"]
      BY <1>10, <2>1, <2>2 DEF FrameT
    <3>2. thr' = WithTop(t, g)
      BY <1>3, <2>2, <3>1 DEF FinishInput, Goto
    <3> QED
      BY <1>4, <1>10, <2>1, <2>2, <3>2 DEF FrameT, Open
  <2>3. CASE ~FinishInput(t)
    <3>1. FinishStage(t)
      BY <2>3
    <3>2. g = [f EXCEPT !.at = "check", !.left = @ - 1]
      BY <1>10, <1>11, <2>3
    <3>3. thr' = WithTop(t, g)
      BY <1>3, <3>1, <3>2 DEF FinishStage
    <3>4. left \in Nat
      <4>1. f.left > 0
        BY <1>1, <1>3, <3>1, TopFacts DEF FinishStage, At, FrameOK
      <4>2. f.left \in Nat
        BY DEF FrameT
      <4> QED
        BY <1>10, <2>3, <4>1, <4>2
    <3> QED
      BY <1>4, <2>1, <3>3, <3>4 DEF FrameT, Open
  <2> QED
    BY <2>2, <2>3
<1>13. \A k \in DOMAIN stack : Open(stack[k]) /\ k # Len(stack) => ns[stack[k].node].st = "RUNNING"
  <2> SUFFICES ASSUME NEW k \in DOMAIN stack, Open(stack[k]), k # Len(stack)
               PROVE  ns[stack[k].node].st = "RUNNING"
    OBVIOUS
  <2>1. stack[k].s = s /\ stack[k].node # f.node /\ old[stack[k].node].st = "RUNNING"
    BY <1>3, <1>6 DEF FramesSolo
  <2>2. stack[k] \in FrameT /\ FrameOK(stack[k])
    BY <1>1, <1>2, TopFacts
  <2>3. stack[k].node \in 1 .. Len(old)
    <3>1. stack[k].node \in Nat /\ stack[k].node > 0 /\ stack[k].node <= Len(old)
      BY <1>5, <2>1, <2>2 DEF FrameOK, FrameT
    <3> QED
      BY <1>8, <3>1
  <2> QED
    BY <1>8, <2>1, <2>3
<1>14. FramesSolo([stack EXCEPT ![Len(stack)] = g], s, ns)
  BY <1>2, <1>6, <1>12, <1>13, SoloReplaced
<1>15. SameFlow(t) /\ thr'[t].stack = [stack EXCEPT ![Len(stack)] = g]
  BY <1>1, <1>2, <1>12, ThreadWritten
<1> QED
  BY <1>4, <1>8, <1>9, <1>14, <1>15 DEF SoloStep

\* A chain is left, and nodes are added behind those that are still open.
LEMMA LeaveSolo ==
    ASSUME SoloInv, NEW t \in Threads, NEW s \in Created, NEW ns \in Seq(NodeT),
           thr[t].stack # <<>>, s = thr[t].s, thr' = Pop(t), UNCHANGED engine,
           sess' = [sess EXCEPT ![s].nodes = ns], Grown(sess[s].nodes, ns),
           \A n \in 1 .. Len(sess[s].nodes) :
              sess[s].nodes[n].st = "RUNNING" /\ ns[n].st # "RUNNING" => Open(Top(t)) /\ Top(t).node = n
    PROVE  SoloStep(t)
<1>1. FlowInv
  BY DEF SoloInv
<1>2. PICK stack \in Seq(FrameT) : stack = thr[t].stack /\ stack # <<>>
  BY SoloTop, SoloFacts
<1>3. PICK old \in Seq(NodeT) : old = sess[s].nodes
  BY <1>1, SessionFacts
<1>4. FramesSolo(stack, s, old)
  BY <1>2, <1>3, SoloTop, SoloFacts
<1>5. Writes(s, ns)
  BY <1>1, NodesWrites
<1>6. \A k \in DOMAIN stack : Open(stack[k]) /\ k # Len(stack) => ns[stack[k].node].st = "RUNNING"
  <2> SUFFICES ASSUME NEW k \in DOMAIN stack, Open(stack[k]), k # Len(stack)
               PROVE  ns[stack[k].node].st = "RUNNING"
    OBVIOUS
  <2>1. stack[k].s = s /\ old[stack[k].node].st = "RUNNING"
    BY <1>4 DEF FramesSolo
  <2>2. Open(Top(t)) => stack[k].node # Top(t).node
    <3>1. Top(t) = stack[Len(stack)] /\ Len(stack) \in DOMAIN stack
      BY <1>2, SoloTop
    <3> QED
      BY <1>4, <3>1 DEF FramesSolo
  <2>3. stack[k].node \in 1 .. Len(old)
    <3>1. stack[k] \in FrameT /\ FrameOK(stack[k]) /\ Len(old) \in Nat
      BY <1>1, <1>2, <1>3, TopFacts, SessionFacts
    <3>2. stack[k].node \in Nat /\ stack[k].node > 0 /\ stack[k].node <= Len(old)
      BY <1>3, <2>1, <3>1 DEF FrameOK, FrameT
    <3> QED
      BY <3>1, <3>2
  <2> QED
    BY <1>3, <2>1, <2>2, <2>3
<1>7. FramesSolo(Front(stack), s, ns)
  BY <1>2, <1>4, <1>6, SoloPopped
<1>8. SameFlow(t) /\ thr'[t].stack = Front(stack)
  BY <1>1, <1>2, ThreadWritten
<1> QED
  BY <1>5, <1>7, <1>8 DEF SoloStep

LEMMA CheckStageSolo ==
    ASSUME SoloInv, NEW t \in Threads, CheckStage(t)
    PROVE  SoloStep(t)
<1>1. FlowInv /\ thr[t].stack # <<>> /\ UNCHANGED engine /\ Top(t).at = "check"
  BY DEF SoloInv, CheckStage, At
<1>2. PICK f \in FrameT : f = Top(t) /\ f.s = thr[t].s /\ f.c \in Nat /\ f.left \in Nat /\ f.s \in Created
  BY <1>1, SoloTop, SoloFacts DEF FrameT
<1>3. CASE ~MustStop(f.s)
  <2>1. PICK g : g = [f EXCEPT !.at = "stage"]
    OBVIOUS
  <2>2. g \in FrameT /\ g.s = f.s /\ ~Open(g)
    BY <2>1 DEF FrameT, Open
  <2>3. thr' = WithTop(t, g) /\ UNCHANGED sess
    BY <1>2, <1>3, <2>1 DEF CheckStage, Goto
  <2> QED
    BY <1>1, <1>2, <2>2, <2>3, PlainSolo
<1>4. CASE MustStop(f.s)
  <2>1. PICK old \in Seq(NodeT) : old = sess[f.s].nodes
    BY <1>1, <1>2, SessionFacts
  <2>2. PICK more \in Seq(NodeT) : more = Refused(f)
    <3>1. PICK skips \in Seq(NodeT) : skips = Skips(f.c, f.left - 1)
      <4>1. PICK n \in Int : n = f.left - 1
        BY <1>2
      <4>2. Skips(f.c, n) \in Seq(NodeT)
        BY <1>2, SkippedNodes
      <4> QED
        BY <4>1, <4>2
    <3>2. PICK mark : mark = Node(f.c, StopMark(f.s))
      OBVIOUS
    <3>3. mark \in NodeT
      BY <1>2, <3>2 DEF Node, StopMark, NodeT, NodeStatus
    <3>4. <<mark>> \in Seq(NodeT)
      BY <3>3
    <3>5. <<mark>> \o skips \in Seq(NodeT)
      BY <3>4, ConcatProperties
    <3> QED
      BY <3>1, <3>2, <3>5 DEF Refused
  <2>3. PICK ns : ns = old \o more
    OBVIOUS
  <2>4. /\ ns \in Seq(NodeT) /\ Len(old) \in Nat /\ Len(ns) \in Nat /\ Len(ns) >= Len(old)
        /\ \A k \in 1 .. Len(old) : ns[k] = old[k]
    BY <2>3, NodesExtended
  <2>5. Grown(old, ns)
    BY <2>4 DEF Grown
  <2>6. thr' = Pop(t) /\ sess' = [sess EXCEPT ![f.s].nodes = ns]
    BY <1>2, <1>4, <2>1, <2>2, <2>3 DEF CheckStage
  <2>7. PICK s \in Created : s = f.s
    BY <1>2
  <2> QED
    BY <1>1, <1>2, <2>1, <2>4, <2>5, <2>6, <2>7, LeaveSolo
<1> QED
  BY <1>3, <1>4

LEMMA UnwindSolo ==
    ASSUME SoloInv, NEW t \in Threads, Unwind(t)
    PROVE  SoloStep(t)
<1>1. FlowInv /\ thr[t].stack # <<>> /\ thr' = Pop(t) /\ UNCHANGED engine
  BY DEF SoloInv, Unwind
<1>2. PICK f \in FrameT : f = Top(t) /\ f.s = thr[t].s /\ f.c \in Nat /\ f.left \in Nat /\ f.s \in Created
  BY <1>1, SoloTop, SoloFacts DEF FrameT
<1>3. CASE ~Recorded(f, thr[t].err)
  BY <1>1, <1>2, <1>3, PlainSolo DEF Unwind
<1>4. CASE Recorded(f, thr[t].err)
  <2>1. PICK old \in Seq(NodeT) : old = sess[f.s].nodes
    BY <1>1, <1>2, SessionFacts
  <2>2. Open(f) /\ f.node \in 1 .. Len(old) /\ old[f.node].st = "RUNNING"
    BY <1>1, <1>2, <1>4, <2>1, SoloTop DEF Recorded, Open
  <2>3. PICK mid : mid = Marked(old, f.node, "ERROR")
    OBVIOUS
  <2>4. /\ mid \in Seq(NodeT) /\ Len(mid) = Len(old) /\ Len(old) \in Nat /\ mid[f.node].st = "ERROR"
        /\ \A k \in 1 .. Len(old) : k # f.node => mid[k] = old[k]
    <3>1. PICK st \in NodeStatus : st = "ERROR"
      BY DEF NodeStatus
    <3>2. PICK n \in 1 .. Len(old) : n = f.node
      BY <2>2
    <3>3. mid = Marked(old, n, st)
      BY <2>3, <3>1, <3>2
    <3>4. /\ mid \in Seq(NodeT) /\ Len(mid) = Len(old) /\ Len(old) \in Nat /\ mid[n].st = st
          /\ \A k \in 1 .. Len(old) : k # n => mid[k] = old[k]
      BY <3>3, NodeMarked
    <3> QED
      BY <3>1, <3>2, <3>4
  <2>5. PICK more \in Seq(NodeT) : more = Skips(f.c, f.left - 1)
    <3>1. PICK n \in Int : n = f.left - 1
      BY <1>2
    <3>2. Skips(f.c, n) \in Seq(NodeT)
      BY <1>2, SkippedNodes
    <3> QED
      BY <3>1, <3>2
  <2>6. PICK ns : ns = mid \o more
    OBVIOUS
  <2>7. /\ ns \in Seq(NodeT) /\ Len(ns) \in Nat /\ Len(ns) >= Len(mid)
        /\ \A k \in 1 .. Len(mid) : ns[k] = mid[k]
    BY <2>4, <2>6, NodesExtended
  <2>8. Grown(old, ns)
    BY <2>2, <2>4, <2>7 DEF Grown
  <2>9. \A n \in 1 .. Len(old) : old[n].st = "RUNNING" /\ ns[n].st # "RUNNING" => f.node = n
    BY <2>4, <2>7
  <2>10. sess' = [sess EXCEPT ![f.s].nodes = ns]
    BY <1>2, <1>4, <2>1, <2>3, <2>5, <2>6 DEF Unwind, Failed, Marked
  <2>11. PICK s \in Created : s = f.s
    BY <1>2
  <2> QED
    BY <1>1, <1>2, <2>1, <2>2, <2>7, <2>8, <2>9, <2>10, <2>11, LeaveSolo
<1> QED
  BY <1>3, <1>4

LEMMA ErrorSolo ==
    ASSUME SoloInv, NEW t \in Threads, NEW err, thr' = [thr EXCEPT ![t].err = err],
           thr[t].pc # "idle", UNCHANGED <<sess, engine>>
    PROVE  SoloStep(t)
<1>1. FlowInv /\ thr \in [Threads -> ThreadT] /\ thr[t] \in ThreadT
  BY DEF SoloInv, FlowInv, Types
<1>2. SameFlow(t) /\ thr'[t].stack = thr[t].stack
  BY <1>1 DEF SameFlow, ThreadT
<1>3. PICK ns \in Seq(NodeT) : ns = sess[thr[t].s].nodes
  BY SoloFacts
<1>4. Writes(thr[t].s, ns) /\ FramesSolo(thr[t].stack, thr[t].s, ns)
  BY <1>1, <1>3, SoloFacts, NothingWritten
<1> QED
  BY <1>2, <1>4 DEF SoloStep

LEMMA EnterSolo ==
    ASSUME SoloInv, NEW t \in Threads, NEW n \in Nat, NEW X,
           thr[t].pc # "idle",
           X.s = thr[t].s, X.of = thr[t].of, X.pc = thr[t].pc, X.stack = thr[t].stack, X \in ThreadT,
           Enter(t, n, [thr EXCEPT ![t] = X]), UNCHANGED engine
    PROVE  SoloStep(t)
<1>1. FlowInv /\ thr \in [Threads -> ThreadT] /\ thr[t] \in ThreadT
  BY DEF SoloInv, FlowInv, Types
<1>2. PICK s \in Created : s = thr[t].s /\ engine[thr[t].of].active = s
  BY SoloFacts
<1>3. PICK ns \in Seq(NodeT) : ns = sess[s].nodes
  BY <1>1, SessionFacts
<1>4. PICK S : S = [sess[s] EXCEPT !.chains = @ + 1]
  OBVIOUS
<1>5. /\ S \in SessionT /\ S.nodes = ns /\ S.status = sess[s].status
      /\ sess[s].chains \in Nat /\ Len(ns) \in Nat /\ s \in Nat /\ s # NoId
  <2>1. sess[s] \in SessionT /\ s \in Nat /\ Len(ns) \in Nat /\ s # NoId
    BY <1>1, <1>3, SessionFacts, LenProperties DEF Created, NoId, FlowInv, Types
  <2> QED
    BY <1>3, <1>4, <2>1 DEF SessionT
<1>6. sess' = [sess EXCEPT ![s] = S]
  BY <1>2, <1>4, <1>5 DEF Enter
<1>7. Writes(s, ns)
  <2>1. Grown(ns, ns)
    BY <1>5 DEF Grown
  <2> QED
    BY <1>1, <1>3, <1>5, <1>6, <2>1, SessionWritten
<1>8. PICK stack \in Seq(FrameT) : stack = thr[t].stack /\ FramesSolo(stack, s, ns)
  BY <1>2, <1>3, SoloFacts
<1>9. CASE Stopped(s)
  <2>1. thr' = [thr EXCEPT ![t] = X]
    BY <1>2, <1>5, <1>9 DEF Enter
  <2>2. SameFlow(t) /\ thr'[t].stack = stack
    BY <1>1, <1>8, <2>1 DEF SameFlow
  <2> QED
    BY <1>2, <1>7, <1>8, <2>2 DEF SoloStep
<1>10. CASE ~Stopped(s)
  <2>1. PICK g : g = [s |-> s, c |-> sess[s].chains + 1, left |-> n, node |-> 0, at |-> "input"]
    OBVIOUS
  <2>2. g \in FrameT /\ g.s = s /\ ~Open(g)
    BY <1>5, <2>1 DEF FrameT, Open
  <2>3. thr' = [[thr EXCEPT ![t] = X] EXCEPT ![t].stack = Append(@, g)]
    BY <1>2, <1>5, <1>10, <2>1 DEF Enter
  <2>4. thr'[t] = [X EXCEPT !.stack = Append(stack, g)]
    BY <1>1, <1>8, <2>3
  <2>5. SameFlow(t) /\ thr'[t].stack = Append(stack, g)
    BY <2>4 DEF SameFlow, ThreadT
  <2>6. FramesSolo(Append(stack, g), s, ns)
    BY <1>8, <2>2, SoloPushed
  <2> QED
    BY <1>2, <1>7, <2>5, <2>6 DEF SoloStep
<1> QED
  BY <1>9, <1>10

LEMMA InsideSolo ==
    ASSUME SoloInv, NEW t \in Threads, Inside(t)
    PROVE  SoloStep(t)
<1>1. FlowInv /\ thr \in [Threads -> ThreadT] /\ thr[t] \in ThreadT
  BY DEF SoloInv, FlowInv, Types
<1>2. CASE StartInput(t) \/ StartStage(t)
  BY <1>2, StartNodeSolo DEF StartInput, StartStage, At, Open
<1>3. CASE Arguments(t)
  <2>1. /\ thr[t].stack # <<>> /\ Top(t).at = "args" /\ Goto(t, "call") /\ UNCHANGED <<sess, engine>>
    BY <1>3 DEF Arguments, At
  <2>2. PICK f \in FrameT : f = Top(t)
    BY <2>1, SoloTop
  <2>3. PICK g : g = [f EXCEPT !.at = "call"]
    OBVIOUS
  <2>4. g \in FrameT /\ g.s = f.s /\ g.node = f.node /\ Open(f) /\ thr' = WithTop(t, g)
    BY <2>1, <2>2, <2>3 DEF FrameT, Open, Goto
  <2> QED
    BY <2>1, <2>2, <2>4, PlainSolo
<1>4. CASE FinishInput(t) \/ FinishStage(t)
  BY <1>4, FinishSolo
<1>5. CASE CheckStage(t)
  BY <1>5, CheckStageSolo
<1>6. CASE EndChain(t)
  BY <1>6, PlainSolo DEF EndChain, At
<1>7. CASE Unwind(t)
  BY <1>7, UnwindSolo
<1>8. CASE Catch(t) \/ \E e \in Errors : Raise(t, e)
  <2>1. thr[t].pc # "idle" /\ UNCHANGED <<sess, engine>>
    BY <1>8, SoloTop DEF Catch, Raise
  <2> QED
    BY <1>8, <2>1, ErrorSolo DEF Catch, Raise
<1>9. ASSUME NEW n \in 1 .. MaxStages, EnterChain(t, n)
      PROVE  SoloStep(t)
  <2>1. PICK X : X = [thr[t] EXCEPT !.todo = @ - 1]
    OBVIOUS
  <2>2. thr[t].todo \in Nat /\ thr[t].todo > 0 /\ thr[t].pc # "idle"
    BY <1>1, <1>9 DEF EnterChain, InProgram, ThreadT
  <2>3. X \in ThreadT /\ X.s = thr[t].s /\ X.of = thr[t].of /\ X.pc = thr[t].pc /\ X.stack = thr[t].stack
    <3>1. PICK m \in Nat : m = thr[t].todo - 1
      BY <2>2
    <3>2. X = [thr[t] EXCEPT !.todo = m]
      BY <2>1, <3>1
    <3> QED
      BY <1>1, <3>2 DEF ThreadT
  <2>4. Enter(t, n, [thr EXCEPT ![t] = X]) /\ UNCHANGED engine /\ n \in Nat
    BY <1>9, <2>1, FlowAssumption DEF EnterChain
  <2> QED
    BY <2>2, <2>3, <2>4, EnterSolo
<1>10. ASSUME NEW n \in 1 .. MaxStages, EnterInner(t, n)
       PROVE  SoloStep(t)
  <2>1. PICK X : X = thr[t]
    OBVIOUS
  <2>2. thr[t].pc # "idle" /\ Enter(t, n, thr) /\ UNCHANGED engine /\ n \in Nat
    BY <1>10, SoloTop, FlowAssumption DEF EnterInner
  <2>3. thr = [thr EXCEPT ![t] = X]
    BY <1>1, <2>1
  <2>4. Enter(t, n, [thr EXCEPT ![t] = X])
    BY <2>2, <2>3
  <2> QED
    BY <1>1, <2>1, <2>2, <2>4, EnterSolo
<1> QED
  BY <1>2, <1>3, <1>4, <1>5, <1>6, <1>7, <1>8, <1>9, <1>10 DEF Inside

-----------------------------------------------------------------------------
(* The invariant of a host with one flow thread, and what it implements    *)

Quiet ==
    /\ Created' = Created
    /\ \A id \in Created : sess'[id].status = sess[id].status /\ sess'[id].nodes = sess[id].nodes

Began(id) ==
    /\ id \notin Created /\ id \in Ids /\ Created' = Created \cup {id}
    /\ sess'[id].status = "RUNNING" /\ sess'[id].nodes = <<>>
    /\ \A n \in Created : sess'[n].status = sess[n].status /\ sess'[n].nodes = sess[n].nodes

Finished(id) ==
    /\ id \in Created /\ Running(id) /\ sess'[id].status \in SessionStatus \ {"RUNNING"}
    /\ Created' = Created /\ sess'[id].nodes = sess[id].nodes
    /\ \A n \in Created : n # id => sess'[n].status = sess[n].status /\ sess'[n].nodes = sess[n].nodes

Grew(id) == id \in Created /\ Running(id) /\ \E ns \in Seq(NodeT) : Writes(id, ns)

Kind == Quiet \/ \E id \in Nat : Began(id) \/ Finished(id) \/ Grew(id)

IdleEmpty == \A t \in Threads : thr[t].pc = "idle" => thr[t].stack = <<>>

\* A step that leaves what Solo looks at alone.
LEMMA QuietSolo ==
    ASSUME SoloInv, Quiet, UNCHANGED <<thr, engine>>
    PROVE  Solo' /\ IdleEmpty'
<1>1. ASSUME NEW t \in Threads, thr'[t].pc # "idle"
      PROVE  /\ Running(thr[t].s)' /\ engine'[thr'[t].of].active = thr'[t].s
             /\ FramesSolo(thr'[t].stack, thr'[t].s, sess'[thr'[t].s].nodes)
  BY <1>1, SoloFacts DEF Quiet, Running
<1> QED
  BY <1>1 DEF Solo, IdleEmpty, SoloInv

LEMMA InsideKind ==
    ASSUME SoloInv, OneThread, NEW t \in Threads, Inside(t)
    PROVE  Solo' /\ IdleEmpty' /\ Kind
<1>1. SoloStep(t)
  BY InsideSolo
<1>2. PICK ns \in Seq(NodeT) : Writes(thr[t].s, ns) /\ FramesSolo(thr'[t].stack, thr[t].s, ns)
  BY <1>1 DEF SoloStep
<1>3. thr[t].pc # "idle"
  <2>1. thr[t].stack # <<>> \/ thr[t].pc \in {"program", "replay"}
    BY DEF Inside, StartInput, FinishInput, CheckStage, StartStage, Arguments, FinishStage, EndChain,
           Unwind, Catch, Raise, EnterChain, EnterInner, At, InProgram
  <2> QED
    BY <2>1, SoloTop
<1>4. PICK s \in Created : s = thr[t].s /\ Running(s) /\ engine[thr[t].of].active = s
  BY <1>3, SoloFacts
<1>5. /\ thr'[t].pc = thr[t].pc /\ thr'[t].s = s /\ thr'[t].of = thr[t].of /\ engine' = engine
      /\ sess'[s].nodes = ns /\ sess'[s].status = sess[s].status
  BY <1>1, <1>2, <1>4 DEF SoloStep, SameFlow, Writes
<1>6. Solo' /\ IdleEmpty'
  <2>1. \A u \in Threads : u = t
    BY DEF OneThread
  <2> QED
    BY <1>2, <1>3, <1>4, <1>5, <2>1 DEF Solo, IdleEmpty, Running
<1>7. s \in Nat /\ Grew(s)
  BY <1>2, <1>4, SessionFacts DEF Grew, SoloInv
<1> QED
  BY <1>6, <1>7 DEF Kind

LEMMA CreateKind ==
    ASSUME SoloInv, OneThread, NEW t \in Threads, NEW i \in Interps, NEW pc \in {"started", "replaying"},
           Create(t, i, pc)
    PROVE  Solo' /\ IdleEmpty' /\ Kind
<1>1. /\ sess \in Seq(SessionT) /\ Len(sess) \in Nat /\ Created = 1 .. Len(sess) /\ host \in Hosts
      /\ thr \in [Threads -> ThreadT] /\ engine \in [Interps -> EngineT]
  BY LenProperties DEF SoloInv, FlowInv, Types, Created
<1>2. PICK id \in Nat : id = Len(sess) + 1
  BY <1>1
<1>3. id \in Ids /\ id \notin Created
  <2>1. Len(sess) < host.flows /\ host.flows \in Nat /\ host.flows <= MaxId /\ MaxId \in Nat
    BY <1>1, FlowAssumption DEF Create
  <2> QED
    BY <1>1, <1>2, <2>1 DEF Ids
<1>4. PICK S \in SessionT : S = NewSession(i) /\ S.status = "RUNNING" /\ S.nodes = <<>>
  <2>1. <<>> \in Seq(NodeT)
    BY EmptySeq
  <2>2. NewSession(i) \in SessionT
    BY <2>1 DEF NewSession, SessionT, SessionStatus
  <2> QED
    BY <2>2 DEF NewSession
<1>5. /\ Created' = Created \cup {id} /\ sess'[id] = S
      /\ \A n \in Created : sess'[n] = sess[n]
  <2>1. sess' = Append(sess, S)
    BY <1>4 DEF Create
  <2>2. /\ sess' \in Seq(SessionT) /\ Len(sess') = Len(sess) + 1 /\ sess'[Len(sess) + 1] = S
        /\ \A n \in 1 .. Len(sess) : sess'[n] = sess[n]
    BY <1>1, <2>1, AppendProperties
  <2>3. Created' = 1 .. Len(sess) + 1
    BY <2>2, LenProperties DEF Created
  <2> QED
    BY <1>1, <1>2, <2>2, <2>3
<1>6. Began(id)
  BY <1>3, <1>4, <1>5 DEF Began
<1>7. thr'[t].pc = pc /\ thr'[t].s = id /\ thr'[t].of = i /\ thr'[t].stack = <<>>
  <2>1. thr' = [thr EXCEPT ![t] = [Idle EXCEPT !.pc = pc, !.s = id, !.of = i]]
    BY <1>2 DEF Create, NextId
  <2> QED
    BY <1>1, <2>1 DEF Idle
<1>8. engine'[i].active = id
  <2>1. PICK rest : engine' = [engine EXCEPT ![i] = [order |-> rest, active |-> id, used |-> TRUE]]
    BY <1>2 DEF Create, Installed, NextId
  <2> QED
    BY <1>1, <2>1
<1>9. Solo' /\ IdleEmpty'
  <2>1. \A u \in Threads : u = t
    BY DEF OneThread
  <2>2. DOMAIN thr'[t].stack = {}
    BY <1>7
  <2> QED
    BY <1>4, <1>5, <1>7, <1>8, <2>1, <2>2 DEF Solo, IdleEmpty, Running, FramesSolo
<1> QED
  BY <1>6, <1>9 DEF Kind

LEMMA LeaveKind ==
    ASSUME SoloInv, OneThread, NEW t \in Threads, End(t) \/ Leak(t)
    PROVE  Solo' /\ IdleEmpty' /\ Kind
<1>1. /\ thr \in [Threads -> ThreadT] /\ FlowInv /\ thr[t].pc # "idle" /\ thr' = [thr EXCEPT ![t] = Idle]
  BY DEF SoloInv, FlowInv, Types, End, Leak, Over
<1>2. Solo' /\ IdleEmpty'
  <2>1. \A u \in Threads : thr'[u].pc = "idle" /\ thr'[u].stack = <<>>
    BY <1>1 DEF OneThread, Idle
  <2> QED
    BY <2>1 DEF Solo, IdleEmpty
<1>3. CASE Leak(t)
  <2>1. Quiet
    BY <1>3 DEF Leak, Quiet, Created
  <2> QED
    BY <1>2, <2>1 DEF Kind
<1>4. CASE End(t)
  <2>1. PICK id \in Created : id = thr[t].s /\ Running(id) /\ id \in Nat
    BY <1>1, SoloFacts, SessionFacts
  <2>2. PICK S : S = [sess[id] EXCEPT !.status = Verdict(id, thr[t].saw, thr[t].err)]
    OBVIOUS
  <2>3. sess[id] \in SessionT /\ Verdict(id, thr[t].saw, thr[t].err) \in SessionStatus \ {"RUNNING"} /\ Len(sess[id].nodes) \in Nat
    BY <1>1, SessionFacts DEF Verdict, SessionStatus
  <2>4. S \in SessionT /\ S.nodes = sess[id].nodes /\ S.status \in SessionStatus \ {"RUNNING"}
    BY <2>2, <2>3 DEF SessionT
  <2>5. sess' = [sess EXCEPT ![id] = S]
    BY <1>4, <2>1, <2>2 DEF End
  <2>6. Created' = Created /\ sess'[id] = S /\ \A n \in Created : n # id => sess'[n] = sess[n]
    <3>1. Len(S.nodes) >= Len(sess[id].nodes)
      BY <2>3, <2>4
    <3> QED
      BY <1>1, <2>4, <2>5, <3>1, SessionReplaced DEF FlowInv
  <2>7. Finished(id)
    BY <2>1, <2>4, <2>6 DEF Finished
  <2> QED
    BY <1>2, <2>1, <2>7 DEF Kind
<1> QED
  BY <1>2, <1>3, <1>4

LEMMA RegisterKind ==
    ASSUME SoloInv, NEW t \in Threads, Register(t)
    PROVE  Solo' /\ IdleEmpty' /\ Kind
<1>1. thr \in [Threads -> ThreadT] /\ thr[t] \in ThreadT /\ UNCHANGED <<sess, engine>> /\ Quiet
  BY DEF SoloInv, FlowInv, Types, Register, Quiet, Created
<1>2. PICK n : n = IF thr[t].pc = "started" THEN host.chains ELSE 1
  OBVIOUS
<1>3. PICK pc : pc = IF thr[t].pc = "started" THEN "program" ELSE "replay"
  OBVIOUS
<1>4. thr' = [thr EXCEPT ![t] = [thr[t] EXCEPT !.todo = n, !.pc = pc]] /\ thr[t].pc # "idle"
  BY <1>2, <1>3 DEF Register
<1>5. /\ \A u \in Threads : /\ thr'[u].s = thr[u].s /\ thr'[u].of = thr[u].of /\ thr'[u].stack = thr[u].stack
                            /\ thr'[u].pc # "idle" => thr[u].pc # "idle"
      /\ \A u \in Threads : thr'[u].pc = "idle" => thr[u].pc = "idle"
  <2>1. \A u \in Threads : u # t => thr'[u] = thr[u]
    BY <1>1, <1>4
  <2>2. thr'[t] = [thr[t] EXCEPT !.todo = n, !.pc = pc]
    BY <1>1, <1>4
  <2>3. /\ thr'[t].s = thr[t].s /\ thr'[t].of = thr[t].of /\ thr'[t].stack = thr[t].stack
        /\ thr'[t].pc = pc /\ pc # "idle"
    BY <1>1, <1>3, <2>2 DEF ThreadT
  <2> QED
    BY <1>4, <2>1, <2>3
<1>6. Solo' /\ IdleEmpty'
  <2>1. ASSUME NEW u \in Threads, thr'[u].pc # "idle"
        PROVE  /\ sess'[thr'[u].s].status = "RUNNING" /\ engine'[thr'[u].of].active = thr'[u].s
               /\ FramesSolo(thr'[u].stack, thr'[u].s, sess'[thr'[u].s].nodes)
    <3>1. thr[u].pc # "idle"
      BY <1>5, <2>1
    <3>2. /\ sess[thr[u].s].status = "RUNNING" /\ engine[thr[u].of].active = thr[u].s
          /\ FramesSolo(thr[u].stack, thr[u].s, sess[thr[u].s].nodes)
      BY <3>1 DEF SoloInv, Solo, Running
    <3>3. thr'[u].s = thr[u].s /\ thr'[u].of = thr[u].of /\ thr'[u].stack = thr[u].stack
      BY <1>5
    <3> QED
      BY <1>1, <3>2, <3>3
  <2>2. Solo'
    BY <2>1 DEF Solo, Running
  <2>3. IdleEmpty'
    BY <1>5 DEF IdleEmpty, SoloInv
  <2> QED
    BY <2>2, <2>3
<1> QED
  BY <1>1, <1>6 DEF Kind

\* The look at the cancel flag leaves every record as it is.
LEMMA JudgeKind ==
    ASSUME SoloInv, NEW t \in Threads, Judge(t)
    PROVE  Solo' /\ IdleEmpty' /\ Kind
<1>1. FlowInv /\ thr \in [Threads -> ThreadT]
  BY DEF SoloInv, FlowInv, Types
<1>2. PICK X \in ThreadT : JudgedAs(t, X)
  BY <1>1, JudgeKeeps
<1>3. /\ UNCHANGED <<sess, engine>> /\ thr'[t] = X /\ thr[t].pc # "idle"
      /\ X.s = thr[t].s /\ X.of = thr[t].of /\ X.stack = thr[t].stack
      /\ \A u \in Threads : u # t => thr'[u] = thr[u]
  BY <1>1, <1>2 DEF JudgedAs
<1>4. Quiet
  BY <1>3 DEF Quiet, Created
<1>5. Solo'
  <2> SUFFICES ASSUME NEW u \in Threads, thr'[u].pc # "idle"
               PROVE  /\ sess'[thr'[u].s].status = "RUNNING"
                      /\ engine'[thr'[u].of].active = thr'[u].s
                      /\ FramesSolo(thr'[u].stack, thr'[u].s, sess'[thr'[u].s].nodes)
    BY DEF Solo, Running
  <2>1. /\ thr[u].pc # "idle" /\ thr'[u].s = thr[u].s /\ thr'[u].of = thr[u].of
        /\ thr'[u].stack = thr[u].stack
    BY <1>3
  <2> QED
    BY <1>3, <2>1 DEF SoloInv, Solo, Running
<1>6. IdleEmpty'
  <2>1. X.pc = "ending"
    BY <1>2 DEF JudgedAs
  <2> QED
    BY <1>3, <2>1 DEF SoloInv, IdleEmpty
<1> QED
  BY <1>4, <1>5, <1>6 DEF Kind

LEMMA FlagKind ==
    ASSUME SoloInv, CancelLook \/ CancelSet \/ Deadline \/ \E t \in Threads : Crash(t)
    PROVE  Solo' /\ IdleEmpty' /\ Kind
<1>1. FlowInv /\ UNCHANGED <<thr, engine>>
  BY DEF SoloInv, CancelLook, CancelSet, Deadline, Crash
<1>2. Quiet
  <2>1. CASE UNCHANGED sess
    BY <2>1 DEF Quiet, Created
  <2>2. ASSUME NEW id \in Created, NEW S \in SessionT, sess' = [sess EXCEPT ![id] = S],
               S.status = sess[id].status, S.nodes = sess[id].nodes
        PROVE  Quiet
    <3>1. Len(S.nodes) >= Len(sess[id].nodes)
      BY <1>1, <2>2, SessionFacts
    <3>2. /\ Created' = Created /\ sess'[id] = S /\ \A n \in Created : n # id => sess'[n] = sess[n]
      BY <1>1, <2>2, <3>1, SessionReplaced DEF FlowInv
    <3> QED
      BY <2>2, <3>2 DEF Quiet
  <2>3. CASE CancelSet
    <3>1. PICK id \in Created : id = asked
      BY <1>1, <2>3 DEF CancelSet, FlowInv, Links
    <3>2. PICK S : S = [sess[id] EXCEPT !.cancel = TRUE]
      OBVIOUS
    <3>3. S \in SessionT /\ S.nodes = sess[id].nodes /\ S.status = sess[id].status
      BY <1>1, <3>2, SessionFacts DEF SessionT
    <3>4. sess' = [sess EXCEPT ![id] = S]
      BY <2>3, <3>1, <3>2 DEF CancelSet
    <3> QED
      BY <2>2, <3>3, <3>4
  <2>4. CASE Deadline
    <3>1. PICK id \in Created : sess' = [sess EXCEPT ![id].late = TRUE]
      BY <2>4 DEF Deadline
    <3>2. PICK S : S = [sess[id] EXCEPT !.late = TRUE]
      OBVIOUS
    <3>3. S \in SessionT /\ S.nodes = sess[id].nodes /\ S.status = sess[id].status
      BY <1>1, <3>2, SessionFacts DEF SessionT
    <3>4. sess' = [sess EXCEPT ![id] = S]
      BY <3>1, <3>2
    <3> QED
      BY <2>2, <3>3, <3>4
  <2> QED
    BY <2>1, <2>3, <2>4 DEF CancelLook, Crash
<1> QED
  BY <1>1, <1>2, QuietSolo DEF Kind

LEMMA SoloNext ==
    ASSUME SoloInv, OneThread, [Next]_vars
    PROVE  SoloInv' /\ Kind
<1>1. FlowInv'
  BY NextInv DEF SoloInv
<1>2. CASE UNCHANGED vars
  <2>1. Quiet /\ UNCHANGED <<thr, engine>>
    BY <1>2 DEF vars, Quiet, Created
  <2> QED
    BY <1>1, <2>1, QuietSolo DEF SoloInv, IdleEmpty, Kind
<1>3. CASE Next
  <2>1. CASE CancelLook \/ CancelSet \/ Deadline
    BY <1>1, <2>1, FlagKind DEF SoloInv, IdleEmpty
  <2>2. ASSUME NEW t \in Threads, Inside(t) \/ Outside(t)
        PROVE  Solo' /\ IdleEmpty' /\ Kind
    <3>1. CASE Inside(t)
      BY <3>1, InsideKind
    <3>2. CASE Register(t)
      BY <3>2, RegisterKind
    <3>3. CASE End(t) \/ Leak(t)
      BY <3>3, LeaveKind
    <3>4. CASE Crash(t)
      BY <3>4, FlagKind
    <3>5. CASE Replay(t) \/ \E i \in Interps : Run(t, i)
      <4>1. \A id \in Created : sess[id].of \in Interps
        BY SessionFacts DEF SoloInv, SessionT
      <4>2. PICK i \in Interps, pc \in {"started", "replaying"} : Create(t, i, pc)
        BY <3>5, <4>1 DEF Run, Replay, ReplayOf
      <4> QED
        BY <4>2, CreateKind
    <3>6. CASE Judge(t)
      BY <3>6, JudgeKind
    <3> QED
      BY <2>2, <3>1, <3>2, <3>3, <3>4, <3>5, <3>6 DEF Outside
  <2> QED
    BY <1>1, <1>3, <2>1, <2>2, NextSteps DEF SoloInv, IdleEmpty
<1> QED
  BY <1>2, <1>3

LEMMA SoloInit == Init => SoloInv
<1> SUFFICES ASSUME Init
             PROVE  Solo /\ IdleEmpty
  BY InitInv DEF SoloInv, IdleEmpty
<1> QED
  BY DEF Init, Idle, Solo, IdleEmpty

\* With one flow thread a chain writes to no session but the one its thread created, even after
\* an exception left an earlier session active (runProgramAsFlow, evaluatePipelineFlow).
THEOREM ChainsWriteToOwnSession ==
    ASSUME OneThread
    PROVE  Spec => []OwnSession
<1>1. SoloInv => OwnSession
  <2> SUFFICES ASSUME SoloInv, NEW t \in Threads, NEW k \in DOMAIN thr[t].stack
               PROVE  thr[t].stack[k].s = thr[t].s
    BY DEF OwnSession, Frames
  <2>1. thr[t].pc # "idle"
    BY DEF SoloInv
  <2> QED
    BY <2>1, SoloFacts DEF FramesSolo
<1>2. SoloInv /\ [Next]_vars => SoloInv'
  BY SoloNext
<1> QED
  BY <1>1, <1>2, SoloInit, PTL DEF Spec

-----------------------------------------------------------------------------
(* The refinement                                                          *)

RecordStatus == [id \in Ids |-> StatusOf(id)]
RecordNodes == [id \in Ids |-> NodesOf(id)]

LEMMA SameInterval ==
    ASSUME NEW m \in Nat, NEW n \in Nat, 1 .. m = 1 .. n
    PROVE  m = n
<1>1. \A k \in Nat : (1 <= k /\ k <= m) <=> (1 <= k /\ k <= n)
  OBVIOUS
<1> QED
  BY <1>1

LEMMA NodesOfSeq ==
    ASSUME FlowInv, NEW id \in Created
    PROVE  /\ NodesOf(id) \in Seq(NodeStatus) /\ Len(NodesOf(id)) = Len(sess[id].nodes)
           /\ \A k \in 1 .. Len(sess[id].nodes) : NodesOf(id)[k] = sess[id].nodes[k].st
<1>1. PICK ns \in Seq(NodeT) : ns = sess[id].nodes
  BY SessionFacts
<1>2. DOMAIN ns = 1 .. Len(ns) /\ Len(ns) \in Nat
  BY LenProperties
<1>3. ASSUME NEW k \in 1 .. Len(ns)
      PROVE  ns[k].st \in NodeStatus
  <2>1. ns[k] \in NodeT
    BY ElementOfSeq
  <2> QED
    BY <2>1 DEF NodeT
<1>4. PICK st : st = [k \in 1 .. Len(ns) |-> ns[k].st]
  OBVIOUS
<1>5. st \in [1 .. Len(ns) -> NodeStatus]
  BY <1>3, <1>4
<1>6. st \in Seq(NodeStatus)
  BY <1>2, <1>5, SeqDef
<1>7. Len(st) = Len(ns)
  <2>1. PICK m : m = Len(st)
    OBVIOUS
  <2>2. m \in Nat /\ DOMAIN st = 1 .. m
    BY <1>6, <2>1, LenProperties
  <2>3. 1 .. m = 1 .. Len(ns)
    BY <1>4, <2>2
  <2> QED
    BY <1>2, <2>1, <2>2, <2>3, SameInterval
<1>8. NodesOf(id) = st
  BY <1>1, <1>2, <1>4 DEF NodesOf
<1> QED
  BY <1>1, <1>4, <1>6, <1>7, <1>8

\* The record of flow n stays as it is.
Unmoved(n) == StatusOf(n)' = StatusOf(n) /\ NodesOf(n)' = NodesOf(n)

LEMMA UnmovedFact ==
    ASSUME NEW n, n \in Created' <=> n \in Created,
           n \in Created => sess'[n].status = sess[n].status /\ sess'[n].nodes = sess[n].nodes
    PROVE  Unmoved(n)
BY DEF Unmoved, StatusOf, NodesOf

LEMMA BeganRecord ==
    ASSUME SoloInv, SoloInv', NEW id \in Ids, Began(id)
    PROVE  /\ StatusOf(id) = "none" /\ StatusOf(id)' = "RUNNING" /\ NodesOf(id)' = NodesOf(id)
           /\ \A n \in Ids : n # id => Unmoved(n)
<1>1. \A n \in Ids : n # id => Unmoved(n)
  BY UnmovedFact DEF Began
<1>2. NodesOf(id) = <<>>
  BY DEF Began, NodesOf
<1>3. NodesOf(id)' = <<>>
  <2>1. PICK ns : ns = sess'[id].nodes
    OBVIOUS
  <2>2. ns = <<>> /\ DOMAIN ns = {}
    BY <2>1 DEF Began
  <2>3. NodesOf(id)' = [k \in DOMAIN ns |-> ns[k].st]
    BY <2>1 DEF Began, NodesOf
  <2> QED
    BY <2>2, <2>3
<1> QED
  BY <1>1, <1>2, <1>3 DEF Began, StatusOf

LEMMA FinishedRecord ==
    ASSUME SoloInv, SoloInv', NEW id \in Ids, Finished(id)
    PROVE  /\ StatusOf(id) = "RUNNING" /\ StatusOf(id)' \in Record!Ends /\ NodesOf(id)' = NodesOf(id)
           /\ \A n \in Ids : n # id => Unmoved(n)
<1>1. \A n \in Ids : n # id => Unmoved(n)
  BY UnmovedFact DEF Finished
<1> QED
  BY <1>1 DEF Finished, StatusOf, NodesOf, Running, SessionStatus, Record!Ends

LEMMA GrewRecord ==
    ASSUME SoloInv, SoloInv', NEW id \in Ids, Grew(id)
    PROVE  /\ StatusOf(id) = "RUNNING" /\ StatusOf(id)' = "RUNNING"
           /\ Len(NodesOf(id)') >= Len(NodesOf(id))
           /\ \A k \in 1 .. Len(NodesOf(id)) : Record!Ended(NodesOf(id)[k], NodesOf(id)'[k])
           /\ \A n \in Ids : n # id => Unmoved(n)
<1>1. PICK ns \in Seq(NodeT) : Writes(id, ns)
  BY DEF Grew
<1>2. \A n \in Ids : n # id => Unmoved(n)
  BY <1>1, UnmovedFact DEF Writes
<1>3. StatusOf(id) = "RUNNING" /\ StatusOf(id)' = "RUNNING"
  BY <1>1 DEF Grew, Writes, StatusOf, Running
<1>4. PICK old : old = NodesOf(id)
  OBVIOUS
<1>5. PICK new : new = NodesOf(id)'
  OBVIOUS
<1>6. id \in Created /\ id \in Created' /\ sess'[id].nodes = ns /\ Grown(sess[id].nodes, ns)
  BY <1>1 DEF Grew, Writes
<1>7. FlowInv /\ FlowInv'
  BY DEF SoloInv
<1>8. /\ Len(old) = Len(sess[id].nodes) /\ Len(sess[id].nodes) \in Nat
      /\ \A k \in 1 .. Len(sess[id].nodes) : old[k] = sess[id].nodes[k].st
  BY <1>4, <1>6, <1>7, NodesOfSeq, SessionFacts
<1>9. new = [k \in DOMAIN ns |-> ns[k].st]
  BY <1>5, <1>6 DEF NodesOf
<1>10. Len(new) = Len(ns) /\ Len(ns) \in Nat /\ \A k \in 1 .. Len(ns) : new[k] = ns[k].st
  <2>1. DOMAIN ns = 1 .. Len(ns) /\ Len(ns) \in Nat
    BY LenProperties
  <2> QED
    BY <1>9, <2>1
<1>11. Len(new) >= Len(old) /\ \A k \in 1 .. Len(old) : Record!Ended(old[k], new[k])
  BY <1>6, <1>8, <1>10 DEF Grown, Record!Ended
<1> QED
  BY <1>2, <1>3, <1>4, <1>5, <1>11

LEMMA RecordStep ==
    ASSUME SoloInv, SoloInv', Kind
    PROVE  [Record!Next]_(Record!vars)
<1>1. PICK S, S2, N, N2 :
        /\ S = RecordStatus /\ S2 = RecordStatus' /\ N = RecordNodes /\ N2 = RecordNodes'
  OBVIOUS
<1>2. /\ S \in [Ids -> {S[n] : n \in Ids}] /\ DOMAIN S = Ids /\ DOMAIN S2 = Ids
      /\ DOMAIN N = Ids /\ DOMAIN N2 = Ids
      /\ \A n \in Ids : /\ S[n] = StatusOf(n) /\ S2[n] = StatusOf(n)'
                         /\ N[n] = NodesOf(n) /\ N2[n] = NodesOf(n)'
  BY <1>1 DEF RecordStatus, RecordNodes
<1>3. Created \subseteq Ids
  BY TypeFollows DEF SoloInv, TypeOK
<1>4. CASE Quiet
  <2>1. \A n \in Ids : Unmoved(n)
    BY <1>4, UnmovedFact DEF Quiet
  <2>2. S2 = S /\ N2 = N
    BY <1>1, <2>1 DEF RecordStatus, RecordNodes, Unmoved
  <2> QED
    BY <1>1, <2>2 DEF Record!vars, RecordStatus, RecordNodes
<1>5. ASSUME NEW id \in Ids, Began(id)
      PROVE  Record!Next
  <2>1. /\ StatusOf(id) = "none" /\ StatusOf(id)' = "RUNNING" /\ NodesOf(id)' = NodesOf(id)
        /\ \A n \in Ids : n # id => Unmoved(n)
    BY <1>5, BeganRecord
  <2>2. S[id] = "none" /\ S2 = [S EXCEPT ![id] = "RUNNING"] /\ N2 = N
    BY <1>1, <1>2, <2>1 DEF RecordStatus, RecordNodes, Unmoved
  <2>3. Record!Begin(id)
    BY <1>1, <2>2 DEF Record!Begin, RecordStatus, RecordNodes
  <2> QED
    BY <2>3 DEF Record!Next
<1>6. ASSUME NEW id \in Ids, Finished(id)
      PROVE  Record!Next
  <2>1. /\ StatusOf(id) = "RUNNING" /\ StatusOf(id)' \in Record!Ends /\ NodesOf(id)' = NodesOf(id)
        /\ \A n \in Ids : n # id => Unmoved(n)
    BY <1>6, FinishedRecord
  <2>2. /\ S[id] = "RUNNING" /\ S2[id] \in Record!Ends /\ S2 = [S EXCEPT ![id] = S2[id]]
        /\ N2 = N
    BY <1>1, <1>2, <2>1 DEF RecordStatus, RecordNodes, Unmoved
  <2>3. Record!End(id)
    BY <1>1, <2>2 DEF Record!End, RecordStatus, RecordNodes
  <2> QED
    BY <2>3 DEF Record!Next
<1>7. ASSUME NEW id \in Ids, Grew(id)
      PROVE  Record!Next
  <2>1. /\ StatusOf(id) = "RUNNING" /\ StatusOf(id)' = "RUNNING"
        /\ Len(NodesOf(id)') >= Len(NodesOf(id))
        /\ \A k \in 1 .. Len(NodesOf(id)) : Record!Ended(NodesOf(id)[k], NodesOf(id)'[k])
        /\ \A n \in Ids : n # id => Unmoved(n)
    BY <1>7, GrewRecord
  <2>2. /\ S[id] = "RUNNING" /\ S2 = S /\ N2 = [N EXCEPT ![id] = N2[id]]
    BY <1>1, <1>2, <2>1 DEF RecordStatus, RecordNodes, Unmoved
  <2>3. /\ Len(N2[id]) >= Len(N[id])
        /\ \A k \in 1 .. Len(N[id]) : Record!Ended(N[id][k], N2[id][k])
    BY <1>2, <2>1
  <2>4. Record!Write(id)
    BY <1>1, <2>2, <2>3 DEF Record!Write, Record!Follows, RecordStatus, RecordNodes
  <2> QED
    BY <2>4 DEF Record!Next
<1> QED
  BY <1>3, <1>4, <1>5, <1>6, <1>7 DEF Kind, Began, Finished, Grew

LEMMA RecordInit == Init => Record!Init
<1> SUFFICES ASSUME Init
             PROVE  Record!Init
  OBVIOUS
<1>1. Created = {}
  BY DEF Init, Created
<1> QED
  BY <1>1 DEF Record!Init, StatusOf, NodesOf

\* With one flow thread every flow keeps the promise of a FlowRecord: nodes are only added, each
\* ends once, and nothing changes after the flow has ended (PipelineTracer::finishNode, failNode, skipNode).
THEOREM FlowsKeepRecord ==
    ASSUME OneThread
    PROVE  Spec => IsRecord
<1>1. SoloInv /\ [Next]_vars => SoloInv'
  BY SoloNext
<1>2. SoloInv /\ SoloInv' /\ [Next]_vars => [Record!Next]_(Record!vars)
  BY SoloNext, RecordStep
<1> QED
  BY <1>1, <1>2, SoloInit, RecordInit, PTL DEF Spec, IsRecord, Record!Spec

-----------------------------------------------------------------------------
(* How a flow stops, and how it ends                                       *)

\* The next thing a chain does is start a node: it has looked at the flag already.
Due(f) == f.at \in {"input", "stage"}

\* Every chain but the innermost waits inside a node of its own, and a chain that is about to
\* start a node belongs to a flow that has started none since its cancellation.
StackOK(stack, ss) ==
    /\ \A k \in DOMAIN stack : k # Len(stack) => Open(stack[k])
    /\ (stack # <<>> /\ Due(stack[Len(stack)])) => ss[stack[Len(stack)].s].extra = 0

Lean(S) == S.extra <= 1 /\ (S.extra > 0 => S.cancel)

StopInv ==
    /\ \A id \in Created : Lean(sess[id])
    /\ \A t \in Threads : StackOK(thr[t].stack, sess)

-----------------------------------------------------------------------------
(* Stacks                                                                  *)

LEMMA StopReplaced ==
    ASSUME NEW stack \in Seq(FrameT), stack # <<>>, NEW ss, NEW g \in FrameT,
           \A k \in DOMAIN stack : k # Len(stack) => Open(stack[k]),
           Due(g) => ss[g.s].extra = 0
    PROVE  StackOK([stack EXCEPT ![Len(stack)] = g], ss)
<1>1. PICK new : new = [stack EXCEPT ![Len(stack)] = g]
  OBVIOUS
<1>2. Len(stack) \in 1 .. Len(stack)
  BY EmptySeq, LenProperties
<1>3. /\ Len(new) = Len(stack) /\ DOMAIN new = DOMAIN stack /\ new[Len(stack)] = g
      /\ \A k \in DOMAIN stack : k # Len(stack) => new[k] = stack[k]
  BY <1>1, <1>2, ExceptSeq, LenProperties
<1>4. StackOK(new, ss)
  BY <1>3 DEF StackOK
<1> QED
  BY <1>1, <1>4

LEMMA StopPopped ==
    ASSUME NEW stack \in Seq(FrameT), stack # <<>>, NEW ss,
           \A k \in DOMAIN stack : k # Len(stack) => Open(stack[k])
    PROVE  StackOK(Front(stack), ss)
<1>1. PICK new \in Seq(FrameT) : new = Front(stack)
  BY FrontFacts
<1>2. \A k \in DOMAIN new : Open(new[k])
  BY <1>1, FrontFacts
<1>3. new # <<>> => Len(new) \in DOMAIN new
  BY EmptySeq, LenProperties
<1>4. StackOK(new, ss)
  BY <1>2, <1>3 DEF StackOK, Open, Due
<1> QED
  BY <1>1, <1>4

LEMMA StopPushed ==
    ASSUME NEW stack \in Seq(FrameT), NEW ss, NEW g \in FrameT,
           \A k \in DOMAIN stack : Open(stack[k]), ss[g.s].extra = 0
    PROVE  StackOK(Append(stack, g), ss)
<1>1. PICK new : new = Append(stack, g)
  OBVIOUS
<1>2. /\ Len(new) = Len(stack) + 1 /\ new[Len(new)] = g
      /\ \A k \in DOMAIN new : k # Len(new) => k \in DOMAIN stack /\ new[k] = stack[k]
  BY <1>1, AppendProperties, LenProperties
<1>3. StackOK(new, ss)
  BY <1>2 DEF StackOK
<1> QED
  BY <1>1, <1>3

-----------------------------------------------------------------------------
(* Steps that start no node                                                *)

Spares ==
    /\ Created' = Created
    /\ \A id \in Created : /\ sess'[id].extra = sess[id].extra
                           /\ sess[id].cancel => sess'[id].cancel

LEMMA FieldWritten ==
    ASSUME FlowInv, NEW s \in Created, NEW x,
           \/ sess' = [sess EXCEPT ![s].nodes = x] \/ sess' = [sess EXCEPT ![s].chains = x]
           \/ sess' = [sess EXCEPT ![s].status = x] \/ sess' = [sess EXCEPT ![s].late = x]
           \/ sess' = [sess EXCEPT ![s].cancel = TRUE]
    PROVE  Spares
<1>1. sess[s] \in SessionT
  BY SessionFacts
<1>2. ASSUME NEW S, sess' = [sess EXCEPT ![s] = S], S.extra = sess[s].extra,
             sess[s].cancel => S.cancel
      PROVE  Spares
  <2>1. DOMAIN sess' = DOMAIN sess /\ sess'[s] = S
        /\ \A id \in Created : id # s => sess'[id] = sess[id]
    BY <1>2 DEF Created
  <2> QED
    BY <1>2, <2>1 DEF Spares, Created
<1>3. CASE sess' = [sess EXCEPT ![s].nodes = x]
  BY <1>1, <1>2, <1>3 DEF SessionT
<1>4. CASE sess' = [sess EXCEPT ![s].chains = x]
  BY <1>1, <1>2, <1>4 DEF SessionT
<1>5. CASE sess' = [sess EXCEPT ![s].status = x]
  BY <1>1, <1>2, <1>5 DEF SessionT
<1>6. CASE sess' = [sess EXCEPT ![s].late = x]
  BY <1>1, <1>2, <1>6 DEF SessionT
<1>7. CASE sess' = [sess EXCEPT ![s].cancel = TRUE]
  BY <1>1, <1>2, <1>7 DEF SessionT
<1> QED
  BY <1>3, <1>4, <1>5, <1>6, <1>7

LEMMA NothingSpared == UNCHANGED sess => Spares
BY DEF Spares, Created

\* What is left to show of a step that starts no node.
LEMMA Sparing ==
    ASSUME StopInv, OneThread, Spares, NEW t \in Threads, StackOK(thr[t].stack, sess)'
    PROVE  StopInv'
BY DEF StopInv, OneThread, Spares, Lean

\* The innermost chain of a thread.
LEMMA StopTop ==
    ASSUME FlowInv, StopInv, NEW t \in Threads, thr[t].stack # <<>>
    PROVE  /\ thr[t].stack \in Seq(FrameT) /\ Top(t) = thr[t].stack[Len(thr[t].stack)]
           /\ Top(t) \in FrameT /\ Top(t).s \in Created
           /\ sess[Top(t).s].extra \in Nat /\ sess[Top(t).s].cancel \in BOOLEAN
           /\ \A k \in DOMAIN thr[t].stack : k # Len(thr[t].stack) => Open(thr[t].stack[k])
           /\ Due(Top(t)) => sess[Top(t).s].extra = 0
           /\ Lean(sess[Top(t).s])
<1>1. /\ thr[t].stack \in Seq(FrameT) /\ Top(t) \in FrameT /\ FrameOK(Top(t))
      /\ Top(t) = thr[t].stack[Len(thr[t].stack)]
  BY TopFacts DEF Top, Last
<1>2. Top(t).s \in Created /\ sess[Top(t).s] \in SessionT
  BY <1>1, SessionFacts DEF FrameOK
<1> QED
  BY <1>1, <1>2 DEF StopInv, StackOK, SessionT

LEMMA SameStack ==
    ASSUME FlowInv, StopInv, OneThread, Spares, NEW t \in Threads, thr'[t].stack = thr[t].stack
    PROVE  StopInv'
<1>1. PICK stack : stack = thr[t].stack
  OBVIOUS
<1>2. StackOK(stack, sess)
  BY <1>1 DEF StopInv
<1>3. stack # <<>> => stack[Len(stack)].s \in Created
  BY <1>1, StopTop
<1>4. StackOK(stack, sess')
  BY <1>2, <1>3 DEF StackOK, Spares
<1> QED
  BY <1>1, <1>4, Sparing

LEMMA ChainLeft ==
    ASSUME FlowInv, StopInv, OneThread, Spares, NEW t \in Threads, thr[t].stack # <<>>,
           thr' = Pop(t), UNCHANGED engine
    PROVE  StopInv'
<1>1. thr'[t].stack = Front(thr[t].stack)
  BY ThreadWritten
<1>2. StackOK(Front(thr[t].stack), sess')
  BY StopTop, StopPopped
<1> QED
  BY <1>1, <1>2, Sparing

LEMMA ChainMoves ==
    ASSUME FlowInv, StopInv, OneThread, Spares, NEW t \in Threads, thr[t].stack # <<>>,
           NEW g \in FrameT, g.s = Top(t).s, Due(g) => sess[g.s].extra = 0,
           thr' = WithTop(t, g), UNCHANGED engine
    PROVE  StopInv'
<1>1. thr'[t].stack = [thr[t].stack EXCEPT ![Len(thr[t].stack)] = g]
  BY ThreadWritten
<1>2. Due(g) => sess'[g.s].extra = 0
  BY StopTop DEF Spares
<1>3. StackOK([thr[t].stack EXCEPT ![Len(thr[t].stack)] = g], sess')
  BY <1>2, StopTop, StopReplaced
<1> QED
  BY <1>1, <1>3, Sparing

-----------------------------------------------------------------------------
(* The steps inside a flow                                                 *)

\* A node starts: the only step that counts one after the flag.
LEMMA StartNodeStops ==
    ASSUME FlowInv, StopInv, OneThread, NEW t \in Threads, NEW at \in {"evaluate", "args"},
           thr[t].stack # <<>>, Due(Top(t)), StartNode(t, at)
    PROVE  StopInv'
<1>1. PICK f \in FrameT : f = Top(t)
  BY StopTop
<1>2. PICK s \in Created : s = f.s /\ sess[s].extra = 0 /\ sess[s].cancel \in BOOLEAN
  BY <1>1, StopTop
<1>3. PICK old \in Seq(NodeT) : old = sess[s].nodes /\ Len(old) \in Nat
  BY SessionFacts
<1>4. PICK S : S = [sess[s] EXCEPT !.nodes = Append(old, Node(f.c, "RUNNING")),
                                   !.extra = IF sess[s].cancel THEN 1 ELSE 0]
  OBVIOUS
<1>5. Lean(S)
  BY <1>2, <1>4, SessionFacts DEF Lean, SessionT
<1>6. sess' = [sess EXCEPT ![s] = S]
  <2>1. sess' = Started(s, f.c)
    BY <1>1, <1>2 DEF StartNode
  <2>2. sess' = [sess EXCEPT ![s].nodes = Append(old, Node(f.c, "RUNNING")),
                             ![s].extra = IF sess[s].cancel THEN 1 ELSE 0]
    BY <1>2, <1>3, <2>1 DEF Started
  <2> QED
    BY <1>4, <2>2
<1>7. PICK g : g = [f EXCEPT !.at = at, !.node = Len(old) + 1]
  OBVIOUS
<1>8. g \in FrameT /\ ~Due(g)
  <2>1. g = [s |-> f.s, c |-> f.c, left |-> f.left, node |-> Len(old) + 1, at |-> at]
    BY <1>7 DEF FrameT
  <2> QED
    BY <1>3, <2>1 DEF FrameT, Due
<1>9. thr'[t].stack = [thr[t].stack EXCEPT ![Len(thr[t].stack)] = g]
  <2>1. thr' = WithTop(t, g) /\ UNCHANGED engine
    BY <1>1, <1>2, <1>3, <1>7 DEF StartNode
  <2> QED
    BY <2>1, ThreadWritten
<1>10. StackOK([thr[t].stack EXCEPT ![Len(thr[t].stack)] = g], sess')
  BY <1>8, StopTop, StopReplaced
<1>11. \A id \in Created' : Lean(sess'[id])
  BY <1>5, <1>6 DEF Created, StopInv
<1> QED
  BY <1>9, <1>10, <1>11 DEF StopInv, OneThread

\* A chain starts: it looks at the flag before it makes a frame.
LEMMA EnterStops ==
    ASSUME FlowInv, StopInv, OneThread, NEW t \in Threads, NEW n \in Nat, NEW X \in ThreadT,
           thr[t].pc \in {"program", "replay"},
           X.stack = thr[t].stack, \A k \in DOMAIN X.stack : Open(X.stack[k]),
           Enter(t, n, [thr EXCEPT ![t] = X])
    PROVE  StopInv'
<1>1. thr \in [Threads -> ThreadT] /\ X.stack \in Seq(FrameT)
  BY DEF FlowInv, Types, ThreadT
<1>2. PICK s : s = engine[thr[t].of].active /\ s \in Created \cup {NoId}
  <2>1. thr[t].of \in Interps
    BY DEF FlowInv, Links, ThreadOK
  <2> QED
    BY <2>1 DEF FlowInv, Links
<1>3. CASE s = NoId
  <2>1. UNCHANGED sess /\ thr'[t].stack = thr[t].stack
    BY <1>1, <1>2, <1>3 DEF Enter
  <2> QED
    BY <2>1, NothingSpared, SameStack
<1>4. CASE s # NoId
  <2>1. s \in Created /\ s \in Nat /\ sess[s] \in SessionT /\ sess[s].chains \in Nat
    BY <1>2, <1>4, SessionFacts DEF SessionT
  <2>2. Spares
    <3>1. PICK x : x = sess[s].chains + 1
      OBVIOUS
    <3>2. sess' = [sess EXCEPT ![s].chains = x]
      BY <1>2, <1>4, <3>1 DEF Enter
    <3> QED
      BY <2>1, <3>2, FieldWritten
  <2>3. CASE Stopped(s)
    <3>1. thr'[t].stack = thr[t].stack
      BY <1>1, <1>2, <1>4, <2>3 DEF Enter
    <3> QED
      BY <2>2, <3>1, SameStack
  <2>4. CASE ~Stopped(s)
    <3>1. PICK g : g = [s |-> s, c |-> sess[s].chains + 1, left |-> n, node |-> 0, at |-> "input"]
      OBVIOUS
    <3>2. g \in FrameT /\ g.s = s
      BY <2>1, <3>1 DEF FrameT
    <3>3. thr'[t].stack = Append(X.stack, g)
      <4>1. thr' = [[thr EXCEPT ![t] = X] EXCEPT ![t].stack = Append(@, g)]
        BY <1>2, <1>4, <2>4, <3>1 DEF Enter
      <4>2. thr'[t] = [X EXCEPT !.stack = Append(X.stack, g)]
        BY <1>1, <4>1
      <4> QED
        BY <4>2 DEF ThreadT
    <3>4. sess'[s].extra = 0
      <4>1. sess[s].extra \in Nat /\ Lean(sess[s]) /\ ~sess[s].cancel
        BY <2>1, <2>4 DEF StopInv, SessionT, Stopped
      <4> QED
        BY <2>1, <2>2, <4>1 DEF Lean, Spares
    <3>5. StackOK(Append(X.stack, g), sess')
      BY <1>1, <3>2, <3>4, StopPushed
    <3> QED
      BY <2>2, <3>3, <3>5, Sparing
  <2> QED
    BY <2>3, <2>4
<1> QED
  BY <1>3, <1>4

LEMMA InsideStops ==
    ASSUME FlowInv, StopInv, OneThread, NEW t \in Threads, Inside(t)
    PROVE  StopInv'
<1>0. thr \in [Threads -> ThreadT] /\ thr[t] \in ThreadT
  BY DEF FlowInv, Types
<1>1. CASE StartInput(t) \/ StartStage(t)
  BY <1>1, StartNodeStops DEF StartInput, StartStage, At, Due
<1>2. CASE Arguments(t)
  <2>1. thr[t].stack # <<>> /\ Goto(t, "call") /\ UNCHANGED <<sess, engine>>
    BY <1>2 DEF Arguments, At
  <2>2. PICK g : g = [Top(t) EXCEPT !.at = "call"]
    OBVIOUS
  <2>3. g \in FrameT /\ g.s = Top(t).s /\ ~Due(g)
    BY <2>1, <2>2, StopTop DEF FrameT, Due
  <2> QED
    BY <2>1, <2>2, <2>3, NothingSpared, ChainMoves DEF Goto
<1>3. CASE FinishInput(t) \/ FinishStage(t)
  <2>1. /\ thr[t].stack # <<>> /\ SetNode(Top(t).s, Top(t).node, "SUCCESS") /\ UNCHANGED engine
    BY <1>3 DEF FinishInput, FinishStage, At
  <2>2. Spares
    <3>1. PICK x : x = [sess[Top(t).s].nodes EXCEPT ![Top(t).node].st = "SUCCESS"]
      OBVIOUS
    <3>2. sess' = [sess EXCEPT ![Top(t).s].nodes = x]
      BY <2>1, <3>1 DEF SetNode
    <3> QED
      BY <2>1, <3>2, StopTop, FieldWritten
  <2>3. CASE FinishInput(t)
    <3>1. PICK g : g = [Top(t) EXCEPT !.at = "check"]
      OBVIOUS
    <3>2. g \in FrameT /\ g.s = Top(t).s /\ ~Due(g)
      BY <2>1, <3>1, StopTop DEF FrameT, Due
    <3>3. thr' = WithTop(t, g)
      BY <2>3, <3>1 DEF FinishInput, Goto
    <3> QED
      BY <2>1, <2>2, <3>2, <3>3, ChainMoves
  <2>4. CASE FinishStage(t)
    <3>1. Top(t).left \in Nat /\ Top(t).left > 0
      BY <2>4, TopFacts DEF FinishStage, At, FrameOK, FrameT
    <3>2. PICK left \in Nat : left = Top(t).left - 1
      BY <3>1
    <3>3. PICK g : g = [Top(t) EXCEPT !.at = "check", !.left = left]
      OBVIOUS
    <3>4. g \in FrameT /\ g.s = Top(t).s /\ ~Due(g)
      BY <2>1, <3>3, StopTop DEF FrameT, Due
    <3>5. thr' = WithTop(t, g)
      BY <2>4, <3>2, <3>3 DEF FinishStage
    <3> QED
      BY <2>1, <2>2, <3>4, <3>5, ChainMoves
  <2> QED
    BY <1>3, <2>3, <2>4
<1>4. CASE CheckStage(t)
  <2>1. thr[t].stack # <<>> /\ UNCHANGED engine
    BY <1>4 DEF CheckStage, At
  <2>2. CASE MustStop(Top(t).s)
    <3>1. PICK x : x = sess[Top(t).s].nodes \o Refused(Top(t))
      OBVIOUS
    <3>2. sess' = [sess EXCEPT ![Top(t).s].nodes = x] /\ thr' = Pop(t)
      BY <1>4, <2>2, <3>1 DEF CheckStage
    <3> QED
      BY <2>1, <3>2, StopTop, FieldWritten, ChainLeft
  <2>3. CASE ~MustStop(Top(t).s)
    <3>1. PICK g : g = [Top(t) EXCEPT !.at = "stage"]
      OBVIOUS
    <3>2. g \in FrameT /\ g.s = Top(t).s
      BY <2>1, <3>1, StopTop DEF FrameT
    <3>3. sess[Top(t).s].extra = 0
      BY <2>1, <2>3, StopTop DEF MustStop, Stopped, Lean
    <3>4. thr' = WithTop(t, g) /\ UNCHANGED sess
      BY <1>4, <2>3, <3>1 DEF CheckStage, Goto
    <3> QED
      BY <2>1, <3>2, <3>3, <3>4, NothingSpared, ChainMoves
  <2> QED
    BY <2>2, <2>3
<1>5. CASE EndChain(t)
  BY <1>5, NothingSpared, ChainLeft DEF EndChain, At
<1>6. CASE Unwind(t)
  <2>1. thr[t].stack # <<>> /\ thr' = Pop(t) /\ UNCHANGED engine
    BY <1>6 DEF Unwind
  <2>2. Spares
    <3>1. CASE UNCHANGED sess
      BY <3>1, NothingSpared
    <3>2. CASE sess' = Failed(Top(t))
      <4>1. PICK x : x = [sess[Top(t).s].nodes EXCEPT ![Top(t).node].st = "ERROR"]
                           \o Skips(Top(t).c, Top(t).left - 1)
        OBVIOUS
      <4>2. sess' = [sess EXCEPT ![Top(t).s].nodes = x]
        BY <3>2, <4>1 DEF Failed
      <4> QED
        BY <2>1, <4>2, StopTop, FieldWritten
    <3> QED
      BY <1>6, <3>1, <3>2 DEF Unwind
  <2> QED
    BY <2>1, <2>2, ChainLeft
<1>7. CASE Catch(t) \/ \E e \in Errors : Raise(t, e)
  <2>1. PICK e : thr' = [thr EXCEPT ![t].err = e] /\ UNCHANGED sess
    BY <1>7 DEF Catch, Raise
  <2>2. thr'[t].stack = thr[t].stack
    BY <1>0, <2>1 DEF ThreadT
  <2> QED
    BY <2>1, <2>2, NothingSpared, SameStack
<1>8. ASSUME NEW n \in 1 .. MaxStages, EnterChain(t, n)
      PROVE  StopInv'
  <2>1. /\ thr[t].todo \in Nat /\ thr[t].todo > 0 /\ thr[t].stack = <<>>
        /\ thr[t].pc \in {"program", "replay"} /\ n \in Nat
    BY <1>0, <1>8, FlowAssumption DEF EnterChain, InProgram, ThreadT
  <2>2. PICK m \in Nat : m = thr[t].todo - 1
    BY <2>1
  <2>3. PICK X : X = [thr[t] EXCEPT !.todo = m]
    OBVIOUS
  <2>4. X \in ThreadT /\ X.stack = thr[t].stack /\ \A k \in DOMAIN X.stack : Open(X.stack[k])
    <3>1. X \in ThreadT /\ X.stack = <<>>
      BY <1>0, <2>1, <2>3 DEF ThreadT
    <3> QED
      BY <2>1, <3>1
  <2>5. Enter(t, n, [thr EXCEPT ![t] = X])
    BY <1>8, <2>2, <2>3 DEF EnterChain
  <2> QED
    BY <2>1, <2>4, <2>5, EnterStops
<1>9. ASSUME NEW n \in 1 .. MaxStages, EnterInner(t, n)
      PROVE  StopInv'
  <2>1. /\ thr[t].stack # <<>> /\ Open(Top(t)) /\ Enter(t, n, thr) /\ n \in Nat
    BY <1>9, FlowAssumption DEF EnterInner, Open
  <2>2. PICK X : X = thr[t]
    OBVIOUS
  <2>3. thr = [thr EXCEPT ![t] = X]
    BY <1>0, <2>2
  <2>4. \A k \in DOMAIN X.stack : Open(X.stack[k])
    BY <2>1, <2>2, StopTop
  <2>5. thr[t].pc \in {"program", "replay"}
    BY <2>1, TopFacts
  <2>6. Enter(t, n, [thr EXCEPT ![t] = X])
    BY <2>1, <2>3
  <2> QED
    BY <1>0, <2>1, <2>2, <2>4, <2>5, <2>6, EnterStops
<1> QED
  BY <1>1, <1>2, <1>3, <1>4, <1>5, <1>6, <1>7, <1>8, <1>9 DEF Inside

-----------------------------------------------------------------------------
(* The steps around a flow                                                 *)

LEMMA CreateStops ==
    ASSUME FlowInv, StopInv, OneThread, NEW t \in Threads, NEW i, NEW pc, Create(t, i, pc)
    PROVE  StopInv'
<1>1. thr \in [Threads -> ThreadT] /\ sess \in Seq(SessionT)
  BY DEF FlowInv, Types
<1>2. thr'[t].stack = <<>>
  <2>1. thr'[t] = [Idle EXCEPT !.pc = pc, !.s = NextId, !.of = i]
    BY <1>1 DEF Create
  <2> QED
    BY <2>1 DEF Idle
<1>3. \A id \in Created' : Lean(sess'[id])
  <2>1. PICK S : S = NewSession(i)
    OBVIOUS
  <2>2. Lean(S)
    BY <2>1 DEF NewSession, Lean
  <2>3. sess' = Append(sess, S)
    BY <2>1 DEF Create
  <2>4. \A id \in DOMAIN sess' : sess'[id] = S \/ (id \in DOMAIN sess /\ sess'[id] = sess[id])
    BY <1>1, <2>3
  <2> QED
    BY <2>2, <2>4 DEF Created, StopInv
<1> QED
  BY <1>2, <1>3 DEF StopInv, OneThread, StackOK

LEMMA LeaveStops ==
    ASSUME FlowInv, StopInv, OneThread, NEW t \in Threads, End(t) \/ Leak(t)
    PROVE  StopInv'
<1>1. thr \in [Threads -> ThreadT] /\ thr' = [thr EXCEPT ![t] = Idle]
  BY DEF FlowInv, Types, End, Leak
<1>2. StackOK(thr[t].stack, sess)'
  BY <1>1 DEF Idle, StackOK
<1>3. Spares
  <2>1. CASE Leak(t)
    BY <2>1, NothingSpared DEF Leak
  <2>2. CASE End(t)
    <3>1. PICK x : sess' = [sess EXCEPT ![thr[t].s].status = x]
      BY <2>2 DEF End
    <3>2. thr[t].s \in Created
      BY <2>2 DEF End, FlowInv, Links, ThreadOK
    <3> QED
      BY <3>1, <3>2, FieldWritten
  <2> QED
    BY <2>1, <2>2
<1> QED
  BY <1>2, <1>3, Sparing

LEMMA OutsideStops ==
    ASSUME FlowInv, StopInv, OneThread, NEW t \in Threads, Outside(t)
    PROVE  StopInv'
<1>1. CASE Register(t)
  <2>1. thr'[t].stack = thr[t].stack /\ UNCHANGED sess
    BY <1>1 DEF Register, FlowInv, Types, ThreadT
  <2> QED
    BY <2>1, NothingSpared, SameStack
<1>2. CASE End(t) \/ Leak(t)
  BY <1>2, LeaveStops
<1>3. CASE Crash(t)
  BY <1>3, NothingSpared, SameStack DEF Crash
<1>4. CASE Replay(t) \/ \E i \in Interps : Run(t, i)
  BY <1>4, CreateStops DEF Run, Replay, ReplayOf
<1>5. CASE Judge(t)
  <2>1. PICK X \in ThreadT : JudgedAs(t, X)
    BY <1>5, JudgeKeeps
  <2>2. thr'[t].stack = thr[t].stack /\ UNCHANGED sess
    BY <2>1 DEF JudgedAs, FlowInv, Types
  <2> QED
    BY <2>2, NothingSpared, SameStack
<1> QED
  BY <1>1, <1>2, <1>3, <1>4, <1>5 DEF Outside

LEMMA StopNext ==
    ASSUME FlowInv, StopInv, OneThread, [Next]_vars
    PROVE  StopInv'
<1>1. CASE UNCHANGED vars
  BY <1>1 DEF vars, StopInv, Created
<1>2. ASSUME UNCHANGED thr, Spares
      PROVE  StopInv'
  <2>1. CASE Threads = {}
    BY <1>2, <2>1 DEF StopInv, Spares, Lean
  <2>2. ASSUME NEW t \in Threads
        PROVE  StopInv'
    BY <1>2, SameStack
  <2> QED
    BY <2>1, <2>2
<1>3. CASE CancelLook
  BY <1>2, <1>3, NothingSpared DEF CancelLook
<1>4. CASE CancelSet
  <2>1. asked \in Created
    BY <1>4 DEF CancelSet, FlowInv, Links
  <2> QED
    BY <1>2, <1>4, <2>1, FieldWritten DEF CancelSet
<1>5. CASE Deadline
  <2>1. PICK id \in Created : sess' = [sess EXCEPT ![id].late = TRUE]
    BY <1>5 DEF Deadline
  <2> QED
    BY <1>2, <1>5, <2>1, FieldWritten DEF Deadline
<1> QED
  BY <1>1, <1>3, <1>4, <1>5, NextSteps, InsideStops, OutsideStops

\* With one flow thread a cancelled flow starts at most one more node, in whatever chain: the one
\* whose check came before the flag (evaluatePipelineFlow looks before each stage).
THEOREM CancelStopsSoon ==
    ASSUME OneThread
    PROVE  Spec => []OneMoreNode
<1>1. Init => StopInv
  BY DEF Init, StopInv, Created, Idle, StackOK
<1>2. FlowInv /\ StopInv /\ [Next]_vars => FlowInv' /\ StopInv'
  BY NextInv, StopNext
<1>3. FlowInv /\ StopInv => OneMoreNode
  BY DEF StopInv, OneMoreNode, Lean
<1> QED
  BY <1>1, <1>2, <1>3, InitInv, PTL DEF Spec

-----------------------------------------------------------------------------
(* What a flow has to show when it reports SUCCESS                         *)

HasNode(S, c) == \E k \in DOMAIN S.nodes : S.nodes[k].c = c
NoCut(S) == \A k \in DOMAIN S.nodes : S.nodes[k].st \notin {"CANCELLED", "TIMEOUT"}

\* Chain c of flow id has looked at the flag and has not made its first node yet.
Entered(stack, id, c) ==
    /\ stack # <<>>
    /\ LET f == stack[Len(stack)] IN f.at = "input" /\ f.s = id /\ f.c = c

\* A flow that was not stopped, or ended before it was, has cut no chain.
Accounted(S, id, stack) ==
    (S.status = "SUCCESS" \/ ~(S.cancel \/ S.late)) =>
        NoCut(S) /\ \A c \in 1 .. S.chains : HasNode(S, c) \/ Entered(stack, id, c)

Accounts == \A id \in Created : \E t \in Threads : Accounted(sess[id], id, thr[t].stack)

\* An exception unwinds chains that have their node.
UnwindsOpen ==
    \A t \in Threads : (thr[t].err # "none" /\ thr[t].stack # <<>>) =>
        Open(thr[t].stack[Len(thr[t].stack)])

\* The end of a run that has found the flag down stands by its verdict: unless the deadline has
\* passed, no chain was cut, whatever happens to the flag before the status is written.
Complete(S) == NoCut(S) /\ \A c \in 1 .. S.chains : HasNode(S, c)
Settled ==
    \A t \in Threads : (thr[t].pc = "ending" /\ ~thr[t].saw /\ ~sess[thr[t].s].late) =>
        Complete(sess[thr[t].s])

WholeInv == SoloInv /\ StopInv /\ Accounts /\ UnwindsOpen /\ Settled

\* A session writes to one session only, the one of the frames of its thread.
LEMMA AccountsStep ==
    ASSUME OneThread, Accounts, NEW t \in Threads, NEW s \in Created, NEW S,
           sess' = [sess EXCEPT ![s] = S],
           thr[t].stack # <<>> => thr[t].stack[Len(thr[t].stack)].s = s,
           Accounted(sess[s], s, thr[t].stack) => Accounted(S, s, thr'[t].stack)
    PROVE  Accounts'
<1>1. Created' = Created /\ sess'[s] = S /\ \A id \in Created : id # s => sess'[id] = sess[id]
  BY DEF Created
<1>2. \A id \in Created : Accounted(sess[id], id, thr[t].stack)
  BY DEF Accounts, OneThread
<1>3. ASSUME NEW id \in Created
      PROVE  Accounted(sess'[id], id, thr'[t].stack)
  <2>1. CASE id = s
    BY <1>1, <1>2, <2>1
  <2>2. CASE id # s
    <3>1. \A c : ~Entered(thr[t].stack, id, c)
      BY <2>2 DEF Entered
    <3> QED
      BY <1>1, <1>2, <2>2, <3>1 DEF Accounted
  <2> QED
    BY <2>1, <2>2
<1> QED
  BY <1>1, <1>3 DEF Accounts

\* No node is lost and none is marked as cut.
NodesKept(old, new) ==
    /\ \A k \in DOMAIN old : k \in DOMAIN new /\ new[k].c = old[k].c
    /\ \A k \in DOMAIN new : \/ new[k].st \notin {"CANCELLED", "TIMEOUT"}
                             \/ k \in DOMAIN old /\ new[k].st = old[k].st

LEMMA MarkKept ==
    ASSUME NEW old \in Seq(NodeT), NEW n \in 1 .. Len(old), NEW st \in {"SUCCESS", "ERROR"}
    PROVE  Marked(old, n, st) \in Seq(NodeT) /\ NodesKept(old, Marked(old, n, st))
<1>1. st \in NodeStatus
  BY DEF NodeStatus
<1>2. PICK new \in Seq(NodeT) : new = Marked(old, n, st)
  BY <1>1, NodeMarked
<1>3. /\ DOMAIN new = 1 .. Len(old) /\ DOMAIN old = 1 .. Len(old) /\ new[n].st = st
      /\ \A k \in 1 .. Len(old) : k # n => new[k] = old[k]
  BY <1>1, <1>2, NodeMarked, LenProperties
<1>4. new[n].c = old[n].c
  <2>1. old[n] \in NodeT
    BY ElementOfSeq
  <2>2. new[n] = [old[n] EXCEPT !.st = st]
    BY <1>2, <1>3 DEF Marked
  <2> QED
    BY <2>1, <2>2 DEF NodeT
<1>5. NodesKept(old, new)
  BY <1>3, <1>4 DEF NodesKept
<1> QED
  BY <1>2, <1>5

LEMMA ExtendKept ==
    ASSUME NEW old \in Seq(NodeT), NEW mid \in Seq(NodeT), NEW more \in Seq(NodeT),
           NodesKept(old, mid),
           \A k \in DOMAIN more : more[k].st \notin {"CANCELLED", "TIMEOUT"}
    PROVE  NodesKept(old, mid \o more)
<1>1. PICK new : new = mid \o more
  OBVIOUS
<1>2. /\ DOMAIN mid = 1 .. Len(mid) /\ Len(mid) \in Nat
      /\ DOMAIN more = 1 .. Len(more) /\ Len(more) \in Nat
      /\ DOMAIN new = 1 .. Len(mid) + Len(more)
      /\ \A k \in 1 .. Len(mid) + Len(more) :
            new[k] = IF k <= Len(mid) THEN mid[k] ELSE more[k - Len(mid)]
  BY <1>1, ConcatProperties, LenProperties
<1>3. \A k \in DOMAIN mid : k \in DOMAIN new /\ new[k] = mid[k]
  BY <1>2
<1>4. \A k \in DOMAIN new : \/ k \in DOMAIN mid /\ new[k] = mid[k]
                            \/ new[k].st \notin {"CANCELLED", "TIMEOUT"}
  <2> SUFFICES ASSUME NEW k \in DOMAIN new, k \notin DOMAIN mid
               PROVE  new[k].st \notin {"CANCELLED", "TIMEOUT"}
    BY <1>3
  <2>1. k - Len(mid) \in DOMAIN more /\ new[k] = more[k - Len(mid)]
    BY <1>2
  <2> QED
    BY <2>1
<1>5. NodesKept(old, new)
  BY <1>3, <1>4 DEF NodesKept
<1> QED
  BY <1>1, <1>5

\* A step that keeps nodes, flags, chains and status, where no chain waits to make its first node.
LEMMA NodesAccounted ==
    ASSUME NEW S, NEW S2, NEW id, NEW stack, NEW stack2, Accounted(S, id, stack),
           S2.status = S.status, S2.cancel = S.cancel, S2.late = S.late, S2.chains = S.chains,
           NodesKept(S.nodes, S2.nodes),
           \A c : Entered(stack, id, c) => Entered(stack2, id, c) \/ HasNode(S2, c)
    PROVE  Accounted(S2, id, stack2)
<1>1. \A c : HasNode(S, c) => HasNode(S2, c)
  BY DEF HasNode, NodesKept
<1>2. NoCut(S) => NoCut(S2)
  BY DEF NoCut, NodesKept
<1> QED
  BY <1>1, <1>2 DEF Accounted

-----------------------------------------------------------------------------
(* The steps inside a flow, and the nodes of its chains                    *)

\* The thread of a step inside a chain and the session it writes to.
LEMMA WholeTop ==
    ASSUME WholeInv, NEW t \in Threads, thr[t].stack # <<>>
    PROVE  /\ thr[t].s \in Created /\ Top(t).s = thr[t].s /\ Running(thr[t].s)
           /\ sess[thr[t].s] \in SessionT /\ sess[thr[t].s].nodes \in Seq(NodeT)
           /\ Top(t) \in FrameT /\ Top(t) = thr[t].stack[Len(thr[t].stack)]
           /\ Open(Top(t)) => Top(t).node \in 1 .. Len(sess[thr[t].s].nodes)
           /\ (thr[t].err # "none") => Open(Top(t))
           /\ FlowInv
<1>1. SoloInv /\ FlowInv /\ UnwindsOpen
  BY DEF WholeInv, SoloInv
<1>2. thr[t].pc # "idle" /\ Top(t) = thr[t].stack[Len(thr[t].stack)]
  BY <1>1, SoloTop
<1> QED
  BY <1>1, <1>2, SoloTop, SoloFacts, SessionFacts DEF UnwindsOpen

\* The innermost frame after its replacement.
LEMMA TopReplaced ==
    ASSUME FlowInv, NEW t \in Threads, thr[t].stack # <<>>, NEW g \in FrameT, thr' = WithTop(t, g)
    PROVE  /\ thr'[t].stack # <<>> /\ thr'[t].stack[Len(thr'[t].stack)] = g
           /\ thr'[t].err = thr[t].err
<1>1. /\ thr \in [Threads -> ThreadT] /\ thr[t].stack \in Seq(FrameT)
      /\ Len(thr[t].stack) \in DOMAIN thr[t].stack
  BY TopFacts DEF FlowInv, Types
<1>2. PICK new : new = [thr[t].stack EXCEPT ![Len(thr[t].stack)] = g]
  OBVIOUS
<1>3. new \in Seq(FrameT) /\ Len(new) = Len(thr[t].stack) /\ new[Len(new)] = g /\ new # <<>>
  BY <1>1, <1>2, ExceptSeq, EmptySeq, LenProperties
<1>4. thr'[t] = [thr[t] EXCEPT !.stack = new]
  BY <1>1, <1>2 DEF WithTop
<1> QED
  BY <1>1, <1>3, <1>4 DEF ThreadT

\* A step that writes nodes, or nothing, while no chain waits to make its first node.
LEMMA PlainWhole ==
    ASSUME WholeInv, OneThread, NEW t \in Threads, thr[t].stack # <<>>,
           Top(t).at # "input", NEW ns \in Seq(NodeT), NodesKept(sess[thr[t].s].nodes, ns),
           sess' = [sess EXCEPT ![thr[t].s].nodes = ns]
    PROVE  Accounts'
<1>1. PICK s \in Created : s = thr[t].s /\ sess[s] \in SessionT
  BY WholeTop
<1>2. PICK S : S = [sess[s] EXCEPT !.nodes = ns]
  OBVIOUS
<1>3. /\ S.nodes = ns /\ S.status = sess[s].status
      /\ S.cancel = sess[s].cancel /\ S.late = sess[s].late /\ S.chains = sess[s].chains
  BY <1>1, <1>2 DEF SessionT
<1>4. \A c : ~Entered(thr[t].stack, s, c)
  BY WholeTop DEF Entered
<1>5. thr[t].stack[Len(thr[t].stack)].s = s
  BY <1>1, WholeTop
<1>6. Accounted(sess[s], s, thr[t].stack) => Accounted(S, s, thr'[t].stack)
  BY <1>1, <1>3, <1>4, NodesAccounted
<1>7. Accounts /\ sess' = [sess EXCEPT ![s] = S]
  BY <1>1, <1>2 DEF WholeInv
<1>8. thr[t].stack # <<>> => thr[t].stack[Len(thr[t].stack)].s = s
  BY <1>5
<1> QED
  BY <1>6, <1>7, <1>8, AccountsStep, Zenon

LEMMA UnwrittenWhole ==
    ASSUME WholeInv, OneThread, NEW t \in Threads, thr[t].stack # <<>>,
           Top(t).at # "input", UNCHANGED sess
    PROVE  Accounts'
<1>1. PICK s \in Created : s = thr[t].s /\ FlowInv
  BY WholeTop
<1>2. PICK S : S = sess[s]
  OBVIOUS
<1>3. sess' = [sess EXCEPT ![s] = S]
  BY <1>1, <1>2, SessionFacts
<1>4. \A c : ~Entered(thr[t].stack, s, c)
  BY WholeTop DEF Entered
<1>5. Accounted(sess[s], s, thr[t].stack) => Accounted(S, s, thr'[t].stack)
  BY <1>2, <1>4 DEF Accounted
<1>6. thr[t].stack[Len(thr[t].stack)].s = s
  BY <1>1, WholeTop
<1> QED
  BY <1>3, <1>5, <1>6, AccountsStep DEF WholeInv

LEMMA StartNodeWhole ==
    ASSUME WholeInv, OneThread, NEW t \in Threads, NEW at, thr[t].stack # <<>>, StartNode(t, at)
    PROVE  Accounts'
<1>1. PICK s \in Created : s = thr[t].s /\ sess[s] \in SessionT /\ Top(t).s = s
  BY WholeTop
<1>2. PICK old \in Seq(NodeT) : old = sess[s].nodes
  BY <1>1, WholeTop
<1>3. PICK node : node = Node(Top(t).c, "RUNNING")
  OBVIOUS
<1>4. PICK ns : ns = Append(old, node)
  OBVIOUS
<1>5. PICK S : S = [sess[s] EXCEPT !.nodes = ns, !.extra = IF sess[s].cancel THEN @ + 1 ELSE @]
  OBVIOUS
<1>6. /\ S.nodes = ns /\ S.status = sess[s].status
      /\ S.cancel = sess[s].cancel /\ S.late = sess[s].late /\ S.chains = sess[s].chains
  BY <1>1, <1>5 DEF SessionT
<1>7. sess' = [sess EXCEPT ![s] = S]
  <2>1. sess' = Started(s, Top(t).c)
    BY <1>1 DEF StartNode
  <2> QED
    BY <1>2, <1>3, <1>4, <1>5, <2>1 DEF Started
<1>8. /\ DOMAIN old = 1 .. Len(old) /\ Len(old) \in Nat /\ DOMAIN ns = 1 .. Len(old) + 1
      /\ ns[Len(old) + 1] = node /\ \A k \in 1 .. Len(old) : ns[k] = old[k]
      /\ node.c = Top(t).c /\ node.st = "RUNNING"
  BY <1>3, <1>4, AppendProperties, LenProperties DEF Node
<1>9. NodesKept(old, ns)
  <2>1. \A k \in DOMAIN ns : k = Len(old) + 1 \/ k \in DOMAIN old
    BY <1>8
  <2> QED
    BY <1>8, <2>1 DEF NodesKept
<1>10. \A c : Entered(thr[t].stack, s, c) => HasNode(S, c)
  <2>1. HasNode(S, Top(t).c)
    <3>1. Len(old) + 1 \in DOMAIN ns
      BY <1>8
    <3> QED
      BY <1>6, <1>8, <3>1 DEF HasNode
  <2> QED
    BY <2>1, WholeTop DEF Entered
<1>11. Accounted(sess[s], s, thr[t].stack) => Accounted(S, s, thr'[t].stack)
  BY <1>2, <1>6, <1>9, <1>10, NodesAccounted
<1>12. thr[t].stack[Len(thr[t].stack)].s = s
  BY <1>1, WholeTop
<1> QED
  BY <1>7, <1>11, <1>12, AccountsStep DEF WholeInv

LEMMA FinishWhole ==
    ASSUME WholeInv, OneThread, NEW t \in Threads, FinishInput(t) \/ FinishStage(t)
    PROVE  Accounts'
<1>1. thr[t].stack # <<>> /\ Open(Top(t)) /\ SetNode(Top(t).s, Top(t).node, "SUCCESS")
  BY DEF FinishInput, FinishStage, At, Open
<1>2. PICK s : s = thr[t].s /\ s = Top(t).s
  BY <1>1, WholeTop
<1>3. PICK ns : ns = Marked(sess[s].nodes, Top(t).node, "SUCCESS")
  OBVIOUS
<1>4. ns \in Seq(NodeT) /\ NodesKept(sess[s].nodes, ns)
  BY <1>1, <1>2, <1>3, WholeTop, MarkKept
<1>5. sess' = [sess EXCEPT ![s].nodes = ns]
  BY <1>1, <1>2, <1>3 DEF SetNode, Marked
<1> QED
  BY <1>1, <1>2, <1>4, <1>5, PlainWhole DEF Open

\* A stopped flow may cut its chains, since it can no longer end as SUCCESS.
LEMMA CheckStageWhole ==
    ASSUME WholeInv, OneThread, NEW t \in Threads, CheckStage(t)
    PROVE  Accounts'
<1>1. thr[t].stack # <<>> /\ Top(t).at = "check"
  BY DEF CheckStage, At
<1>2. CASE ~MustStop(Top(t).s)
  BY <1>1, <1>2, UnwrittenWhole DEF CheckStage
<1>3. CASE MustStop(Top(t).s)
  <2>1. PICK s \in Created : s = thr[t].s /\ sess[s] \in SessionT /\ Top(t).s = s /\ Running(s)
    BY <1>1, WholeTop
  <2>2. PICK S : S = [sess[s] EXCEPT !.nodes = @ \o Refused(Top(t))]
    OBVIOUS
  <2>3. S.status = sess[s].status /\ S.cancel = sess[s].cancel /\ S.late = sess[s].late
    BY <2>1, <2>2 DEF SessionT
  <2>4. sess' = [sess EXCEPT ![s] = S]
    BY <1>3, <2>1, <2>2 DEF CheckStage
  <2>5. Accounted(S, s, thr'[t].stack)
    BY <1>3, <2>1, <2>3 DEF Accounted, MustStop, Stopped, Running
  <2>6. thr[t].stack[Len(thr[t].stack)].s = s
    BY <1>1, <2>1, WholeTop
  <2> QED
    BY <2>4, <2>5, <2>6, AccountsStep DEF WholeInv
<1> QED
  BY <1>2, <1>3

LEMMA UnwindWhole ==
    ASSUME WholeInv, OneThread, NEW t \in Threads, Unwind(t)
    PROVE  Accounts'
<1>1. thr[t].stack # <<>> /\ Open(Top(t))
  BY WholeTop DEF Unwind
<1>2. CASE UNCHANGED sess
  BY <1>1, <1>2, UnwrittenWhole DEF Open
<1>3. CASE sess' = Failed(Top(t))
  <2>1. PICK s : s = thr[t].s /\ s = Top(t).s
    BY <1>1, WholeTop
  <2>2. PICK old \in Seq(NodeT) : old = sess[s].nodes
    BY <1>1, <2>1, WholeTop
  <2>3. PICK mid \in Seq(NodeT) : mid = Marked(old, Top(t).node, "ERROR") /\ NodesKept(old, mid)
    BY <1>1, <2>1, <2>2, WholeTop, MarkKept
  <2>4. PICK more \in Seq(NodeT) : /\ more = Skips(Top(t).c, Top(t).left - 1)
                                   /\ \A k \in DOMAIN more : more[k].st = "SKIPPED"
    <3>1. Top(t).c \in Nat /\ Top(t).left \in Nat
      BY <1>1, WholeTop DEF FrameT
    <3>2. PICK n \in Int : n = Top(t).left - 1
      BY <3>1
    <3>3. PICK more : more = Skips(Top(t).c, n)
      OBVIOUS
    <3>4. more \in Seq(NodeT)
      BY <3>1, <3>3, SkippedNodes
    <3>5. \A k \in DOMAIN more : more[k].st = "SKIPPED"
      BY <3>3 DEF Skips, Node
    <3> QED
      BY <3>2, <3>3, <3>4, <3>5
  <2>5. PICK ns : ns = mid \o more
    OBVIOUS
  <2>6. ns \in Seq(NodeT) /\ NodesKept(old, ns)
    BY <2>3, <2>4, <2>5, ExtendKept, ConcatProperties
  <2>7. sess' = [sess EXCEPT ![s].nodes = ns]
    BY <1>3, <2>1, <2>2, <2>3, <2>4, <2>5 DEF Failed, Marked
  <2> QED
    BY <1>1, <2>1, <2>2, <2>6, <2>7, PlainWhole DEF Open
<1> QED
  BY <1>2, <1>3 DEF Unwind

LEMMA EnterWhole ==
    ASSUME WholeInv, OneThread, NEW t \in Threads, NEW n \in Nat, NEW X \in ThreadT,
           thr[t].pc # "idle", X.stack = thr[t].stack, thr[t].stack # <<>> => Open(Top(t)),
           Enter(t, n, [thr EXCEPT ![t] = X])
    PROVE  Accounts'
<1>1. /\ FlowInv /\ SoloInv /\ thr \in [Threads -> ThreadT] /\ X.stack \in Seq(FrameT)
  BY DEF WholeInv, SoloInv, FlowInv, Types, ThreadT
<1>2. PICK s \in Created : s = thr[t].s /\ engine[thr[t].of].active = s /\ Running(s)
  BY <1>1, SoloFacts
<1>3. s # NoId /\ sess[s] \in SessionT /\ sess[s].chains \in Nat
  <2>1. s # NoId
    BY <1>1, LenProperties DEF Created, NoId, FlowInv, Types
  <2> QED
    BY <1>1, <2>1, SessionFacts DEF SessionT
<1>4. PICK S : S = [sess[s] EXCEPT !.chains = @ + 1]
  OBVIOUS
<1>5. /\ S.nodes = sess[s].nodes /\ S.status = sess[s].status /\ S.cancel = sess[s].cancel
      /\ S.late = sess[s].late /\ S.chains = sess[s].chains + 1
  BY <1>3, <1>4 DEF SessionT
<1>6. sess' = [sess EXCEPT ![s] = S]
  BY <1>2, <1>3, <1>4 DEF Enter
<1>7. thr[t].stack # <<>> => thr[t].stack[Len(thr[t].stack)].s = s
  BY <1>2, WholeTop
<1>8. Accounted(sess[s], s, thr[t].stack) => Accounted(S, s, thr'[t].stack)
  <2>1. CASE Stopped(s)
    BY <1>2, <1>5, <2>1 DEF Accounted, Stopped, Running
  <2>2. CASE ~Stopped(s)
    <3>1. PICK g : g = [s |-> s, c |-> sess[s].chains + 1, left |-> n, node |-> 0, at |-> "input"]
      OBVIOUS
    <3>2. g \in FrameT
      BY <1>1, <1>3, <3>1, SessionFacts DEF FrameT
    <3>3. thr'[t].stack = Append(X.stack, g)
      <4>1. thr' = [[thr EXCEPT ![t] = X] EXCEPT ![t].stack = Append(@, g)]
        BY <1>2, <1>3, <2>2, <3>1 DEF Enter
      <4>2. thr'[t] = [X EXCEPT !.stack = Append(X.stack, g)]
        BY <1>1, <4>1
      <4> QED
        BY <4>2 DEF ThreadT
    <3>4. Entered(thr'[t].stack, s, sess[s].chains + 1)
      <4>1. PICK new : new = Append(X.stack, g)
        OBVIOUS
      <4>2. new # <<>> /\ new[Len(new)] = g
        BY <1>1, <3>2, <4>1, AppendProperties, EmptySeq, LenProperties
      <4> QED
        BY <3>1, <3>3, <4>1, <4>2 DEF Entered
    <3>5. \A c : ~Entered(thr[t].stack, s, c)
      BY WholeTop DEF Entered, Open
    <3>6. \A c \in 1 .. S.chains : c \in 1 .. sess[s].chains \/ c = sess[s].chains + 1
      BY <1>3, <1>5
    <3> QED
      <4>1. /\ NoCut(S) <=> NoCut(sess[s])
            /\ \A c : HasNode(S, c) <=> HasNode(sess[s], c)
        BY <1>5 DEF NoCut, HasNode
      <4>2. Accounted(sess[s], s, thr[t].stack) =>
               NoCut(sess[s]) /\ \A c \in 1 .. sess[s].chains : HasNode(sess[s], c)
        BY <2>2, <3>5 DEF Accounted, Stopped
      <4> QED
        BY <3>4, <3>6, <4>1, <4>2 DEF Accounted
  <2> QED
    BY <2>1, <2>2
<1> QED
  BY <1>6, <1>7, <1>8, AccountsStep DEF WholeInv

LEMMA InsideWhole ==
    ASSUME WholeInv, OneThread, NEW t \in Threads, Inside(t)
    PROVE  Accounts'
<1>0. FlowInv /\ thr \in [Threads -> ThreadT] /\ thr[t] \in ThreadT
  BY DEF WholeInv, SoloInv, FlowInv, Types
<1>1. CASE StartInput(t) \/ StartStage(t)
  BY <1>1, StartNodeWhole DEF StartInput, StartStage, At
<1>2. CASE Arguments(t) \/ EndChain(t)
  BY <1>2, UnwrittenWhole DEF Arguments, EndChain, At
<1>3. CASE FinishInput(t) \/ FinishStage(t)
  BY <1>3, FinishWhole
<1>4. CASE CheckStage(t)
  BY <1>4, CheckStageWhole
<1>5. CASE Unwind(t)
  BY <1>5, UnwindWhole
<1>6. CASE Catch(t) \/ \E e \in Errors : Raise(t, e)
  <2>1. PICK e : thr' = [thr EXCEPT ![t].err = e] /\ UNCHANGED sess
    BY <1>6 DEF Catch, Raise
  <2>2. thr'[t].stack = thr[t].stack
    BY <1>0, <2>1 DEF ThreadT
  <2> QED
    BY <2>1, <2>2 DEF WholeInv, OneThread, Accounts, Created
<1>7. ASSUME NEW n \in 1 .. MaxStages, EnterChain(t, n)
      PROVE  Accounts'
  <2>1. /\ thr[t].todo \in Nat /\ thr[t].todo > 0 /\ thr[t].stack = <<>>
        /\ thr[t].pc # "idle" /\ n \in Nat
    BY <1>0, <1>7, FlowAssumption DEF EnterChain, InProgram, ThreadT
  <2>2. PICK m \in Nat : m = thr[t].todo - 1
    BY <2>1
  <2>3. PICK X : X = [thr[t] EXCEPT !.todo = m]
    OBVIOUS
  <2>4. X \in ThreadT /\ X.stack = thr[t].stack
    BY <1>0, <2>3 DEF ThreadT
  <2>5. Enter(t, n, [thr EXCEPT ![t] = X])
    BY <1>7, <2>2, <2>3 DEF EnterChain
  <2> QED
    BY <2>1, <2>4, <2>5, EnterWhole
<1>8. ASSUME NEW n \in 1 .. MaxStages, EnterInner(t, n)
      PROVE  Accounts'
  <2>1. /\ thr[t].stack # <<>> /\ Open(Top(t)) /\ Enter(t, n, thr) /\ n \in Nat
    BY <1>8, FlowAssumption DEF EnterInner, Open
  <2>2. PICK X : X = thr[t]
    OBVIOUS
  <2>3. thr = [thr EXCEPT ![t] = X]
    BY <1>0, <2>2
  <2>4. Enter(t, n, [thr EXCEPT ![t] = X])
    BY <2>1, <2>3
  <2>5. thr[t].pc # "idle"
    BY <1>0, <2>1, TopFacts
  <2> QED
    BY <1>0, <2>1, <2>2, <2>4, <2>5, EnterWhole
<1> QED
  BY <1>1, <1>2, <1>3, <1>4, <1>5, <1>6, <1>7, <1>8 DEF Inside

\* Only Raise gives a thread an exception, inside a chain that has its node.
LEMMA UnwindsNext ==
    ASSUME WholeInv, OneThread, [Next]_vars
    PROVE  UnwindsOpen'
<1>0. FlowInv /\ thr \in [Threads -> ThreadT]
  BY DEF WholeInv, SoloInv, FlowInv, Types
<1>1. CASE UNCHANGED thr
  BY <1>1 DEF WholeInv, UnwindsOpen
<1>2. ASSUME NEW t \in Threads, thr'[t].err = "none"
      PROVE  UnwindsOpen'
  BY <1>2 DEF UnwindsOpen, OneThread
<1>3. ASSUME NEW t \in Threads, Unwind(t)
      PROVE  UnwindsOpen'
  <2>1. thr[t].stack # <<>> /\ thr' = Pop(t)
    BY <1>3 DEF Unwind
  <2>2. PICK new \in Seq(FrameT) : new = Front(thr[t].stack) /\ \A k \in DOMAIN new : Open(new[k])
    <3>1. /\ thr[t].stack \in Seq(FrameT)
          /\ \A k \in DOMAIN thr[t].stack : k # Len(thr[t].stack) => Open(thr[t].stack[k])
      BY <1>0, <2>1, StopTop DEF WholeInv
    <3> QED
      BY <2>1, <3>1, FrontFacts
  <2>3. new # <<>> => Len(new) \in DOMAIN new
    BY EmptySeq, LenProperties
  <2>4. thr'[t].stack = new
    <3>1. thr'[t] = [thr[t] EXCEPT !.stack = new]
      BY <1>0, <2>1, <2>2 DEF Pop
    <3> QED
      BY <1>0, <3>1 DEF ThreadT
  <2> QED
    BY <2>2, <2>3, <2>4 DEF UnwindsOpen, OneThread
<1>4. ASSUME NEW t \in Threads, NEW e \in Errors, Raise(t, e)
      PROVE  UnwindsOpen'
  <2>1. thr[t].stack # <<>> /\ Open(Top(t)) /\ thr' = [thr EXCEPT ![t].err = e]
    BY <1>4 DEF Raise, Open
  <2>2. thr'[t].stack = thr[t].stack
    BY <1>0, <2>1 DEF ThreadT
  <2> QED
    BY <2>1, <2>2, WholeTop DEF UnwindsOpen, OneThread
<1>5. ASSUME NEW t \in Threads, Register(t)
      PROVE  UnwindsOpen'
  <2>1. thr'[t].err = thr[t].err /\ thr'[t].stack = thr[t].stack
    BY <1>0, <1>5 DEF Register, ThreadT
  <2> QED
    BY <2>1 DEF WholeInv, UnwindsOpen, OneThread
<1>6. ASSUME NEW t \in Threads, NEW i, NEW pc, Create(t, i, pc)
      PROVE  thr'[t].err = "none"
  BY <1>0, <1>6 DEF Create, Idle
<1>7. ASSUME NEW t \in Threads, End(t) \/ Leak(t)
      PROVE  thr'[t].err = "none"
  BY <1>0, <1>7 DEF End, Leak, Idle
<1>8. ASSUME NEW t \in Threads, NEW f,
             thr[t].err = "none", thr' = [thr EXCEPT ![t].stack = f]
      PROVE  thr'[t].err = "none"
  BY <1>0, <1>8 DEF ThreadT
<1>9. ASSUME NEW t \in Threads,
             \/ StartInput(t) \/ FinishInput(t) \/ CheckStage(t) \/ StartStage(t) \/ Arguments(t)
             \/ FinishStage(t) \/ EndChain(t)
      PROVE  thr'[t].err = "none"
  <2>1. thr[t].err = "none" /\ \E f : thr' = [thr EXCEPT ![t].stack = f]
    BY <1>9 DEF StartInput, FinishInput, CheckStage, StartStage, Arguments, FinishStage, EndChain,
       StartNode, Goto, WithTop, Pop, At, Working
  <2> QED
    BY <1>8, <2>1
<1>10. ASSUME NEW t \in Threads, Catch(t)
       PROVE  thr'[t].err = "none"
  BY <1>0, <1>10 DEF Catch, ThreadT
<1>11. ASSUME NEW t \in Threads, NEW n, EnterChain(t, n) \/ EnterInner(t, n)
       PROVE  thr'[t].err = "none"
  <2>1. thr[t].err = "none"
    BY <1>11 DEF EnterChain, EnterInner, InProgram, Working
  <2>2. PICK X : /\ X \in {thr[t], [thr[t] EXCEPT !.todo = @ - 1]}
                 /\ \/ thr' = [thr EXCEPT ![t] = X]
                    \/ \E f : thr' = [[thr EXCEPT ![t] = X] EXCEPT ![t].stack = f]
    <3>1. CASE EnterChain(t, n)
      BY <3>1 DEF EnterChain, Enter
    <3>2. CASE EnterInner(t, n)
      <4>1. thr = [thr EXCEPT ![t] = thr[t]]
        BY <1>0
      <4>2. thr' = thr \/ \E f : thr' = [thr EXCEPT ![t].stack = f]
        BY <3>2 DEF EnterInner, Enter
      <4> QED
        BY <4>1, <4>2
    <3> QED
      BY <1>11, <3>1, <3>2
  <2> QED
    BY <1>0, <2>1, <2>2 DEF ThreadT
<1>12. ASSUME NEW t \in Threads, Judge(t)
       PROVE  UnwindsOpen'
  <2>1. PICK X \in ThreadT : JudgedAs(t, X)
    BY <1>0, <1>12, JudgeKeeps
  <2>2. thr'[t].stack = <<>>
    BY <1>0, <2>1 DEF JudgedAs
  <2> QED
    BY <2>2 DEF UnwindsOpen, OneThread
<1>13. ASSUME NEW t \in Threads, Inside(t)
       PROVE  UnwindsOpen'
  BY <1>2, <1>3, <1>4, <1>9, <1>10, <1>11, <1>13 DEF Inside
<1>14. ASSUME NEW t \in Threads, Outside(t)
       PROVE  UnwindsOpen'
  BY <1>1, <1>2, <1>5, <1>6, <1>7, <1>12, <1>14 DEF Outside, Crash, Replay, ReplayOf, Run
<1> QED
  BY <1>1, <1>13, <1>14, NextSteps DEF CancelLook, CancelSet, Deadline, vars

-----------------------------------------------------------------------------
(* The steps around a flow                                                 *)

LEMMA CreateWhole ==
    ASSUME WholeInv, OneThread, NEW t \in Threads, NEW i, NEW pc, Create(t, i, pc)
    PROVE  Accounts'
<1>1. thr \in [Threads -> ThreadT] /\ sess \in Seq(SessionT) /\ Len(sess) \in Nat
  BY LenProperties DEF WholeInv, SoloInv, FlowInv, Types
<1>2. thr[t].stack = <<>>
  BY DEF Create, WholeInv, SoloInv
<1>3. PICK S : S = NewSession(i)
  OBVIOUS
<1>4. \A stack : Accounted(S, Len(sess) + 1, stack)
  BY <1>3 DEF NewSession, Accounted, NoCut
<1>5. sess' = Append(sess, S)
  BY <1>3 DEF Create
<1>6. \A id \in DOMAIN sess' : (id = Len(sess) + 1 /\ sess'[id] = S)
                               \/ (id \in DOMAIN sess /\ sess'[id] = sess[id])
  BY <1>1, <1>5
<1>7. \A id \in Created : Accounted(sess[id], id, <<>>)
  BY <1>2 DEF WholeInv, Accounts, OneThread
<1>8. thr'[t].stack = <<>>
  <2>1. thr'[t] = [Idle EXCEPT !.pc = pc, !.s = NextId, !.of = i]
    BY <1>1 DEF Create
  <2> QED
    BY <2>1 DEF Idle
<1>9. \A id \in Created' : Accounted(sess'[id], id, thr'[t].stack)
  BY <1>4, <1>6, <1>7, <1>8 DEF Created
<1> QED
  BY <1>9 DEF Accounts

LEMMA EndWhole ==
    ASSUME WholeInv, OneThread, NEW t \in Threads, End(t)
    PROVE  Accounts'
<1>1. /\ FlowInv /\ SoloInv /\ Settled /\ thr \in [Threads -> ThreadT] /\ thr[t].pc = "ending"
      /\ thr[t].stack = <<>>
  <2>1. /\ FlowInv /\ SoloInv /\ Settled /\ thr \in [Threads -> ThreadT] /\ thr[t].pc = "ending"
    BY DEF WholeInv, SoloInv, FlowInv, Types, End
  <2>2. CASE thr[t].stack # <<>>
    BY <2>1, <2>2, TopFacts
  <2> QED
    BY <2>1, <2>2
<1>2. PICK s \in Created : s = thr[t].s /\ sess[s] \in SessionT
  BY <1>1, SoloFacts, SessionFacts
<1>3. PICK S : S = [sess[s] EXCEPT !.status = Verdict(s, thr[t].saw, thr[t].err)]
  OBVIOUS
<1>4. /\ S.nodes = sess[s].nodes /\ S.status = Verdict(s, thr[t].saw, thr[t].err) /\ S.cancel = sess[s].cancel
      /\ S.late = sess[s].late /\ S.chains = sess[s].chains
  BY <1>2, <1>3 DEF SessionT
<1>5. S.status = "SUCCESS" => Complete(sess[s])
  <2>1. S.status = "SUCCESS" => ~thr[t].saw /\ ~sess[s].late
    BY <1>4 DEF Verdict
  <2> QED
    BY <1>1, <1>2, <2>1 DEF Settled
<1>6. thr'[t].stack = <<>>
  BY <1>1 DEF End, Idle
<1>7. Accounted(sess[s], s, thr[t].stack) => Accounted(S, s, thr'[t].stack)
  BY <1>1, <1>4, <1>5, <1>6 DEF Accounted, NoCut, HasNode, Complete
<1>8. sess' = [sess EXCEPT ![s] = S]
  BY <1>2, <1>3 DEF End
<1> QED
  BY <1>1, <1>7, <1>8, AccountsStep DEF WholeInv

\* A step that writes no session and leaves the stack alone, or empty.
LEMMA StillWhole ==
    ASSUME WholeInv, OneThread, UNCHANGED sess, \A t \in Threads : thr'[t].stack = thr[t].stack
    PROVE  Accounts'
BY DEF WholeInv, Accounts, Created

LEMMA OutsideWhole ==
    ASSUME WholeInv, OneThread, NEW t \in Threads, Outside(t)
    PROVE  Accounts'
<1>0. thr \in [Threads -> ThreadT]
  BY DEF WholeInv, SoloInv, FlowInv, Types
<1>1. CASE Register(t)
  <2>1. \A u \in Threads : thr'[u].stack = thr[u].stack
    BY <1>0, <1>1 DEF Register, ThreadT
  <2> QED
    BY <1>1, <2>1, StillWhole DEF Register
<1>2. CASE Leak(t)
  <2>1. \A u \in Threads : thr'[u].stack = thr[u].stack
    BY <1>0, <1>2 DEF Leak, Over, Idle, OneThread
  <2> QED
    BY <1>2, <2>1, StillWhole DEF Leak
<1>3. CASE Crash(t)
  BY <1>3, StillWhole DEF Crash
<1>4. CASE Replay(t) \/ \E i \in Interps : Run(t, i)
  BY <1>4, CreateWhole DEF Run, Replay, ReplayOf
<1>5. CASE Judge(t)
  <2>1. FlowInv
    BY DEF WholeInv, SoloInv
  <2>2. PICK X \in ThreadT : JudgedAs(t, X)
    BY <1>5, <2>1, JudgeKeeps
  <2>3. UNCHANGED sess /\ \A u \in Threads : thr'[u].stack = thr[u].stack
    BY <1>0, <2>2 DEF JudgedAs
  <2> QED
    BY <2>3, StillWhole
<1> QED
  BY <1>1, <1>2, <1>3, <1>4, <1>5, EndWhole DEF Outside

\* A flag that goes up takes a flow that runs out of the claim, and changes nothing of one that ended.
LEMMA FlagWhole ==
    ASSUME WholeInv, UNCHANGED thr, NEW s \in Created,
           sess' = [sess EXCEPT ![s].cancel = TRUE] \/ sess' = [sess EXCEPT ![s].late = TRUE]
    PROVE  Accounts'
<1>1. FlowInv /\ sess[s] \in SessionT
  BY SessionFacts DEF WholeInv, SoloInv
<1>2. PICK S \in {[sess[s] EXCEPT !.cancel = TRUE], [sess[s] EXCEPT !.late = TRUE]} :
         sess' = [sess EXCEPT ![s] = S]
  OBVIOUS
<1>3. /\ S.nodes = sess[s].nodes /\ S.status = sess[s].status /\ S.chains = sess[s].chains
      /\ (sess[s].cancel \/ sess[s].late) => (S.cancel \/ S.late)
  BY <1>1, <1>2 DEF SessionT
<1>4. \A stack : Accounted(sess[s], s, stack) => Accounted(S, s, stack)
  BY <1>3 DEF Accounted, NoCut, HasNode
<1>5. Created' = Created /\ sess'[s] = S /\ \A id \in Created : id # s => sess'[id] = sess[id]
  BY <1>2 DEF Created
<1>6. ASSUME NEW id \in Created
      PROVE  \E t \in Threads : Accounted(sess'[id], id, thr'[t].stack)
  <2>1. PICK t \in Threads : Accounted(sess[id], id, thr[t].stack)
    BY DEF WholeInv, Accounts
  <2>2. Accounted(sess'[id], id, thr'[t].stack)
    BY <1>4, <1>5, <2>1
  <2> QED
    BY <2>2
<1> QED
  BY <1>5, <1>6 DEF Accounts

\* The look at the flag finds every chain in order when the flag is down; nothing that comes
\* between it and the status changes that.
LEMMA SettledNext ==
    ASSUME WholeInv, OneThread, [Next]_vars
    PROVE  Settled'
<1>1. FlowInv /\ SoloInv /\ thr \in [Threads -> ThreadT]
  BY DEF WholeInv, SoloInv, FlowInv, Types
<1>2. ASSUME NEW t \in Threads, thr'[t].pc # "ending"
      PROVE  Settled'
  BY <1>2 DEF Settled, OneThread
<1>3. ASSUME UNCHANGED <<thr, sess>>
      PROVE  Settled'
  BY <1>3 DEF WholeInv, Settled
<1>4. ASSUME NEW t \in Threads, Judge(t)
      PROVE  Settled'
  <2>1. PICK X \in ThreadT : JudgedAs(t, X)
    BY <1>1, <1>4, JudgeKeeps
  <2>2. /\ thr'[t] = X /\ X.s = thr[t].s /\ X.saw = sess[thr[t].s].cancel /\ UNCHANGED sess
        /\ thr[t].stack = <<>> /\ thr[t].pc # "idle"
    BY <1>1, <2>1 DEF JudgedAs
  <2>3. PICK s \in Created : s = thr[t].s
    BY <1>1, <2>2, SoloFacts
  <2>4. Accounted(sess[s], s, <<>>)
    BY <2>2 DEF WholeInv, Accounts, OneThread
  <2>5. (~sess[s].cancel /\ ~sess[s].late) => Complete(sess[s])
    BY <2>4 DEF Accounted, Entered, Complete
  <2> QED
    BY <2>2, <2>3, <2>5 DEF Settled, OneThread
<1>5. ASSUME NEW t \in Threads, Inside(t)
      PROVE  Settled'
  <2>1. thr[t].pc \in {"program", "replay"}
    <3>1. thr[t].stack # <<>> \/ thr[t].pc \in {"program", "replay"}
      BY <1>5 DEF Inside, StartInput, FinishInput, CheckStage, StartStage, Arguments, FinishStage,
         EndChain, Unwind, Catch, Raise, EnterChain, EnterInner, At, InProgram
    <3> QED
      BY <1>1, <3>1, TopFacts
  <2>2. thr'[t].pc = thr[t].pc
    BY <1>1, <1>5, InsideSolo DEF SoloStep, SameFlow
  <2> QED
    BY <1>2, <2>1, <2>2
<1>6. ASSUME NEW t \in Threads, Outside(t), ~Judge(t)
      PROVE  Settled'
  <2>1. CASE Register(t)
    <3>1. PICK pc : pc = IF thr[t].pc = "started" THEN "program" ELSE "replay"
      OBVIOUS
    <3>2. thr'[t].pc = pc
      BY <1>1, <2>1, <3>1 DEF Register, ThreadT
    <3> QED
      BY <1>2, <3>1, <3>2
  <2>2. CASE End(t) \/ Leak(t)
    <3>1. thr'[t].pc = "idle"
      BY <1>1, <2>2 DEF End, Leak, Idle
    <3> QED
      BY <1>2, <3>1
  <2>3. CASE Crash(t)
    BY <1>3, <2>3 DEF Crash
  <2>4. ASSUME NEW i, NEW pc \in {"started", "replaying"}, Create(t, i, pc)
        PROVE  Settled'
    <3>1. thr'[t].pc = pc
      BY <1>1, <2>4 DEF Create, Idle
    <3> QED
      BY <1>2, <3>1
  <2> QED
    BY <1>6, <2>1, <2>2, <2>3, <2>4 DEF Outside, Run, Replay, ReplayOf
<1>7. ASSUME UNCHANGED thr, NEW s \in Created,
             sess' = [sess EXCEPT ![s].cancel = TRUE] \/ sess' = [sess EXCEPT ![s].late = TRUE]
      PROVE  Settled'
  <2> SUFFICES ASSUME NEW t \in Threads, thr[t].pc = "ending", ~thr[t].saw, ~sess'[thr[t].s].late
               PROVE  Complete(sess'[thr[t].s])
    BY <1>7 DEF Settled
  <2>1. PICK id \in Created : id = thr[t].s /\ sess[id] \in SessionT
    BY <1>1, SoloFacts, SessionFacts
  <2>2. /\ sess'[id].nodes = sess[id].nodes /\ sess'[id].chains = sess[id].chains
        /\ sess[id].late => sess'[id].late
    <3>1. PICK S \in {[sess[s] EXCEPT !.cancel = TRUE], [sess[s] EXCEPT !.late = TRUE]} :
             sess' = [sess EXCEPT ![s] = S]
      BY <1>7
    <3>2. sess[s] \in SessionT
      BY <1>1, SessionFacts
    <3>3. /\ S.nodes = sess[s].nodes /\ S.chains = sess[s].chains
          /\ sess[s].late => S.late
      BY <3>1, <3>2 DEF SessionT
    <3>4. sess'[id] = IF id = s THEN S ELSE sess[id]
      BY <3>1 DEF Created
    <3> QED
      BY <3>3, <3>4
  <2>3. Complete(sess[id])
    BY <2>1, <2>2 DEF WholeInv, Settled
  <2> QED
    BY <2>1, <2>2, <2>3 DEF Complete, NoCut, HasNode
<1>8. CASE CancelSet
  <2>1. asked \in Created
    BY <1>1, <1>8 DEF CancelSet, FlowInv, Links
  <2> QED
    BY <1>7, <1>8, <2>1 DEF CancelSet
<1>9. CASE Deadline
  <2>1. PICK id \in Created : sess' = [sess EXCEPT ![id].late = TRUE]
    BY <1>9 DEF Deadline
  <2> QED
    BY <1>7, <1>9, <2>1 DEF Deadline
<1>10. CASE UNCHANGED vars \/ CancelLook
  BY <1>3, <1>10 DEF vars, CancelLook
<1> QED
  BY <1>4, <1>5, <1>6, <1>8, <1>9, <1>10, NextSteps

LEMMA WholeNext ==
    ASSUME WholeInv, OneThread, [Next]_vars
    PROVE  WholeInv'
<1>1. SoloInv' /\ StopInv' /\ UnwindsOpen' /\ Settled'
  BY SoloNext, StopNext, UnwindsNext, SettledNext DEF WholeInv, SoloInv
<1>2. ASSUME UNCHANGED vars \/ CancelLook
      PROVE  Accounts'
  BY <1>2, StillWhole DEF vars, CancelLook
<1>3. ASSUME CancelSet
      PROVE  Accounts'
  <2>1. asked \in Created
    BY <1>3 DEF CancelSet, WholeInv, SoloInv, FlowInv, Links
  <2> QED
    BY <1>3, <2>1, FlagWhole DEF CancelSet
<1>4. ASSUME Deadline
      PROVE  Accounts'
  <2>1. PICK id \in Created : sess' = [sess EXCEPT ![id].late = TRUE]
    BY <1>4 DEF Deadline
  <2> QED
    BY <1>4, <2>1, FlagWhole DEF Deadline
<1>5. Accounts'
  BY <1>2, <1>3, <1>4, NextSteps, InsideWhole, OutsideWhole
<1> QED
  BY <1>1, <1>5 DEF WholeInv

\* With one flow thread a flow that reports SUCCESS was stopped nowhere: every chain it came to has
\* its nodes and none of them was cancelled or timed out, although a flag may go up between the
\* look at it and the status. Nodes that an exception left RUNNING count: the program may have
\* caught it, or ended with exit(0) (runProgramAsFlow, evaluatePipelineFlow).
THEOREM SuccessMeansComplete ==
    ASSUME OneThread
    PROVE  Spec => []SuccessIsComplete
<1>1. Init => WholeInv
  <2> SUFFICES ASSUME Init
               PROVE  WholeInv
    OBVIOUS
  <2>1. StopInv /\ Accounts /\ UnwindsOpen /\ Settled
    BY DEF Init, StopInv, Created, Idle, StackOK, Accounts, UnwindsOpen, Settled
  <2> QED
    BY <2>1, SoloInit DEF WholeInv
<1>2. WholeInv /\ [Next]_vars => WholeInv'
  BY WholeNext
<1>3. WholeInv => SuccessIsComplete
  <2> SUFFICES ASSUME WholeInv, NEW id \in Created, sess[id].status = "SUCCESS",
                      NEW c \in 1 .. sess[id].chains
               PROVE  Uncut(id, c)
    BY DEF SuccessIsComplete
  <2>1. PICK t \in Threads : Accounted(sess[id], id, thr[t].stack)
    BY DEF WholeInv, Accounts
  <2>2. ~Entered(thr[t].stack, id, c)
    BY WholeTop DEF Entered, Running
  <2> QED
    BY <2>1, <2>2 DEF Accounted, NoCut, HasNode, Uncut
<1> QED
  BY <1>1, <1>2, <1>3, PTL DEF Spec

=============================================================================
