-------------------------- MODULE FlowEngineProofs --------------------------
(***************************************************************************)
(* Proofs about FlowEngine, for every set of threads and interpreters,     *)
(* every size of the two histories and every host.                         *)
(***************************************************************************)
EXTENDS FlowEngine, SequenceTheorems, FiniteSetTheorems, TLAPS

-----------------------------------------------------------------------------
(* What the two histories keep when they are trimmed                       *)

LEMMA SetOfSeq ==
    ASSUME NEW S, NEW list \in Seq(S)
    PROVE  /\ DOMAIN list = 1 .. Len(list) /\ Len(list) \in Nat
           /\ \A x : x \in ToSet(list) <=> \E j \in 1 .. Len(list) : list[j] = x
           /\ IsInjective(list) <=> \A a, b \in 1 .. Len(list) : list[a] = list[b] => a = b
<1>1. DOMAIN list = 1 .. Len(list) /\ Len(list) \in Nat
  BY LenProperties
<1> QED
  BY <1>1, Zenon DEF ToSet, IsInjective

LEMMA TrimmedKeeps ==
    ASSUME NEW S, NEW list \in Seq(S), NEW run, NEW cap, NEW rest \in Trimmed(list, run, cap)
    PROVE  /\ rest \in Seq(S)
           /\ ToSet(rest) \subseteq ToSet(list)
           /\ ToSet(list) \cap run \subseteq ToSet(rest)
           /\ IsInjective(list) => IsInjective(rest)
<1>1. PICK k \in 0 .. Len(list) : rest = SubSeq(list, k + 1, Len(list)) /\ Dropped(list, run, cap, k)
  BY DEF Trimmed
<1>2. /\ rest \in Seq(S) /\ Len(rest) = Len(list) - k
      /\ \A j \in 1 .. Len(list) - k : rest[j] = list[k + j]
  <2>1. /\ SubSeq(list, k + 1, Len(list)) \in Seq(S)
        /\ Len(SubSeq(list, k + 1, Len(list))) = IF k + 1 <= Len(list) THEN Len(list) - (k + 1) + 1 ELSE 0
        /\ \A j \in 1 .. Len(list) - (k + 1) + 1 : SubSeq(list, k + 1, Len(list))[j] = list[k + 1 + j - 1]
    <3>1. \A j \in k + 1 .. Len(list) : list[j] \in S
      BY ElementOfSeq
    <3> QED
      BY <3>1, SubSeqProperties
  <2> QED
    BY <1>1, <2>1
<1>3. Len(list) \in Nat
  BY SetOfSeq
<1>4. ToSet(list) \cap run \subseteq ToSet(rest)
  <2> SUFFICES ASSUME NEW n \in 1 .. Len(list), list[n] \in run
               PROVE  list[n] \in ToSet(rest)
    BY SetOfSeq
  <2>1. n > k
    <3>1. \A j \in 1 .. k : list[j] \notin run
      BY <1>1 DEF Dropped
    <3> QED
      BY <1>3, <3>1
  <2>2. n - k \in 1 .. Len(rest) /\ rest[n - k] = list[n]
    BY <1>2, <1>3, <2>1
  <2> QED
    BY <1>2, <2>2, SetOfSeq
<1>5. ToSet(rest) \subseteq ToSet(list)
  <2>1. \A j \in 1 .. Len(rest) : k + j \in 1 .. Len(list) /\ rest[j] = list[k + j]
    BY <1>2, <1>3
  <2> QED
    BY <1>2, <2>1, SetOfSeq
<1>6. IsInjective(list) => IsInjective(rest)
  <2> SUFFICES ASSUME IsInjective(list),
                      NEW a \in 1 .. Len(rest), NEW b \in 1 .. Len(rest), rest[a] = rest[b]
               PROVE  a = b
    BY <1>2, SetOfSeq
  <2>1. k + a \in 1 .. Len(list) /\ k + b \in 1 .. Len(list) /\ list[k + a] = list[k + b]
    BY <1>2, <1>3
  <2>2. k + a = k + b
    BY <2>1, SetOfSeq
  <2> QED
    BY <2>2
<1> QED
  BY <1>2, <1>4, <1>5, <1>6

LEMMA AppendSet ==
    ASSUME NEW S, NEW list \in Seq(S), NEW e \in S
    PROVE  /\ Append(list, e) \in Seq(S)
           /\ ToSet(Append(list, e)) = ToSet(list) \cup {e}
           /\ (IsInjective(list) /\ e \notin ToSet(list)) => IsInjective(Append(list, e))
<1>1. /\ DOMAIN list = 1 .. Len(list) /\ Len(list) \in Nat
      /\ DOMAIN Append(list, e) = 1 .. Len(list) + 1 /\ Append(list, e) \in Seq(S)
      /\ \A j \in 1 .. Len(list) : Append(list, e)[j] = list[j]
      /\ Append(list, e)[Len(list) + 1] = e
  BY LenProperties, AppendProperties
<1>2. ToSet(Append(list, e)) = ToSet(list) \cup {e}
  <2>1. \A j \in 1 .. Len(list) + 1 : j \in 1 .. Len(list) \/ j = Len(list) + 1
    BY <1>1
  <2>2. Len(list) + 1 \in 1 .. Len(list) + 1 /\ 1 .. Len(list) \subseteq 1 .. Len(list) + 1
    BY <1>1
  <2> QED
    BY <1>1, <2>1, <2>2, Zenon DEF ToSet
<1>3. (IsInjective(list) /\ e \notin ToSet(list)) => IsInjective(Append(list, e))
  <2>1. \A j \in 1 .. Len(list) + 1 : j \in 1 .. Len(list) \/ j = Len(list) + 1
    BY <1>1
  <2> SUFFICES ASSUME IsInjective(list), e \notin ToSet(list),
                      NEW a \in 1 .. Len(list) + 1, NEW b \in 1 .. Len(list) + 1,
                      Append(list, e)[a] = Append(list, e)[b]
               PROVE  a = b
    BY <1>1 DEF IsInjective
  <2> QED
    BY <1>1, <2>1 DEF IsInjective, ToSet
<1> QED
  BY <1>1, <1>2, <1>3

LEMMA HeadAndTail ==
    ASSUME NEW S, NEW list \in Seq(S), NEW t \in Seq(S), NEW h, Len(list) = Len(t) + 1,
           list[1] = h, \A j \in 1 .. Len(t) : list[j + 1] = t[j]
    PROVE  /\ ToSet(list) = ToSet(t) \cup {h}
           /\ IsInjective(list) => IsInjective(t) /\ h \notin ToSet(t)
<1>1. /\ \A x : x \in ToSet(list) <=> \E j \in 1 .. Len(list) : list[j] = x
      /\ \A x : x \in ToSet(t) <=> \E j \in 1 .. Len(t) : t[j] = x
  BY SetOfSeq
<1>2. Len(t) \in Nat /\ 1 \in 1 .. Len(list) /\ \A j \in 1 .. Len(t) : j + 1 \in 1 .. Len(list) /\ j + 1 # 1
  BY SetOfSeq
<1>3. \A j \in 1 .. Len(list) : j = 1 \/ \E n \in 1 .. Len(t) : j = n + 1
  <2> SUFFICES ASSUME NEW j \in 1 .. Len(list), j # 1
               PROVE  \E n \in 1 .. Len(t) : j = n + 1
    OBVIOUS
  <2> WITNESS j - 1 \in 1 .. Len(t)
  <2> QED
    BY <1>2
<1>4. ToSet(list) = ToSet(t) \cup {h}
  <2>1. ASSUME NEW x \in ToSet(list)
        PROVE  x \in ToSet(t) \/ x = h
    <3>1. PICK j \in 1 .. Len(list) : list[j] = x
      BY <1>1, <2>1
    <3>2. ASSUME NEW n \in 1 .. Len(t), j = n + 1
          PROVE  x \in ToSet(t)
      <4>1. t[n] = x
        BY <3>1, <3>2
      <4> QED
        BY <1>1, <4>1
    <3> QED
      BY <1>3, <3>1, <3>2
  <2>2. h \in ToSet(list)
    BY <1>1, <1>2
  <2>3. ASSUME NEW x \in ToSet(t)
        PROVE  x \in ToSet(list)
    <3>1. PICK j \in 1 .. Len(t) : t[j] = x
      BY <1>1, <2>3
    <3>2. j + 1 \in 1 .. Len(list) /\ list[j + 1] = x
      BY <1>2, <3>1
    <3> QED
      BY <1>1, <3>2
  <2> QED
    BY <2>1, <2>2, <2>3
<1>5. ASSUME IsInjective(list)
      PROVE  IsInjective(t) /\ h \notin ToSet(t)
  <2>1. \A a, b \in 1 .. Len(list) : list[a] = list[b] => a = b
    BY <1>5, SetOfSeq
  <2>2. h \notin ToSet(t)
    BY <1>1, <1>2, <2>1
  <2>3. \A a, b \in 1 .. Len(t) : t[a] = t[b] => a = b
    <3> SUFFICES ASSUME NEW a \in 1 .. Len(t), NEW b \in 1 .. Len(t), t[a] = t[b]
                 PROVE  a = b
      OBVIOUS
    <3>1. a + 1 = b + 1
      BY <1>2, <2>1
    <3> QED
      BY <3>1
  <2> QED
    BY <2>2, <2>3, SetOfSeq
<1> QED
  BY <1>4, <1>5

LEMMA FrontFacts ==
    ASSUME NEW S, NEW list \in Seq(S), list # <<>>
    PROVE  /\ Front(list) \in Seq(S)
           /\ \A k \in DOMAIN Front(list) : k \in DOMAIN list /\ k # Len(list) /\ Front(list)[k] = list[k]
<1>1. Len(list) \in Nat \ {0} /\ DOMAIN list = 1 .. Len(list) /\ \A k \in 1 .. Len(list) : list[k] \in S
  BY EmptySeq, LenProperties, ElementOfSeq
<1>2. \A k \in 1 .. Len(list) - 1 : list[k] \in S
  BY <1>1
<1>3. /\ SubSeq(list, 1, Len(list) - 1) \in Seq(S)
      /\ Len(SubSeq(list, 1, Len(list) - 1)) = IF 1 <= Len(list) - 1 THEN Len(list) - 1 - 1 + 1 ELSE 0
      /\ \A i \in 1 .. Len(list) - 1 - 1 + 1 : SubSeq(list, 1, Len(list) - 1)[i] = list[1 + i - 1]
  BY <1>1, <1>2, SubSeqProperties
<1>4. PICK front \in Seq(S) : front = Front(list)
  BY <1>3 DEF Front
<1>5. Len(front) = Len(list) - 1 /\ \A k \in 1 .. Len(list) - 1 : front[k] = list[k]
  BY <1>1, <1>3, <1>4 DEF Front
<1>6. DOMAIN front = 1 .. Len(list) - 1
  BY <1>5, LenProperties
<1> QED
  BY <1>1, <1>4, <1>5, <1>6

LEMMA MovedBackKeeps ==
    ASSUME NEW S, NEW list \in Seq(S), list # <<>>
    PROVE  /\ MovedBack(list) \in Seq(S)
           /\ ToSet(MovedBack(list)) = ToSet(list)
           /\ IsInjective(list) => IsInjective(MovedBack(list))
<1>1. PICK t : t = Tail(list)
  OBVIOUS
<1>2. PICK h : h = Head(list)
  OBVIOUS
<1>3. /\ t \in Seq(S) /\ h \in S /\ Len(list) = Len(t) + 1 /\ list[1] = h
      /\ \A j \in 1 .. Len(t) : list[j + 1] = t[j]
  <2>1. Len(list) \in Nat /\ list[1] = Head(list)
    BY LenProperties
  <2> QED
    BY <1>1, <1>2, <2>1, HeadTailProperties
<1>4. /\ ToSet(list) = ToSet(t) \cup {h}
      /\ IsInjective(list) => IsInjective(t) /\ h \notin ToSet(t)
  BY <1>3, HeadAndTail
<1>5. /\ Append(t, h) \in Seq(S) /\ ToSet(Append(t, h)) = ToSet(t) \cup {h}
      /\ (IsInjective(t) /\ h \notin ToSet(t)) => IsInjective(Append(t, h))
  BY <1>3, AppendSet
<1>6. MovedBack(list) = Append(t, h)
  BY <1>1, <1>2 DEF MovedBack
<1> QED
  BY <1>4, <1>5, <1>6

LEMMA KeptKeeps ==
    ASSUME NEW list \in Seq(Nat), NEW rest \in Kept(list)
    PROVE  /\ rest \in Seq(Nat)
           /\ ToSet(rest) \subseteq ToSet(list)
           /\ ToSet(list) \cap RunningIds \subseteq ToSet(rest)
           /\ IsInjective(list) => IsInjective(rest)
<1>1. PICK r \in Trimmed(list, RunningIds, MaxKept) :
         rest = IF Len(r) > MaxKept THEN MovedBack(r) ELSE r
  BY DEF Kept
<1>2. /\ r \in Seq(Nat) /\ ToSet(r) \subseteq ToSet(list)
      /\ ToSet(list) \cap RunningIds \subseteq ToSet(r)
      /\ IsInjective(list) => IsInjective(r)
  BY <1>1, TrimmedKeeps
<1>3. CASE Len(r) > MaxKept
  <2>1. r # <<>>
    BY <1>3, FlowAssumption, EmptySeq
  <2> QED
    BY <1>1, <1>2, <1>3, <2>1, MovedBackKeeps
<1>4. CASE ~(Len(r) > MaxKept)
  BY <1>1, <1>2, <1>4
<1> QED
  BY <1>3, <1>4

-----------------------------------------------------------------------------
(* The inductive invariant                                                 *)

NodeT == [c : Nat, st : NodeStatus]
SessionT ==
    [of : Interps, status : SessionStatus, cancel : BOOLEAN, late : BOOLEAN,
     nodes : Seq(NodeT), chains : Nat, extra : Nat]
EngineT == [order : Seq(Nat), active : Nat, used : BOOLEAN]
FrameT ==
    [s : Nat, c : Nat, left : Nat, node : Nat,
     at : {"input", "evaluate", "check", "stage", "args", "call"}]
ThreadT ==
    [pc : {"idle", "started", "replaying", "program", "replay", "ending"}, s : Nat,
     of : Interps \cup {0}, todo : Nat, err : Errors \cup {"none"}, saw : BOOLEAN,
     stack : Seq(FrameT)]

Types ==
    /\ host \in Hosts
    /\ sess \in Seq(SessionT) /\ Len(sess) <= MaxId
    /\ engine \in [Interps -> EngineT]
    /\ registry \in Seq(Nat)
    /\ thr \in [Threads -> ThreadT]
    /\ asked \in Nat /\ crashed \in BOOLEAN

\* A frame is of a session that exists and, while its input or stage runs, has a node there.
Open(f) == f.at \in {"evaluate", "args", "call"}
FrameOK(f) ==
    /\ f.s \in Created /\ f.node <= Len(sess[f.s].nodes)
    /\ Open(f) => f.node > 0
    /\ f.at \in {"stage", "args", "call"} => f.left > 0

ThreadOK(t) ==
    /\ thr[t].s \in Created \cup {NoId}
    /\ thr[t].pc # "idle" => thr[t].s # NoId /\ thr[t].of \in Interps
    /\ \A k \in DOMAIN thr[t].stack : thr[t].pc \in {"program", "replay"} /\ FrameOK(thr[t].stack[k])

Links ==
    /\ \A t \in Threads : ThreadOK(t)
    /\ asked \in Created \cup {NoId}
    /\ \A i \in Interps : engine[i].active \in Created \cup {NoId} /\ ToSet(engine[i].order) \subseteq Created
    /\ ToSet(registry) \subseteq Created

\* The id of a flow is its own, and enters the registry once.
OneOwner ==
    /\ IsInjective(registry)
    /\ \A t \in Threads : thr[t].pc \in {"started", "replaying"} => thr[t].s \notin ToSet(registry)
    /\ \A t, u \in Threads : t # u /\ thr[t].s # NoId => thr[t].s # thr[u].s

FlowInv == Types /\ Links /\ OneOwner

-----------------------------------------------------------------------------
(* Steps of one thread inside a flow                                       *)

\* What the steps between Register and End have in common: one thread, one session.
Advance(t) ==
    \E X \in ThreadT, id \in Created, S \in SessionT :
        /\ thr' = [thr EXCEPT ![t] = X]
        /\ X.s = thr[t].s /\ X.of = thr[t].of /\ X.pc = thr[t].pc
        /\ \A k \in DOMAIN X.stack : X.pc \in {"program", "replay"} /\ FrameOK(X.stack[k])'
        /\ sess' = [sess EXCEPT ![id] = S]
        /\ S.of = sess[id].of /\ S.status = sess[id].status /\ Len(S.nodes) >= Len(sess[id].nodes)
        /\ UNCHANGED <<host, engine, registry, asked, crashed>>

\* A session that is replaced by one with as many nodes leaves every frame in order.
LEMMA SessionReplaced ==
    ASSUME Types, NEW id \in Created, NEW S \in SessionT, sess' = [sess EXCEPT ![id] = S],
           Len(S.nodes) >= Len(sess[id].nodes)
    PROVE  /\ sess' \in Seq(SessionT) /\ Len(sess') = Len(sess) /\ Created' = Created
           /\ sess'[id] = S /\ \A n \in Created : n # id => sess'[n] = sess[n]
           /\ \A f \in FrameT : FrameOK(f) => FrameOK(f)'
<1>1. sess \in Seq(SessionT) /\ DOMAIN sess = 1 .. Len(sess) /\ id \in 1 .. Len(sess)
  BY LenProperties DEF Types, Created
<1>2. /\ sess' \in Seq(SessionT) /\ Len(sess') = Len(sess) /\ Created' = Created
      /\ sess'[id] = S /\ \A n \in Created : n # id => sess'[n] = sess[n]
  BY <1>1, ExceptSeq DEF Created
<1>3. ASSUME NEW f \in FrameT, FrameOK(f)
      PROVE  FrameOK(f)'
  <2>1. f.s \in Created /\ f.node \in Nat /\ f.node <= Len(sess[f.s].nodes)
    BY <1>3 DEF FrameOK, FrameT
  <2>2. Len(sess'[f.s].nodes) >= Len(sess[f.s].nodes)
        /\ Len(sess'[f.s].nodes) \in Nat /\ Len(sess[f.s].nodes) \in Nat
    <3>1. sess[f.s] \in SessionT /\ sess'[f.s] \in SessionT
      BY <1>1, <1>2, <2>1, ElementOfSeq DEF Created
    <3>2. Len(sess'[f.s].nodes) \in Nat /\ Len(sess[f.s].nodes) \in Nat
      BY <3>1, LenProperties DEF SessionT
    <3> QED
      BY <1>2, <2>1, <3>2
  <2>3. f.s \in Created' /\ f.node <= Len(sess'[f.s].nodes)
    BY <1>2, <2>1, <2>2
  <2> QED
    BY <1>3, <2>3 DEF FrameOK, Open
<1> QED
  BY <1>2, <1>3

LEMMA AdvanceInv ==
    ASSUME FlowInv, NEW t \in Threads, Advance(t)
    PROVE  FlowInv' /\ (RunningReachable => RunningReachable')
<1>1. PICK X \in ThreadT, id \in Created, S \in SessionT :
        /\ thr' = [thr EXCEPT ![t] = X]
        /\ X.s = thr[t].s /\ X.of = thr[t].of /\ X.pc = thr[t].pc
        /\ \A k \in DOMAIN X.stack : X.pc \in {"program", "replay"} /\ FrameOK(X.stack[k])'
        /\ sess' = [sess EXCEPT ![id] = S]
        /\ S.of = sess[id].of /\ S.status = sess[id].status /\ Len(S.nodes) >= Len(sess[id].nodes)
        /\ UNCHANGED <<host, engine, registry, asked, crashed>>
  BY Zenon DEF Advance
<1>2. /\ sess' \in Seq(SessionT) /\ Len(sess') = Len(sess) /\ Created' = Created
      /\ \A n \in Created : sess'[n].status = sess[n].status /\ sess'[n].of = sess[n].of
      /\ \A f \in FrameT : FrameOK(f) => FrameOK(f)'
  BY <1>1, SessionReplaced DEF FlowInv
<1>3. /\ thr' \in [Threads -> ThreadT] /\ thr'[t] = X
      /\ \A u \in Threads : u # t => thr'[u] = thr[u]
      /\ \A u \in Threads : thr'[u].s = thr[u].s /\ thr'[u].pc = thr[u].pc /\ thr'[u].of = thr[u].of
  BY <1>1 DEF FlowInv, Types
<1>4. Types'
  BY <1>1, <1>2, <1>3 DEF FlowInv, Types
<1>5. Links'
  <2>1. ASSUME NEW u \in Threads
        PROVE  ThreadOK(u)'
    <3>1. ThreadOK(u)
      BY DEF FlowInv, Links
    <3>2. CASE u = t
      BY <1>1, <1>2, <1>3, <3>1, <3>2 DEF ThreadOK
    <3>3. CASE u # t
      <4>1. \A k \in DOMAIN thr[u].stack : thr[u].stack[k] \in FrameT
        BY ElementOfSeq, LenProperties DEF FlowInv, Types, ThreadT
      <4> QED
        BY <1>2, <1>3, <3>1, <3>3, <4>1 DEF ThreadOK
    <3> QED
      BY <3>2, <3>3
  <2> QED
    BY <1>1, <1>2, <2>1 DEF FlowInv, Links
<1>6. OneOwner'
  BY <1>1, <1>3 DEF FlowInv, OneOwner
<1>7. ASSUME RunningReachable
      PROVE  RunningReachable'
  BY <1>1, <1>2, <1>3, <1>7 DEF RunningReachable, Running, Registered
<1> QED
  BY <1>4, <1>5, <1>6, <1>7 DEF FlowInv

LEMMA TopFacts ==
    ASSUME FlowInv, NEW t \in Threads, thr[t].stack # <<>>
    PROVE  /\ thr[t].stack \in Seq(FrameT) /\ Len(thr[t].stack) \in Nat \ {0}
           /\ DOMAIN thr[t].stack = 1 .. Len(thr[t].stack)
           /\ thr[t].pc \in {"program", "replay"} /\ thr[t].of \in Interps
           /\ Top(t) \in FrameT /\ FrameOK(Top(t))
           /\ \A k \in DOMAIN thr[t].stack : thr[t].stack[k] \in FrameT /\ FrameOK(thr[t].stack[k])
<1>1. thr[t] \in ThreadT /\ thr[t].stack \in Seq(FrameT) /\ ThreadOK(t)
  BY DEF FlowInv, Types, Links, ThreadT
<1>2. Len(thr[t].stack) \in Nat \ {0} /\ DOMAIN thr[t].stack = 1 .. Len(thr[t].stack)
  BY <1>1, EmptySeq, LenProperties
<1>3. \A k \in DOMAIN thr[t].stack : thr[t].stack[k] \in FrameT /\ FrameOK(thr[t].stack[k])
  BY <1>1, <1>2, ElementOfSeq DEF ThreadOK
<1>4. Len(thr[t].stack) \in DOMAIN thr[t].stack
  BY <1>2
<1> QED
  BY <1>1, <1>2, <1>3, <1>4 DEF ThreadOK, Top, Last

LEMMA SessionFacts ==
    ASSUME FlowInv, NEW id \in Created
    PROVE  /\ id \in Nat /\ sess[id] \in SessionT /\ sess[id].nodes \in Seq(NodeT)
           /\ Len(sess[id].nodes) \in Nat
           /\ sess = [sess EXCEPT ![id] = sess[id]]
<1>1. sess \in Seq(SessionT) /\ id \in 1 .. Len(sess) /\ Len(sess) \in Nat
  BY LenProperties DEF FlowInv, Types, Created
<1>2. sess[id] \in SessionT /\ sess[id].nodes \in Seq(NodeT)
  <2>1. sess[id] \in SessionT
    BY <1>1, ElementOfSeq
  <2> QED
    BY <2>1 DEF SessionT
<1>3. Len(sess[id].nodes) \in Nat
  BY <1>2, LenProperties
<1>4. sess = [sess EXCEPT ![id] = sess[id]]
  BY <1>1, LenProperties
<1> QED
  BY <1>1, <1>2, <1>3, <1>4

LEMMA ReplaceTop ==
    ASSUME FlowInv, NEW t \in Threads, thr[t].stack # <<>>,
           NEW g \in FrameT, NEW id \in Created, NEW S \in SessionT,
           thr' = WithTop(t, g), FrameOK(g)', sess' = [sess EXCEPT ![id] = S],
           S.of = sess[id].of, S.status = sess[id].status, Len(S.nodes) >= Len(sess[id].nodes),
           UNCHANGED <<host, engine, registry, asked, crashed>>
    PROVE  Advance(t)
<1>1. PICK stack : stack = [thr[t].stack EXCEPT ![Len(thr[t].stack)] = g]
  OBVIOUS
<1>2. PICK X : X = [thr[t] EXCEPT !.stack = stack]
  OBVIOUS
<1>3. /\ stack \in Seq(FrameT) /\ DOMAIN stack = DOMAIN thr[t].stack
      /\ \A k \in DOMAIN stack : stack[k] = g \/ stack[k] = thr[t].stack[k]
  <2>1. /\ thr[t].stack \in Seq(FrameT) /\ Len(thr[t].stack) \in Nat \ {0}
        /\ DOMAIN thr[t].stack = 1 .. Len(thr[t].stack)
    BY TopFacts
  <2>2. Len(thr[t].stack) \in 1 .. Len(thr[t].stack)
    BY <2>1
  <2> QED
    BY <1>1, <2>1, <2>2, ExceptSeq, LenProperties
<1>4. /\ X \in ThreadT /\ X.s = thr[t].s /\ X.of = thr[t].of /\ X.pc = thr[t].pc /\ X.stack = stack
      /\ thr' = [thr EXCEPT ![t] = X]
  <2>1. thr[t] \in ThreadT
    BY DEF FlowInv, Types
  <2> QED
    BY <1>1, <1>2, <1>3, <2>1 DEF ThreadT, WithTop
<1>5. \A f \in FrameT : FrameOK(f) => FrameOK(f)'
  BY SessionReplaced DEF FlowInv
<1>6. \A k \in DOMAIN X.stack : X.pc \in {"program", "replay"} /\ FrameOK(X.stack[k])'
  <2> SUFFICES ASSUME NEW k \in DOMAIN stack
               PROVE  X.pc \in {"program", "replay"} /\ FrameOK(stack[k])'
    BY <1>4
  <2>1. thr[t].pc \in {"program", "replay"} /\ thr[t].stack[k] \in FrameT /\ FrameOK(thr[t].stack[k])
    BY <1>3, TopFacts
  <2>2. PICK f \in FrameT : f = stack[k] /\ (f = g \/ FrameOK(f))
    BY <1>3, <2>1
  <2>3. FrameOK(f)'
    BY <1>5, <2>2
  <2> QED
    BY <1>4, <2>1, <2>2, <2>3
<1> QED
  BY <1>4, <1>6 DEF Advance

LEMMA PopTop ==
    ASSUME FlowInv, NEW t \in Threads, thr[t].stack # <<>>,
           NEW id \in Created, NEW S \in SessionT, thr' = Pop(t), sess' = [sess EXCEPT ![id] = S],
           S.of = sess[id].of, S.status = sess[id].status, Len(S.nodes) >= Len(sess[id].nodes),
           UNCHANGED <<host, engine, registry, asked, crashed>>
    PROVE  Advance(t)
<1>1. PICK stack : stack = Front(thr[t].stack)
  OBVIOUS
<1>2. PICK X : X = [thr[t] EXCEPT !.stack = stack]
  OBVIOUS
<1>3. /\ stack \in Seq(FrameT)
      /\ \A k \in DOMAIN stack : k \in DOMAIN thr[t].stack /\ stack[k] = thr[t].stack[k]
  <2>1. thr[t].stack \in Seq(FrameT)
    BY TopFacts
  <2> QED
    BY <1>1, <2>1, FrontFacts
<1>4. /\ X \in ThreadT /\ X.s = thr[t].s /\ X.of = thr[t].of /\ X.pc = thr[t].pc /\ X.stack = stack
      /\ thr' = [thr EXCEPT ![t] = X]
  <2>1. thr[t] \in ThreadT
    BY DEF FlowInv, Types
  <2> QED
    BY <1>1, <1>2, <1>3, <2>1 DEF ThreadT, Pop
<1>5. \A f \in FrameT : FrameOK(f) => FrameOK(f)'
  BY SessionReplaced DEF FlowInv
<1>6. \A k \in DOMAIN X.stack : X.pc \in {"program", "replay"} /\ FrameOK(X.stack[k])'
  <2> SUFFICES ASSUME NEW k \in DOMAIN stack
               PROVE  X.pc \in {"program", "replay"} /\ FrameOK(stack[k])'
    BY <1>4
  <2>1. thr[t].pc \in {"program", "replay"} /\ thr[t].stack[k] \in FrameT /\ FrameOK(thr[t].stack[k])
    BY <1>3, TopFacts
  <2>2. PICK f \in FrameT : f = stack[k] /\ FrameOK(f)
    BY <1>3, <2>1
  <2>3. FrameOK(f)'
    BY <1>5, <2>2
  <2> QED
    BY <1>4, <2>1, <2>2, <2>3
<1> QED
  BY <1>4, <1>6 DEF Advance

LEMMA NodesWritten ==
    ASSUME FlowInv, NEW id \in Created, NEW ns \in Seq(NodeT), NEW e \in Nat
    PROVE  [sess[id] EXCEPT !.nodes = ns, !.extra = e] \in SessionT
<1>1. sess[id] \in SessionT
  BY SessionFacts
<1> QED
  BY <1>1 DEF SessionT

LEMMA NodeEnded ==
    ASSUME FlowInv, NEW id \in Created, NEW n \in 1 .. Len(sess[id].nodes), NEW st \in NodeStatus,
           SetNode(id, n, st)
    PROVE  \E S \in SessionT :
              /\ sess' = [sess EXCEPT ![id] = S] /\ S.of = sess[id].of /\ S.status = sess[id].status
              /\ Len(S.nodes) = Len(sess[id].nodes)
<1>1. /\ sess[id] \in SessionT /\ sess[id].nodes \in Seq(NodeT)
      /\ sess[id].nodes[n] \in NodeT
  BY SessionFacts, ElementOfSeq
<1>2. PICK ns : ns = [sess[id].nodes EXCEPT ![n].st = st]
  OBVIOUS
<1>3. ns \in Seq(NodeT) /\ Len(ns) = Len(sess[id].nodes)
  <2>1. [sess[id].nodes[n] EXCEPT !.st = st] \in NodeT
    BY <1>1 DEF NodeT
  <2> QED
    BY <1>1, <1>2, <2>1, ExceptSeq
<1>4. PICK S : S = [sess[id] EXCEPT !.nodes = ns]
  OBVIOUS
<1>5. S \in SessionT /\ S.of = sess[id].of /\ S.status = sess[id].status /\ S.nodes = ns
  BY <1>1, <1>3, <1>4 DEF SessionT
<1>6. sess' = [sess EXCEPT ![id] = S]
  BY <1>2, <1>4 DEF SetNode
<1> QED
  BY <1>3, <1>5, <1>6

LEMMA StartNodeAdvances ==
    ASSUME FlowInv, NEW t \in Threads, NEW at \in {"evaluate", "args"}, thr[t].stack # <<>>,
           at = "args" => Top(t).left > 0, StartNode(t, at)
    PROVE  Advance(t)
<1>1. PICK f \in FrameT : f = Top(t) /\ f.s \in Created /\ FrameOK(f)
  BY TopFacts DEF FrameOK
<1>2. /\ sess[f.s] \in SessionT /\ sess[f.s].nodes \in Seq(NodeT) /\ Len(sess[f.s].nodes) \in Nat
      /\ sess[f.s].extra \in Nat
  BY <1>1, SessionFacts DEF SessionT
<1>3. PICK g : g = [f EXCEPT !.at = at, !.node = Len(sess[f.s].nodes) + 1]
  OBVIOUS
<1>4. g \in FrameT /\ g.s = f.s /\ g.node = Len(sess[f.s].nodes) + 1 /\ g.left = f.left /\ g.at = at
  <2>1. g = [s |-> f.s, c |-> f.c, left |-> f.left, node |-> Len(sess[f.s].nodes) + 1, at |-> at]
    BY <1>1, <1>3 DEF FrameT
  <2> QED
    BY <1>1, <1>2, <2>1 DEF FrameT
<1>5. PICK ns : ns = Append(sess[f.s].nodes, Node(f.c, "RUNNING"))
  OBVIOUS
<1>6. ns \in Seq(NodeT) /\ Len(ns) = Len(sess[f.s].nodes) + 1
  <2>1. Node(f.c, "RUNNING") \in NodeT
    BY <1>1 DEF Node, NodeT, NodeStatus, FrameT
  <2> QED
    BY <1>2, <1>5, <2>1, AppendProperties
<1>7. PICK e \in Nat : e = IF sess[f.s].cancel THEN sess[f.s].extra + 1 ELSE sess[f.s].extra
  BY <1>2
<1>8. PICK S \in SessionT : S = [sess[f.s] EXCEPT !.nodes = ns, !.extra = e]
  BY <1>1, <1>6, NodesWritten
<1>9. S.of = sess[f.s].of /\ S.status = sess[f.s].status /\ S.nodes = ns
  BY <1>2, <1>8 DEF SessionT
<1>10. sess' = [sess EXCEPT ![f.s] = S]
  BY <1>1, <1>5, <1>7, <1>8 DEF StartNode, Started
<1>11. thr' = WithTop(t, g) /\ UNCHANGED <<host, engine, registry, asked, crashed>>
  BY <1>1, <1>3 DEF StartNode
<1>12. Len(S.nodes) >= Len(sess[f.s].nodes)
  BY <1>2, <1>6, <1>9
<1>13. FrameOK(g)'
  <2>1. Created' = Created /\ sess'[f.s] = S
    BY <1>1, <1>6, <1>9, <1>10, <1>12, SessionReplaced DEF FlowInv
  <2> QED
    BY <1>1, <1>2, <1>4, <1>6, <1>9, <2>1 DEF FrameOK, Open
<1> QED
  BY <1>1, <1>4, <1>8, <1>9, <1>10, <1>11, <1>12, <1>13, ReplaceTop

LEMMA GotoAdvances ==
    ASSUME FlowInv, NEW t \in Threads, NEW at \in {"stage", "call"}, thr[t].stack # <<>>,
           Top(t).left > 0, at = "call" => Open(Top(t)),
           Goto(t, at), UNCHANGED <<host, sess, engine, registry, asked, crashed>>
    PROVE  Advance(t)
<1>1. PICK f \in FrameT : f = Top(t) /\ f.s \in Created /\ FrameOK(f)
  BY TopFacts DEF FrameOK
<1>2. PICK g : g = [f EXCEPT !.at = at]
  OBVIOUS
<1>3. g \in FrameT /\ g.s = f.s /\ g.node = f.node /\ g.left = f.left /\ g.at = at
  BY <1>1, <1>2 DEF FrameT
<1>4. FrameOK(g)'
  BY <1>1, <1>3 DEF FrameOK, Open, Created
<1>5. PICK S : S = sess[f.s]
  OBVIOUS
<1>6. S \in SessionT /\ sess' = [sess EXCEPT ![f.s] = S] /\ Len(sess[f.s].nodes) \in Nat
  BY <1>1, <1>5, SessionFacts
<1>7. thr' = WithTop(t, g)
  BY <1>1, <1>2 DEF Goto
<1> QED
  <2>1. S.of = sess[f.s].of /\ S.status = sess[f.s].status /\ Len(S.nodes) >= Len(sess[f.s].nodes)
    BY <1>5, <1>6
  <2> QED
    BY <1>1, <1>3, <1>4, <1>6, <1>7, <2>1, ReplaceTop

LEMMA FinishAdvances ==
    ASSUME FlowInv, NEW t \in Threads, FinishInput(t) \/ FinishStage(t)
    PROVE  Advance(t)
<1>1. thr[t].stack # <<>> /\ Open(Top(t)) /\ UNCHANGED <<host, engine, registry, asked, crashed>>
  BY DEF FinishInput, FinishStage, At, Open
<1>2. PICK f \in FrameT : f = Top(t) /\ f.s \in Created /\ FrameOK(f)
  BY <1>1, TopFacts DEF FrameOK
<1>3. f.node \in 1 .. Len(sess[f.s].nodes)
  <2>1. f.node \in Nat /\ f.node # 0 /\ f.node <= Len(sess[f.s].nodes) /\ Len(sess[f.s].nodes) \in Nat
    BY <1>1, <1>2, SessionFacts DEF FrameOK, FrameT
  <2> QED
    BY <2>1
<1>4. SetNode(f.s, f.node, "SUCCESS")
  BY <1>2 DEF FinishInput, FinishStage
<1>5. PICK S \in SessionT :
        /\ sess' = [sess EXCEPT ![f.s] = S] /\ S.of = sess[f.s].of /\ S.status = sess[f.s].status
        /\ Len(S.nodes) = Len(sess[f.s].nodes)
  BY <1>2, <1>3, <1>4, NodeEnded DEF NodeStatus
<1>6. \E g \in FrameT : g.s = f.s /\ g.node = f.node /\ g.at = "check" /\ thr' = WithTop(t, g)
  <2>1. CASE FinishInput(t)
    <3>1. PICK g : g = [f EXCEPT !.at = "check"]
      OBVIOUS
    <3>2. g \in FrameT /\ g.s = f.s /\ g.node = f.node /\ g.at = "check"
      BY <1>2, <3>1 DEF FrameT
    <3>3. thr' = WithTop(t, g)
      BY <1>2, <2>1, <3>1 DEF FinishInput, Goto
    <3> QED
      BY <3>2, <3>3
  <2>2. CASE FinishStage(t)
    <3>1. PICK g : g = [f EXCEPT !.at = "check", !.left = @ - 1]
      OBVIOUS
    <3>2. f.left \in Nat /\ f.left > 0
      BY <1>2, <2>2 DEF FinishStage, At, FrameOK, FrameT
    <3>3. g = [s |-> f.s, c |-> f.c, left |-> f.left - 1, node |-> f.node, at |-> "check"]
      BY <1>2, <3>1 DEF FrameT
    <3>4. g \in FrameT /\ g.s = f.s /\ g.node = f.node /\ g.at = "check"
      BY <1>2, <3>2, <3>3 DEF FrameT
    <3>5. thr' = WithTop(t, g)
      BY <1>2, <2>2, <3>1 DEF FinishStage
    <3> QED
      BY <3>4, <3>5
  <2> QED
    BY <2>1, <2>2
<1>7. PICK g \in FrameT : g.s = f.s /\ g.node = f.node /\ g.at = "check" /\ thr' = WithTop(t, g)
  BY <1>6
<1>8. Len(sess[f.s].nodes) \in Nat /\ Len(S.nodes) >= Len(sess[f.s].nodes)
  BY <1>2, <1>5, SessionFacts
<1>9. FrameOK(g)'
  <2>1. Created' = Created /\ sess'[f.s] = S
    BY <1>2, <1>5, <1>8, SessionReplaced DEF FlowInv
  <2> QED
    BY <1>2, <1>3, <1>5, <1>7, <1>8, <2>1 DEF FrameOK, Open
<1> QED
  BY <1>1, <1>2, <1>5, <1>7, <1>8, <1>9, ReplaceTop

LEMMA SkippedNodes ==
    ASSUME NEW c \in Nat, NEW n \in Int
    PROVE  Skips(c, n) \in Seq(NodeT)
<1>1. CASE n \in Nat
  BY <1>1 DEF Skips, Node, NodeT, NodeStatus
<1>2. CASE n < 0
  BY <1>2, EmptySeq DEF Skips
<1> QED
  BY <1>1, <1>2

LEMMA NodesAdvance ==
    ASSUME FlowInv, NEW t \in Threads, thr[t].stack # <<>>, NEW id \in Created, NEW ns \in Seq(NodeT),
           thr' = Pop(t), sess' = [sess EXCEPT ![id].nodes = ns], Len(ns) >= Len(sess[id].nodes),
           UNCHANGED <<host, engine, registry, asked, crashed>>
    PROVE  Advance(t)
<1>1. PICK S : S = [sess[id] EXCEPT !.nodes = ns]
  OBVIOUS
<1>2. S \in SessionT /\ S.of = sess[id].of /\ S.status = sess[id].status /\ S.nodes = ns
  BY <1>1, SessionFacts DEF SessionT
<1>3. sess' = [sess EXCEPT ![id] = S]
  BY <1>1
<1> QED
  BY <1>2, <1>3, PopTop

LEMMA PlainPopAdvances ==
    ASSUME FlowInv, NEW t \in Threads, thr[t].stack # <<>>, thr' = Pop(t),
           UNCHANGED <<host, sess, engine, registry, asked, crashed>>
    PROVE  Advance(t)
<1>1. PICK id \in Created : id = Top(t).s
  BY TopFacts DEF FrameOK
<1>2. PICK S : S = sess[id]
  OBVIOUS
<1>3. S \in SessionT /\ sess' = [sess EXCEPT ![id] = S] /\ Len(S.nodes) >= Len(sess[id].nodes)
  BY <1>2, SessionFacts
<1> QED
  BY <1>2, <1>3, PopTop

LEMMA CheckStageAdvances ==
    ASSUME FlowInv, NEW t \in Threads, CheckStage(t)
    PROVE  Advance(t)
<1>1. thr[t].stack # <<>> /\ UNCHANGED <<host, engine, registry, asked, crashed>> /\ Top(t).left > 0
  BY DEF CheckStage, At
<1>2. PICK f \in FrameT : f = Top(t) /\ f.s \in Created /\ f.c \in Nat /\ f.left \in Nat
  BY <1>1, TopFacts DEF FrameOK, FrameT
<1>3. CASE ~MustStop(f.s)
  BY <1>1, <1>2, <1>3, GotoAdvances DEF CheckStage
<1>4. CASE MustStop(f.s)
  <2>1. PICK ns : ns = sess[f.s].nodes \o Refused(f)
    OBVIOUS
  <2>2. Refused(f) \in Seq(NodeT)
    <3>1. PICK skips \in Seq(NodeT) : skips = Skips(f.c, f.left - 1)
      <4>1. PICK n \in Int : n = f.left - 1
        BY <1>2
      <4>2. Skips(f.c, n) \in Seq(NodeT)
        BY <1>2, SkippedNodes
      <4> QED
        BY <4>1, <4>2
    <3>2. PICK mark : mark = Node(f.c, StopMark(f.s))
      OBVIOUS
    <3>3. mark \in NodeT
      BY <1>2, <3>2 DEF Node, StopMark, NodeT, NodeStatus
    <3>4. <<mark>> \in Seq(NodeT)
      BY <3>3
    <3>5. <<mark>> \o skips \in Seq(NodeT)
      BY <3>4, ConcatProperties
    <3> QED
      BY <3>1, <3>2, <3>5 DEF Refused
  <2>3. ns \in Seq(NodeT) /\ Len(ns) >= Len(sess[f.s].nodes)
    <3>1. sess[f.s].nodes \in Seq(NodeT)
      BY <1>2, SessionFacts
    <3>2. ns \in Seq(NodeT) /\ Len(ns) = Len(sess[f.s].nodes) + Len(Refused(f))
      BY <2>1, <2>2, <3>1, ConcatProperties
    <3>3. Len(Refused(f)) \in Nat /\ Len(sess[f.s].nodes) \in Nat
      BY <2>2, <3>1, LenProperties
    <3> QED
      BY <3>2, <3>3
  <2>4. thr' = Pop(t) /\ sess' = [sess EXCEPT ![f.s].nodes = ns]
    BY <1>2, <1>4, <2>1 DEF CheckStage
  <2> QED
    BY <1>1, <1>2, <2>3, <2>4, NodesAdvance
<1> QED
  BY <1>3, <1>4

LEMMA UnwindAdvances ==
    ASSUME FlowInv, NEW t \in Threads, Unwind(t)
    PROVE  Advance(t)
<1>1. thr[t].stack # <<>> /\ thr' = Pop(t) /\ UNCHANGED <<host, engine, registry, asked, crashed>>
  BY DEF Unwind
<1>2. PICK f \in FrameT : f = Top(t) /\ f.s \in Created /\ FrameOK(f) /\ f.c \in Nat /\ f.left \in Nat
  BY <1>1, TopFacts DEF FrameOK, FrameT
<1>3. CASE ~Recorded(f, thr[t].err)
  BY <1>1, <1>2, <1>3, PlainPopAdvances DEF Unwind
<1>4. CASE Recorded(f, thr[t].err)
  <2>1. /\ sess[f.s].nodes \in Seq(NodeT) /\ Len(sess[f.s].nodes) \in Nat
        /\ f.node \in 1 .. Len(sess[f.s].nodes)
    <3>1. f.node \in Nat /\ f.node # 0 /\ f.node <= Len(sess[f.s].nodes)
      BY <1>2, <1>4 DEF Recorded, FrameOK, Open, FrameT
    <3> QED
      BY <1>2, <3>1, SessionFacts
  <2>2. PICK marked : marked = [sess[f.s].nodes EXCEPT ![f.node].st = "ERROR"]
    OBVIOUS
  <2>3. marked \in Seq(NodeT) /\ Len(marked) = Len(sess[f.s].nodes)
    <3>1. sess[f.s].nodes[f.node] \in NodeT
      BY <2>1, ElementOfSeq
    <3>2. [sess[f.s].nodes[f.node] EXCEPT !.st = "ERROR"] \in NodeT
      BY <3>1 DEF NodeT, NodeStatus
    <3> QED
      BY <2>1, <2>2, <3>2, ExceptSeq
  <2>4. PICK ns : ns = marked \o Skips(f.c, f.left - 1)
    OBVIOUS
  <2>5. ns \in Seq(NodeT) /\ Len(ns) >= Len(sess[f.s].nodes)
    <3>1. PICK skips \in Seq(NodeT) : skips = Skips(f.c, f.left - 1)
      <4>1. PICK n \in Int : n = f.left - 1
        BY <1>2
      <4>2. Skips(f.c, n) \in Seq(NodeT)
        BY <1>2, SkippedNodes
      <4> QED
        BY <4>1, <4>2
    <3>2. Len(skips) \in Nat
      BY LenProperties
    <3>3. ns \in Seq(NodeT) /\ Len(ns) = Len(marked) + Len(skips)
      BY <2>3, <2>4, <3>1, ConcatProperties
    <3> QED
      BY <2>1, <2>3, <3>2, <3>3
  <2>6. sess' = [sess EXCEPT ![f.s].nodes = ns]
    BY <1>2, <1>4, <2>2, <2>4 DEF Unwind, Failed
  <2> QED
    BY <1>1, <1>2, <2>5, <2>6, NodesAdvance
<1> QED
  BY <1>3, <1>4

LEMMA ErrorAdvances ==
    ASSUME FlowInv, NEW t \in Threads, NEW e \in Errors, Raise(t, e) \/ Catch(t)
    PROVE  Advance(t)
<1>1. PICK err \in Errors \cup {"none"} : thr' = [thr EXCEPT ![t].err = err]
  BY DEF Raise, Catch
<1>2. /\ thr[t] \in ThreadT /\ ThreadOK(t) /\ UNCHANGED <<host, sess, engine, registry, asked, crashed>>
      /\ thr[t].pc = "program" \/ thr[t].stack # <<>>
  BY DEF FlowInv, Types, Links, Raise, Catch
<1>3. PICK X : X = [thr[t] EXCEPT !.err = err]
  OBVIOUS
<1>4. /\ X \in ThreadT /\ X.s = thr[t].s /\ X.of = thr[t].of /\ X.pc = thr[t].pc /\ X.stack = thr[t].stack
      /\ thr' = [thr EXCEPT ![t] = X]
  BY <1>1, <1>2, <1>3 DEF ThreadT
<1>5. PICK id \in Created : id = thr[t].s
  <2>1. thr[t].pc # "idle"
    BY <1>2, TopFacts
  <2> QED
    BY <1>2, <2>1 DEF ThreadOK
<1>6. PICK S \in SessionT : S = sess[id]
  BY SessionFacts
<1>7. sess' = [sess EXCEPT ![id] = S] /\ Len(S.nodes) >= Len(sess[id].nodes)
  BY <1>2, <1>6, SessionFacts
<1>8. \A k \in DOMAIN X.stack : X.pc \in {"program", "replay"} /\ FrameOK(X.stack[k])'
  <2> SUFFICES ASSUME NEW k \in DOMAIN thr[t].stack
               PROVE  thr[t].pc \in {"program", "replay"} /\ FrameOK(X.stack[k])'
    BY <1>4
  <2>1. PICK f : f = thr[t].stack[k]
    OBVIOUS
  <2>2. FrameOK(f) /\ thr[t].pc \in {"program", "replay"}
    BY <1>2, <2>1 DEF ThreadOK
  <2>3. FrameOK(f)'
    BY <1>2, <2>2 DEF FrameOK, Open, Created
  <2> QED
    BY <1>4, <2>1, <2>2, <2>3
<1> QED
  BY <1>2, <1>4, <1>6, <1>7, <1>8 DEF Advance

\* A chain that is entered: the thread keeps its frames, with at most one more, at its input.
LEMMA EnterAdvances ==
    ASSUME FlowInv, NEW t \in Threads, NEW n \in Nat, NEW X \in ThreadT,
           thr[t].pc \in {"program", "replay"},
           X.s = thr[t].s, X.of = thr[t].of, X.pc = thr[t].pc, X.stack = thr[t].stack,
           Enter(t, n, [thr EXCEPT ![t] = X]),
           UNCHANGED <<host, engine, registry, asked, crashed>>
    PROVE  Advance(t)
<1>1. thr[t] \in ThreadT /\ thr[t].stack \in Seq(FrameT) /\ ThreadOK(t) /\ thr \in [Threads -> ThreadT]
  BY DEF FlowInv, Types, Links, ThreadT
<1>2. thr[t].of \in Interps /\ thr[t].s \in Created
  BY <1>1 DEF ThreadOK
<1>3. PICK s : s = engine[thr[t].of].active
  OBVIOUS
<1>4. s \in Created \cup {NoId}
  BY <1>2, <1>3 DEF FlowInv, Links
<1>5. \A k \in DOMAIN X.stack : X.pc \in {"program", "replay"} /\ X.stack[k] \in FrameT /\ FrameOK(X.stack[k])
  BY <1>1, ElementOfSeq, LenProperties DEF ThreadOK
<1>6. CASE s = NoId
  <2>1. thr' = [thr EXCEPT ![t] = X] /\ sess' = sess
    BY <1>3, <1>6 DEF Enter
  <2>2. PICK id \in Created : id = thr[t].s
    BY <1>2
  <2>3. PICK S \in SessionT : S = sess[id]
    BY SessionFacts
  <2>4. sess' = [sess EXCEPT ![id] = S] /\ Len(S.nodes) >= Len(sess[id].nodes)
    BY <2>1, <2>3, SessionFacts
  <2>5. \A k \in DOMAIN X.stack : X.pc \in {"program", "replay"} /\ FrameOK(X.stack[k])'
    BY <1>5, <2>3, <2>4, SessionReplaced DEF FlowInv
  <2> QED
    BY <2>1, <2>3, <2>4, <2>5 DEF Advance
<1>7. CASE s # NoId
  <2>1. s \in Created /\ sess[s] \in SessionT /\ Len(sess[s].nodes) \in Nat /\ sess[s].chains \in Nat /\ s \in Nat
    BY <1>4, <1>7, SessionFacts DEF SessionT
  <2>2. PICK S : S = [sess[s] EXCEPT !.chains = @ + 1]
    OBVIOUS
  <2>3. /\ S \in SessionT /\ S.of = sess[s].of /\ S.status = sess[s].status /\ S.nodes = sess[s].nodes
    BY <2>1, <2>2 DEF SessionT
  <2>4. sess' = [sess EXCEPT ![s] = S]
    BY <1>3, <1>7, <2>2 DEF Enter
  <2>5. Len(S.nodes) >= Len(sess[s].nodes)
    BY <2>1, <2>3
  <2>6. \A f \in FrameT : FrameOK(f) => FrameOK(f)'
    BY <2>1, <2>3, <2>4, <2>5, SessionReplaced DEF FlowInv
  <2>7. CASE Stopped(s)
    <3>1. thr' = [thr EXCEPT ![t] = X]
      BY <1>3, <1>7, <2>7 DEF Enter
    <3>2. \A k \in DOMAIN X.stack : X.pc \in {"program", "replay"} /\ FrameOK(X.stack[k])'
      BY <1>5, <2>6
    <3> QED
      BY <2>1, <2>3, <2>4, <2>5, <3>1, <3>2 DEF Advance
  <2>8. CASE ~Stopped(s)
    <3>1. PICK g : g = [s |-> s, c |-> sess[s].chains + 1, left |-> n, node |-> 0, at |-> "input"]
      OBVIOUS
    <3>2. g \in FrameT
      BY <2>1, <3>1 DEF FrameT
    <3>3. PICK Y : Y = [X EXCEPT !.stack = Append(X.stack, g)]
      OBVIOUS
    <3>4. Append(X.stack, g) \in Seq(FrameT) /\ DOMAIN Append(X.stack, g) = 1 .. Len(X.stack) + 1
          /\ \A k \in DOMAIN Append(X.stack, g) :
                Append(X.stack, g)[k] = g \/ (k \in DOMAIN X.stack /\ Append(X.stack, g)[k] = X.stack[k])
      BY <1>1, <3>2, AppendProperties, LenProperties
    <3>5. /\ Y \in ThreadT /\ Y.s = thr[t].s /\ Y.of = thr[t].of /\ Y.pc = thr[t].pc
          /\ Y.stack = Append(X.stack, g)
      BY <3>3, <3>4 DEF ThreadT
    <3>6. thr' = [thr EXCEPT ![t] = Y]
      <4>1. thr' = [[thr EXCEPT ![t] = X] EXCEPT ![t].stack = Append(@, g)]
        BY <1>3, <1>7, <2>8, <3>1 DEF Enter
      <4> QED
        BY <1>1, <3>3, <4>1
    <3>7. FrameOK(g)'
      <4>1. Created' = Created /\ sess'[s] = S
        BY <2>1, <2>3, <2>4, <2>5, SessionReplaced DEF FlowInv
      <4> QED
        BY <2>1, <2>3, <3>1, <4>1 DEF FrameOK, Open
    <3>8. \A k \in DOMAIN Y.stack : Y.pc \in {"program", "replay"} /\ FrameOK(Y.stack[k])'
      <4> SUFFICES ASSUME NEW k \in DOMAIN Y.stack
                   PROVE  Y.pc \in {"program", "replay"} /\ FrameOK(Y.stack[k])'
        OBVIOUS
      <4>1. PICK f : f = Y.stack[k]
        OBVIOUS
      <4>2. f = g \/ (f \in FrameT /\ FrameOK(f))
        BY <1>5, <3>4, <3>5, <4>1
      <4>3. FrameOK(f)'
        BY <2>6, <3>7, <4>2
      <4> QED
        BY <3>5, <4>1, <4>3
    <3> QED
      BY <2>1, <2>3, <2>4, <2>5, <3>5, <3>6, <3>8 DEF Advance
  <2> QED
    BY <2>7, <2>8
<1> QED
  BY <1>6, <1>7

Inside(t) ==
    \/ StartInput(t) \/ FinishInput(t) \/ CheckStage(t) \/ StartStage(t) \/ Arguments(t)
    \/ FinishStage(t) \/ EndChain(t) \/ Unwind(t) \/ Catch(t) \/ \E e \in Errors : Raise(t, e)
    \/ \E n \in 1 .. MaxStages : EnterChain(t, n) \/ EnterInner(t, n)

LEMMA InsideAdvances ==
    ASSUME FlowInv, NEW t \in Threads, Inside(t)
    PROVE  Advance(t)
<1>1. CASE StartInput(t)
  BY <1>1, StartNodeAdvances DEF StartInput, At
<1>2. CASE StartStage(t)
  <2>1. thr[t].stack # <<>> /\ StartNode(t, "args") /\ Top(t).at = "stage"
    BY <1>2 DEF StartStage, At
  <2> QED
    BY <2>1, StartNodeAdvances, TopFacts DEF FrameOK
<1>3. CASE Arguments(t)
  <2>1. thr[t].stack # <<>> /\ Top(t).at = "args" /\ Goto(t, "call")
        /\ UNCHANGED <<host, sess, engine, registry, asked, crashed>>
    BY <1>3 DEF Arguments, At
  <2>2. Top(t).left > 0
    BY <2>1, TopFacts DEF FrameOK
  <2> QED
    BY <2>1, <2>2, GotoAdvances DEF Open
<1>4. CASE FinishInput(t) \/ FinishStage(t)
  BY <1>4, FinishAdvances
<1>5. CASE CheckStage(t)
  BY <1>5, CheckStageAdvances
<1>6. CASE EndChain(t)
  BY <1>6, PlainPopAdvances DEF EndChain, At
<1>7. CASE Unwind(t)
  BY <1>7, UnwindAdvances
<1>8. CASE Catch(t) \/ \E e \in Errors : Raise(t, e)
  BY <1>8, ErrorAdvances DEF Errors
<1>9. ASSUME NEW n \in 1 .. MaxStages, EnterChain(t, n) \/ EnterInner(t, n)
      PROVE  Advance(t)
  <2>1. thr[t] \in ThreadT /\ thr \in [Threads -> ThreadT] /\ n \in Nat
    BY FlowAssumption DEF FlowInv, Types
  <2>2. CASE EnterChain(t, n)
    <3>1. PICK X : X = [thr[t] EXCEPT !.todo = @ - 1]
      OBVIOUS
    <3>2. thr[t].todo \in Nat /\ thr[t].todo > 0 /\ thr[t].pc \in {"program", "replay"}
      BY <2>1, <2>2 DEF EnterChain, InProgram, ThreadT
    <3>3. X \in ThreadT /\ X.s = thr[t].s /\ X.of = thr[t].of /\ X.pc = thr[t].pc /\ X.stack = thr[t].stack
      <4>1. PICK m \in Nat : m = thr[t].todo - 1
        BY <3>2
      <4>2. X = [thr[t] EXCEPT !.todo = m]
        BY <3>1, <4>1
      <4> QED
        BY <2>1, <4>2 DEF ThreadT
    <3>4. Enter(t, n, [thr EXCEPT ![t] = X]) /\ UNCHANGED <<host, engine, registry, asked, crashed>>
      BY <2>2, <3>1 DEF EnterChain
    <3> QED
      BY <2>1, <3>2, <3>3, <3>4, EnterAdvances
  <2>3. CASE EnterInner(t, n)
    <3>1. PICK X : X = thr[t]
      OBVIOUS
    <3>2. thr[t].stack # <<>> /\ Enter(t, n, thr) /\ UNCHANGED <<host, engine, registry, asked, crashed>>
      BY <2>3 DEF EnterInner
    <3>3. thr = [thr EXCEPT ![t] = X]
      BY <2>1, <3>1
    <3>4. thr[t].pc \in {"program", "replay"}
      BY <3>2, TopFacts
    <3>5. Enter(t, n, [thr EXCEPT ![t] = X])
      BY <3>2, <3>3
    <3> QED
      BY <2>1, <3>1, <3>2, <3>4, <3>5, EnterAdvances
  <2> QED
    BY <1>9, <2>2, <2>3
<1> QED
  BY <1>1, <1>2, <1>3, <1>4, <1>5, <1>6, <1>7, <1>8, <1>9 DEF Inside

-----------------------------------------------------------------------------
(* The beginning and the end of a flow                                     *)

LEMMA CreateInv ==
    ASSUME FlowInv, NEW t \in Threads, NEW i \in Interps, NEW pc \in {"started", "replaying"},
           Create(t, i, pc)
    PROVE  FlowInv' /\ (RunningReachable => RunningReachable')
<1>1. /\ sess \in Seq(SessionT) /\ Len(sess) \in Nat /\ Created = 1 .. Len(sess) /\ host \in Hosts
      /\ thr \in [Threads -> ThreadT] /\ engine \in [Interps -> EngineT] /\ engine[i].order \in Seq(Nat)
  BY LenProperties DEF FlowInv, Types, Created, EngineT
<1>2. Len(sess) < host.flows /\ host.flows <= MaxId /\ host.flows \in Nat /\ MaxId \in Nat
  BY <1>1, FlowAssumption DEF Create
<1>3. PICK S : S = NewSession(i)
  OBVIOUS
<1>4. S \in SessionT /\ S.status = "RUNNING" /\ S.nodes = <<>>
  BY <1>3, EmptySeq DEF NewSession, SessionT, SessionStatus
<1>5. PICK id : id = NextId
  OBVIOUS
<1>6. id = Len(sess) + 1 /\ id \in Nat /\ id \notin Created /\ id # NoId
  BY <1>1, <1>5 DEF NextId, NoId
<1>7. /\ sess' \in Seq(SessionT) /\ Len(sess') = Len(sess) + 1 /\ Created' = Created \cup {id}
      /\ sess'[id] = S /\ \A n \in Created : sess'[n] = sess[n]
  <2>1. sess' = Append(sess, S)
    BY <1>3 DEF Create
  <2>2. /\ sess' \in Seq(SessionT) /\ Len(sess') = Len(sess) + 1 /\ sess'[Len(sess) + 1] = S
        /\ \A n \in 1 .. Len(sess) : sess'[n] = sess[n]
    BY <1>1, <1>4, <2>1, AppendProperties
  <2>3. Created' = 1 .. Len(sess) + 1
    BY <2>2, LenProperties DEF Created
  <2> QED
    BY <1>1, <1>6, <2>2, <2>3
<1>8. PICK rest \in Trimmed(Append(engine[i].order, id), RunningIds \cup {id}, MaxSessions) :
         engine' = [engine EXCEPT ![i] = [order |-> rest, active |-> id, used |-> TRUE]]
  BY <1>5 DEF Create, Installed
<1>9. /\ rest \in Seq(Nat) /\ ToSet(rest) \subseteq ToSet(engine[i].order) \cup {id}
      /\ id \in ToSet(rest) /\ ToSet(engine[i].order) \cap RunningIds \subseteq ToSet(rest)
  <2>1. PICK list \in Seq(Nat) : list = Append(engine[i].order, id)
    BY <1>1, <1>6, AppendSet
  <2>2. ToSet(list) = ToSet(engine[i].order) \cup {id}
    BY <1>1, <1>6, <2>1, AppendSet
  <2>3. /\ rest \in Seq(Nat) /\ ToSet(rest) \subseteq ToSet(list)
        /\ ToSet(list) \cap (RunningIds \cup {id}) \subseteq ToSet(rest)
    <3>1. PICK run : run = RunningIds \cup {id}
      OBVIOUS
    <3>2. rest \in Trimmed(list, run, MaxSessions)
      BY <1>8, <2>1, <3>1
    <3> QED
      BY <3>1, <3>2, TrimmedKeeps
  <2> QED
    BY <2>2, <2>3
<1>10. PICK X : X = [Idle EXCEPT !.pc = pc, !.s = id, !.of = i]
  OBVIOUS
<1>11. /\ X \in ThreadT /\ X.pc = pc /\ X.s = id /\ X.of = i /\ X.stack = <<>>
       /\ thr' = [thr EXCEPT ![t] = X]
  <2>1. X = [pc |-> pc, s |-> id, of |-> i, todo |-> 0, err |-> "none", saw |-> FALSE,
              stack |-> <<>>]
    BY <1>10 DEF Idle
  <2>2. <<>> \in Seq(FrameT)
    BY EmptySeq
  <2>3. X \in ThreadT
    BY <1>6, <2>1, <2>2 DEF ThreadT
  <2>4. thr' = [thr EXCEPT ![t] = X]
    BY <1>5, <1>10 DEF Create
  <2> QED
    BY <2>1, <2>3, <2>4
<1>12. /\ thr' \in [Threads -> ThreadT] /\ thr'[t] = X
       /\ \A u \in Threads : u # t => thr'[u] = thr[u]
  BY <1>1, <1>11
<1>13. /\ engine' \in [Interps -> EngineT]
       /\ engine'[i].order = rest /\ engine'[i].active = id
       /\ \A j \in Interps : j # i => engine'[j] = engine[j]
  BY <1>1, <1>6, <1>8, <1>9 DEF EngineT
<1>14. UNCHANGED <<host, registry, asked, crashed>>
  BY DEF Create
<1>15. Types'
  BY <1>1, <1>2, <1>7, <1>12, <1>13, <1>14 DEF FlowInv, Types
<1>16. Links'
  <2>1. ASSUME NEW u \in Threads
        PROVE  ThreadOK(u)'
    <3>1. CASE u = t
      <4>1. thr'[t].stack = <<>> /\ thr'[t].s = id /\ thr'[t].of = i /\ thr'[t].pc = pc
        BY <1>11, <1>12
      <4>2. DOMAIN thr'[t].stack = {}
        BY <4>1
      <4> QED
        BY <1>6, <1>7, <3>1, <4>1, <4>2 DEF ThreadOK
    <3>2. CASE u # t
      <4>1. ThreadOK(u) /\ thr'[u] = thr[u]
        BY <1>12, <3>2 DEF FlowInv, Links
      <4>2. ASSUME NEW k \in DOMAIN thr[u].stack
            PROVE  thr[u].pc \in {"program", "replay"} /\ FrameOK(thr[u].stack[k])'
        <5>1. PICK f : f = thr[u].stack[k]
          OBVIOUS
        <5>2. FrameOK(f) /\ f.s \in Created /\ thr[u].pc \in {"program", "replay"} /\ thr'[u].stack[k] = f
          BY <4>1, <5>1 DEF ThreadOK, FrameOK
        <5>3. FrameOK(f)'
          BY <1>7, <5>2 DEF FrameOK, Open
        <5> QED
          BY <4>1, <5>1, <5>2, <5>3
      <4> QED
        BY <1>7, <4>1, <4>2 DEF ThreadOK
    <3> QED
      BY <3>1, <3>2
  <2>2. ASSUME NEW j \in Interps
        PROVE  engine'[j].active \in Created' \cup {NoId} /\ ToSet(engine'[j].order) \subseteq Created'
    <3>1. engine[j].active \in Created \cup {NoId} /\ ToSet(engine[j].order) \subseteq Created
          /\ ToSet(engine[i].order) \subseteq Created
      BY DEF FlowInv, Links
    <3> QED
      BY <1>7, <1>9, <1>13, <3>1
  <2> QED
    BY <1>7, <1>14, <2>1, <2>2 DEF FlowInv, Links
<1>17. OneOwner'
  <2>1. ToSet(registry) \subseteq Created /\ \A u \in Threads : thr[u].s \in Created \cup {NoId}
    BY DEF FlowInv, Links, ThreadOK
  <2> QED
    BY <1>6, <1>11, <1>12, <1>14, <2>1 DEF FlowInv, OneOwner
<1>18. ASSUME RunningReachable
       PROVE  RunningReachable'
  <2> SUFFICES ASSUME NEW n \in Created', Running(n)'
               PROVE  /\ n \in ToSet(engine'[sess'[n].of].order)
                      /\ Registered(n)' => n \in ToSet(registry)
    BY <1>14 DEF RunningReachable
  <2>1. CASE n = id
    <3>1. ~Registered(n)'
      BY <1>11, <1>12, <2>1 DEF Registered
    <3>2. sess'[n].of = i
      BY <1>3, <1>7, <2>1 DEF NewSession
    <3> QED
      BY <1>9, <1>13, <2>1, <3>1, <3>2
  <2>2. CASE n # id
    <3>1. n \in Created /\ Running(n) /\ sess'[n] = sess[n] /\ n \in RunningIds
      BY <1>7, <2>2 DEF Running, RunningIds
    <3>2. n \in ToSet(engine[sess[n].of].order) /\ sess[n].of \in Interps
      BY <1>18, <3>1, SessionFacts DEF RunningReachable, SessionT
    <3>3. n \in ToSet(engine'[sess[n].of].order)
      BY <1>9, <1>13, <3>1, <3>2
    <3>4. Registered(n)' => Registered(n)
      <4>1. thr[t].pc = "idle"
        BY DEF Create
      <4> QED
        BY <1>12, <4>1 DEF Registered
    <3> QED
      BY <1>18, <3>1, <3>3, <3>4 DEF RunningReachable
  <2> QED
    BY <2>1, <2>2
<1> QED
  BY <1>15, <1>16, <1>17, <1>18 DEF FlowInv

LEMMA RegisterInv ==
    ASSUME FlowInv, NEW t \in Threads, Register(t)
    PROVE  FlowInv' /\ (RunningReachable => RunningReachable')
<1>1. /\ thr[t] \in ThreadT /\ thr \in [Threads -> ThreadT] /\ ThreadOK(t) /\ registry \in Seq(Nat)
      /\ ToSet(registry) \subseteq Created /\ host.chains \in Nat
  BY FlowAssumption DEF FlowInv, Types, Links
<1>2. thr[t].pc \in {"started", "replaying"} /\ UNCHANGED <<host, sess, engine, asked, crashed>>
  BY DEF Register
<1>3. PICK id \in Created : id = thr[t].s /\ id \in Nat /\ id \notin ToSet(registry)
  <2>1. thr[t].s \in Created /\ thr[t].s \in Nat /\ thr[t].s \notin ToSet(registry)
    BY <1>1, <1>2 DEF ThreadOK, FlowInv, OneOwner, ThreadT
  <2> QED
    BY <2>1
<1>4. PICK list \in Seq(Nat) :
        /\ list = Append(registry, id) /\ ToSet(list) = ToSet(registry) \cup {id} /\ IsInjective(list)
  BY <1>1, <1>3, AppendSet DEF FlowInv, OneOwner
<1>5. /\ registry' \in Seq(Nat) /\ ToSet(registry') \subseteq ToSet(list)
      /\ ToSet(list) \cap RunningIds \subseteq ToSet(registry') /\ IsInjective(registry')
  <2>1. registry' \in Kept(list)
    BY <1>3, <1>4 DEF Register
  <2> QED
    BY <1>4, <2>1, KeptKeeps
<1>6. PICK pc : pc = IF thr[t].pc = "started" THEN "program" ELSE "replay"
  OBVIOUS
<1>7. PICK n \in Nat : n = IF thr[t].pc = "started" THEN host.chains ELSE 1
  BY <1>1
<1>8. PICK X : X = [thr[t] EXCEPT !.todo = n, !.pc = pc]
  OBVIOUS
<1>9. /\ X \in ThreadT /\ X.s = thr[t].s /\ X.of = thr[t].of /\ X.pc = pc /\ X.stack = thr[t].stack
      /\ thr' = [thr EXCEPT ![t] = X]
  <2>1. thr' = [thr EXCEPT ![t] = X]
    BY <1>6, <1>7, <1>8 DEF Register
  <2> QED
    BY <1>1, <1>6, <1>8, <2>1 DEF ThreadT
<1>10. /\ thr' \in [Threads -> ThreadT] /\ thr'[t] = X /\ \A u \in Threads : u # t => thr'[u] = thr[u]
  BY <1>1, <1>9
<1>11. Types'
  BY <1>2, <1>5, <1>10 DEF FlowInv, Types
<1>12. Links'
  <2>1. ASSUME NEW u \in Threads
        PROVE  ThreadOK(u)'
    <3>1. ThreadOK(u) /\ Created' = Created
      BY <1>2 DEF FlowInv, Links, Created
    <3>2. CASE u = t
      <4>1. DOMAIN X.stack = {}
        BY <1>2, <1>9, <3>1, <3>2 DEF ThreadOK
      <4> QED
        BY <1>2, <1>9, <1>10, <3>1, <3>2, <4>1 DEF ThreadOK
    <3>3. CASE u # t
      <4>1. \A f \in FrameT : FrameOK(f) => FrameOK(f)'
        BY <1>2 DEF FrameOK, Open, Created
      <4>2. \A k \in DOMAIN thr[u].stack : thr[u].stack[k] \in FrameT
        BY ElementOfSeq, LenProperties DEF FlowInv, Types, ThreadT
      <4> QED
        BY <1>10, <3>1, <3>3, <4>1, <4>2 DEF ThreadOK
    <3> QED
      BY <3>2, <3>3
  <2> QED
    BY <1>1, <1>2, <1>4, <1>5, <2>1 DEF FlowInv, Links, Created
<1>13. OneOwner'
  <2>1. \A u \in Threads : thr'[u].s = thr[u].s
    BY <1>9, <1>10
  <2>2. ASSUME NEW u \in Threads, thr'[u].pc \in {"started", "replaying"}
        PROVE  thr'[u].s \notin ToSet(registry')
    <3>1. u # t /\ thr'[u] = thr[u]
      BY <1>6, <1>9, <1>10, <2>2
    <3>2. thr[u].s \notin ToSet(registry) /\ thr[u].s # id
      BY <1>3, <2>2, <3>1 DEF FlowInv, OneOwner, Links, ThreadOK, Types, NoId, Created
    <3> QED
      BY <1>4, <1>5, <3>1, <3>2
  <2> QED
    BY <1>5, <2>1, <2>2 DEF FlowInv, OneOwner
<1>14. ASSUME RunningReachable
       PROVE  RunningReachable'
  <2> SUFFICES ASSUME NEW m \in Created, Running(m), Registered(m)'
               PROVE  m \in ToSet(registry')
    BY <1>2, <1>14 DEF RunningReachable, Running, Created
  <2>1. m \in RunningIds
    BY DEF RunningIds
  <2>2. m = id \/ Registered(m)
    BY <1>3, <1>10 DEF Registered
  <2>3. m \in ToSet(list)
    BY <1>4, <1>14, <2>2 DEF RunningReachable
  <2> QED
    BY <1>5, <2>1, <2>3
<1> QED
  BY <1>11, <1>12, <1>13, <1>14 DEF FlowInv

\* A thread that leaves its flow, which may get its status.
LEMMA LeaveInv ==
    ASSUME FlowInv, NEW t \in Threads, NEW id \in Created, NEW S \in SessionT,
           thr[t].pc \in {"program", "replay", "ending"}, thr' = [thr EXCEPT ![t] = Idle],
           sess' = [sess EXCEPT ![id] = S], S.nodes = sess[id].nodes, S.of = sess[id].of,
           S.status = "RUNNING" => sess[id].status = "RUNNING",
           engine' = engine \/ engine' = [engine EXCEPT ![thr[t].of].active = NoId],
           UNCHANGED <<host, registry, asked, crashed>>
    PROVE  FlowInv' /\ (RunningReachable => RunningReachable')
<1>1. /\ thr \in [Threads -> ThreadT] /\ Idle \in ThreadT /\ Idle.pc = "idle" /\ Idle.s = NoId
      /\ DOMAIN Idle.stack = {}
  BY EmptySeq DEF FlowInv, Types, Idle, ThreadT, NoId
<1>2. /\ thr' \in [Threads -> ThreadT] /\ thr'[t] = Idle
      /\ \A u \in Threads : u # t => thr'[u] = thr[u]
  BY <1>1
<1>3. Len(S.nodes) >= Len(sess[id].nodes)
  BY SessionFacts
<1>4. /\ sess' \in Seq(SessionT) /\ Len(sess') = Len(sess) /\ Created' = Created
      /\ sess'[id] = S /\ \A n \in Created : n # id => sess'[n] = sess[n]
      /\ \A f \in FrameT : FrameOK(f) => FrameOK(f)'
  BY <1>3, SessionReplaced DEF FlowInv
<1>5. /\ engine' \in [Interps -> EngineT]
      /\ \A i \in Interps : engine'[i].order = engine[i].order
                           /\ (engine'[i].active = engine[i].active \/ engine'[i].active = NoId)
  <2>1. engine \in [Interps -> EngineT]
    BY DEF FlowInv, Types
  <2>2. CASE engine' = engine
    BY <2>1, <2>2
  <2>3. CASE engine' = [engine EXCEPT ![thr[t].of].active = NoId]
    <3>1. \A i \in Interps : engine'[i] = IF i = thr[t].of THEN [engine[i] EXCEPT !.active = NoId] ELSE engine[i]
      BY <2>1, <2>3
    <3>2. \A i \in Interps : [engine[i] EXCEPT !.active = NoId] \in EngineT
      BY <2>1 DEF EngineT, NoId
    <3>3. \A i \in Interps : engine'[i].order = engine[i].order
                                /\ (engine'[i].active = engine[i].active \/ engine'[i].active = NoId)
      BY <2>1, <3>1 DEF EngineT
    <3> QED
      BY <2>1, <2>3, <3>1, <3>2, <3>3
  <2> QED
    BY <2>2, <2>3
<1>6. Types'
  BY <1>2, <1>4, <1>5 DEF FlowInv, Types
<1>7. Links'
  <2>1. ASSUME NEW u \in Threads
        PROVE  ThreadOK(u)'
    <3>1. CASE u = t
      BY <1>1, <1>2, <3>1 DEF ThreadOK
    <3>2. CASE u # t
      <4>1. ThreadOK(u) /\ thr'[u] = thr[u]
        BY <1>2, <3>2 DEF FlowInv, Links
      <4>2. \A k \in DOMAIN thr[u].stack : thr[u].stack[k] \in FrameT
        BY ElementOfSeq, LenProperties DEF FlowInv, Types, ThreadT
      <4> QED
        BY <1>4, <4>1, <4>2 DEF ThreadOK
    <3> QED
      BY <3>1, <3>2
  <2> QED
    BY <1>4, <1>5, <2>1 DEF FlowInv, Links
<1>8. OneOwner'
  BY <1>1, <1>2 DEF FlowInv, OneOwner
<1>9. ASSUME RunningReachable
      PROVE  RunningReachable'
  <2> SUFFICES ASSUME NEW n \in Created, Running(n)'
               PROVE  /\ n \in ToSet(engine'[sess'[n].of].order)
                      /\ Registered(n)' => n \in ToSet(registry')
    BY <1>4 DEF RunningReachable
  <2>1. Running(n) /\ sess'[n].of = sess[n].of /\ sess[n].of \in Interps
    BY <1>4, SessionFacts DEF Running, SessionT
  <2>2. Registered(n)' => Registered(n)
    <3> SUFFICES ASSUME Registered(n)', NEW u \in Threads, thr[u].s = n
                 PROVE  thr[u].pc \notin {"started", "replaying"}
      BY DEF Registered
    <3>1. CASE u = t
      BY <3>1
    <3>2. CASE u # t
      BY <1>2, <3>2 DEF Registered
    <3> QED
      BY <3>1, <3>2
  <2> QED
    BY <1>5, <1>9, <2>1, <2>2 DEF RunningReachable
<1> QED
  BY <1>6, <1>7, <1>8, <1>9 DEF FlowInv

\* A canceller or the clock raises a flag of a flow.
LEMMA FlagInv ==
    ASSUME FlowInv, NEW id \in Created, NEW S \in SessionT,
           sess' = [sess EXCEPT ![id] = S], S.nodes = sess[id].nodes, S.of = sess[id].of,
           S.status = sess[id].status, asked' \in Created \cup {NoId},
           UNCHANGED <<host, engine, registry, thr, crashed>>
    PROVE  FlowInv' /\ (RunningReachable => RunningReachable')
<1>1. Len(S.nodes) >= Len(sess[id].nodes)
  BY SessionFacts
<1>2. /\ sess' \in Seq(SessionT) /\ Len(sess') = Len(sess) /\ Created' = Created
      /\ sess'[id] = S /\ \A n \in Created : n # id => sess'[n] = sess[n]
      /\ \A f \in FrameT : FrameOK(f) => FrameOK(f)'
  BY <1>1, SessionReplaced DEF FlowInv
<1>3. Types'
  <2>1. asked' \in Nat
    BY SessionFacts DEF NoId
  <2> QED
    BY <1>2, <2>1 DEF FlowInv, Types
<1>4. Links'
  <2>1. ASSUME NEW u \in Threads
        PROVE  ThreadOK(u)'
    <3>1. ThreadOK(u) /\ \A k \in DOMAIN thr[u].stack : thr[u].stack[k] \in FrameT
      BY ElementOfSeq, LenProperties DEF FlowInv, Types, Links, ThreadT
    <3> QED
      BY <1>2, <3>1 DEF ThreadOK
  <2> QED
    BY <1>2, <2>1 DEF FlowInv, Links
<1>5. OneOwner'
  BY DEF FlowInv, OneOwner
<1>6. RunningReachable => RunningReachable'
  BY <1>2 DEF RunningReachable, Running, Registered
<1> QED
  BY <1>3, <1>4, <1>5, <1>6 DEF FlowInv

Outside(t) ==
    \/ Register(t) \/ Judge(t) \/ End(t) \/ Leak(t) \/ Crash(t) \/ Replay(t)
    \/ \E i \in Interps : Run(t, i)

LEMMA NextSteps ==
    Next => CancelLook \/ CancelSet \/ Deadline \/ \E t \in Threads : Inside(t) \/ Outside(t)
BY DEF Next, Step, Inside, Outside

\* The look at the cancel flag at the end of a run changes no more than the thread's own state.
JudgedAs(t, X) ==
    /\ thr' = [thr EXCEPT ![t] = X] /\ thr[t].pc \in {"program", "replay"}
    /\ X.pc = "ending" /\ X.s = thr[t].s /\ X.of = thr[t].of /\ X.err = thr[t].err
    /\ X.saw = sess[thr[t].s].cancel
    /\ X.stack = <<>> /\ thr[t].stack = <<>>
    /\ UNCHANGED <<host, sess, engine, registry, asked, crashed>>

LEMMA JudgeKeeps ==
    ASSUME FlowInv, NEW t \in Threads, Judge(t)
    PROVE  \E X \in ThreadT : JudgedAs(t, X)
<1>1. /\ thr \in [Threads -> ThreadT] /\ thr[t] \in ThreadT
      /\ thr[t].pc \in {"program", "replay"} /\ thr[t].stack = <<>>
      /\ UNCHANGED <<host, sess, engine, registry, asked, crashed>>
  BY DEF FlowInv, Types, Judge, Over
<1>2. PICK id \in Created : id = thr[t].s
  BY <1>1 DEF FlowInv, Links, ThreadOK
<1>3. sess[id].cancel \in BOOLEAN
  BY SessionFacts DEF SessionT
<1>4. PICK X : X = [thr[t] EXCEPT !.pc = "ending", !.saw = sess[id].cancel]
  OBVIOUS
<1>5. /\ X \in ThreadT /\ X.pc = "ending" /\ X.s = thr[t].s /\ X.of = thr[t].of
      /\ X.err = thr[t].err /\ X.saw = sess[id].cancel /\ X.stack = thr[t].stack
  BY <1>1, <1>3, <1>4 DEF ThreadT
<1>6. thr' = [thr EXCEPT ![t] = X]
  BY <1>1, <1>2, <1>4 DEF Judge
<1> QED
  BY <1>1, <1>2, <1>5, <1>6 DEF JudgedAs

LEMMA JudgedInv ==
    ASSUME FlowInv, NEW t \in Threads, NEW X \in ThreadT, JudgedAs(t, X)
    PROVE  FlowInv' /\ (RunningReachable => RunningReachable')
<1>1. /\ thr \in [Threads -> ThreadT] /\ thr' \in [Threads -> ThreadT] /\ thr'[t] = X
      /\ \A u \in Threads : u # t => thr'[u] = thr[u]
  BY DEF JudgedAs, FlowInv, Types
<1>2. UNCHANGED <<host, sess, engine, registry, asked, crashed>> /\ Created' = Created
  BY DEF JudgedAs, Created
<1>3. Types'
  BY <1>1, <1>2 DEF FlowInv, Types
<1>4. DOMAIN X.stack = {} /\ X.s = thr[t].s /\ X.of = thr[t].of
      /\ X.pc = "ending" /\ thr[t].pc \in {"program", "replay"}
  BY EmptySeq DEF JudgedAs
<1>5. Links'
  <2>1. ASSUME NEW u \in Threads
        PROVE  ThreadOK(u)'
    <3>1. ThreadOK(u)
      BY DEF FlowInv, Links
    <3>2. \A f : FrameOK(f)' <=> FrameOK(f)
      BY <1>2 DEF FrameOK
    <3>3. CASE u = t
      BY <1>1, <1>2, <1>4, <3>1, <3>3 DEF ThreadOK
    <3>4. CASE u # t
      BY <1>1, <1>2, <3>1, <3>2, <3>4 DEF ThreadOK
    <3> QED
      BY <3>3, <3>4
  <2> QED
    BY <1>2, <2>1 DEF FlowInv, Links
<1>6. \A u \in Threads : /\ thr'[u].s = thr[u].s
                         /\ thr'[u].pc \in {"started", "replaying"} <=> thr[u].pc \in {"started", "replaying"}
  BY <1>1, <1>4
<1>7. OneOwner'
  BY <1>2, <1>6 DEF FlowInv, OneOwner
<1>8. RunningReachable => RunningReachable'
  BY <1>2, <1>6 DEF RunningReachable, Running, Registered
<1> QED
  BY <1>3, <1>5, <1>7, <1>8 DEF FlowInv

LEMMA OutsideInv ==
    ASSUME FlowInv, NEW t \in Threads, Outside(t)
    PROVE  FlowInv' /\ (RunningReachable => RunningReachable')
<1>1. CASE Register(t)
  BY <1>1, RegisterInv
<1>2. CASE \E i \in Interps : Run(t, i)
  BY <1>2, CreateInv DEF Run
<1>3. CASE Replay(t)
  <2>1. PICK id \in Created : ReplayOf(t, id)
    BY <1>3 DEF Replay
  <2>2. PICK i \in Interps : i = sess[id].of
    BY SessionFacts DEF SessionT
  <2>3. Create(t, i, "replaying")
    BY <2>1, <2>2 DEF ReplayOf
  <2> QED
    BY <2>3, CreateInv
<1>4. CASE End(t) \/ Leak(t)
  <2>1. thr[t].pc \in {"program", "replay", "ending"} /\ thr' = [thr EXCEPT ![t] = Idle]
        /\ UNCHANGED <<host, registry, asked, crashed>>
    BY <1>4 DEF End, Leak, Over
  <2>2. PICK id \in Created : id = thr[t].s
    BY <2>1 DEF FlowInv, Links, ThreadOK
  <2>3. CASE End(t)
    <3>1. PICK S : S = [sess[id] EXCEPT !.status = Verdict(id, thr[t].saw, thr[t].err)]
      OBVIOUS
    <3>2. sess[id] \in SessionT /\ Verdict(id, thr[t].saw, thr[t].err) \in SessionStatus \ {"RUNNING"}
      BY SessionFacts DEF Verdict, SessionStatus
    <3>3. S \in SessionT /\ S.nodes = sess[id].nodes /\ S.of = sess[id].of /\ S.status # "RUNNING"
      BY <3>1, <3>2 DEF SessionT
    <3>4. sess' = [sess EXCEPT ![id] = S] /\ engine' = [engine EXCEPT ![thr[t].of].active = NoId]
      BY <2>2, <2>3, <3>1 DEF End
    <3> QED
      BY <2>1, <3>3, <3>4, LeaveInv
  <2>4. CASE Leak(t)
    <3>1. PICK S \in SessionT : S = sess[id]
      BY SessionFacts
    <3>2. sess' = [sess EXCEPT ![id] = S] /\ engine' = engine
      BY <2>4, <3>1, SessionFacts DEF Leak
    <3> QED
      BY <2>1, <3>1, <3>2, LeaveInv
  <2> QED
    BY <1>4, <2>3, <2>4
<1>5. CASE Crash(t)
  <2>1. UNCHANGED <<host, sess, engine, registry, thr, asked>> /\ crashed' = TRUE
    BY <1>5 DEF Crash
  <2> QED
    BY <2>1 DEF FlowInv, Types, Links, OneOwner, ThreadOK, FrameOK, Open, Created,
                RunningReachable, Running, Registered
<1>6. CASE Judge(t)
  <2>1. PICK X \in ThreadT : JudgedAs(t, X)
    BY <1>6, JudgeKeeps
  <2> QED
    BY <2>1, JudgedInv
<1> QED
  BY <1>1, <1>2, <1>3, <1>4, <1>5, <1>6 DEF Outside

LEMMA RequestInv ==
    ASSUME FlowInv, CancelLook \/ CancelSet \/ Deadline
    PROVE  FlowInv' /\ (RunningReachable => RunningReachable')
<1>1. CASE CancelLook
  <2>1. UNCHANGED <<host, sess, engine, registry, thr, crashed>> /\ asked' \in ToSet(registry)
    BY <1>1 DEF CancelLook
  <2>2. PICK id \in Created : id = asked'
    BY <2>1 DEF FlowInv, Links
  <2>3. PICK S \in SessionT : S = sess[id]
    BY SessionFacts
  <2>4. sess' = [sess EXCEPT ![id] = S]
    BY <2>1, <2>3, SessionFacts
  <2> QED
    BY <2>1, <2>2, <2>3, <2>4, FlagInv
<1>2. CASE CancelSet
  <2>1. PICK id \in Created : id = asked
    BY <1>2 DEF CancelSet, FlowInv, Links
  <2>2. PICK S : S = [sess[id] EXCEPT !.cancel = TRUE]
    OBVIOUS
  <2>3. S \in SessionT /\ S.nodes = sess[id].nodes /\ S.of = sess[id].of /\ S.status = sess[id].status
    BY <2>2, SessionFacts DEF SessionT
  <2>4. /\ sess' = [sess EXCEPT ![id] = S] /\ asked' = NoId
        /\ UNCHANGED <<host, engine, registry, thr, crashed>>
    BY <1>2, <2>1, <2>2 DEF CancelSet
  <2> QED
    BY <2>3, <2>4, FlagInv
<1>3. CASE Deadline
  <2>1. PICK id \in Created : sess' = [sess EXCEPT ![id].late = TRUE]
    BY <1>3 DEF Deadline
  <2>2. PICK S : S = [sess[id] EXCEPT !.late = TRUE]
    OBVIOUS
  <2>3. S \in SessionT /\ S.nodes = sess[id].nodes /\ S.of = sess[id].of /\ S.status = sess[id].status
    BY <2>2, SessionFacts DEF SessionT
  <2>4. /\ sess' = [sess EXCEPT ![id] = S] /\ asked' \in Created \cup {NoId}
        /\ UNCHANGED <<host, engine, registry, thr, crashed>>
    BY <1>3, <2>1, <2>2 DEF Deadline, FlowInv, Links
  <2> QED
    BY <2>3, <2>4, FlagInv
<1> QED
  BY <1>1, <1>2, <1>3

LEMMA NextInv ==
    ASSUME FlowInv, [Next]_vars
    PROVE  FlowInv' /\ (RunningReachable => RunningReachable')
<1>1. CASE UNCHANGED vars
  BY <1>1 DEF vars, FlowInv, Types, Links, OneOwner, ThreadOK, FrameOK, Open, Created,
              RunningReachable, Running, Registered
<1>2. CASE Next
  <2>1. CASE CancelLook \/ CancelSet \/ Deadline
    BY <2>1, RequestInv
  <2>2. ASSUME NEW t \in Threads, Inside(t) \/ Outside(t)
        PROVE  FlowInv' /\ (RunningReachable => RunningReachable')
    BY <2>2, InsideAdvances, AdvanceInv, OutsideInv
  <2> QED
    BY <1>2, <2>1, <2>2, NextSteps
<1> QED
  BY <1>1, <1>2

LEMMA InitInv == Init => FlowInv /\ RunningReachable
<1> SUFFICES ASSUME Init
             PROVE  FlowInv /\ RunningReachable
  OBVIOUS
<1>1. /\ sess = <<>> /\ registry = <<>> /\ Len(sess) = 0 /\ Created = {} /\ ToSet(registry) = {}
      /\ sess \in Seq(SessionT) /\ registry \in Seq(Nat) /\ MaxId \in Nat
  <2>1. DOMAIN <<>> = {}
    OBVIOUS
  <2> QED
    BY <2>1, EmptySeq, FlowAssumption DEF Init, Created, ToSet
<1>2. Idle \in ThreadT /\ Idle.pc = "idle" /\ Idle.s = NoId /\ DOMAIN Idle.stack = {}
  BY EmptySeq DEF Idle, ThreadT, NoId
<1>3. Types
  <2>1. PICK E : E = [order |-> <<>>, active |-> NoId, used |-> FALSE]
    OBVIOUS
  <2>2. E \in EngineT
    BY <2>1, EmptySeq DEF EngineT, NoId
  <2>3. engine = [i \in Interps |-> E]
    BY <2>1 DEF Init
  <2>4. engine \in [Interps -> EngineT]
    BY <2>2, <2>3
  <2>5. host \in Hosts /\ thr = [t \in Threads |-> Idle] /\ asked \in Nat /\ crashed \in BOOLEAN
    BY DEF Init, NoId
  <2> QED
    BY <1>1, <1>2, <2>4, <2>5 DEF Types
<1>4. Links
  <2>1. \A t \in Threads : thr[t] = Idle
    BY DEF Init
  <2>2. \A i \in Interps : engine[i].order = <<>> /\ engine[i].active = NoId
    BY DEF Init
  <2>3. ToSet(<<>>) = {}
    BY <1>1 DEF ToSet
  <2> QED
    BY <1>1, <1>2, <2>1, <2>2, <2>3 DEF Init, Links, ThreadOK
<1>5. OneOwner
  BY <1>1, <1>2 DEF Init, OneOwner, IsInjective
<1> QED
  BY <1>1, <1>3, <1>4, <1>5 DEF FlowInv, RunningReachable

LEMMA TypeFollows == FlowInv => TypeOK
<1> SUFFICES ASSUME FlowInv
             PROVE  TypeOK
  OBVIOUS
<1>1. Created = 1 .. Len(sess) /\ Created \subseteq Ids /\ host \in Hosts
  <2>1. Created = 1 .. Len(sess) /\ Len(sess) \in Nat /\ Len(sess) <= MaxId /\ MaxId \in Nat
    BY FlowAssumption, LenProperties DEF FlowInv, Types, Created
  <2> QED
    BY <2>1 DEF FlowInv, Types, Ids
<1>2. ASSUME NEW id \in Created
      PROVE  /\ sess[id].of \in Interps /\ sess[id].status \in SessionStatus
             /\ \A k \in DOMAIN sess[id].nodes : sess[id].nodes[k].st \in NodeStatus
  <2>1. sess[id] \in SessionT /\ \A k \in DOMAIN sess[id].nodes : sess[id].nodes[k] \in NodeT
    BY SessionFacts, ElementOfSeq, LenProperties
  <2> QED
    BY <2>1 DEF SessionT, NodeT
<1>3. ASSUME NEW t \in Threads
      PROVE  /\ thr[t].pc \in {"idle", "started", "replaying", "program", "replay", "ending"}
             /\ thr[t].err \in Errors \cup {"none"}
             /\ \A f \in Frames(t) : f.node \in 0 .. Len(sess[f.s].nodes)
  <2>1. thr[t] \in ThreadT /\ ThreadOK(t)
    BY DEF FlowInv, Types, Links
  <2>2. ASSUME NEW k \in DOMAIN thr[t].stack
        PROVE  thr[t].stack[k].node \in 0 .. Len(sess[thr[t].stack[k].s].nodes)
    <3>1. PICK f : f = thr[t].stack[k]
      OBVIOUS
    <3>2. f \in FrameT /\ FrameOK(f)
      BY <2>1, <3>1, ElementOfSeq, LenProperties DEF ThreadT, ThreadOK
    <3>3. f.node \in Nat /\ f.node <= Len(sess[f.s].nodes) /\ Len(sess[f.s].nodes) \in Nat
      BY <3>2, SessionFacts DEF FrameT, FrameOK
    <3> QED
      BY <3>1, <3>3
  <2> QED
    BY <2>1, <2>2 DEF ThreadT, Frames
<1>4. /\ asked \in Created \cup {NoId} /\ ToSet(registry) \subseteq Created /\ IsInjective(registry)
      /\ \A i \in Interps : ToSet(engine[i].order) \subseteq Created
  BY DEF FlowInv, Links, OneOwner
<1> QED
  BY <1>1, <1>2, <1>3, <1>4 DEF TypeOK

\* The records of flows, threads and histories refer to each other as they should, and no flow is
\* registered twice, however many threads run and replay flows (createSession,
\* registerFlowInterpreter).
THEOREM FlowTypes == Spec => []TypeOK
<1>1. FlowInv /\ [Next]_vars => FlowInv'
  BY NextInv
<1> QED
  BY <1>1, InitInv, TypeFollows, PTL DEF Spec

\* A flow that runs, or was left running by an exception, is in the history of its engine and, once
\* started, in the registry: neither list drops it, whatever the sizes and the number of threads.
THEOREM RunningFlowsReachable == Spec => []RunningReachable
<1>1. (FlowInv /\ RunningReachable) /\ [Next]_vars => (FlowInv /\ RunningReachable)'
  BY NextInv
<1> QED
  BY <1>1, InitInv, PTL DEF Spec

-----------------------------------------------------------------------------
(* How far the registry grows over its cap                                 *)

\* The running flows among the first p entries of a list.
RunBefore(list, run, p) == {list[q] : q \in 1 .. p} \cap run

\* No entry that runs is further from the end than C allows, and one with k running flows before
\* it has 2k less: it has been moved back once for each of them.
Loose(list, run, C) ==
    /\ Len(list) <= C
    /\ \A p \in 1 .. Len(list) :
          list[p] \in run => Len(list) - p + 2 * Cardinality(RunBefore(list, run, p)) <= C

\* There are no more running flows before a place than there are places, or than run at all.
LEMMA FewBefore ==
    ASSUME NEW list, NEW run, IsFiniteSet(run), NEW p \in Nat
    PROVE  /\ IsFiniteSet(RunBefore(list, run, p))
           /\ Cardinality(RunBefore(list, run, p)) \in Nat
           /\ Cardinality(run) \in Nat
           /\ Cardinality(RunBefore(list, run, p)) <= p
           /\ Cardinality(RunBefore(list, run, p)) <= Cardinality(run)
<1>1. /\ IsFiniteSet(RunBefore(list, run, p))
      /\ Cardinality(RunBefore(list, run, p)) <= Cardinality(run)
  <2>1. RunBefore(list, run, p) \in SUBSET run
    BY DEF RunBefore
  <2> QED
    BY <2>1, FS_Subset
<1>2. Cardinality(RunBefore(list, run, p)) \in Nat /\ Cardinality(run) \in Nat
  BY <1>1, FS_CardinalityType
<1>3. IsFiniteSet(1 .. p) /\ Cardinality(1 .. p) = p
  BY FS_Interval
<1>4. PICK T : T = {list[q] : q \in 1 .. p}
  OBVIOUS
<1>5. IsFiniteSet(T) /\ Cardinality(T) <= p
  <2>1. PICK f : f = [q \in 1 .. p |-> list[q]]
    OBVIOUS
  <2>2. f \in Surjection(1 .. p, T)
    BY <1>4, <2>1 DEF Surjection
  <2> QED
    BY <1>3, <2>2, FS_Surjection
<1>6. Cardinality(RunBefore(list, run, p)) <= Cardinality(T)
  <2>1. RunBefore(list, run, p) \in SUBSET T
    BY <1>4 DEF RunBefore
  <2> QED
    BY <1>5, <2>1, FS_Subset
<1>7. Cardinality(T) \in Nat
  BY <1>5, FS_CardinalityType
<1> QED
  BY <1>1, <1>2, <1>5, <1>6, <1>7

\* Fewer running flows, or a larger bound, keep a list loose.
LEMMA LooseStays ==
    ASSUME NEW list \in Seq(Nat), NEW run, IsFiniteSet(run), NEW less, less \cap ToSet(list) \subseteq run,
           NEW C \in Nat, NEW D \in Nat, C <= D, Loose(list, run, C)
    PROVE  Loose(list, less, D)
<1>1. Len(list) \in Nat
  BY SetOfSeq
<1> SUFFICES ASSUME NEW p \in 1 .. Len(list), list[p] \in less
             PROVE  Len(list) - p + 2 * Cardinality(RunBefore(list, less, p)) <= D
  BY <1>1 DEF Loose
<1>2. \A q \in 1 .. p : list[q] \in ToSet(list)
  BY <1>1, SetOfSeq
<1>3. list[p] \in run
  BY <1>1, <1>2
<1>4. RunBefore(list, less, p) \in SUBSET RunBefore(list, run, p)
  BY <1>2 DEF RunBefore
<1>5. /\ IsFiniteSet(RunBefore(list, run, p)) /\ Cardinality(RunBefore(list, run, p)) \in Nat
  BY <1>1, FewBefore
<1>6. /\ Cardinality(RunBefore(list, less, p)) <= Cardinality(RunBefore(list, run, p))
      /\ Cardinality(RunBefore(list, less, p)) \in Nat
  BY <1>4, <1>5, FS_Subset, FS_CardinalityType
<1>7. Len(list) - p + 2 * Cardinality(RunBefore(list, run, p)) <= C
  BY <1>3 DEF Loose
<1>8. PICK few \in Nat : few = Cardinality(RunBefore(list, less, p))
  BY <1>6
<1>9. PICK many \in Nat : many = Cardinality(RunBefore(list, run, p))
  BY <1>5
<1>10. few <= many /\ Len(list) - p + 2 * many <= C
  BY <1>6, <1>7, <1>8, <1>9
<1>11. Len(list) - p + 2 * few <= D
  BY <1>1, <1>10
<1> QED
  BY <1>8, <1>11

\* A flow that enters at the end makes the list looser by one.
LEMMA LooseAppended ==
    ASSUME NEW list \in Seq(Nat), NEW run, IsFiniteSet(run), NEW e \in Nat, NEW C \in Nat,
           2 * Cardinality(run) <= C, Loose(list, run, C)
    PROVE  Loose(Append(list, e), run, C + 1)
<1>1. Len(list) \in Nat /\ Len(list) <= C
  BY SetOfSeq DEF Loose
<1>2. PICK new : new = Append(list, e)
  OBVIOUS
<1>3. Len(new) = Len(list) + 1 /\ \A q \in 1 .. Len(list) : new[q] = list[q]
  BY <1>1, <1>2, AppendProperties
<1>4. ASSUME NEW p \in 1 .. Len(new), new[p] \in run
      PROVE  Len(new) - p + 2 * Cardinality(RunBefore(new, run, p)) <= C + 1
  <2>1. CASE p = Len(new)
    <3>1. Cardinality(RunBefore(new, run, p)) \in Nat /\ Cardinality(run) \in Nat
          /\ Cardinality(RunBefore(new, run, p)) <= Cardinality(run)
      BY <1>1, <1>3, FewBefore
    <3> QED
      BY <1>1, <1>3, <2>1, <3>1
  <2>2. CASE p # Len(new)
    <3>1. p \in 1 .. Len(list) /\ p \in Nat
      BY <1>1, <1>3, <2>2
    <3>2. RunBefore(new, run, p) = RunBefore(list, run, p) /\ list[p] \in run
      <4>1. \A q \in 1 .. p : new[q] = list[q]
        BY <1>1, <1>3, <3>1
      <4> QED
        BY <1>3, <1>4, <3>1, <4>1 DEF RunBefore
    <3>3. Len(list) - p + 2 * Cardinality(RunBefore(list, run, p)) <= C
      BY <3>1, <3>2 DEF Loose
    <3>4. PICK g \in Nat : g = Cardinality(RunBefore(list, run, p))
      BY <3>1, FewBefore
    <3>5. Len(new) - p + 2 * g <= C + 1
      BY <1>1, <1>3, <3>1, <3>3, <3>4
    <3> QED
      BY <3>2, <3>4, <3>5
  <2> QED
    BY <2>1, <2>2
<1> QED
  BY <1>1, <1>2, <1>3, <1>4 DEF Loose

\* Dropping the oldest entries loosens nothing; what is left is tight, or begins with a flow that runs.
LEMMA LooseTrimmed ==
    ASSUME NEW list \in Seq(Nat), NEW run, IsFiniteSet(run), NEW cap \in Nat, NEW C \in Nat,
           cap + Cardinality(run) <= C, Loose(list, run, C + 1), NEW rest \in Trimmed(list, run, cap)
    PROVE  /\ Len(rest) <= cap => Loose(rest, run, C)
           /\ Len(rest) > cap => Loose(rest, run, C + 1) /\ rest[1] \in run
<1>1. PICK k \in 0 .. Len(list) : rest = SubSeq(list, k + 1, Len(list)) /\ Dropped(list, run, cap, k)
  BY DEF Trimmed
<1>2. Len(list) \in Nat /\ Len(list) <= C + 1 /\ k \in Nat /\ Cardinality(run) \in Nat
  BY SetOfSeq, FS_CardinalityType DEF Loose
<1>3. /\ Len(rest) = Len(list) - k
      /\ \A j \in 1 .. Len(list) - k : rest[j] = list[k + j]
  <2>1. PICK a \in Int : a = k + 1
    BY <1>2
  <2>2. PICK n \in Int : n = Len(list)
    BY <1>2
  <2>3. \A j \in a .. n : list[j] \in Nat
    BY <1>2, <2>1, <2>2, ElementOfSeq
  <2>4. /\ SubSeq(list, a, n) \in Seq(Nat)
        /\ Len(SubSeq(list, a, n)) = IF a <= n THEN n - a + 1 ELSE 0
        /\ \A j \in 1 .. n - a + 1 : SubSeq(list, a, n)[j] = list[a + j - 1]
    BY <2>3, SubSeqProperties, SMTT(20)
  <2>5. rest = SubSeq(list, a, n) /\ n - a + 1 = Len(list) - k
    BY <1>1, <1>2, <2>1, <2>2
  <2>6. PICK d \in Nat : d = Len(list) - k
    BY <1>2
  <2>7. Len(rest) = d
    <3>1. IF a <= n THEN n - a + 1 = d ELSE d = 0
      BY <1>2, <2>1, <2>2, <2>6
    <3> QED
      BY <2>4, <2>5, <3>1
  <2>8. ASSUME NEW j \in 1 .. d PROVE rest[j] = list[k + j]
    <3>1. j \in 1 .. n - a + 1 /\ a + j - 1 = k + j
      BY <1>2, <2>1, <2>2, <2>6
    <3> QED
      BY <2>4, <2>5, <3>1
  <2> QED
    BY <2>6, <2>7, <2>8
<1>4. ASSUME Len(rest) <= cap
      PROVE  Loose(rest, run, C)
  <2>1. ASSUME NEW p \in 1 .. Len(rest)
        PROVE  Len(rest) - p + 2 * Cardinality(RunBefore(rest, run, p)) <= C
    <3>1. p \in Nat /\ Len(rest) \in Nat
      BY <1>2, <1>3
    <3>2. /\ Cardinality(RunBefore(rest, run, p)) \in Nat
          /\ Cardinality(RunBefore(rest, run, p)) <= p
          /\ Cardinality(RunBefore(rest, run, p)) <= Cardinality(run)
      BY <3>1, FewBefore
    <3>3. PICK g \in Nat : g = Cardinality(RunBefore(rest, run, p))
      BY <3>2
    <3>4. PICK r \in Nat : r = Cardinality(run)
      BY <1>2
    <3>5. Len(rest) - p + 2 * g <= C
      <4>1. g <= p /\ g <= r /\ cap + r <= C
        BY <3>2, <3>3, <3>4
      <4> QED
        BY <1>4, <3>1, <4>1
    <3> QED
      BY <3>3, <3>5
  <2> QED
    BY <1>2, <1>3, <1>4, <2>1 DEF Loose
<1>5. ASSUME Len(rest) > cap
      PROVE  Loose(rest, run, C + 1) /\ rest[1] \in run
  <2>1. list[k + 1] \in run /\ \A j \in 1 .. k : list[j] \notin run
    BY <1>1, <1>2, <1>3, <1>5 DEF Dropped
  <2>2. rest[1] = list[k + 1]
    <3>1. 1 \in 1 .. Len(list) - k
      BY <1>2, <1>3, <1>5
    <3> QED
      BY <1>3, <3>1
  <2>3. ASSUME NEW p \in 1 .. Len(rest), rest[p] \in run
        PROVE  Len(rest) - p + 2 * Cardinality(RunBefore(rest, run, p)) <= C + 1
    <3>1. k + p \in 1 .. Len(list) /\ list[k + p] = rest[p] /\ p \in Nat /\ p >= 1 /\ p <= Len(rest)
      <4>1. p \in 1 .. Len(list) - k /\ p \in Nat /\ p >= 1 /\ p <= Len(rest)
        BY <1>2, <1>3
      <4>2. k + p \in 1 .. Len(list)
        BY <1>2, <4>1
      <4> QED
        BY <1>3, <4>1, <4>2
    <3>2. RunBefore(rest, run, p) = RunBefore(list, run, k + p)
      <4>1. ASSUME NEW q \in 1 .. p
            PROVE  k + q \in 1 .. k + p /\ rest[q] = list[k + q]
        <5>1. q \in 1 .. Len(rest)
          BY <1>2, <1>3, <3>1
        <5>2. k + q \in 1 .. k + p /\ q \in 1 .. Len(list) - k
          BY <1>2, <1>3, <3>1, <5>1
        <5> QED
          BY <1>3, <5>2
      <4>2. ASSUME NEW q \in 1 .. k + p, list[q] \in run
            PROVE  \E j \in 1 .. p : rest[j] = list[q]
        <5>1. q > k /\ q \in Nat
          <6>1. q \in Nat /\ q >= 1 /\ k \in Nat
            BY <1>2, <3>1
          <6>2. q \notin 1 .. k
            BY <2>1, <4>2
          <6> QED
            BY <6>1, <6>2
        <5>2. PICK j \in 1 .. p : j = q - k
          BY <1>2, <3>1, <5>1
        <5>3. j \in 1 .. Len(rest) /\ k + j = q
          BY <1>2, <1>3, <3>1, <5>1, <5>2
        <5> QED
          BY <1>3, <5>2, <5>3
      <4>3. RunBefore(rest, run, p) \subseteq RunBefore(list, run, k + p)
        BY <4>1 DEF RunBefore
      <4>4. RunBefore(list, run, k + p) \subseteq RunBefore(rest, run, p)
        BY <4>2 DEF RunBefore
      <4> QED
        BY <4>3, <4>4
    <3>3. Len(list) - (k + p) + 2 * Cardinality(RunBefore(list, run, k + p)) <= C + 1
      BY <2>3, <3>1 DEF Loose
    <3>4. PICK g \in Nat : g = Cardinality(RunBefore(list, run, k + p))
      BY <1>2, <3>1, FewBefore
    <3>5. Len(rest) - p + 2 * g <= C + 1
      BY <1>2, <1>3, <3>1, <3>3, <3>4
    <3> QED
      BY <3>2, <3>4, <3>5
  <2> QED
    BY <1>2, <1>3, <2>1, <2>2, <2>3 DEF Loose
<1> QED
  BY <1>4, <1>5

\* A running flow that goes from the front to the back takes the looseness back.
LEMMA LooseMovedBack ==
    ASSUME NEW list \in Seq(Nat), list # <<>>, IsInjective(list), NEW run, IsFiniteSet(run), list[1] \in run,
           NEW C \in Nat, 2 * Cardinality(run) <= C, Loose(list, run, C + 1)
    PROVE  Loose(MovedBack(list), run, C)
<1>1. Len(list) \in Nat \ {0} /\ \A a, b \in 1 .. Len(list) : list[a] = list[b] => a = b
  BY EmptySeq, SetOfSeq
<1>2. PICK new : new = MovedBack(list)
  OBVIOUS
<1>3. Len(new) = Len(list) /\ \A q \in 1 .. Len(list) - 1 : new[q] = list[q + 1]
  <2>1. PICK t \in Seq(Nat) : t = Tail(list)
    BY HeadTailProperties
  <2>2. Len(t) = Len(list) - 1 /\ \A q \in 1 .. Len(t) : t[q] = list[q + 1]
    BY <2>1, HeadTailProperties
  <2>3. PICK h \in Nat : h = Head(list)
    BY HeadTailProperties
  <2>4. new = Append(t, h)
    BY <1>2, <2>1, <2>3 DEF MovedBack
  <2>5. Len(new) = Len(t) + 1 /\ \A q \in 1 .. Len(t) : new[q] = t[q]
    BY <2>4, AppendProperties
  <2>6. PICK n \in Nat : n = Len(list) /\ Len(t) = n - 1
    BY <1>1, <2>2
  <2>7. Len(new) = n /\ \A q \in 1 .. n - 1 : new[q] = t[q] /\ t[q] = list[q + 1]
    <3>1. Len(new) = n
      BY <2>5, <2>6
    <3>2. \A q \in 1 .. n - 1 : q \in 1 .. Len(t)
      BY <2>6
    <3> QED
      BY <2>2, <2>5, <3>1, <3>2
  <2> QED
    BY <2>6, <2>7
<1>4. Len(new) <= C
  <2>1. Len(list) - 1 + 2 * Cardinality(RunBefore(list, run, 1)) <= C + 1
    BY <1>1 DEF Loose
  <2>2. RunBefore(list, run, 1) = {list[1]}
    BY DEF RunBefore
  <2>3. Cardinality(RunBefore(list, run, 1)) = 1
    BY <2>2, FS_Singleton
  <2> QED
    BY <1>1, <1>3, <2>1, <2>3
<1>5. ASSUME NEW p \in 1 .. Len(new), new[p] \in run
      PROVE  Len(new) - p + 2 * Cardinality(RunBefore(new, run, p)) <= C
  <2>1. p \in Nat /\ p >= 1 /\ p <= Len(list)
    BY <1>1, <1>3
  <2>2. CASE p = Len(list)
    <3>1. Cardinality(RunBefore(new, run, p)) \in Nat /\ Cardinality(run) \in Nat
          /\ Cardinality(RunBefore(new, run, p)) <= Cardinality(run)
      BY <2>1, FewBefore
    <3> QED
      BY <1>1, <1>3, <2>2, <3>1
  <2>3. CASE p # Len(list)
    <3>1. p + 1 \in 1 .. Len(list) /\ p + 1 \in Nat /\ list[p + 1] = new[p]
      BY <1>1, <1>3, <2>1, <2>3
    <3>2. Len(list) - (p + 1) + 2 * Cardinality(RunBefore(list, run, p + 1)) <= C + 1
      BY <1>5, <3>1 DEF Loose
    <3>3. RunBefore(new, run, p) = RunBefore(list, run, p + 1) \ {list[1]}
      <4>1. ASSUME NEW q \in 1 .. p
            PROVE  q + 1 \in 1 .. p + 1 /\ new[q] = list[q + 1] /\ new[q] # list[1]
        <5>1. q + 1 \in 1 .. p + 1 /\ q + 1 \in 1 .. Len(list) /\ q \in 1 .. Len(list) - 1 /\ q + 1 # 1
              /\ 1 \in 1 .. Len(list)
          BY <1>1, <2>1, <2>3
        <5> QED
          BY <1>1, <1>3, <5>1
      <4>2. ASSUME NEW q \in 1 .. p + 1, q # 1
            PROVE  q - 1 \in 1 .. p /\ new[q - 1] = list[q]
        <5>1. PICK j \in Nat : j = q - 1
          BY <2>1, <4>2
        <5>2. j \in 1 .. p /\ j \in 1 .. Len(list) - 1 /\ j + 1 = q
          BY <1>1, <2>1, <2>3, <4>2, <5>1
        <5> QED
          BY <1>3, <5>1, <5>2
      <4>3. ASSUME NEW x \in RunBefore(new, run, p)
            PROVE  x \in RunBefore(list, run, p + 1) \ {list[1]}
        <5>1. PICK q \in 1 .. p : x = new[q] /\ x \in run
          BY DEF RunBefore
        <5>2. PICK j \in 1 .. p + 1 : j = q + 1
          BY <4>1
        <5>3. x = list[j] /\ x # list[1]
          BY <4>1, <5>1, <5>2
        <5> QED
          BY <5>1, <5>3 DEF RunBefore
      <4>4. ASSUME NEW x \in RunBefore(list, run, p + 1) \ {list[1]}
            PROVE  x \in RunBefore(new, run, p)
        <5>1. PICK q \in 1 .. p + 1 : x = list[q] /\ x \in run /\ q # 1
          BY DEF RunBefore
        <5>2. PICK j \in 1 .. p : j = q - 1 /\ new[j] = x
          BY <4>2, <5>1
        <5> QED
          BY <5>1, <5>2 DEF RunBefore
      <4> QED
        BY <4>3, <4>4
    <3>4. list[1] \in RunBefore(list, run, p + 1)
      BY <2>1 DEF RunBefore
    <3>5. /\ IsFiniteSet(RunBefore(list, run, p + 1)) /\ Cardinality(RunBefore(list, run, p + 1)) \in Nat
      BY <3>1, FewBefore
    <3>6. PICK S : S = RunBefore(list, run, p + 1)
      OBVIOUS
    <3>7. PICK g \in Nat : g = Cardinality(S)
      BY <3>5, <3>6
    <3>8. Cardinality(S \ {list[1]}) = g - 1
      BY <3>4, <3>5, <3>6, <3>7, FS_RemoveElement
    <3>9. Len(list) - (p + 1) + 2 * g <= C + 1
      BY <3>2, <3>6, <3>7
    <3>10. Len(list) - p + 2 * (g - 1) <= C
      BY <1>1, <2>1, <3>9
    <3> QED
      BY <1>3, <3>3, <3>6, <3>8, <3>10
  <2> QED
    BY <2>2, <2>3
<1> QED
  BY <1>2, <1>4, <1>5 DEF Loose

\* The registry takes one more flow and stays as loose as it was.
LEMMA LooseKept ==
    ASSUME NEW list \in Seq(Nat), IsInjective(list), IsFiniteSet(RunningIds), NEW e \in Nat, e \notin ToSet(list),
           NEW C \in Nat, MaxKept + Cardinality(RunningIds) <= C, 2 * Cardinality(RunningIds) <= C,
           Loose(list, RunningIds, C), NEW rest \in Kept(Append(list, e))
    PROVE  Loose(rest, RunningIds, C)
<1>1. PICK new \in Seq(Nat) : new = Append(list, e) /\ IsInjective(new)
  BY AppendSet
<1>2. Loose(new, RunningIds, C + 1)
  BY <1>1, LooseAppended
<1>3. MaxKept \in Nat /\ MaxKept > 0
  BY FlowAssumption
<1>4. PICK r \in Trimmed(new, RunningIds, MaxKept) :
         rest = IF Len(r) > MaxKept THEN MovedBack(r) ELSE r
  BY <1>1 DEF Kept
<1>5. r \in Seq(Nat) /\ IsInjective(r) /\ Len(r) \in Nat
  BY <1>1, TrimmedKeeps, SetOfSeq
<1>6. /\ Len(r) <= MaxKept => Loose(r, RunningIds, C)
      /\ Len(r) > MaxKept => Loose(r, RunningIds, C + 1) /\ r[1] \in RunningIds
  BY <1>1, <1>2, <1>3, LooseTrimmed
<1>7. CASE Len(r) <= MaxKept
  BY <1>3, <1>4, <1>5, <1>6, <1>7
<1>8. CASE Len(r) > MaxKept
  <2>1. r # <<>>
    BY <1>3, <1>5, <1>8, EmptySeq
  <2>2. Loose(MovedBack(r), RunningIds, C)
    BY <1>5, <1>6, <1>8, <2>1, LooseMovedBack
  <2> QED
    BY <1>4, <1>8, <2>2
<1> QED
  BY <1>3, <1>5, <1>7, <1>8

\* No more flows run than there are threads and flows that an exception left running.
LEMMA FewRun ==
    ASSUME FlowInv
    PROVE  /\ IsFiniteSet(RunningIds) /\ IsFiniteSet(LeftRunning)
           /\ Cardinality(RunningIds) \in Nat /\ Cardinality(LeftRunning) \in Nat
           /\ MostRunning \in Nat /\ Cardinality(RunningIds) <= MostRunning
<1>1. IsFiniteSet(Threads) /\ Cardinality(Threads) \in Nat
  BY FlowAssumption, FS_CardinalityType
<1>2. IsFiniteSet(RunningIds)
  <2>1. Created = 1 .. Len(sess) /\ Len(sess) \in Nat
    BY LenProperties DEF FlowInv, Types, Created
  <2>2. IsFiniteSet(Created)
    BY <2>1, FS_Interval
  <2>3. RunningIds \in SUBSET Created
    BY DEF RunningIds
  <2> QED
    BY <2>2, <2>3, FS_Subset
<1>3. IsFiniteSet(LeftRunning)
  <2>1. LeftRunning \in SUBSET RunningIds
    BY DEF LeftRunning
  <2> QED
    BY <1>2, <2>1, FS_Subset
<1>4. Cardinality(RunningIds) \in Nat /\ Cardinality(LeftRunning) \in Nat
  BY <1>2, <1>3, FS_CardinalityType
<1>5. PICK Held : Held = {thr[t].s : t \in Threads}
  OBVIOUS
<1>6. IsFiniteSet(Held) /\ Cardinality(Held) <= Cardinality(Threads) /\ Cardinality(Held) \in Nat
  <2>1. PICK f : f = [t \in Threads |-> thr[t].s]
    OBVIOUS
  <2>2. f \in Surjection(Threads, Held)
    BY <1>5, <2>1 DEF Surjection
  <2> QED
    BY <1>1, <2>2, FS_Surjection, FS_CardinalityType
<1>7. RunningIds \in SUBSET (LeftRunning \cup Held)
  BY <1>5 DEF LeftRunning
<1>8. /\ IsFiniteSet(LeftRunning \cup Held)
      /\ Cardinality(LeftRunning \cup Held) =
            Cardinality(LeftRunning) + Cardinality(Held) - Cardinality(LeftRunning \cap Held)
      /\ Cardinality(LeftRunning \cap Held) \in Nat
  <2>1. LeftRunning \cap Held \in SUBSET Held
    OBVIOUS
  <2>2. IsFiniteSet(LeftRunning \cap Held)
    BY <1>6, <2>1, FS_Subset
  <2> QED
    BY <1>3, <1>6, <2>2, FS_Union, FS_CardinalityType
<1>9. Cardinality(RunningIds) <= Cardinality(LeftRunning \cup Held)
  BY <1>7, <1>8, FS_Subset
<1>10. Cardinality(RunningIds) <= Cardinality(Threads) + Cardinality(LeftRunning)
  BY <1>1, <1>4, <1>6, <1>8, <1>9
<1> QED
  BY <1>1, <1>2, <1>3, <1>4, <1>10 DEF MostRunning

Largest == MostRunning + (IF MaxKept > MostRunning THEN MaxKept ELSE MostRunning)
LooseRegistry == Loose(registry, RunningIds, Largest)

\* What the bound leaves room for.
LEMMA LargestFacts ==
    ASSUME FlowInv
    PROVE  /\ Largest \in Nat /\ MaxKept + Cardinality(RunningIds) <= Largest
           /\ 2 * Cardinality(RunningIds) <= Largest
<1>1. MaxKept \in Nat
  BY FlowAssumption
<1>2. MostRunning \in Nat /\ Cardinality(RunningIds) \in Nat /\ Cardinality(RunningIds) <= MostRunning
  BY FewRun
<1> QED
  BY <1>1, <1>2 DEF Largest

\* The flow of a thread that is about to enter the registry is one of those that run.
LEMMA RegisterLoose ==
    ASSUME FlowInv, NEW t \in Threads, Register(t), LooseRegistry
    PROVE  LooseRegistry'
<1>1. UNCHANGED <<host, sess, engine, asked, crashed>> /\ registry' \in Kept(Append(registry, thr[t].s))
  BY DEF Register
<1>2. /\ thr[t] \in ThreadT /\ ThreadOK(t) /\ registry \in Seq(Nat)
      /\ thr[t].pc \in {"started", "replaying"}
  BY DEF FlowInv, Types, Links, Register
<1>3. thr[t].s \in Nat /\ thr[t].s \notin ToSet(registry) /\ IsInjective(registry)
  BY <1>2 DEF ThreadT, FlowInv, OneOwner
<1>4. /\ IsFiniteSet(RunningIds) /\ Largest \in Nat
      /\ MaxKept + Cardinality(RunningIds) <= Largest /\ 2 * Cardinality(RunningIds) <= Largest
  BY FewRun, LargestFacts
<1>5. PICK e \in Nat : e = thr[t].s
  BY <1>3
<1>6. Loose(registry', RunningIds, Largest)
  <2>1. PICK C \in Nat : C = Largest
    BY <1>4
  <2>2. PICK rest : rest = registry' /\ rest \in Kept(Append(registry, e))
    BY <1>1, <1>5
  <2>3. Loose(rest, RunningIds, C)
    BY <1>2, <1>3, <1>4, <1>5, <2>1, <2>2, LooseKept DEF LooseRegistry
  <2> QED
    BY <2>1, <2>2, <2>3
<1>7. RunningIds' = RunningIds
  BY <1>1 DEF RunningIds, Running, Created
<1>8. Largest' = Largest
  <2>1. \A u \in Threads : thr'[u].s = thr[u].s
    BY DEF Register, FlowInv, Types, ThreadT
  <2>2. LeftRunning' = LeftRunning
    BY <1>7, <2>1 DEF LeftRunning
  <2> QED
    BY <2>2 DEF Largest, MostRunning
<1> QED
  BY <1>6, <1>7, <1>8 DEF LooseRegistry

\* Every other step leaves the registry alone, sets none of its flows running, and takes no flow
\* out of those that exceptions left.
NoneEnters ==
    /\ registry' = registry
    /\ RunningIds' \cap ToSet(registry) \subseteq RunningIds
    /\ LeftRunning \subseteq LeftRunning'

\* Such a step keeps the registry loose.
LEMMA NoneEntersLoose ==
    ASSUME FlowInv, FlowInv', NoneEnters, LooseRegistry
    PROVE  LooseRegistry'
<1>1. /\ IsFiniteSet(RunningIds) /\ Largest \in Nat /\ registry \in Seq(Nat) /\ MostRunning \in Nat
      /\ IsFiniteSet(LeftRunning) /\ Cardinality(LeftRunning) \in Nat
  BY FewRun, LargestFacts DEF FlowInv, Types
<1>2. /\ (Largest \in Nat)' /\ IsFiniteSet(LeftRunning)' /\ (Cardinality(LeftRunning) \in Nat)'
  <2>1. (FlowInv => Largest \in Nat /\ IsFiniteSet(LeftRunning) /\ Cardinality(LeftRunning) \in Nat)'
    BY FewRun, LargestFacts, PTL
  <2> QED
    BY <2>1
<1>3. Largest <= Largest'
  <2>1. IsFiniteSet(LeftRunning') /\ LeftRunning \in SUBSET LeftRunning'
    BY <1>2 DEF NoneEnters
  <2>2. Cardinality(LeftRunning) <= Cardinality(LeftRunning')
    BY <2>1, FS_Subset
  <2>3. Cardinality(Threads) \in Nat /\ MaxKept \in Nat
    BY FlowAssumption, FS_CardinalityType
  <2>4. PICK a \in Nat : a = Cardinality(LeftRunning)
    BY <1>1
  <2>5. PICK b \in Nat : b = Cardinality(LeftRunning')
    BY <1>2
  <2>6. PICK n \in Nat : n = Cardinality(Threads)
    BY <2>3
  <2>7. Largest = n + a + (IF MaxKept > n + a THEN MaxKept ELSE n + a)
    BY <2>4, <2>6 DEF Largest, MostRunning
  <2>8. Largest' = n + b + (IF MaxKept > n + b THEN MaxKept ELSE n + b)
    BY <2>5, <2>6 DEF Largest, MostRunning
  <2> QED
    BY <2>2, <2>3, <2>4, <2>5, <2>7, <2>8
<1>4. PICK C \in Nat : C = Largest
  BY <1>1
<1>5. PICK D \in Nat : D = Largest'
  BY <1>2
<1>6. PICK less : less = RunningIds'
  OBVIOUS
<1>7. Loose(registry, less, D)
  BY <1>1, <1>3, <1>4, <1>5, <1>6, LooseStays DEF NoneEnters, LooseRegistry
<1> QED
  BY <1>5, <1>6, <1>7 DEF NoneEnters, LooseRegistry

\* A thread inside its flow enters no flow.
LEMMA AdvanceNoneEnters ==
    ASSUME FlowInv, NEW t \in Threads, Advance(t)
    PROVE  NoneEnters
<1>1. PICK X \in ThreadT, id \in Created, S \in SessionT :
        /\ thr' = [thr EXCEPT ![t] = X] /\ X.s = thr[t].s
        /\ sess' = [sess EXCEPT ![id] = S]
        /\ S.status = sess[id].status /\ Len(S.nodes) >= Len(sess[id].nodes)
        /\ registry' = registry
  BY Zenon DEF Advance
<1>2. Created' = Created /\ \A n \in Created : sess'[n].status = sess[n].status
  BY <1>1, SessionReplaced DEF FlowInv
<1>3. \A u \in Threads : thr'[u].s = thr[u].s
  BY <1>1 DEF FlowInv, Types
<1>4. RunningIds' = RunningIds
  BY <1>2 DEF RunningIds, Running
<1>5. LeftRunning' = LeftRunning
  BY <1>3, <1>4 DEF LeftRunning
<1> QED
  BY <1>1, <1>4, <1>5 DEF NoneEnters

\* A flow that begins is not in the registry yet.
LEMMA CreateNoneEnters ==
    ASSUME FlowInv, NEW t \in Threads, NEW i \in Interps, NEW pc \in {"started", "replaying"},
           Create(t, i, pc)
    PROVE  NoneEnters
<1>1. /\ sess \in Seq(SessionT) /\ Len(sess) \in Nat /\ Created = 1 .. Len(sess)
      /\ thr \in [Threads -> ThreadT] /\ thr[t].pc = "idle"
  BY LenProperties DEF FlowInv, Types, Created, Create
<1>2. NextId = Len(sess) + 1 /\ NextId \notin Created /\ ToSet(registry) \subseteq Created
  BY <1>1 DEF NextId, FlowInv, Links
<1>3. PICK S : S = NewSession(i)
  OBVIOUS
<1>4. S \in SessionT
  BY <1>3, EmptySeq DEF NewSession, SessionT, SessionStatus
<1>5. Created' = Created \cup {NextId} /\ \A n \in Created : sess'[n] = sess[n]
  <2>1. sess' = Append(sess, S)
    BY <1>3 DEF Create
  <2>2. /\ sess' \in Seq(SessionT) /\ Len(sess') = Len(sess) + 1
        /\ \A n \in 1 .. Len(sess) : sess'[n] = sess[n]
    BY <1>1, <1>4, <2>1, AppendProperties
  <2>3. Created' = 1 .. Len(sess) + 1
    BY <2>2, LenProperties DEF Created
  <2> QED
    BY <1>1, <1>2, <2>2, <2>3
<1>6. RunningIds' \cap ToSet(registry) \subseteq RunningIds
  BY <1>2, <1>5 DEF RunningIds, Running
<1>7. RunningIds \subseteq RunningIds'
  BY <1>5 DEF RunningIds, Running
<1>8. \A u \in Threads : thr'[u].s = NextId \/ thr'[u].s = thr[u].s
  <2>1. PICK X : X = [Idle EXCEPT !.pc = pc, !.s = NextId, !.of = i]
    OBVIOUS
  <2>2. X.s = NextId
    BY <2>1 DEF Idle
  <2>3. thr' = [thr EXCEPT ![t] = X]
    BY <2>1 DEF Create
  <2> QED
    BY <1>1, <2>2, <2>3
<1>9. LeftRunning \subseteq LeftRunning'
  <2> SUFFICES ASSUME NEW n \in LeftRunning
               PROVE  n \in LeftRunning'
    OBVIOUS
  <2>1. n \in RunningIds /\ n \in Created /\ \A u \in Threads : thr[u].s # n
    BY DEF LeftRunning, RunningIds
  <2>2. n \in RunningIds' /\ n # NextId
    BY <1>2, <1>7, <2>1
  <2>3. \A u \in Threads : thr'[u].s # n
    BY <1>8, <2>1, <2>2
  <2> QED
    BY <2>2, <2>3 DEF LeftRunning
<1> QED
  BY <1>6, <1>9 DEF NoneEnters, Create

\* A thread that ends its flow, or leaves it running.
LEMMA LeaveNoneEnters ==
    ASSUME FlowInv, NEW t \in Threads, End(t) \/ Leak(t)
    PROVE  NoneEnters
<1>1. /\ thr \in [Threads -> ThreadT] /\ thr' = [thr EXCEPT ![t] = Idle] /\ registry' = registry
      /\ thr[t].pc # "idle"
  BY DEF FlowInv, Types, End, Leak, Over
<1>2. PICK id \in Created : id = thr[t].s
  BY <1>1 DEF FlowInv, Links, ThreadOK
<1>3. PICK S \in SessionT :
        sess' = [sess EXCEPT ![id] = S] /\ Len(S.nodes) >= Len(sess[id].nodes)
        /\ (S.status = "RUNNING" => sess[id].status = "RUNNING")
  <2>1. CASE End(t)
    <3>1. PICK S : S = [sess[id] EXCEPT !.status = Verdict(id, thr[t].saw, thr[t].err)]
      OBVIOUS
    <3>2. sess[id] \in SessionT /\ Verdict(id, thr[t].saw, thr[t].err) \in SessionStatus \ {"RUNNING"}
          /\ Len(sess[id].nodes) \in Nat
      BY SessionFacts DEF Verdict, SessionStatus
    <3>3. S \in SessionT /\ S.nodes = sess[id].nodes /\ S.status # "RUNNING"
      BY <3>1, <3>2 DEF SessionT
    <3>4. sess' = [sess EXCEPT ![id] = S]
      BY <1>2, <2>1, <3>1 DEF End
    <3>5. Len(S.nodes) >= Len(sess[id].nodes)
      BY <3>2, <3>3
    <3> QED
      BY <3>3, <3>4, <3>5, Zenon
  <2>2. CASE Leak(t)
    <3>1. PICK S \in SessionT : S = sess[id] /\ Len(S.nodes) \in Nat
      BY SessionFacts
    <3>2. sess' = [sess EXCEPT ![id] = S]
      BY <2>2, <3>1, SessionFacts DEF Leak
    <3>3. Len(S.nodes) >= Len(sess[id].nodes) /\ (S.status = "RUNNING" => sess[id].status = "RUNNING")
      BY <3>1
    <3> QED
      BY <3>2, <3>3, Zenon
  <2> QED
    BY <2>1, <2>2
<1>4. /\ Created' = Created /\ sess'[id] = S
      /\ \A n \in Created : n # id => sess'[n] = sess[n]
  BY <1>3, SessionReplaced DEF FlowInv
<1>5. RunningIds' \subseteq RunningIds /\ RunningIds \ {id} \subseteq RunningIds'
  BY <1>3, <1>4 DEF RunningIds, Running
<1>6. \A u \in Threads : thr'[u].s = thr[u].s \/ thr'[u].s = NoId
  BY <1>1 DEF Idle
<1>7. LeftRunning \subseteq LeftRunning'
  <2> SUFFICES ASSUME NEW n \in LeftRunning
               PROVE  n \in LeftRunning'
    OBVIOUS
  <2>1. n \in RunningIds /\ n \in Created /\ \A u \in Threads : thr[u].s # n
    BY DEF LeftRunning, RunningIds
  <2>2. n \in RunningIds' /\ n # NoId
    <3>1. n \in Nat /\ n # 0
      BY <2>1, LenProperties DEF FlowInv, Types, Created
    <3> QED
      BY <1>2, <1>5, <2>1, <3>1 DEF NoId
  <2>3. \A u \in Threads : thr'[u].s # n
    BY <1>6, <2>1, <2>2
  <2> QED
    BY <2>2, <2>3 DEF LeftRunning
<1> QED
  BY <1>1, <1>5, <1>7 DEF NoneEnters

\* The other steps at the edge of a flow.
LEMMA OutsideNoneEnters ==
    ASSUME FlowInv, NEW t \in Threads, Outside(t), ~Register(t)
    PROVE  NoneEnters
<1>1. CASE \E i \in Interps : Run(t, i)
  BY <1>1, CreateNoneEnters DEF Run
<1>2. CASE Replay(t)
  <2>1. PICK id \in Created : ReplayOf(t, id)
    BY <1>2 DEF Replay
  <2>2. PICK i \in Interps : i = sess[id].of
    BY SessionFacts DEF SessionT
  <2>3. Create(t, i, "replaying")
    BY <2>1, <2>2 DEF ReplayOf
  <2> QED
    BY <2>3, CreateNoneEnters
<1>3. CASE End(t) \/ Leak(t)
  BY <1>3, LeaveNoneEnters
<1>4. CASE Crash(t)
  BY <1>4 DEF Crash, NoneEnters, RunningIds, Running, Created, LeftRunning
<1>5. CASE Judge(t)
  <2>1. PICK X \in ThreadT : JudgedAs(t, X)
    BY <1>5, JudgeKeeps
  <2>2. UNCHANGED <<sess, registry>> /\ \A u \in Threads : thr'[u].s = thr[u].s
    BY <2>1 DEF JudgedAs, FlowInv, Types
  <2> QED
    BY <2>2 DEF NoneEnters, RunningIds, Running, Created, LeftRunning
<1> QED
  BY <1>1, <1>2, <1>3, <1>4, <1>5 DEF Outside

\* Neither a canceller nor the clock touches the registry.
LEMMA RequestNoneEnters ==
    ASSUME FlowInv, CancelLook \/ CancelSet \/ Deadline
    PROVE  NoneEnters
<1>1. registry' = registry /\ thr' = thr
  BY DEF CancelLook, CancelSet, Deadline
<1>2. Created' = Created /\ \A n \in Created : sess'[n].status = sess[n].status
  <2>1. CASE CancelLook
    BY <2>1 DEF CancelLook, Created
  <2>2. CASE CancelSet \/ Deadline
    <3>1. PICK id \in Created : \/ sess' = [sess EXCEPT ![id].cancel = TRUE]
                                \/ sess' = [sess EXCEPT ![id].late = TRUE]
      BY <2>2 DEF CancelSet, Deadline, FlowInv, Links
    <3>2. sess[id] \in SessionT /\ Len(sess[id].nodes) \in Nat
      BY SessionFacts
    <3>3. PICK S \in SessionT : sess' = [sess EXCEPT ![id] = S] /\ S.status = sess[id].status
                                /\ S.nodes = sess[id].nodes
      <4>1. CASE sess' = [sess EXCEPT ![id].cancel = TRUE]
        <5>1. PICK S : S = [sess[id] EXCEPT !.cancel = TRUE]
          OBVIOUS
        <5>2. S \in SessionT /\ S.status = sess[id].status /\ S.nodes = sess[id].nodes
          BY <3>2, <5>1 DEF SessionT
        <5> QED
          BY <4>1, <5>1, <5>2
      <4>2. CASE sess' = [sess EXCEPT ![id].late = TRUE]
        <5>1. PICK S : S = [sess[id] EXCEPT !.late = TRUE]
          OBVIOUS
        <5>2. S \in SessionT /\ S.status = sess[id].status /\ S.nodes = sess[id].nodes
          BY <3>2, <5>1 DEF SessionT
        <5> QED
          BY <4>2, <5>1, <5>2
      <4> QED
        BY <3>1, <4>1, <4>2
    <3>4. Len(S.nodes) >= Len(sess[id].nodes)
      BY <3>2, <3>3
    <3> QED
      BY <3>3, <3>4, SessionReplaced DEF FlowInv
  <2> QED
    BY <2>1, <2>2
<1>3. RunningIds' = RunningIds
  BY <1>2 DEF RunningIds, Running
<1> QED
  BY <1>1, <1>3 DEF NoneEnters, LeftRunning

\* Every step of the engine keeps the registry loose.
LEMMA NextLoose ==
    ASSUME FlowInv, [Next]_vars, LooseRegistry
    PROVE  LooseRegistry'
<1>1. FlowInv'
  BY NextInv
<1>2. CASE UNCHANGED vars
  <2>1. NoneEnters
    BY <1>2 DEF vars, NoneEnters, RunningIds, Running, Created, LeftRunning
  <2> QED
    BY <1>1, <2>1, NoneEntersLoose
<1>3. CASE Next
  <2>1. CASE CancelLook \/ CancelSet \/ Deadline
    BY <1>1, <2>1, RequestNoneEnters, NoneEntersLoose
  <2>2. ASSUME NEW t \in Threads, Inside(t)
        PROVE  LooseRegistry'
    BY <1>1, <2>2, InsideAdvances, AdvanceNoneEnters, NoneEntersLoose
  <2>3. ASSUME NEW t \in Threads, Outside(t)
        PROVE  LooseRegistry'
    <3>1. CASE Register(t)
      BY <3>1, RegisterLoose
    <3>2. CASE ~Register(t)
      BY <1>1, <2>3, <3>2, OutsideNoneEnters, NoneEntersLoose
    <3> QED
      BY <3>1, <3>2
  <2> QED
    BY <1>3, <2>1, <2>2, <2>3, NextSteps
<1> QED
  BY <1>2, <1>3

\* An empty registry is loose.
LEMMA InitLoose == Init => LooseRegistry
<1> SUFFICES ASSUME Init
             PROVE  LooseRegistry
  OBVIOUS
<1>1. registry = <<>> /\ Len(registry) = 0
  BY EmptySeq DEF Init
<1>2. Largest \in Nat
  BY InitInv, LargestFacts
<1> QED
  BY <1>1, <1>2 DEF LooseRegistry, Loose

\* The registry of interpreters exceeds its cap by no more than the flows that run at once or that
\* exceptions left running, for every number of threads, flows and every cap: a flow that is moved
\* to the back because it still runs keeps at most one place for itself (registerFlowInterpreter).
THEOREM RegistryBounded == Spec => []RegistryBound
<1>1. (FlowInv /\ LooseRegistry) /\ [Next]_vars => (FlowInv /\ LooseRegistry)'
  BY NextInv, NextLoose
<1>2. LooseRegistry => RegistryBound
  BY DEF LooseRegistry, Loose, Largest, RegistryBound
<1> QED
  BY <1>1, <1>2, InitInv, InitLoose, PTL DEF Spec

-----------------------------------------------------------------------------
(* The shape of a chain's record                                           *)

\* The shape of the record of one flow, the place of a chain's last node, and a record without nodes
\* of a chain.
Cut == {"ERROR", "CANCELLED", "TIMEOUT", "SKIPPED"}
Shape(ns) ==
    \A k, m \in DOMAIN ns : Follows(ns, k, m) =>
        ns[k].st # "RUNNING" /\ (ns[m].st = "SKIPPED" <=> ns[k].st \in Cut)
LastOf(ns, c, n) == n \in DOMAIN ns /\ ns[n].c = c /\ \A m \in DOMAIN ns : m > n => ns[m].c # c
Without(ns, c) == \A m \in DOMAIN ns : ns[m].c # c

\* What a step of chain c does to a record: it changes no node of another chain, and adds only its own.
Adds(ns, new, c) ==
    /\ Len(new) >= Len(ns)
    /\ \A m \in 1 .. Len(ns) : new[m].c = ns[m].c /\ (ns[m].c # c => new[m] = ns[m])
    /\ \A m \in Len(ns) + 1 .. Len(new) : new[m].c = c

\* A chain is waiting for its input, or its frame knows the last of its nodes: the one that runs, or
\* a success.
InChain(f, ns) ==
    IF f.at = "input" THEN Without(ns, f.c)
    ELSE LastOf(ns, f.c, f.node) /\ ns[f.node].st = (IF Open(f) THEN "RUNNING" ELSE "SUCCESS")

\* The places and the nodes of a record.
LEMMA NodeFacts ==
    ASSUME NEW ns \in Seq(NodeT)
    PROVE  /\ Len(ns) \in Nat /\ DOMAIN ns = 1 .. Len(ns)
           /\ \A m \in DOMAIN ns : ns[m] \in NodeT /\ ns[m].c \in Nat /\ ns[m].st \in NodeStatus
<1>1. Len(ns) \in Nat /\ DOMAIN ns = 1 .. Len(ns) /\ \A m \in 1 .. Len(ns) : ns[m] \in NodeT
  BY LenProperties, ElementOfSeq
<1> QED
  BY <1>1 DEF NodeT

\* A chain adds nodes after its last one: a first one that fits it, then only skipped ones, and
\* these only after a first one that was cut.
LEMMA ShapeExtended ==
    ASSUME NEW ns \in Seq(NodeT), NEW es \in Seq(NodeT), NEW c, Shape(ns),
           \A j \in 1 .. Len(es) : es[j].c = c,
           \A j \in 2 .. Len(es) : es[j].st = "SKIPPED" /\ es[1].st \in Cut,
           \/ Without(ns, c)
           \/ \E n \in DOMAIN ns : /\ LastOf(ns, c, n) /\ ns[n].st # "RUNNING"
                                   /\ Len(es) > 0 => (es[1].st = "SKIPPED" <=> ns[n].st \in Cut)
    PROVE  /\ ns \o es \in Seq(NodeT) /\ Shape(ns \o es) /\ Adds(ns, ns \o es, c)
           /\ Len(ns \o es) = Len(ns) + Len(es)
<1>1. PICK new : new = ns \o es
  OBVIOUS
<1>2. /\ new \in Seq(NodeT) /\ Len(new) = Len(ns) + Len(es)
      /\ \A m \in 1 .. Len(ns) : new[m] = ns[m]
      /\ \A m \in 1 .. Len(es) : new[Len(ns) + m] = es[m]
  <2>1. /\ ns \o es \in Seq(NodeT) /\ Len(ns \o es) = Len(ns) + Len(es)
        /\ \A m \in 1 .. Len(ns) + Len(es) :
              (ns \o es)[m] = IF m <= Len(ns) THEN ns[m] ELSE es[m - Len(ns)]
    BY ConcatProperties
  <2>2. Len(ns) \in Nat /\ Len(es) \in Nat
    BY NodeFacts
  <2>3. \A m \in 1 .. Len(ns) : m \in 1 .. Len(ns) + Len(es) /\ m <= Len(ns)
    BY <2>2
  <2>4. \A m \in 1 .. Len(es) : /\ Len(ns) + m \in 1 .. Len(ns) + Len(es)
                                 /\ ~(Len(ns) + m <= Len(ns)) /\ Len(ns) + m - Len(ns) = m
    BY <2>2
  <2> QED
    BY <1>1, <2>1, <2>3, <2>4
<1>3. /\ Len(ns) \in Nat /\ Len(es) \in Nat /\ DOMAIN ns = 1 .. Len(ns)
      /\ DOMAIN new = 1 .. Len(ns) + Len(es)
  BY <1>2, NodeFacts
<1>4. ASSUME NEW m \in 1 .. Len(ns) + Len(es), m > Len(ns)
      PROVE  m - Len(ns) \in 1 .. Len(es) /\ new[m] = es[m - Len(ns)] /\ new[m].c = c
  <2>1. PICK j \in 1 .. Len(es) : j = m - Len(ns)
    <3>1. PICK a \in Nat : a = Len(ns)
      BY <1>3
    <3>2. PICK b \in Nat : b = Len(es)
      BY <1>3
    <3>3. m \in 1 .. a + b /\ m > a
      BY <1>4, <3>1, <3>2
    <3>4. m - a \in 1 .. b
      BY <3>3
    <3> QED
      BY <3>1, <3>2, <3>4
  <2>2. Len(ns) + j = m
    BY <1>3, <2>1
  <2>3. new[Len(ns) + j] = es[j] /\ es[j].c = c
    BY <1>2
  <2> QED
    BY <2>1, <2>2, <2>3
<1>5. Adds(ns, new, c)
  <2>1. \A m \in Len(ns) + 1 .. Len(new) : m \in 1 .. Len(ns) + Len(es) /\ m > Len(ns)
    <3>1. Len(new) = Len(ns) + Len(es)
      BY <1>2
    <3> QED
      BY <1>3, <3>1
  <2>2. Len(new) >= Len(ns)
    BY <1>2, <1>3
  <2>3. \A m \in Len(ns) + 1 .. Len(new) : new[m].c = c
    BY <1>4, <2>1
  <2>4. \A m \in 1 .. Len(ns) : new[m] = ns[m]
    BY <1>2
  <2> QED
    BY <2>2, <2>3, <2>4 DEF Adds
<1>6. ASSUME NEW k \in DOMAIN new, NEW m \in DOMAIN new, Follows(new, k, m)
      PROVE  new[k].st # "RUNNING" /\ (new[m].st = "SKIPPED" <=> new[k].st \in Cut)
  <2>1. /\ k \in 1 .. Len(ns) + Len(es) /\ m \in 1 .. Len(ns) + Len(es) /\ k < m /\ new[m].c = new[k].c
        /\ \A j \in k + 1 .. m - 1 : new[j].c # new[k].c
    BY <1>3, <1>6 DEF Follows
  <2>2. CASE m <= Len(ns)
    <3>1. k \in DOMAIN ns /\ m \in DOMAIN ns /\ new[k] = ns[k] /\ new[m] = ns[m]
      BY <1>2, <1>3, <2>1, <2>2
    <3>2. \A j \in k + 1 .. m - 1 : j \in 1 .. Len(ns)
      BY <1>3, <2>1, <2>2
    <3>3. Follows(ns, k, m)
      BY <1>2, <2>1, <3>1, <3>2 DEF Follows
    <3> QED
      BY <3>1, <3>3 DEF Shape
  <2>3. CASE m > Len(ns) /\ k > Len(ns)
    <3>1. /\ k - Len(ns) \in 1 .. Len(es) /\ new[k] = es[k - Len(ns)] /\ new[k].c = c
          /\ m - Len(ns) \in 1 .. Len(es) /\ new[m] = es[m - Len(ns)] /\ new[m].c = c
      BY <1>4, <2>1, <2>3
    <3>2. m - Len(ns) \in 2 .. Len(es)
      BY <1>3, <2>1, <2>3, <3>1
    <3>3. new[m].st = "SKIPPED" /\ es[1].st \in Cut
      BY <3>1, <3>2
    <3>4. new[k].st \in Cut
      <4>1. CASE k - Len(ns) = 1
        BY <3>1, <3>3, <4>1
      <4>2. CASE k - Len(ns) # 1
        <5>1. k - Len(ns) \in 2 .. Len(es)
          BY <1>3, <2>1, <3>1, <4>2
        <5> QED
          BY <3>1, <5>1 DEF Cut
      <4> QED
        BY <4>1, <4>2
    <3> QED
      BY <3>3, <3>4 DEF Cut
  <2>4. CASE m > Len(ns) /\ k <= Len(ns)
    <3>1. /\ m - Len(ns) \in 1 .. Len(es) /\ new[m] = es[m - Len(ns)] /\ new[m].c = c
          /\ k \in DOMAIN ns /\ new[k] = ns[k] /\ ns[k].c = c
      BY <1>2, <1>3, <1>4, <2>1, <2>4
    <3>2. m = Len(ns) + 1
      <4> SUFFICES ASSUME m # Len(ns) + 1
                   PROVE  FALSE
        OBVIOUS
      <4>1. Len(ns) + 1 \in k + 1 .. m - 1 /\ Len(ns) + 1 \in 1 .. Len(ns) + Len(es) /\ Len(ns) + 1 > Len(ns)
        BY <1>3, <2>1, <2>4
      <4> QED
        BY <1>4, <2>1, <3>1, <4>1
    <3>3. PICK n \in DOMAIN ns : /\ LastOf(ns, c, n) /\ ns[n].st # "RUNNING"
                                 /\ Len(es) > 0 => (es[1].st = "SKIPPED" <=> ns[n].st \in Cut)
      BY <3>1 DEF Without
    <3>4. k = n
      <4>1. ~(k > n)
        BY <3>1, <3>3 DEF LastOf
      <4>2. ~(n > k)
        <5> SUFFICES ASSUME n > k
                     PROVE  FALSE
          OBVIOUS
        <5>1. n \in k + 1 .. m - 1 /\ n \in 1 .. Len(ns)
          BY <1>3, <2>1, <2>4
        <5> QED
          BY <1>2, <2>1, <3>1, <3>3, <5>1 DEF LastOf
      <4> QED
        BY <1>3, <2>1, <3>3, <4>1, <4>2
    <3>5. m - Len(ns) = 1 /\ Len(es) > 0
      BY <1>3, <3>1, <3>2
    <3> QED
      BY <3>1, <3>3, <3>4, <3>5
  <2> QED
    BY <1>3, <2>1, <2>2, <2>3, <2>4
<1> QED
  BY <1>1, <1>2, <1>5, <1>6 DEF Shape

\* A record in which a node has ended.
Marked(ns, n, st) == [ns EXCEPT ![n].st = st]

\* The last node of a chain ends, but not as one that was skipped.
LEMMA ShapeMarked ==
    ASSUME NEW ns \in Seq(NodeT), NEW c, NEW n, LastOf(ns, c, n), Shape(ns), ns[n].st # "SKIPPED",
           NEW st \in NodeStatus, st # "SKIPPED"
    PROVE  /\ Marked(ns, n, st) \in Seq(NodeT) /\ Len(Marked(ns, n, st)) = Len(ns)
           /\ Shape(Marked(ns, n, st)) /\ Adds(ns, Marked(ns, n, st), c)
           /\ LastOf(Marked(ns, n, st), c, n) /\ Marked(ns, n, st)[n].st = st
<1>0. PICK new : new = Marked(ns, n, st)
  OBVIOUS
<1>1. Len(ns) \in Nat /\ DOMAIN ns = 1 .. Len(ns) /\ n \in 1 .. Len(ns) /\ ns[n] \in NodeT /\ ns[n].c = c
      /\ \A m \in 1 .. Len(ns) : m > n => ns[m].c # c
  BY NodeFacts DEF LastOf
<1>2. PICK e \in NodeT : e = [ns[n] EXCEPT !.st = st] /\ e.c = c /\ e.st = st
  <2>1. /\ [ns[n] EXCEPT !.st = st] \in NodeT /\ [ns[n] EXCEPT !.st = st].c = ns[n].c
        /\ [ns[n] EXCEPT !.st = st].st = st
    BY <1>1 DEF NodeT
  <2> QED
    BY <1>1, <2>1
<1>3. new = [ns EXCEPT ![n] = e]
  BY <1>0, <1>2 DEF Marked
<1>4. /\ new \in Seq(NodeT) /\ Len(new) = Len(ns) /\ new[n] = e
      /\ \A m \in 1 .. Len(ns) : m # n => new[m] = ns[m]
  BY <1>1, <1>3, ExceptSeq
<1>5. DOMAIN new = 1 .. Len(ns) /\ \A m \in 1 .. Len(ns) : new[m].c = ns[m].c
  BY <1>1, <1>2, <1>4, NodeFacts
<1>6. LastOf(new, c, n)
  BY <1>1, <1>5 DEF LastOf
<1>7. Adds(ns, new, c)
  <2>1. Len(ns) + 1 .. Len(new) = {}
    BY <1>1, <1>4
  <2>2. Len(new) >= Len(ns)
    BY <1>1, <1>4
  <2> QED
    BY <1>1, <1>4, <1>5, <2>1, <2>2 DEF Adds
<1>8. ASSUME NEW k \in DOMAIN new, NEW m \in DOMAIN new, Follows(new, k, m)
      PROVE  new[k].st # "RUNNING" /\ (new[m].st = "SKIPPED" <=> new[k].st \in Cut)
  <2>1. /\ k \in 1 .. Len(ns) /\ m \in 1 .. Len(ns) /\ k < m /\ new[m].c = new[k].c
        /\ \A j \in k + 1 .. m - 1 : j \in 1 .. Len(ns) /\ new[j].c # new[k].c
    BY <1>1, <1>5, <1>8 DEF Follows
  <2>2. Follows(ns, k, m)
    BY <1>5, <2>1 DEF Follows
  <2>3. ns[k].st # "RUNNING" /\ (ns[m].st = "SKIPPED" <=> ns[k].st \in Cut)
    BY <1>1, <2>1, <2>2 DEF Shape
  <2>4. k # n
    BY <1>1, <1>5, <2>1
  <2>5. new[k] = ns[k] /\ (new[m].st = "SKIPPED" <=> ns[m].st = "SKIPPED")
    BY <1>1, <1>2, <1>4, <2>1, <2>4
  <2> QED
    BY <2>3, <2>5
<1> QED
  BY <1>0, <1>2, <1>4, <1>6, <1>7, <1>8 DEF Shape

\* The frames of other chains do not notice.
LEMMA OtherChain ==
    ASSUME NEW ns \in Seq(NodeT), NEW new \in Seq(NodeT), NEW c, Adds(ns, new, c),
           NEW f, f.c # c, InChain(f, ns)
    PROVE  InChain(f, new)
<1>1. /\ Len(ns) \in Nat /\ Len(new) \in Nat /\ DOMAIN ns = 1 .. Len(ns) /\ DOMAIN new = 1 .. Len(new)
      /\ Len(new) >= Len(ns)
  BY NodeFacts DEF Adds
<1>2. ASSUME NEW m \in 1 .. Len(new), new[m].c = f.c
      PROVE  m \in 1 .. Len(ns) /\ ns[m].c = f.c
  <2>1. m \in 1 .. Len(ns) \/ m \in Len(ns) + 1 .. Len(new)
    BY <1>1
  <2> QED
    BY <1>2, <2>1 DEF Adds
<1>3. CASE f.at = "input"
  BY <1>1, <1>2, <1>3 DEF InChain, Without
<1>4. CASE f.at # "input"
  <2>1. LastOf(ns, f.c, f.node) /\ ns[f.node].st = (IF Open(f) THEN "RUNNING" ELSE "SUCCESS")
    BY <1>4 DEF InChain
  <2>2. f.node \in 1 .. Len(ns) /\ new[f.node] = ns[f.node] /\ f.node \in 1 .. Len(new)
    BY <1>1, <2>1 DEF LastOf, Adds
  <2>3. LastOf(new, f.c, f.node)
    BY <1>1, <1>2, <2>1, <2>2 DEF LastOf
  <2> QED
    BY <1>4, <2>1, <2>2, <2>3 DEF InChain
<1> QED
  BY <1>3, <1>4

Chain(t, k) == thr[t].stack[k]
FramesChained ==
    \A t \in Threads : \A k \in DOMAIN thr[t].stack :
        /\ InChain(Chain(t, k), sess[Chain(t, k).s].nodes)
        /\ Chain(t, k).c <= sess[Chain(t, k).s].chains
OneFrame ==
    \A t, u \in Threads : \A k \in DOMAIN thr[t].stack, m \in DOMAIN thr[u].stack :
        Chain(t, k).s = Chain(u, m).s /\ Chain(t, k).c = Chain(u, m).c => t = u /\ k = m
Counted(id) == \A m \in DOMAIN sess[id].nodes : sess[id].nodes[m].c <= sess[id].chains
ChainInv ==
    /\ FlowInv /\ FramesChained /\ OneFrame
    /\ \A id \in Created : Counted(id) /\ Shape(sess[id].nodes)

\* A frame of a thread is one of a session that exists.
LEMMA FrameFacts ==
    ASSUME FlowInv, NEW t \in Threads, NEW k \in DOMAIN thr[t].stack
    PROVE  Chain(t, k) \in FrameT /\ FrameOK(Chain(t, k)) /\ k \in Nat
<1>1. thr[t] \in ThreadT /\ ThreadOK(t)
  BY DEF FlowInv, Types, Links
<1>2. thr[t].stack \in Seq(FrameT) /\ DOMAIN thr[t].stack = 1 .. Len(thr[t].stack)
  BY <1>1, LenProperties DEF ThreadT
<1> QED
  BY <1>1, <1>2, ElementOfSeq DEF ThreadOK, Chain

\* A step that writes no node: it may drop frames, begin a session, raise a flag or end a flow.
NothingRecorded ==
    /\ \A id \in Created : id \in Created' /\ sess'[id].nodes = sess[id].nodes
                           /\ sess'[id].chains = sess[id].chains
    /\ \A id \in Created' : id \in Created \/ sess'[id].nodes = <<>>
    /\ \A t \in Threads : \A k \in DOMAIN thr'[t].stack :
          k \in DOMAIN thr[t].stack /\ thr'[t].stack[k] = thr[t].stack[k]

\* Such a step keeps every chain in its place.
LEMMA NothingChained ==
    ASSUME ChainInv, FlowInv', NothingRecorded
    PROVE  ChainInv'
<1>1. FramesChained'
  <2> SUFFICES ASSUME NEW t \in Threads, NEW k \in DOMAIN thr'[t].stack
               PROVE  /\ InChain(thr'[t].stack[k], sess'[thr'[t].stack[k].s].nodes)
                      /\ thr'[t].stack[k].c <= sess'[thr'[t].stack[k].s].chains
    BY DEF FramesChained, Chain
  <2>1. k \in DOMAIN thr[t].stack /\ thr'[t].stack[k] = Chain(t, k)
    BY DEF NothingRecorded, Chain
  <2>2. Chain(t, k).s \in Created
    BY <2>1, FrameFacts DEF ChainInv, FrameOK
  <2> QED
    BY <2>1, <2>2 DEF ChainInv, FramesChained, NothingRecorded
<1>2. OneFrame'
  <2> SUFFICES ASSUME NEW t \in Threads, NEW u \in Threads,
                      NEW k \in DOMAIN thr'[t].stack, NEW m \in DOMAIN thr'[u].stack,
                      thr'[t].stack[k].s = thr'[u].stack[m].s, thr'[t].stack[k].c = thr'[u].stack[m].c
               PROVE  t = u /\ k = m
    BY DEF OneFrame, Chain
  <2>1. /\ k \in DOMAIN thr[t].stack /\ thr'[t].stack[k] = Chain(t, k)
        /\ m \in DOMAIN thr[u].stack /\ thr'[u].stack[m] = Chain(u, m)
    BY DEF NothingRecorded, Chain
  <2> QED
    BY <2>1 DEF ChainInv, OneFrame
<1>3. \A id \in Created' : Counted(id)' /\ Shape(sess'[id].nodes)
  <2> SUFFICES ASSUME NEW id \in Created'
               PROVE  /\ \A m \in DOMAIN sess'[id].nodes : sess'[id].nodes[m].c <= sess'[id].chains
                      /\ Shape(sess'[id].nodes)
    BY DEF Counted
  <2>1. CASE id \in Created
    BY <2>1 DEF ChainInv, NothingRecorded, Counted
  <2>2. CASE sess'[id].nodes = <<>>
    <3>1. DOMAIN sess'[id].nodes = {}
      BY <2>2
    <3> QED
      BY <3>1 DEF Shape
  <2> QED
    BY <2>1, <2>2 DEF NothingRecorded
<1> QED
  BY <1>1, <1>2, <1>3 DEF ChainInv

\* A step of the top chain f of a thread: it may write the nodes of that chain, and moves its frame
\* or drops it.
WritesTop(t, f, S) ==
    /\ sess' = [sess EXCEPT ![f.s] = S]
    /\ S.chains = sess[f.s].chains /\ Shape(S.nodes) /\ Adds(sess[f.s].nodes, S.nodes, f.c)
    /\ \A u \in Threads \ {t} : thr'[u].stack = thr[u].stack
    /\ \A k \in DOMAIN thr'[t].stack :
          /\ k \in DOMAIN thr[t].stack
          /\ k # Len(thr[t].stack) => thr'[t].stack[k] = thr[t].stack[k]
          /\ k = Len(thr[t].stack) => /\ thr'[t].stack[k].s = f.s /\ thr'[t].stack[k].c = f.c
                                      /\ InChain(thr'[t].stack[k], S.nodes)

\* A step of the top chain keeps every other chain in its place.
LEMMA WrittenChained ==
    ASSUME ChainInv, FlowInv', NEW t \in Threads, thr[t].stack # <<>>, NEW S \in SessionT,
           WritesTop(t, Top(t), S)
    PROVE  ChainInv'
<1>1. PICK f \in FrameT : f = Top(t) /\ f.s \in Created
  BY TopFacts DEF ChainInv, FrameOK
<1>2. PICK n : n = Len(thr[t].stack)
  OBVIOUS
<1>3. n \in DOMAIN thr[t].stack /\ f = Chain(t, n)
  BY <1>1, <1>2, TopFacts DEF ChainInv, Top, Last, Chain
<1>4. /\ sess' = [sess EXCEPT ![f.s] = S] /\ S.chains = sess[f.s].chains
      /\ Shape(S.nodes) /\ Adds(sess[f.s].nodes, S.nodes, f.c)
  BY <1>1 DEF WritesTop
<1>5. /\ sess[f.s].nodes \in Seq(NodeT) /\ S.nodes \in Seq(NodeT) /\ S.chains \in Nat
      /\ Len(S.nodes) >= Len(sess[f.s].nodes)
  BY <1>1, <1>4, SessionFacts DEF SessionT, ChainInv, Adds
<1>6. /\ Created' = Created /\ sess'[f.s] = S /\ \A id \in Created : id # f.s => sess'[id] = sess[id]
  BY <1>1, <1>4, <1>5, SessionReplaced DEF ChainInv, FlowInv
\* Every frame after the step is one from before, with the same session and chain.
<1>7. ASSUME NEW u \in Threads, NEW k \in DOMAIN thr'[u].stack
      PROVE  /\ k \in DOMAIN thr[u].stack
             /\ thr'[u].stack[k].s = Chain(u, k).s /\ thr'[u].stack[k].c = Chain(u, k).c
             /\ ~(u = t /\ k = n) => thr'[u].stack[k] = Chain(u, k)
             /\ (u = t /\ k = n) => InChain(thr'[u].stack[k], S.nodes)
  <2>1. CASE u # t
    BY <2>1 DEF WritesTop, Chain
  <2>2. CASE u = t /\ k # n
    BY <1>2, <2>2 DEF WritesTop, Chain
  <2>3. CASE u = t /\ k = n
    <3>1. /\ thr'[t].stack[n].s = Top(t).s /\ thr'[t].stack[n].c = Top(t).c
          /\ InChain(thr'[t].stack[n], S.nodes)
      BY <1>2, <2>3 DEF WritesTop
    <3> QED
      BY <1>1, <1>3, <2>3, <3>1
  <2> QED
    BY <2>1, <2>2, <2>3
<1>8. FramesChained'
  <2> SUFFICES ASSUME NEW u \in Threads, NEW k \in DOMAIN thr'[u].stack
               PROVE  /\ InChain(thr'[u].stack[k], sess'[thr'[u].stack[k].s].nodes)
                      /\ thr'[u].stack[k].c <= sess'[thr'[u].stack[k].s].chains
    BY DEF FramesChained, Chain
  <2>1. PICK g : g = Chain(u, k)
    OBVIOUS
  <2>2. k \in DOMAIN thr[u].stack /\ thr'[u].stack[k].s = g.s /\ thr'[u].stack[k].c = g.c
    BY <1>7, <2>1
  <2>3. g.s \in Created /\ InChain(g, sess[g.s].nodes) /\ g.c <= sess[g.s].chains
    BY <2>1, <2>2, FrameFacts DEF ChainInv, FrameOK, FramesChained
  <2>4. thr'[u].stack[k].c <= sess'[thr'[u].stack[k].s].chains
    BY <1>4, <1>6, <2>2, <2>3
  <2>5. CASE u = t /\ k = n
    BY <1>3, <1>6, <1>7, <2>1, <2>2, <2>4, <2>5
  <2>6. CASE ~(u = t /\ k = n)
    <3>1. thr'[u].stack[k] = g
      BY <1>7, <2>1, <2>6
    <3>2. CASE g.s # f.s
      BY <1>6, <2>3, <2>4, <3>1, <3>2
    <3>3. CASE g.s = f.s
      <4>1. g.c # f.c
        BY <1>3, <2>1, <2>2, <2>6, <3>3 DEF ChainInv, OneFrame
      <4>2. InChain(g, S.nodes)
        BY <1>4, <1>5, <2>3, <3>3, <4>1, OtherChain
      <4> QED
        BY <1>6, <2>4, <3>1, <3>3, <4>2
    <3> QED
      BY <3>2, <3>3
  <2> QED
    BY <2>5, <2>6
<1>9. OneFrame'
  <2> SUFFICES ASSUME NEW a \in Threads, NEW b \in Threads,
                      NEW k \in DOMAIN thr'[a].stack, NEW m \in DOMAIN thr'[b].stack,
                      thr'[a].stack[k].s = thr'[b].stack[m].s, thr'[a].stack[k].c = thr'[b].stack[m].c
               PROVE  a = b /\ k = m
    BY DEF OneFrame, Chain
  <2>1. /\ k \in DOMAIN thr[a].stack /\ m \in DOMAIN thr[b].stack
        /\ Chain(a, k).s = Chain(b, m).s /\ Chain(a, k).c = Chain(b, m).c
    BY <1>7
  <2> QED
    BY <2>1 DEF ChainInv, OneFrame
<1>10. ASSUME NEW id \in Created'
       PROVE  /\ \A m \in DOMAIN sess'[id].nodes : sess'[id].nodes[m].c <= sess'[id].chains
              /\ Shape(sess'[id].nodes)
  <2>1. id \in Created /\ Counted(id) /\ Shape(sess[id].nodes)
    BY <1>6 DEF ChainInv
  <2>2. CASE id # f.s
    BY <1>6, <2>1, <2>2 DEF Counted
  <2>3. CASE id = f.s
    <3>1. f.c <= S.chains
      BY <1>3, <1>4 DEF ChainInv, FramesChained
    <3>2. ASSUME NEW m \in DOMAIN S.nodes
          PROVE  S.nodes[m].c <= S.chains
      <4>1. /\ Len(sess[id].nodes) \in Nat /\ Len(S.nodes) \in Nat /\ m \in 1 .. Len(S.nodes)
            /\ DOMAIN sess[id].nodes = 1 .. Len(sess[id].nodes)
        BY <1>5, <2>3, NodeFacts
      <4>2. CASE m \in 1 .. Len(sess[id].nodes)
        <5>1. S.nodes[m].c = sess[id].nodes[m].c
          BY <1>4, <2>3, <4>2 DEF Adds
        <5>2. sess[id].nodes[m].c <= sess[id].chains
          BY <2>1, <4>1, <4>2 DEF Counted
        <5> QED
          BY <1>4, <2>3, <5>1, <5>2
      <4>3. CASE m \in Len(sess[id].nodes) + 1 .. Len(S.nodes)
        <5>1. S.nodes[m].c = f.c
          BY <1>4, <2>3, <4>3 DEF Adds
        <5> QED
          BY <3>1, <5>1
      <4> QED
        BY <4>1, <4>2, <4>3
    <3> QED
      BY <1>4, <1>6, <2>3, <3>2
  <2> QED
    BY <2>2, <2>3
<1> QED
  BY <1>8, <1>9, <1>10 DEF ChainInv, Counted

\* A record that nobody writes keeps its shape, and its chains their place.
LEMMA AddsNothing ==
    ASSUME NEW ns \in Seq(NodeT), NEW c
    PROVE  Adds(ns, ns, c)
<1>1. Len(ns) \in Nat
  BY NodeFacts
<1>2. Len(ns) + 1 .. Len(ns) = {} /\ Len(ns) >= Len(ns)
  BY <1>1
<1> QED
  BY <1>2 DEF Adds

\* The facts of the top chain of a thread.
LEMMA TopChain ==
    ASSUME ChainInv, NEW t \in Threads, thr[t].stack # <<>>
    PROVE  /\ Top(t) \in FrameT /\ Top(t).s \in Created /\ sess[Top(t).s] \in SessionT
           /\ sess[Top(t).s].nodes \in Seq(NodeT) /\ Shape(sess[Top(t).s].nodes)
           /\ InChain(Top(t), sess[Top(t).s].nodes)
           /\ Len(thr[t].stack) \in Nat \ {0} /\ DOMAIN thr[t].stack = 1 .. Len(thr[t].stack)
           /\ thr \in [Threads -> ThreadT] /\ thr[t].stack \in Seq(FrameT)
<1>1. /\ Top(t) \in FrameT /\ FrameOK(Top(t))
      /\ thr[t].stack \in Seq(FrameT) /\ DOMAIN thr[t].stack = 1 .. Len(thr[t].stack)
      /\ Len(thr[t].stack) \in Nat \ {0}
  BY TopFacts DEF ChainInv
<1>2. Len(thr[t].stack) \in DOMAIN thr[t].stack /\ Top(t) = Chain(t, Len(thr[t].stack))
  BY <1>1 DEF Top, Last, Chain
<1>3. Top(t).s \in Created
  BY <1>1 DEF FrameOK
<1>4. sess[Top(t).s] \in SessionT /\ sess[Top(t).s].nodes \in Seq(NodeT)
  BY <1>3, SessionFacts DEF ChainInv
<1> QED
  BY <1>1, <1>2, <1>3, <1>4 DEF ChainInv, FramesChained, FlowInv, Types

\* How the frames look after the top one is replaced or dropped.
LEMMA TopMoved ==
    ASSUME ChainInv, NEW t \in Threads, thr[t].stack # <<>>, NEW g, thr' = WithTop(t, g)
    PROVE  /\ \A u \in Threads \ {t} : thr'[u].stack = thr[u].stack
           /\ \A k \in DOMAIN thr'[t].stack :
                 /\ k \in DOMAIN thr[t].stack
                 /\ k # Len(thr[t].stack) => thr'[t].stack[k] = thr[t].stack[k]
                 /\ k = Len(thr[t].stack) => thr'[t].stack[k] = g
<1>1. thr \in [Threads -> ThreadT] /\ thr[t].stack \in Seq(FrameT)
  BY TopChain
<1>2. PICK stack : stack = [thr[t].stack EXCEPT ![Len(thr[t].stack)] = g]
  OBVIOUS
<1>3. PICK X : X = [thr[t] EXCEPT !.stack = stack]
  OBVIOUS
<1>4. X.stack = stack /\ thr' = [thr EXCEPT ![t] = X]
  BY <1>1, <1>2, <1>3 DEF WithTop, ThreadT
<1>5. thr'[t].stack = stack /\ \A u \in Threads \ {t} : thr'[u].stack = thr[u].stack
  BY <1>1, <1>4
<1>6. \A k \in DOMAIN stack : /\ k \in DOMAIN thr[t].stack
                              /\ k # Len(thr[t].stack) => stack[k] = thr[t].stack[k]
                              /\ k = Len(thr[t].stack) => stack[k] = g
  BY <1>2
<1> QED
  BY <1>5, <1>6

\* How the frames look after the top one is dropped.
LEMMA TopDropped ==
    ASSUME ChainInv, NEW t \in Threads, thr[t].stack # <<>>, thr' = Pop(t)
    PROVE  /\ \A u \in Threads \ {t} : thr'[u].stack = thr[u].stack
           /\ \A k \in DOMAIN thr'[t].stack :
                 /\ k \in DOMAIN thr[t].stack /\ k # Len(thr[t].stack)
                 /\ thr'[t].stack[k] = thr[t].stack[k]
<1>1. thr \in [Threads -> ThreadT] /\ thr[t].stack \in Seq(FrameT)
  BY TopChain
<1>2. PICK stack : stack = Front(thr[t].stack)
  OBVIOUS
<1>3. PICK X : X = [thr[t] EXCEPT !.stack = stack]
  OBVIOUS
<1>4. X.stack = stack /\ thr' = [thr EXCEPT ![t] = X]
  BY <1>1, <1>2, <1>3 DEF Pop, ThreadT
<1>5. thr'[t].stack = stack /\ \A u \in Threads \ {t} : thr'[u].stack = thr[u].stack
  BY <1>1, <1>4
<1>6. \A k \in DOMAIN stack : k \in DOMAIN thr[t].stack /\ k # Len(thr[t].stack)
                              /\ stack[k] = thr[t].stack[k]
  BY <1>1, <1>2, FrontFacts
<1> QED
  BY <1>5, <1>6

\* A session with other nodes.
LEMMA SessionOf ==
    ASSUME ChainInv, NEW id \in Created, NEW ns \in Seq(NodeT)
    PROVE  /\ [sess[id] EXCEPT !.nodes = ns] \in SessionT
           /\ [sess[id] EXCEPT !.nodes = ns].nodes = ns
           /\ [sess[id] EXCEPT !.nodes = ns].chains = sess[id].chains
<1>1. sess[id] \in SessionT
  BY SessionFacts DEF ChainInv
<1> QED
  BY <1>1 DEF SessionT

\* The top frame moves on, and its chain's nodes are written.
LEMMA MovedChained ==
    ASSUME ChainInv, FlowInv', NEW t \in Threads, thr[t].stack # <<>>,
           NEW S \in SessionT, sess' = [sess EXCEPT ![Top(t).s] = S], S.chains = sess[Top(t).s].chains,
           Shape(S.nodes), Adds(sess[Top(t).s].nodes, S.nodes, Top(t).c),
           NEW g, thr' = WithTop(t, g), g.s = Top(t).s, g.c = Top(t).c, InChain(g, S.nodes)
    PROVE  ChainInv'
<1>1. WritesTop(t, Top(t), S)
  BY TopMoved DEF WritesTop
<1> QED
  BY <1>1, WrittenChained

\* The top frame moves on and nothing is recorded.
LEMMA GotoChained ==
    ASSUME ChainInv, FlowInv', NEW t \in Threads, thr[t].stack # <<>>, UNCHANGED sess,
           NEW g, thr' = WithTop(t, g), g.s = Top(t).s, g.c = Top(t).c, InChain(g, sess[Top(t).s].nodes)
    PROVE  ChainInv'
<1>1. PICK S \in SessionT : S = sess[Top(t).s] /\ sess' = [sess EXCEPT ![Top(t).s] = S]
  BY TopChain, SessionFacts DEF ChainInv
<1>2. Shape(S.nodes) /\ Adds(sess[Top(t).s].nodes, S.nodes, Top(t).c)
  BY <1>1, TopChain, AddsNothing
<1>3. S.chains = sess[Top(t).s].chains /\ InChain(g, S.nodes)
  BY <1>1
<1> QED
  BY <1>1, <1>2, <1>3, MovedChained

\* The top frame is dropped, and its chain's nodes are written.
LEMMA DroppedChained ==
    ASSUME ChainInv, FlowInv', NEW t \in Threads, thr[t].stack # <<>>, thr' = Pop(t),
           NEW ns \in Seq(NodeT), sess' = [sess EXCEPT ![Top(t).s].nodes = ns],
           Shape(ns), Adds(sess[Top(t).s].nodes, ns, Top(t).c)
    PROVE  ChainInv'
<1>1. PICK S : S = [sess[Top(t).s] EXCEPT !.nodes = ns]
  OBVIOUS
<1>2. S \in SessionT /\ S.nodes = ns /\ S.chains = sess[Top(t).s].chains
  BY <1>1, TopChain, SessionOf
<1>3. sess' = [sess EXCEPT ![Top(t).s] = S]
  BY <1>1
<1>4. WritesTop(t, Top(t), S)
  BY <1>2, <1>3, TopDropped DEF WritesTop
<1> QED
  BY <1>2, <1>4, WrittenChained

\* A node that starts follows a success, or begins its chain.
LEMMA StartNodeChained ==
    ASSUME ChainInv, FlowInv', NEW t \in Threads, thr[t].stack # <<>>, NEW at, StartNode(t, at),
           \/ Top(t).at = "input" /\ at = "evaluate"
           \/ Top(t).at = "stage" /\ at = "args"
    PROVE  ChainInv'
<1>1. PICK f \in FrameT : f = Top(t) /\ f.s \in Created /\ f.c \in Nat
  BY TopChain DEF FrameT
<1>2. PICK ns \in Seq(NodeT) : ns = sess[f.s].nodes /\ Shape(ns) /\ InChain(f, ns)
  BY <1>1, TopChain
<1>3. PICK e \in NodeT : e = Node(f.c, "RUNNING") /\ e.c = f.c /\ e.st = "RUNNING"
  <2>1. PICK e : e = [c |-> f.c, st |-> "RUNNING"]
    OBVIOUS
  <2>2. e \in NodeT /\ e.c = f.c /\ e.st = "RUNNING"
    BY <1>1, <2>1 DEF NodeT, NodeStatus
  <2> QED
    BY <2>1, <2>2 DEF Node
<1>4. PICK new : new = ns \o <<e>>
  OBVIOUS
<1>5. /\ <<e>> \in Seq(NodeT) /\ Len(<<e>>) = 1 /\ <<e>>[1] = e
  OBVIOUS
<1>6. new \in Seq(NodeT) /\ Shape(new) /\ Adds(ns, new, f.c) /\ Len(new) = Len(ns) + 1
  <2>1. PICK es \in Seq(NodeT) : es = <<e>> /\ Len(es) = 1 /\ es[1] = e
    BY <1>5
  <2>2. (\A j \in 1 .. Len(es) : es[j].c = f.c)
    BY <1>3, <2>1
  <2>3. \A j \in 2 .. Len(es) : es[j].st = "SKIPPED" /\ es[1].st \in Cut
    BY <2>1
  <2>4. \/ Without(ns, f.c)
        \/ \E n \in DOMAIN ns : /\ LastOf(ns, f.c, n) /\ ns[n].st # "RUNNING"
                                /\ Len(es) > 0 => (es[1].st = "SKIPPED" <=> ns[n].st \in Cut)
    <3>1. CASE f.at = "input"
      BY <1>2, <3>1 DEF InChain
    <3>2. CASE f.at = "stage"
      <4>1. LastOf(ns, f.c, f.node) /\ ns[f.node].st = "SUCCESS" /\ f.node \in DOMAIN ns
        BY <1>2, <3>2 DEF InChain, Open, LastOf
      <4> QED
        BY <1>3, <2>1, <4>1 DEF Cut
    <3> QED
      BY <1>1, <3>1, <3>2
  <2>5. ns \o es \in Seq(NodeT) /\ Shape(ns \o es) /\ Adds(ns, ns \o es, f.c) /\ Len(ns \o es) = Len(ns) + Len(es)
    BY <1>2, <2>2, <2>3, <2>4, ShapeExtended, SMTT(30)
  <2> QED
    BY <1>4, <2>1, <2>5
<1>7. new = Append(ns, e)
  BY <1>2, <1>3, <1>4
<1>8. PICK x \in Nat : x = IF sess[f.s].cancel THEN sess[f.s].extra + 1 ELSE sess[f.s].extra
  BY <1>1, TopChain DEF SessionT
<1>9. PICK S : S = [sess[f.s] EXCEPT !.nodes = new, !.extra = x]
  OBVIOUS
<1>10. S \in SessionT /\ S.nodes = new /\ S.chains = sess[f.s].chains
  BY <1>1, <1>6, <1>8, <1>9, TopChain DEF SessionT
<1>11. sess' = [sess EXCEPT ![f.s] = S]
  BY <1>1, <1>2, <1>3, <1>7, <1>8, <1>9 DEF StartNode, Started
<1>12. PICK g : g = [f EXCEPT !.at = at, !.node = Len(ns) + 1]
  OBVIOUS
<1>13. thr' = WithTop(t, g)
  BY <1>1, <1>2, <1>12 DEF StartNode
<1>14. g.s = f.s /\ g.c = f.c /\ g.at = at /\ g.node = Len(ns) + 1
  BY <1>1, <1>12 DEF FrameT
<1>15. InChain(g, new)
  <2>1. /\ Len(ns) \in Nat /\ Len(new) = Len(ns) + 1 /\ DOMAIN new = 1 .. Len(ns) + 1
        /\ new[Len(ns) + 1] = e
    BY <1>2, <1>3, <1>6, <1>7, NodeFacts, AppendProperties
  <2>2. LastOf(new, f.c, Len(ns) + 1)
    BY <1>3, <2>1 DEF LastOf
  <2> QED
    BY <1>1, <1>3, <1>14, <2>1, <2>2 DEF InChain, Open
<1> QED
  BY <1>1, <1>2, <1>6, <1>10, <1>11, <1>13, <1>14, <1>15, MovedChained

\* The node that runs becomes a success.
LEMMA FinishChained ==
    ASSUME ChainInv, FlowInv', NEW t \in Threads, FinishInput(t) \/ FinishStage(t)
    PROVE  ChainInv'
<1>1. thr[t].stack # <<>> /\ Open(Top(t))
  BY DEF FinishInput, FinishStage, At, Open
<1>2. PICK f \in FrameT : f = Top(t) /\ f.s \in Created
  BY <1>1, TopChain
<1>3. PICK ns \in Seq(NodeT) : ns = sess[f.s].nodes /\ Shape(ns) /\ InChain(f, ns)
  BY <1>1, <1>2, TopChain
<1>4. LastOf(ns, f.c, f.node) /\ ns[f.node].st = "RUNNING"
  BY <1>1, <1>2, <1>3 DEF InChain, Open
<1>5. PICK new : new = [ns EXCEPT ![f.node].st = "SUCCESS"]
  OBVIOUS
<1>6. /\ new \in Seq(NodeT) /\ Shape(new) /\ Adds(ns, new, f.c)
      /\ LastOf(new, f.c, f.node) /\ new[f.node].st = "SUCCESS"
  <2>1. new = Marked(ns, f.node, "SUCCESS")
    BY <1>5 DEF Marked
  <2> QED
    BY <1>3, <1>4, <2>1, ShapeMarked DEF NodeStatus
<1>7. PICK S : S = [sess[f.s] EXCEPT !.nodes = new]
  OBVIOUS
<1>8. S \in SessionT /\ S.nodes = new /\ S.chains = sess[f.s].chains
  BY <1>2, <1>6, <1>7, SessionOf
<1>9. sess' = [sess EXCEPT ![f.s] = S]
  BY <1>2, <1>3, <1>5, <1>7 DEF FinishInput, FinishStage, SetNode
<1>10. \E g : thr' = WithTop(t, g) /\ g.s = f.s /\ g.c = f.c /\ g.node = f.node /\ g.at = "check"
  <2>1. CASE FinishInput(t)
    <3>1. PICK g : g = [f EXCEPT !.at = "check"]
      OBVIOUS
    <3>2. g.s = f.s /\ g.c = f.c /\ g.node = f.node /\ g.at = "check"
      BY <3>1 DEF FrameT
    <3>3. thr' = WithTop(t, g)
      BY <1>2, <2>1, <3>1 DEF FinishInput, Goto
    <3> QED
      BY <3>2, <3>3
  <2>2. CASE FinishStage(t)
    <3>1. PICK g : g = [f EXCEPT !.at = "check", !.left = @ - 1]
      OBVIOUS
    <3>2. g = [s |-> f.s, c |-> f.c, left |-> f.left - 1, node |-> f.node, at |-> "check"]
      BY <3>1 DEF FrameT
    <3>3. thr' = WithTop(t, g)
      BY <1>2, <2>2, <3>1 DEF FinishStage
    <3> QED
      BY <3>2, <3>3
  <2> QED
    BY <2>1, <2>2
<1>11. PICK g : thr' = WithTop(t, g) /\ g.s = f.s /\ g.c = f.c /\ g.node = f.node /\ g.at = "check"
  BY <1>10
<1>12. InChain(g, new)
  BY <1>6, <1>11 DEF InChain, Open
<1> QED
  BY <1>1, <1>2, <1>3, <1>6, <1>8, <1>9, <1>11, <1>12, MovedChained

\* What a chain records when it is stopped before a stage, or fails in one.
LEMMA SkippedTail ==
    ASSUME NEW c \in Nat, NEW n \in Int
    PROVE  /\ Skips(c, n) \in Seq(NodeT)
           /\ \A j \in 1 .. Len(Skips(c, n)) : Skips(c, n)[j].c = c /\ Skips(c, n)[j].st = "SKIPPED"
<1>1. PICK es \in Seq(NodeT) : es = Skips(c, n)
  BY SkippedNodes
<1>2. DOMAIN es = 1 .. Len(es) /\ \A j \in DOMAIN es : es[j].c = c /\ es[j].st = "SKIPPED"
  BY <1>1, NodeFacts DEF Skips, Node
<1> QED
  BY <1>1, <1>2

\* A stopped chain records one node with the reason, then skipped ones.
LEMMA RefusedTail ==
    ASSUME NEW f \in FrameT
    PROVE  /\ Refused(f) \in Seq(NodeT) /\ Len(Refused(f)) > 0
           /\ \A j \in 1 .. Len(Refused(f)) : Refused(f)[j].c = f.c
           /\ Refused(f)[1].st \in {"CANCELLED", "TIMEOUT"}
           /\ \A j \in 2 .. Len(Refused(f)) : Refused(f)[j].st = "SKIPPED"
<1>1. f.c \in Nat /\ f.left - 1 \in Int
  BY DEF FrameT
<1>2. PICK es \in Seq(NodeT) : es = Skips(f.c, f.left - 1)
                               /\ \A j \in 1 .. Len(es) : es[j].c = f.c /\ es[j].st = "SKIPPED"
  BY <1>1, SkippedTail
<1>3. PICK mark \in NodeT : /\ mark = Node(f.c, StopMark(f.s)) /\ mark.c = f.c
                            /\ mark.st \in {"CANCELLED", "TIMEOUT"}
  <2>1. PICK mark : mark = [c |-> f.c, st |-> StopMark(f.s)]
    OBVIOUS
  <2>2. mark \in NodeT /\ mark.c = f.c /\ mark.st \in {"CANCELLED", "TIMEOUT"}
    BY <1>1, <2>1 DEF StopMark, NodeT, NodeStatus
  <2> QED
    BY <2>1, <2>2 DEF Node
<1>4. PICK ones \in Seq(NodeT) : ones = <<mark>> /\ Len(ones) = 1 /\ ones[1] = mark
  <2>1. <<mark>> \in Seq(NodeT) /\ Len(<<mark>>) = 1 /\ <<mark>>[1] = mark
    OBVIOUS
  <2> QED
    BY <2>1
<1>5. PICK all : all = ones \o es
  OBVIOUS
<1>6. /\ all \in Seq(NodeT) /\ Len(all) = 1 + Len(es) /\ Len(es) \in Nat
      /\ \A j \in 1 .. 1 + Len(es) : all[j] = IF j <= 1 THEN ones[j] ELSE es[j - 1]
  BY <1>4, <1>5, ConcatProperties, NodeFacts
<1>7. all[1] = mark
  BY <1>4, <1>6
<1>8. ASSUME NEW j \in 2 .. Len(all)
      PROVE  all[j].c = f.c /\ all[j].st = "SKIPPED"
  <2>1. j - 1 \in 1 .. Len(es) /\ all[j] = es[j - 1]
    BY <1>6
  <2> QED
    BY <1>2, <2>1
<1>9. \A j \in 1 .. Len(all) : j = 1 \/ j \in 2 .. Len(all)
  BY <1>6
<1>10. Refused(f) = all
  BY <1>2, <1>3, <1>4, <1>5 DEF Refused
<1>11. Len(all) > 0
  BY <1>6
<1>12. \A j \in 1 .. Len(all) : all[j].c = f.c
  BY <1>3, <1>7, <1>8, <1>9
<1> QED
  BY <1>3, <1>6, <1>7, <1>8, <1>10, <1>11, <1>12

\* The check before a stage.
LEMMA CheckStageChained ==
    ASSUME ChainInv, FlowInv', NEW t \in Threads, CheckStage(t)
    PROVE  ChainInv'
<1>1. thr[t].stack # <<>> /\ Top(t).at = "check"
  BY DEF CheckStage, At
<1>2. PICK f \in FrameT : f = Top(t) /\ f.s \in Created
  BY <1>1, TopChain
<1>3. PICK ns \in Seq(NodeT) : ns = sess[f.s].nodes /\ Shape(ns) /\ InChain(f, ns)
  BY <1>1, <1>2, TopChain
<1>4. LastOf(ns, f.c, f.node) /\ ns[f.node].st = "SUCCESS" /\ f.node \in DOMAIN ns
  BY <1>1, <1>2, <1>3 DEF InChain, Open, LastOf
<1>5. CASE ~MustStop(f.s)
  <2>1. PICK g : g = [f EXCEPT !.at = "stage"]
    OBVIOUS
  <2>2. g.s = f.s /\ g.c = f.c /\ g.node = f.node /\ g.at = "stage"
    BY <2>1 DEF FrameT
  <2>3. thr' = WithTop(t, g) /\ UNCHANGED sess
    BY <1>2, <1>5, <2>1 DEF CheckStage, Goto
  <2>4. InChain(g, ns)
    BY <1>4, <2>2 DEF InChain, Open
  <2> QED
    BY <1>1, <1>2, <1>3, <2>2, <2>3, <2>4, GotoChained
<1>6. CASE MustStop(f.s)
  <2>1. PICK es \in Seq(NodeT) :
          /\ es = Refused(f) /\ Len(es) > 0 /\ \A j \in 1 .. Len(es) : es[j].c = f.c
          /\ es[1].st \in {"CANCELLED", "TIMEOUT"} /\ \A j \in 2 .. Len(es) : es[j].st = "SKIPPED"
    BY RefusedTail
  <2>2. PICK new : new = ns \o es
    OBVIOUS
  <2>3. new \in Seq(NodeT) /\ Shape(new) /\ Adds(ns, new, f.c)
    <3>1. \E n \in DOMAIN ns : /\ LastOf(ns, f.c, n) /\ ns[n].st # "RUNNING"
                               /\ Len(es) > 0 => (es[1].st = "SKIPPED" <=> ns[n].st \in Cut)
      BY <1>4, <2>1 DEF Cut
    <3>2. \A j \in 2 .. Len(es) : es[j].st = "SKIPPED" /\ es[1].st \in Cut
      BY <2>1 DEF Cut
    <3> QED
      BY <1>3, <2>1, <2>2, <3>1, <3>2, ShapeExtended
  <2>4. thr' = Pop(t) /\ sess' = [sess EXCEPT ![f.s].nodes = new]
    BY <1>2, <1>3, <1>6, <2>1, <2>2 DEF CheckStage
  <2> QED
    BY <1>1, <1>2, <1>3, <2>3, <2>4, DroppedChained
<1> QED
  BY <1>5, <1>6

\* An exception that leaves a chain.
LEMMA UnwindChained ==
    ASSUME ChainInv, FlowInv', NEW t \in Threads, Unwind(t)
    PROVE  ChainInv'
<1>1. thr[t].stack # <<>> /\ thr' = Pop(t)
  BY DEF Unwind
<1>2. PICK f \in FrameT : f = Top(t) /\ f.s \in Created /\ f.c \in Nat /\ f.left \in Nat
  BY <1>1, TopChain DEF FrameT
<1>3. PICK ns \in Seq(NodeT) : ns = sess[f.s].nodes /\ Shape(ns) /\ InChain(f, ns)
  BY <1>1, <1>2, TopChain
<1>4. CASE ~Recorded(f, thr[t].err)
  <2>1. sess' = sess
    BY <1>2, <1>4 DEF Unwind
  <2>2. sess' = [sess EXCEPT ![f.s].nodes = ns]
    <3>1. sess[f.s] = [sess[f.s] EXCEPT !.nodes = ns]
      BY <1>2, <1>3, TopChain, <1>1 DEF SessionT
    <3>2. sess = [sess EXCEPT ![f.s] = sess[f.s]]
      BY <1>2, SessionFacts DEF ChainInv
    <3> QED
      BY <2>1, <3>1, <3>2
  <2>3. Adds(ns, ns, f.c)
    BY AddsNothing
  <2> QED
    BY <1>1, <1>2, <1>3, <2>2, <2>3, DroppedChained
<1>5. CASE Recorded(f, thr[t].err)
  <2>1. LastOf(ns, f.c, f.node) /\ ns[f.node].st = "RUNNING"
    BY <1>3, <1>5 DEF Recorded, InChain, Open
  <2>2. PICK marked : marked = [ns EXCEPT ![f.node].st = "ERROR"]
    OBVIOUS
  <2>3. /\ marked \in Seq(NodeT) /\ Shape(marked) /\ Adds(ns, marked, f.c) /\ Len(marked) = Len(ns)
        /\ LastOf(marked, f.c, f.node) /\ marked[f.node].st = "ERROR"
    <3>1. marked = Marked(ns, f.node, "ERROR")
      BY <2>2 DEF Marked
    <3> QED
      BY <1>3, <2>1, <3>1, ShapeMarked DEF NodeStatus
  <2>4. PICK es \in Seq(NodeT) : es = Skips(f.c, f.left - 1)
                                 /\ \A j \in 1 .. Len(es) : es[j].c = f.c /\ es[j].st = "SKIPPED"
    <3>1. PICK n \in Int : n = f.left - 1
      BY <1>2
    <3>2. /\ Skips(f.c, n) \in Seq(NodeT)
          /\ \A j \in 1 .. Len(Skips(f.c, n)) : Skips(f.c, n)[j].c = f.c /\ Skips(f.c, n)[j].st = "SKIPPED"
      BY <1>2, SkippedTail
    <3> QED
      BY <3>1, <3>2
  <2>5. PICK new : new = marked \o es
    OBVIOUS
  <2>6. new \in Seq(NodeT) /\ Shape(new) /\ Adds(marked, new, f.c) /\ Len(new) = Len(marked) + Len(es)
    <3>1. Len(es) \in Nat
      BY NodeFacts
    <3>2. \A j \in 2 .. Len(es) : es[j].st = "SKIPPED" /\ es[1].st \in Cut
      <4>1. \A j \in 2 .. Len(es) : j \in 1 .. Len(es) /\ 1 \in 1 .. Len(es)
        BY <3>1
      <4> QED
        BY <2>4, <4>1 DEF Cut
    <3>3. \E n \in DOMAIN marked : /\ LastOf(marked, f.c, n) /\ marked[n].st # "RUNNING"
                                   /\ Len(es) > 0 => (es[1].st = "SKIPPED" <=> marked[n].st \in Cut)
      <4>1. f.node \in DOMAIN marked
        BY <2>3 DEF LastOf
      <4>2. Len(es) > 0 => es[1].st = "SKIPPED"
        BY <2>4, <3>1
      <4> QED
        BY <2>3, <4>1, <4>2 DEF Cut
    <3> QED
      BY <2>3, <2>4, <2>5, <3>2, <3>3, ShapeExtended
  <2>7. Adds(ns, new, f.c)
    <3>1. Len(ns) \in Nat /\ Len(new) >= Len(ns) /\ Len(marked) = Len(ns)
      BY <2>3, <2>6, NodeFacts
    <3>2. ASSUME NEW m \in 1 .. Len(ns)
          PROVE  new[m].c = ns[m].c /\ (ns[m].c # f.c => new[m] = ns[m])
      <4>1. marked[m].c = ns[m].c /\ (ns[m].c # f.c => marked[m] = ns[m])
        BY <2>3 DEF Adds
      <4>2. new[m].c = marked[m].c /\ (marked[m].c # f.c => new[m] = marked[m])
        BY <2>6, <3>1 DEF Adds
      <4> QED
        BY <4>1, <4>2
    <3>3. \A m \in Len(ns) + 1 .. Len(new) : new[m].c = f.c
      BY <2>6, <3>1 DEF Adds
    <3> QED
      BY <3>1, <3>2, <3>3 DEF Adds
  <2>8. sess' = [sess EXCEPT ![f.s].nodes = new]
    BY <1>2, <1>3, <1>5, <2>2, <2>4, <2>5 DEF Unwind, Failed
  <2> QED
    BY <1>1, <1>2, <1>3, <2>6, <2>7, <2>8, DroppedChained
<1> QED
  BY <1>4, <1>5

\* The arguments of a stage record nothing.
LEMMA ArgumentsChained ==
    ASSUME ChainInv, FlowInv', NEW t \in Threads, Arguments(t)
    PROVE  ChainInv'
<1>1. thr[t].stack # <<>> /\ Top(t).at = "args" /\ UNCHANGED sess /\ Goto(t, "call")
  BY DEF Arguments, At
<1>2. PICK f \in FrameT : f = Top(t)
  BY <1>1, TopChain
<1>3. PICK g : g = [f EXCEPT !.at = "call"]
  OBVIOUS
<1>4. g.s = f.s /\ g.c = f.c /\ g.node = f.node /\ g.at = "call"
  BY <1>3 DEF FrameT
<1>5. thr' = WithTop(t, g)
  BY <1>1, <1>2, <1>3 DEF Goto
<1>6. InChain(f, sess[f.s].nodes)
  BY <1>1, <1>2, TopChain
<1>7. InChain(g, sess[f.s].nodes)
  BY <1>1, <1>2, <1>4, <1>6 DEF InChain, Open
<1> QED
  BY <1>1, <1>2, <1>4, <1>5, <1>7, GotoChained

\* A chain that begins takes the next number of its session.
LEMMA EnterChained ==
    ASSUME ChainInv, FlowInv', NEW t \in Threads, NEW n \in Nat, NEW X \in ThreadT,
           X.stack = thr[t].stack, thr[t].of \in Interps, Enter(t, n, [thr EXCEPT ![t] = X])
    PROVE  ChainInv'
<1>1. thr \in [Threads -> ThreadT] /\ thr[t].stack \in Seq(FrameT)
  BY DEF ChainInv, FlowInv, Types, ThreadT
<1>2. PICK s : s = engine[thr[t].of].active
  OBVIOUS
<1>3. s \in Created \cup {NoId}
  BY <1>2 DEF ChainInv, FlowInv, Links
<1>4. CASE s = NoId
  <2>1. thr' = [thr EXCEPT ![t] = X] /\ sess' = sess
    BY <1>2, <1>4 DEF Enter
  <2>2. \A u \in Threads : thr'[u].stack = thr[u].stack
    BY <1>1, <2>1
  <2>3. NothingRecorded
    BY <2>1, <2>2 DEF NothingRecorded, Created
  <2> QED
    BY <2>3, NothingChained
<1>5. CASE s # NoId
  <2>1. /\ s \in Created /\ sess[s] \in SessionT /\ sess[s].nodes \in Seq(NodeT)
        /\ Len(sess[s].nodes) \in Nat /\ sess[s].chains \in Nat
    BY <1>3, <1>5, SessionFacts DEF SessionT, ChainInv
  <2>2. PICK S : S = [sess[s] EXCEPT !.chains = @ + 1]
    OBVIOUS
  <2>3. S \in SessionT /\ S.nodes = sess[s].nodes /\ S.chains = sess[s].chains + 1
    BY <2>1, <2>2 DEF SessionT
  <2>4. sess' = [sess EXCEPT ![s] = S]
    BY <1>2, <1>5, <2>2 DEF Enter
  <2>5. Created' = Created /\ sess'[s] = S /\ \A id \in Created : id # s => sess'[id] = sess[id]
    <3>1. Len(S.nodes) >= Len(sess[s].nodes)
      BY <2>1, <2>3
    <3> QED
      BY <2>1, <2>3, <2>4, <3>1, SessionReplaced DEF ChainInv, FlowInv
  <2>6. \A id \in Created : /\ sess'[id].nodes = sess[id].nodes /\ sess[id] \in SessionT
                            /\ sess'[id].chains >= sess[id].chains /\ sess[id].chains \in Nat
                            /\ sess'[id].chains \in Nat
    <3>1. \A id \in Created : sess[id] \in SessionT
      BY SessionFacts DEF ChainInv
    <3>2. \A id \in Created : sess[id].chains \in Nat
      BY <3>1 DEF SessionT
    <3>3. ASSUME NEW id \in Created
          PROVE  /\ sess'[id].nodes = sess[id].nodes /\ sess'[id].chains >= sess[id].chains
                 /\ sess'[id].chains \in Nat
      <4>1. CASE id = s
        BY <2>1, <2>3, <2>5, <4>1
      <4>2. CASE id # s
        BY <2>5, <3>2, <4>2
      <4> QED
        BY <4>1, <4>2
    <3> QED
      BY <3>1, <3>2, <3>3
  <2>7. PICK g : g = [s |-> s, c |-> sess[s].chains + 1, left |-> n, node |-> 0, at |-> "input"]
    OBVIOUS
  <2>8. ASSUME NEW u \in Threads, NEW k \in DOMAIN thr'[u].stack
        PROVE  \/ k \in DOMAIN thr[u].stack /\ thr'[u].stack[k] = Chain(u, k)
               \/ u = t /\ k = Len(thr[t].stack) + 1 /\ thr'[u].stack[k] = g
    <3>1. CASE Stopped(s)
      <4>1. thr' = [thr EXCEPT ![t] = X]
        BY <1>2, <1>5, <3>1 DEF Enter
      <4>2. thr'[u].stack = thr[u].stack
        BY <1>1, <4>1
      <4> QED
        BY <4>2 DEF Chain
    <3>2. CASE ~Stopped(s)
      <4>1. thr' = [[thr EXCEPT ![t] = X] EXCEPT ![t].stack = Append(@, g)]
        BY <1>2, <1>5, <2>7, <3>2 DEF Enter
      <4>2. PICK stack : stack = Append(thr[t].stack, g)
        OBVIOUS
      <4>3. thr' = [thr EXCEPT ![t] = [X EXCEPT !.stack = stack]]
        BY <1>1, <4>1, <4>2
      <4>4. [X EXCEPT !.stack = stack].stack = stack
        BY DEF ThreadT
      <4>5. thr'[t].stack = stack /\ \A v \in Threads : v # t => thr'[v].stack = thr[v].stack
        BY <1>1, <4>3, <4>4
      <4>6. g \in FrameT
        BY <2>1, <2>7, SessionFacts DEF FrameT, ChainInv
      <4>7. \A j \in DOMAIN stack : \/ j \in DOMAIN thr[t].stack /\ stack[j] = thr[t].stack[j]
                                    \/ j = Len(thr[t].stack) + 1 /\ stack[j] = g
        BY <1>1, <4>2, <4>6, AppendProperties, LenProperties
      <4> QED
        BY <4>5, <4>7 DEF Chain
    <3> QED
      BY <3>1, <3>2
  <2>9. \A u \in Threads : \A k \in DOMAIN thr[u].stack :
           Chain(u, k).s \in Created /\ Chain(u, k).c \in Nat /\ Chain(u, k).c <= sess[Chain(u, k).s].chains
    BY FrameFacts DEF ChainInv, FrameOK, FrameT, FramesChained
  <2>10. FramesChained'
    <3> SUFFICES ASSUME NEW u \in Threads, NEW k \in DOMAIN thr'[u].stack
                 PROVE  /\ InChain(thr'[u].stack[k], sess'[thr'[u].stack[k].s].nodes)
                        /\ thr'[u].stack[k].c <= sess'[thr'[u].stack[k].s].chains
      BY DEF FramesChained, Chain
    <3>1. CASE k \in DOMAIN thr[u].stack /\ thr'[u].stack[k] = Chain(u, k)
      <4>1. PICK h : h = Chain(u, k)
        OBVIOUS
      <4>2. InChain(h, sess[h.s].nodes) /\ h.s \in Created /\ h.c \in Nat /\ h.c <= sess[h.s].chains
        BY <2>9, <3>1, <4>1 DEF ChainInv, FramesChained
      <4>3. h.c <= sess'[h.s].chains /\ sess'[h.s].nodes = sess[h.s].nodes
        BY <2>6, <4>2
      <4> QED
        BY <3>1, <4>1, <4>2, <4>3
    <3>2. CASE thr'[u].stack[k] = g
      <4>1. g.s = s /\ g.c = sess[s].chains + 1 /\ g.at = "input"
        BY <2>7
      <4>2. Without(sess[s].nodes, sess[s].chains + 1)
        <5>1. \A m \in DOMAIN sess[s].nodes : sess[s].nodes[m].c \in Nat
                                              /\ sess[s].nodes[m].c <= sess[s].chains
          BY <2>1, NodeFacts DEF ChainInv, Counted
        <5> QED
          BY <2>1, <5>1 DEF Without
      <4>3. InChain(g, S.nodes)
        BY <2>3, <4>1, <4>2 DEF InChain
      <4>4. g.c <= S.chains
        BY <2>1, <2>3, <4>1
      <4> QED
        BY <2>5, <3>2, <4>1, <4>3, <4>4
    <3> QED
      BY <2>8, <3>1, <3>2
  <2>11. OneFrame'
    <3> SUFFICES ASSUME NEW a \in Threads, NEW b \in Threads,
                        NEW k \in DOMAIN thr'[a].stack, NEW m \in DOMAIN thr'[b].stack,
                        thr'[a].stack[k].s = thr'[b].stack[m].s, thr'[a].stack[k].c = thr'[b].stack[m].c
                 PROVE  a = b /\ k = m
      BY DEF OneFrame, Chain
    <3>1. \A u \in Threads : \A j \in DOMAIN thr[u].stack :
             ~(Chain(u, j).s = g.s /\ Chain(u, j).c = g.c)
      <4>1. g.s = s /\ g.c = sess[s].chains + 1
        BY <2>7
      <4> QED
        BY <2>1, <2>9, <4>1
    <3>2. CASE /\ k \in DOMAIN thr[a].stack /\ thr'[a].stack[k] = Chain(a, k)
               /\ m \in DOMAIN thr[b].stack /\ thr'[b].stack[m] = Chain(b, m)
      BY <3>2 DEF ChainInv, OneFrame
    <3>3. CASE a = t /\ k = Len(thr[t].stack) + 1 /\ b = t /\ m = Len(thr[t].stack) + 1
      BY <3>3
    <3>4. CASE k \in DOMAIN thr[a].stack /\ thr'[a].stack[k] = Chain(a, k) /\ thr'[b].stack[m] = g
      BY <3>1, <3>4
    <3>5. CASE thr'[a].stack[k] = g /\ m \in DOMAIN thr[b].stack /\ thr'[b].stack[m] = Chain(b, m)
      BY <3>1, <3>5
    <3> QED
      BY <2>8, <3>2, <3>3, <3>4, <3>5
  <2>12. ASSUME NEW id \in Created'
         PROVE  /\ \A m \in DOMAIN sess'[id].nodes : sess'[id].nodes[m].c <= sess'[id].chains
                /\ Shape(sess'[id].nodes)
    <3>1. /\ id \in Created /\ Counted(id) /\ Shape(sess[id].nodes) /\ sess'[id].nodes = sess[id].nodes
          /\ sess'[id].chains >= sess[id].chains /\ sess[id].chains \in Nat /\ sess'[id].chains \in Nat
          /\ sess[id].nodes \in Seq(NodeT)
      BY <2>5, <2>6, SessionFacts DEF ChainInv
    <3>2. \A m \in DOMAIN sess[id].nodes : sess[id].nodes[m].c \in Nat
                                           /\ sess[id].nodes[m].c <= sess[id].chains
      BY <3>1, NodeFacts DEF Counted
    <3> QED
      BY <3>1, <3>2
  <2> QED
    BY <2>10, <2>11, <2>12 DEF ChainInv, Counted
<1> QED
  BY <1>4, <1>5

\* Steps of a thread that change its program, or leave the session as it is.
LEMMA StillChained ==
    ASSUME ChainInv, FlowInv', NEW t \in Threads, NEW X \in ThreadT, thr' = [thr EXCEPT ![t] = X],
           \/ X.stack = thr[t].stack
           \/ X.stack = Front(thr[t].stack) /\ thr[t].stack # <<>>,
           UNCHANGED sess
    PROVE  ChainInv'
<1>1. thr \in [Threads -> ThreadT] /\ thr[t].stack \in Seq(FrameT)
  BY DEF ChainInv, FlowInv, Types, ThreadT
<1>2. thr'[t].stack = X.stack /\ \A u \in Threads : u # t => thr'[u].stack = thr[u].stack
  BY <1>1
<1>3. \A k \in DOMAIN X.stack : k \in DOMAIN thr[t].stack /\ X.stack[k] = thr[t].stack[k]
  <2>1. CASE X.stack = thr[t].stack
    BY <2>1
  <2>2. CASE X.stack = Front(thr[t].stack) /\ thr[t].stack # <<>>
    BY <1>1, <2>2, FrontFacts
  <2> QED
    BY <2>1, <2>2
<1>4. NothingRecorded
  BY <1>2, <1>3 DEF NothingRecorded, Created
<1> QED
  BY <1>4, NothingChained

\* Every step of a thread inside its flow.
LEMMA InsideChained ==
    ASSUME ChainInv, FlowInv', NEW t \in Threads, Inside(t)
    PROVE  ChainInv'
<1>1. thr \in [Threads -> ThreadT] /\ thr[t] \in ThreadT /\ thr[t].stack \in Seq(FrameT) /\ FlowInv
  BY DEF ChainInv, FlowInv, Types, ThreadT
<1>2. CASE StartInput(t)
  BY <1>2, StartNodeChained DEF StartInput, At
<1>3. CASE StartStage(t)
  BY <1>3, StartNodeChained DEF StartStage, At
<1>4. CASE FinishInput(t) \/ FinishStage(t)
  BY <1>4, FinishChained
<1>5. CASE CheckStage(t)
  BY <1>5, CheckStageChained
<1>6. CASE Arguments(t)
  BY <1>6, ArgumentsChained
<1>7. CASE Unwind(t)
  BY <1>7, UnwindChained
<1>8. CASE EndChain(t)
  <2>1. PICK X : X = [thr[t] EXCEPT !.stack = Front(thr[t].stack)]
    OBVIOUS
  <2>2. thr[t].stack # <<>> /\ thr' = [thr EXCEPT ![t] = X] /\ UNCHANGED sess
    BY <1>8, <2>1 DEF EndChain, At, Pop
  <2>3. X \in ThreadT /\ X.stack = Front(thr[t].stack)
    <3>1. Front(thr[t].stack) \in Seq(FrameT)
      BY <1>1, <2>2, FrontFacts
    <3> QED
      BY <1>1, <2>1, <3>1 DEF ThreadT
  <2> QED
    BY <2>2, <2>3, StillChained
<1>9. CASE Catch(t) \/ \E e \in Errors : Raise(t, e)
  <2>1. PICK err \in Errors \cup {"none"} : thr' = [thr EXCEPT ![t].err = err] /\ UNCHANGED sess
    BY <1>9 DEF Catch, Raise
  <2>2. PICK X : X = [thr[t] EXCEPT !.err = err]
    OBVIOUS
  <2>3. X \in ThreadT /\ X.stack = thr[t].stack
    BY <1>1, <2>2 DEF ThreadT
  <2>4. thr' = [thr EXCEPT ![t] = X]
    BY <2>1, <2>2
  <2> QED
    BY <2>1, <2>3, <2>4, StillChained
<1>10. ASSUME NEW n \in 1 .. MaxStages, EnterChain(t, n) \/ EnterInner(t, n)
       PROVE  ChainInv'
  <2>1. n \in Nat
    BY FlowAssumption
  <2>2. CASE EnterChain(t, n)
    <3>1. PICK X : X = [thr[t] EXCEPT !.todo = @ - 1]
      OBVIOUS
    <3>2. thr[t].todo \in Nat /\ thr[t].todo > 0 /\ thr[t].pc \in {"program", "replay"}
      BY <1>1, <2>2 DEF EnterChain, InProgram, ThreadT
    <3>3. X \in ThreadT /\ X.stack = thr[t].stack
      <4>1. PICK m \in Nat : m = thr[t].todo - 1
        BY <3>2
      <4>2. X = [thr[t] EXCEPT !.todo = m]
        BY <3>1, <4>1
      <4> QED
        BY <1>1, <4>2 DEF ThreadT
    <3>4. Enter(t, n, [thr EXCEPT ![t] = X])
      BY <2>2, <3>1 DEF EnterChain
    <3>5. thr[t].of \in Interps
      BY <1>1, <3>2 DEF FlowInv, Links, ThreadOK
    <3> QED
      BY <2>1, <3>3, <3>4, <3>5, EnterChained
  <2>3. CASE EnterInner(t, n)
    <3>1. thr[t].stack # <<>> /\ Enter(t, n, thr)
      BY <2>3 DEF EnterInner
    <3>2. PICK X \in ThreadT : X = thr[t] /\ thr = [thr EXCEPT ![t] = X]
      BY <1>1
    <3>3. Enter(t, n, [thr EXCEPT ![t] = X])
      BY <3>1, <3>2
    <3>4. thr[t].of \in Interps
      BY <1>1, <3>1, TopFacts
    <3> QED
      BY <2>1, <3>2, <3>3, <3>4, EnterChained
  <2> QED
    BY <1>10, <2>2, <2>3
<1> QED
  BY <1>2, <1>3, <1>4, <1>5, <1>6, <1>7, <1>8, <1>9, <1>10 DEF Inside

\* A session that gets a flag or its end keeps its nodes.
LEMMA FlaggedChained ==
    ASSUME ChainInv, FlowInv', NEW id \in Created, NEW S \in SessionT, sess' = [sess EXCEPT ![id] = S],
           S.nodes = sess[id].nodes, S.chains = sess[id].chains,
           \A u \in Threads : thr'[u].stack = thr[u].stack \/ thr'[u].stack = <<>>
    PROVE  ChainInv'
<1>1. Len(S.nodes) >= Len(sess[id].nodes)
  BY SessionFacts DEF ChainInv
<1>2. Created' = Created /\ sess'[id] = S /\ \A n \in Created : n # id => sess'[n] = sess[n]
  BY <1>1, SessionReplaced DEF ChainInv, FlowInv
<1>3. NothingRecorded
  BY <1>2 DEF NothingRecorded
<1> QED
  BY <1>3, NothingChained

\* A session begins without nodes.
LEMMA CreateChained ==
    ASSUME ChainInv, FlowInv', NEW t \in Threads, NEW i \in Interps, NEW pc \in {"started", "replaying"},
           Create(t, i, pc)
    PROVE  ChainInv'
<1>1. sess \in Seq(SessionT) /\ Created = 1 .. Len(sess) /\ Len(sess) \in Nat /\ thr \in [Threads -> ThreadT]
  BY LenProperties DEF ChainInv, FlowInv, Types, Created
<1>2. PICK S : S = NewSession(i)
  OBVIOUS
<1>3. S \in SessionT /\ S.nodes = <<>>
  BY <1>2, EmptySeq DEF NewSession, SessionT, SessionStatus
<1>4. /\ Created' = 1 .. Len(sess) + 1 /\ sess'[Len(sess) + 1] = S
      /\ \A n \in Created : sess'[n] = sess[n]
  <2>1. sess' = Append(sess, S)
    BY <1>2 DEF Create
  <2>2. /\ sess' \in Seq(SessionT) /\ Len(sess') = Len(sess) + 1 /\ sess'[Len(sess) + 1] = S
        /\ \A n \in 1 .. Len(sess) : sess'[n] = sess[n]
    BY <1>1, <1>3, <2>1, AppendProperties
  <2> QED
    BY <1>1, <2>2, LenProperties DEF Created
<1>5. \A id \in Created' : id \in Created \/ sess'[id].nodes = <<>>
  <2>1. \A id \in 1 .. Len(sess) + 1 : id \in 1 .. Len(sess) \/ id = Len(sess) + 1
    BY <1>1
  <2> QED
    BY <1>1, <1>3, <1>4, <2>1
<1>6. \A u \in Threads : thr'[u].stack = thr[u].stack \/ thr'[u].stack = <<>>
  <2>1. PICK X : X = [Idle EXCEPT !.pc = pc, !.s = NextId, !.of = i]
    OBVIOUS
  <2>2. X.stack = <<>>
    BY <2>1 DEF Idle
  <2>3. thr' = [thr EXCEPT ![t] = X]
    BY <2>1 DEF Create
  <2> QED
    BY <1>1, <2>2, <2>3
<1>7. Created \subseteq Created'
  BY <1>1, <1>4
<1>8. NothingRecorded
  BY <1>4, <1>5, <1>6, <1>7 DEF NothingRecorded
<1> QED
  BY <1>8, NothingChained

\* Every step of a thread at the edge of its flow.
LEMMA OutsideChained ==
    ASSUME ChainInv, FlowInv', NEW t \in Threads, Outside(t)
    PROVE  ChainInv'
<1>1. FlowInv /\ thr \in [Threads -> ThreadT] /\ thr[t] \in ThreadT
  BY DEF ChainInv, FlowInv, Types
<1>2. CASE \E i \in Interps : Run(t, i)
  BY <1>2, CreateChained DEF Run
<1>3. CASE Replay(t)
  <2>1. PICK id \in Created : ReplayOf(t, id)
    BY <1>3 DEF Replay
  <2>2. PICK i \in Interps : i = sess[id].of
    BY <1>1, SessionFacts DEF SessionT
  <2>3. Create(t, i, "replaying")
    BY <2>1, <2>2 DEF ReplayOf
  <2> QED
    BY <2>3, CreateChained
<1>4. CASE Register(t)
  <2>1. \A u \in Threads : thr'[u].stack = thr[u].stack
    BY <1>1, <1>4 DEF Register, ThreadT
  <2>2. NothingRecorded
    BY <1>4, <2>1 DEF Register, NothingRecorded, Created
  <2> QED
    BY <2>2, NothingChained
<1>5. CASE End(t)
  <2>1. PICK id \in Created : id = thr[t].s
    BY <1>1, <1>5 DEF End, FlowInv, Links, ThreadOK
  <2>2. PICK S : S = [sess[id] EXCEPT !.status = Verdict(id, thr[t].saw, thr[t].err)]
    OBVIOUS
  <2>3. S \in SessionT /\ S.nodes = sess[id].nodes /\ S.chains = sess[id].chains
    <3>1. sess[id] \in SessionT /\ Verdict(id, thr[t].saw, thr[t].err) \in SessionStatus
      BY <1>1, SessionFacts DEF Verdict, SessionStatus
    <3> QED
      BY <2>2, <3>1 DEF SessionT
  <2>4. sess' = [sess EXCEPT ![id] = S]
    BY <1>5, <2>1, <2>2 DEF End
  <2>5. \A u \in Threads : thr'[u].stack = thr[u].stack \/ thr'[u].stack = <<>>
    BY <1>1, <1>5 DEF End, Idle
  <2> QED
    BY <2>3, <2>4, <2>5, FlaggedChained
<1>6. CASE Leak(t)
  <2>1. \A u \in Threads : thr'[u].stack = thr[u].stack \/ thr'[u].stack = <<>>
    BY <1>1, <1>6 DEF Leak, Idle
  <2>2. NothingRecorded
    BY <1>6, <2>1 DEF Leak, NothingRecorded, Created
  <2> QED
    BY <2>2, NothingChained
<1>7. CASE Crash(t)
  <2>1. NothingRecorded
    BY <1>7 DEF Crash, NothingRecorded, Created
  <2> QED
    BY <2>1, NothingChained
<1>8. CASE Judge(t)
  <2>1. PICK X \in ThreadT : JudgedAs(t, X)
    BY <1>1, <1>8, JudgeKeeps
  <2> QED
    BY <2>1, StillChained DEF JudgedAs
<1> QED
  BY <1>2, <1>3, <1>4, <1>5, <1>6, <1>7, <1>8 DEF Outside

\* The canceller and the clock write no node.
LEMMA RequestChained ==
    ASSUME ChainInv, FlowInv', CancelLook \/ CancelSet \/ Deadline
    PROVE  ChainInv'
<1>1. FlowInv /\ thr' = thr
  BY DEF ChainInv, CancelLook, CancelSet, Deadline
<1>2. CASE CancelLook
  <2>1. NothingRecorded
    BY <1>1, <1>2 DEF CancelLook, NothingRecorded, Created
  <2> QED
    BY <2>1, NothingChained
<1>3. CASE CancelSet
  <2>1. PICK id \in Created : id = asked
    BY <1>1, <1>3 DEF CancelSet, FlowInv, Links
  <2>2. PICK S : S = [sess[id] EXCEPT !.cancel = TRUE]
    OBVIOUS
  <2>3. S \in SessionT /\ S.nodes = sess[id].nodes /\ S.chains = sess[id].chains
    BY <1>1, <2>2, SessionFacts DEF SessionT
  <2>4. sess' = [sess EXCEPT ![id] = S]
    BY <1>3, <2>1, <2>2 DEF CancelSet
  <2> QED
    BY <1>1, <2>3, <2>4, FlaggedChained
<1>4. CASE Deadline
  <2>1. PICK id \in Created : sess' = [sess EXCEPT ![id].late = TRUE]
    BY <1>4 DEF Deadline
  <2>2. PICK S : S = [sess[id] EXCEPT !.late = TRUE]
    OBVIOUS
  <2>3. S \in SessionT /\ S.nodes = sess[id].nodes /\ S.chains = sess[id].chains
    BY <1>1, <2>2, SessionFacts DEF SessionT
  <2>4. sess' = [sess EXCEPT ![id] = S]
    BY <2>1, <2>2
  <2> QED
    BY <1>1, <2>3, <2>4, FlaggedChained
<1> QED
  BY <1>2, <1>3, <1>4

\* Every step of the engine.
LEMMA ChainNext ==
    ASSUME ChainInv, [Next]_vars
    PROVE  ChainInv'
<1>1. FlowInv'
  BY NextInv DEF ChainInv
<1>2. CASE UNCHANGED vars
  <2>1. NothingRecorded
    BY <1>2 DEF vars, NothingRecorded, Created
  <2> QED
    BY <1>1, <2>1, NothingChained
<1>3. CASE Next
  BY <1>1, <1>3, NextSteps, InsideChained, OutsideChained, RequestChained
<1> QED
  BY <1>2, <1>3

\* At the beginning there is no flow.
LEMMA ChainInit == Init => ChainInv
<1> SUFFICES ASSUME Init
             PROVE  ChainInv
  OBVIOUS
<1>1. FlowInv /\ Created = {}
  <2>1. DOMAIN <<>> = {}
    OBVIOUS
  <2> QED
    BY <2>1, InitInv DEF Init, Created
<1>2. \A t \in Threads : DOMAIN thr[t].stack = {}
  BY DEF Init, Idle
<1> QED
  BY <1>1, <1>2 DEF ChainInv, FramesChained, OneFrame

\* Every chain of every flow is a run of successes, then at most one node that failed, was stopped or
\* was left behind, and skipped nodes only after a failure or a stop, whatever chains are nested in
\* its stages and whichever threads record in the same session (evaluatePipelineFlow).
THEOREM ChainsKeepShape == Spec => []ChainShape
<1>1. ChainInv /\ [Next]_vars => ChainInv'
  BY ChainNext
<1>2. ChainInv => ChainShape
  BY DEF ChainInv, ChainShape, Shape, Cut
<1> QED
  BY <1>1, <1>2, ChainInit, PTL DEF Spec

=============================================================================
