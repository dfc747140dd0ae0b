----------------------------- MODULE FlowEngine -----------------------------
(***************************************************************************)
(* RinFlow, the execution of `a |> b |> c` chains as a graph of nodes      *)
(* (rin_interpreter.cpp, namespace flow) and the registry of interpreters  *)
(* that lets another thread cancel or replay a flow (jni_bridge.cpp).      *)
(*                                                                         *)
(* A flow thread runs a program (runFlowNative) or replays the last chain  *)
(* of an earlier session (replayFlowNative).  A session is one such run;   *)
(* its nodes are what the tracer recorded.  A stage may itself evaluate a  *)
(* chain, so a thread has a stack of chains.  The canceller is any thread  *)
(* that calls cancelFlowNative, a listener of the flow's events included.  *)
(***************************************************************************)
EXTENDS Integers, Sequences, FiniteSets, SequencesExt

CONSTANTS
    Interps,      \* the interpreters; each runs one program and then replays
    Threads,      \* threads that run or replay flows
    MaxSessions,  \* kMaxSessions, 100 in the code
    MaxKept,      \* kMaxKeptInterpreters, 30 in the code
    MaxId,        \* bound: sessions created
    MaxStages,    \* bound: stages of a chain
    Hosts         \* bounds: what the flows of a host application do

\* RinError; ThrowSignal; exit(0) and exit(n) for another n, an ExitSignal; std::exception.
Errors == {"rin", "throw", "exit", "fail", "internal"}

\* A host starts up to `flows` flows; its programs evaluate `chains` chains, one after the other,
\* of `stages` stages, with up to `inner` more inside the stages of a flow; they
\* may have a deadline and a user who cancels.
ASSUME FlowAssumption ==
    /\ IsFiniteSet(Threads)
    /\ MaxId \in Nat /\ MaxSessions \in Nat \ {0} /\ MaxKept \in Nat \ {0} /\ MaxStages \in Nat
    /\ \A h \in Hosts : /\ h.flows \in 0 .. MaxId /\ h.chains \in Nat /\ h.inner \in Nat
                        /\ h.stages \subseteq 1 .. MaxStages /\ h.errors \subseteq Errors
                        /\ h.timed \in BOOLEAN /\ h.cancels \in BOOLEAN

VARIABLES
    host,      \* what this host does; it never changes
    sess,      \* the FlowSession of each id created so far
    engine,    \* per interpreter: order_ of its sessions and activeFlowSession_
    registry,  \* g_liveFlowOrder, the ids that cancel and replay can find
    thr,       \* what each flow thread does
    asked,     \* the session the canceller has found RUNNING, or NoId
    crashed    \* an exception has crossed the JNI boundary

vars == <<host, sess, engine, registry, thr, asked, crashed>>

NoId == 0
Ids == 1 .. MaxId
Created == DOMAIN sess
NodeStatus == {"QUEUED", "RUNNING", "SUCCESS", "ERROR", "SKIPPED", "CANCELLED", "TIMEOUT"}
SessionStatus == {"RUNNING", "SUCCESS", "ERROR", "CANCELLED", "TIMEOUT"}

Running(id) == sess[id].status = "RUNNING"
\* saw: the end of the run has found the cancel flag up.
Idle == [pc |-> "idle", s |-> NoId, of |-> 0, todo |-> 0, err |-> "none", saw |-> FALSE, stack |-> <<>>]

Init ==
    /\ host \in Hosts
    /\ sess = <<>>
    /\ engine = [i \in Interps |-> [order |-> <<>>, active |-> NoId, used |-> FALSE]]
    /\ registry = <<>>
    /\ thr = [t \in Threads |-> Idle]
    /\ asked = NoId /\ crashed = FALSE

(***************************************************************************)
(* Sessions and the registry.                                              *)
(***************************************************************************)
\* createSession drops the oldest while there are too many, and stops at one that runs.
Dropped(list, run, cap, k) ==
    /\ \A j \in 1 .. k : list[j] \notin run /\ Len(list) - j >= cap
    /\ Len(list) - k <= cap \/ list[k + 1] \in run
Trimmed(list, run, cap) ==
    {SubSeq(list, k + 1, Len(list)) : k \in {n \in 0 .. Len(list) : Dropped(list, run, cap, n)}}

NewSession(i) ==
    [of |-> i, status |-> "RUNNING", cancel |-> FALSE, late |-> FALSE,
     nodes |-> <<>>, chains |-> 0, extra |-> 0]
RunningIds == {id \in Created : Running(id)}
NextId == Len(sess) + 1

Installed_IfNone(i) == IF engine[i].active = NoId THEN NextId ELSE engine[i].active
Installed(i) == NextId
Create(t, i, pc) ==
    /\ ~crashed /\ thr[t].pc = "idle" /\ Len(sess) < host.flows
    /\ sess' = Append(sess, NewSession(i))
    /\ \E rest \in Trimmed(Append(engine[i].order, NextId), RunningIds \cup {NextId}, MaxSessions) :
          engine' = [engine EXCEPT ![i] = [order |-> rest, active |-> Installed(i), used |-> TRUE]]
    /\ thr' = [thr EXCEPT ![t] = [Idle EXCEPT !.pc = pc, !.s = NextId, !.of = i]]
    /\ UNCHANGED <<host, registry, asked, crashed>>

\* runFlowNative makes an interpreter; replayFlowNative takes the one the registry has.
Run(t, i) == ~engine[i].used /\ Create(t, i, "started")
ReplayOf(t, id) ==
    /\ id \in ToSet(registry) /\ id \in ToSet(engine[sess[id].of].order) /\ sess[id].chains > 0
    /\ Create(t, sess[id].of, "replaying")
Replay(t) == \E id \in Created : ReplayOf(t, id)

\* The oldest entry goes until there is room; one that runs is moved to the back and ends it.
MovedBack(list) == Append(Tail(list), Head(list))
Kept_NoMove(list) == Trimmed(list, {}, MaxKept)
Kept_Blocked(list) == Trimmed(list, RunningIds, MaxKept)
Kept(list) ==
    {IF Len(rest) > MaxKept THEN MovedBack(rest) ELSE rest : rest \in Trimmed(list, RunningIds, MaxKept)}

\* The FLOW_STARTED event registers the interpreter under the new id.
Register(t) ==
    /\ ~crashed /\ thr[t].pc \in {"started", "replaying"}
    /\ registry' \in Kept(Append(registry, thr[t].s))
    /\ thr' = [thr EXCEPT ![t].todo = IF thr[t].pc = "started" THEN host.chains ELSE 1,
                          ![t].pc = IF @ = "started" THEN "program" ELSE "replay"]
    /\ UNCHANGED <<host, sess, engine, asked, crashed>>

(***************************************************************************)
(* Chains: evaluatePipelineFlow.  A frame is [s, c, left, node, at]: the   *)
(* session and number of the chain, its stages to come, its current node.  *)
(***************************************************************************)
Top(t) == Last(thr[t].stack)
WithTop(t, f) == [thr EXCEPT ![t].stack = [@ EXCEPT ![Len(thr[t].stack)] = f]]
Goto(t, at) == thr' = WithTop(t, [Top(t) EXCEPT !.at = at])
Pop(t) == [thr EXCEPT ![t].stack = Front(@)]
Working(t) == ~crashed /\ thr[t].err = "none"
At(t, at) == Working(t) /\ thr[t].stack # <<>> /\ Top(t).at = at
InProgram(t) == Working(t) /\ thr[t].pc \in {"program", "replay"} /\ thr[t].stack = <<>>

Stopped(s) == sess[s].cancel \/ sess[s].late
Node(c, st) == [c |-> c, st |-> st]
Skips_Queued(c, n) == [k \in 1 .. n |-> Node(c, "QUEUED")]
Skips(c, n) == [k \in 1 .. n |-> Node(c, "SKIPPED")]
SetNode(s, n, st) == sess' = [sess EXCEPT ![s].nodes[n].st = st]

\* A chain that starts when its flow is already stopped makes no node at all.  Without an active
\* session it is evaluated as if there were no flow.
Enter(t, n, next) ==
    LET s == engine[thr[t].of].active IN
    IF s = NoId THEN thr' = next /\ UNCHANGED sess
    ELSE /\ sess' = [sess EXCEPT ![s].chains = @ + 1]
         /\ thr' = IF Stopped(s) THEN next
                   ELSE [next EXCEPT ![t].stack = Append(@,
                       [s |-> s, c |-> sess[s].chains + 1, left |-> n, node |-> 0, at |-> "input"])]

EnterChain(t, n) ==
    /\ InProgram(t) /\ thr[t].todo > 0 /\ n \in host.stages
    /\ Enter(t, n, [thr EXCEPT ![t].todo = @ - 1])
    /\ UNCHANGED <<host, engine, registry, asked, crashed>>

\* A function that a stage, an argument or the input calls evaluates a chain of its own.
EnterInner(t, n) ==
    /\ n \in host.stages /\ Working(t) /\ thr[t].stack # <<>> /\ Top(t).at \in {"evaluate", "args", "call"}
    /\ sess[thr[t].s].chains < host.chains + host.inner
    /\ Enter(t, n, thr)
    /\ UNCHANGED <<host, engine, registry, asked, crashed>>

Started(s, c) == [sess EXCEPT ![s].nodes = Append(@, Node(c, "RUNNING")),
                              ![s].extra = IF sess[s].cancel THEN @ + 1 ELSE @]
StartNode(t, at) ==
    LET f == Top(t) IN
    /\ sess' = Started(f.s, f.c)
    /\ thr' = WithTop(t, [f EXCEPT !.at = at, !.node = Len(sess[f.s].nodes) + 1])
    /\ UNCHANGED <<host, engine, registry, asked, crashed>>

StartInput(t) == At(t, "input") /\ StartNode(t, "evaluate")
FinishInput(t) ==
    /\ At(t, "evaluate") /\ SetNode(Top(t).s, Top(t).node, "SUCCESS")
    /\ Goto(t, "check") /\ UNCHANGED <<host, engine, registry, asked, crashed>>

\* Before each stage: a stopped flow marks this stage, skips the others and leaves the chain.
StopMark(s) == IF sess[s].cancel THEN "CANCELLED" ELSE "TIMEOUT"
Refused(f) == <<Node(f.c, StopMark(f.s))>> \o Skips(f.c, f.left - 1)
MustStop_TimeoutOnly(s) == sess[s].late
MustStop(s) == Stopped(s)
CheckStage(t) ==
    /\ At(t, "check") /\ Top(t).left > 0
    /\ IF MustStop(Top(t).s)
       THEN /\ sess' = [sess EXCEPT ![Top(t).s].nodes = @ \o Refused(Top(t))]
            /\ thr' = Pop(t)
       ELSE Goto(t, "stage") /\ UNCHANGED sess
    /\ UNCHANGED <<host, engine, registry, asked, crashed>>

StartStage(t) == At(t, "stage") /\ StartNode(t, "args")

\* The arguments after the first are evaluated once the stage is running.
Arguments(t) == At(t, "args") /\ Goto(t, "call") /\ UNCHANGED <<host, sess, engine, registry, asked, crashed>>

FinishStage(t) ==
    /\ At(t, "call") /\ SetNode(Top(t).s, Top(t).node, "SUCCESS")
    /\ thr' = WithTop(t, [Top(t) EXCEPT !.at = "check", !.left = @ - 1])
    /\ UNCHANGED <<host, engine, registry, asked, crashed>>

EndChain(t) ==
    /\ At(t, "check") /\ Top(t).left = 0 /\ thr' = Pop(t)
    /\ UNCHANGED <<host, sess, engine, registry, asked, crashed>>

(***************************************************************************)
(* Exceptions.  Only a RinError from the call of a stage is recorded.      *)
(***************************************************************************)
Raise(t, e) ==
    /\ e \in host.errors /\ Working(t) /\ thr[t].stack # <<>> /\ Top(t).at \in {"evaluate", "args", "call"}
    /\ thr' = [thr EXCEPT ![t].err = e]
    /\ UNCHANGED <<host, sess, engine, registry, asked, crashed>>

Recorded(f, e) == f.at = "call" /\ e = "rin"
Failed_Before(f) == [sess EXCEPT ![f.s].nodes[f.node - 1].st = "ERROR"]
Failed(f) == [sess EXCEPT ![f.s].nodes =
                 [@ EXCEPT ![f.node].st = "ERROR"] \o Skips(f.c, f.left - 1)]
Unwind(t) ==
    /\ ~crashed /\ thr[t].err # "none" /\ thr[t].stack # <<>>
    /\ IF Recorded(Top(t), thr[t].err) THEN sess' = Failed(Top(t)) ELSE UNCHANGED sess
    /\ thr' = Pop(t)
    /\ UNCHANGED <<host, engine, registry, asked, crashed>>

\* A try of the program, around a chain or inside a function that a stage called; none catches an
\* ExitSignal.  A replay evaluates the chain alone, so only a try inside its stages catches.
Catch(t) ==
    /\ ~crashed /\ thr[t].err \in {"rin", "throw"}
    /\ thr[t].pc = "program" \/ thr[t].stack # <<>>
    /\ thr' = [thr EXCEPT ![t].err = "none"]
    /\ UNCHANGED <<host, sess, engine, registry, asked, crashed>>

(***************************************************************************)
(* The end of a run or replay.                                             *)
(***************************************************************************)
Failing(e) == e \notin {"none", "exit"}
Verdict_ErrorFirst(s, saw, e) == IF Failing(e) THEN "ERROR" ELSE IF saw THEN "CANCELLED" ELSE "SUCCESS"
Verdict_Outcome(s, saw, e) == IF Failing(e) THEN "ERROR" ELSE "SUCCESS"
Verdict(s, saw, e) ==
    IF saw THEN "CANCELLED" ELSE IF sess[s].late THEN "TIMEOUT"
    ELSE IF Failing(e) THEN "ERROR" ELSE "SUCCESS"

\* run() takes RinError and ThrowSignal for an error, and ExitSignal for one unless its code is 0;
\* replayFlow handles only RinError.
Handled(t) == thr[t].err \in (IF thr[t].pc = "program" THEN {"none", "rin", "throw", "exit", "fail"}
                              ELSE {"none", "rin"})
Over(t) ==
    /\ ~crashed /\ thr[t].pc \in {"program", "replay"} /\ thr[t].stack = <<>>
    /\ thr[t].todo = 0 \/ thr[t].err # "none"

\* isCancelled is asked first ...
Judge(t) ==
    /\ Over(t) /\ Handled(t)
    /\ thr' = [thr EXCEPT ![t].pc = "ending", ![t].saw = sess[thr[t].s].cancel]
    /\ UNCHANGED <<host, sess, engine, registry, asked, crashed>>

\* ... and the status set afterwards, without a lock.
End(t) ==
    /\ ~crashed /\ thr[t].pc = "ending"
    /\ sess' = [sess EXCEPT ![thr[t].s].status = Verdict(thr[t].s, thr[t].saw, thr[t].err)]
    /\ engine' = [engine EXCEPT ![thr[t].of].active = NoId]
    /\ thr' = [thr EXCEPT ![t] = Idle]
    /\ UNCHANGED <<host, registry, asked, crashed>>

\* An std::exception skips the rest of runProgramAsFlow: the session stays RUNNING and active.
Leak(t) ==
    /\ Over(t) /\ thr[t].pc = "program" /\ thr[t].err = "internal"
    /\ thr' = [thr EXCEPT ![t] = Idle]
    /\ UNCHANGED <<host, sess, engine, registry, asked, crashed>>

\* replayFlowNative has no handler: what replayFlow lets through ends the process.
Crash(t) ==
    /\ Over(t) /\ thr[t].pc = "replay" /\ ~Handled(t)
    /\ crashed' = TRUE
    /\ UNCHANGED <<host, sess, engine, registry, thr, asked>>

(***************************************************************************)
(* Cancellation: requestCancel looks, then sets the flag.  To cancel again *)
(* changes nothing and is left out.                                        *)
(***************************************************************************)
CancelLook ==
    /\ host.cancels /\ ~crashed /\ asked = NoId
    /\ asked' \in {id \in ToSet(registry) : id \in ToSet(engine[sess[id].of].order) /\ Running(id) /\ ~sess[id].cancel}
    /\ UNCHANGED <<host, sess, engine, registry, thr, crashed>>
CancelSet ==
    /\ ~crashed /\ asked # NoId
    /\ sess' = [sess EXCEPT ![asked].cancel = TRUE]
    /\ asked' = NoId
    /\ UNCHANGED <<host, engine, registry, thr, crashed>>

Deadline ==
    /\ host.timed /\ ~crashed
    /\ \E id \in Created : /\ Running(id) /\ ~sess[id].late
                           /\ sess' = [sess EXCEPT ![id].late = TRUE]
    /\ UNCHANGED <<host, engine, registry, thr, asked, crashed>>

Step(t) ==
    \/ Register(t) \/ StartInput(t) \/ FinishInput(t) \/ CheckStage(t) \/ StartStage(t)
    \/ Arguments(t) \/ FinishStage(t) \/ EndChain(t) \/ Unwind(t) \/ Judge(t) \/ End(t)
    \/ Leak(t) \/ Crash(t)
    \/ \E n \in 1 .. MaxStages : EnterChain(t, n)

Next ==
    \/ \E t \in Threads :
          \/ Step(t) \/ Catch(t)
          \/ \E i \in Interps : Run(t, i)
          \/ Replay(t)
          \/ \E n \in 1 .. MaxStages : EnterInner(t, n)
          \/ \E e \in Errors : Raise(t, e)
    \/ CancelLook \/ CancelSet \/ Deadline

Spec == Init /\ [][Next]_vars

\* A thread goes on while its stages return; nothing makes a clock, a canceller or a caller act.
FairSpec == Spec /\ \A t \in Threads : WF_vars(Step(t))

(***************************************************************************)
(* Properties.                                                             *)
(***************************************************************************)
Frames(t) == {thr[t].stack[k] : k \in DOMAIN thr[t].stack}
TypeOK ==
    /\ Created = 1 .. Len(sess) /\ Created \subseteq Ids /\ host \in Hosts
    /\ \A id \in Created : /\ sess[id].of \in Interps /\ sess[id].status \in SessionStatus
                            /\ \A k \in DOMAIN sess[id].nodes : sess[id].nodes[k].st \in NodeStatus
    /\ \A t \in Threads : /\ thr[t].pc \in {"idle", "started", "replaying", "program", "replay", "ending"}
                           /\ thr[t].err \in Errors \cup {"none"}
                           /\ \A f \in Frames(t) : f.node \in 0 .. Len(sess[f.s].nodes)
    /\ asked \in Created \cup {NoId}
    /\ \A i \in Interps : ToSet(engine[i].order) \subseteq Created
    /\ ToSet(registry) \subseteq Created /\ IsInjective(registry)

\* Once the flag of a flow is up at most the one node whose check came before it still starts,
\* in whatever chain (evaluatePipelineFlow checks before each stage).
OneMoreNode == \A id \in Created : sess[id].extra <= 1

\* The nodes of one chain: successes, then at most one that failed, was stopped or was left
\* behind, and only after a failure or a stop the skipped rest.
Follows(ns, k, m) == k < m /\ ns[m].c = ns[k].c /\ \A j \in k + 1 .. m - 1 : ns[j].c # ns[k].c
ChainShape ==
    \A id \in Created : \A k, m \in DOMAIN sess[id].nodes :
        Follows(sess[id].nodes, k, m) =>
            /\ sess[id].nodes[k].st # "RUNNING"
            /\ sess[id].nodes[m].st = "SKIPPED"
                  <=> sess[id].nodes[k].st \in {"ERROR", "CANCELLED", "TIMEOUT", "SKIPPED"}

\* A flow that reports SUCCESS was stopped nowhere: every chain it came to has its nodes, and none
\* of them was cancelled or timed out, although the flags go up while it ends.  A node left RUNNING
\* by an exception it may have: of a caught one, or of exit(0), which run() takes for no error.
Uncut(id, c) ==
    /\ \E k \in DOMAIN sess[id].nodes : sess[id].nodes[k].c = c
    /\ \A k \in DOMAIN sess[id].nodes : sess[id].nodes[k].st \notin {"CANCELLED", "TIMEOUT"}
SuccessIsComplete ==
    \A id \in Created : sess[id].status = "SUCCESS" =>
        \A c \in 1 .. sess[id].chains : Uncut(id, c)

\* A flow that runs, or was left running by an exception, can be found and cancelled: neither
\* createSession nor the registry drops it, however many flows come after it.
Registered(id) == \A t \in Threads : thr[t].s = id => thr[t].pc \notin {"started", "replaying"}
RunningReachable ==
    \A id \in Created : Running(id) =>
        /\ id \in ToSet(engine[sess[id].of].order)
        /\ Registered(id) => id \in ToSet(registry)

\* An entry that ran when it was the oldest goes to the back, and another enters: the registry
\* exceeds its cap by no more than the flows that ever run at once, as long as these are fewer
\* than the cap. Exceptions leave flows running that no thread will end.
LeftRunning == {id \in RunningIds : \A t \in Threads : thr[t].s # id}
MostRunning == Cardinality(Threads) + Cardinality(LeftRunning)
RegistryBound == Len(registry) <= MostRunning + (IF MaxKept > MostRunning THEN MaxKept ELSE MostRunning)

\* The chains of a thread are recorded in the session the thread created.
OwnSession == \A t \in Threads : \A f \in Frames(t) : f.s = thr[t].s

\* A cancel that is set before the end of its flow looks at the flag ends the flow as CANCELLED,
\* unless an exception takes the thread away from it.
StatusOf(id) == IF id \in Created THEN sess[id].status ELSE "none"
Abandoned(id) == crashed \/ (StatusOf(id) = "RUNNING" /\ \A t \in Threads : thr[t].s # id)
Judged(id) == \E t \in Threads : thr[t].s = id /\ thr[t].pc = "ending"
CancelTakesEffect ==
    \A id \in Ids : (id \in Created /\ Running(id) /\ ~Judged(id) /\ sess[id].cancel) ~>
        (StatusOf(id) = "CANCELLED" \/ Abandoned(id))

\* Each session keeps the promise of a FlowRecord: nodes are only added, each ends once, and
\* nothing changes after the flow's end, whatever replays come later.
NodesOf(id) == IF id \in Created THEN [k \in DOMAIN sess[id].nodes |-> sess[id].nodes[k].st] ELSE <<>>
Record == INSTANCE FlowRecord WITH status <- [id \in Ids |-> StatusOf(id)],
                                  nodes <- [id \in Ids |-> NodesOf(id)]
IsRecord == Record!Spec

(***************************************************************************)
(* What the docs say, and the code does not do.                            *)
(***************************************************************************)
\* "The flag is raised at once" for a session that still runs: a flow with its flag up is not
\* reported as a SUCCESS.
CancelIsKept == \A id \in Created : sess[id].cancel => sess[id].status # "SUCCESS"

\* An error of any stage is recorded on its node: a flow that has ended has no node that runs.
NodesHaveEnded ==
    \A id \in Created : ~Running(id) => \A k \in DOMAIN sess[id].nodes : sess[id].nodes[k].st # "RUNNING"
=============================================================================
