------------------------------ MODULE RunQueue ------------------------------
(***************************************************************************)
(* What RinJobScheduler promises to its callers, without its threads: runs *)
(* are numbered as they are submitted, at most MaxPending of them wait or  *)
(* execute at once, they execute one at a time in the order of their       *)
(* numbers, a run can be cancelled only while it waits, and a run that has *)
(* ended never changes again.  ("runs never overlap or block the UI - each *)
(* Run tap is queued and executed in order", RinJobScheduler.kt.)          *)
(***************************************************************************)
EXTENDS Naturals, FiniteSets

CONSTANTS MaxSubmits, MaxPending

VARIABLES counter, status

vars == <<counter, status>>

Job == 1 .. MaxSubmits
Outcomes == {"SUCCESS", "ERROR", "TIMEOUT", "CANCELLED"}
Waiting(s) == {j \in Job : s[j] \in {"QUEUED", "RUNNING"}}

Init == counter = 0 /\ status = [j \in Job |-> "NONE"]

Submit ==
    /\ counter < MaxSubmits /\ Cardinality(Waiting(status)) < MaxPending
    /\ counter' = counter + 1
    /\ status' = [status EXCEPT ![counter + 1] = "QUEUED"]

Cancel(n) ==
    /\ status[n] = "QUEUED"
    /\ status' = [status EXCEPT ![n] = "CANCELLED"]
    /\ UNCHANGED counter

\* Only when every earlier run has ended: none waits before it, none executes.
Start(n) ==
    /\ status[n] = "QUEUED"
    /\ \A i \in 1 .. n - 1 : status[i] \in Outcomes
    /\ status' = [status EXCEPT ![n] = "RUNNING"]
    /\ UNCHANGED counter

Finish(n) ==
    /\ status[n] = "RUNNING"
    /\ \E s \in Outcomes : status' = [status EXCEPT ![n] = s]
    /\ UNCHANGED counter

StartSome == \E n \in Job : Start(n)
FinishSome == \E n \in Job : Finish(n)

Next == Submit \/ StartSome \/ FinishSome \/ \E n \in Job : Cancel(n)

Safety == Init /\ [][Next]_vars
Spec == Safety /\ WF_vars(StartSome) /\ WF_vars(FinishSome)
=============================================================================
