------------------------------ MODULE AskUser -------------------------------
(***************************************************************************)
(* What RinInputBridge promises about one question after another, without  *)
(* its threads, its queue and its screens: a question that is asked comes  *)
(* back, with the answer that was accepted for it or with null.  Only one  *)
(* answer is ever offered for it, and none after it has come back; but one *)
(* offered before may be accepted after, and is lost.                      *)
(***************************************************************************)
EXTENDS Naturals

CONSTANT MaxQuestions

Question == 1 .. MaxQuestions

VARIABLES asked, offered, accepted, result

vars == <<asked, offered, accepted, result>>

\* "none": nothing yet.  "null" is Kotlin's null: cancelled, or never answered.
Init ==
    /\ asked = 0
    /\ offered = [q \in Question |-> "none"]
    /\ accepted = [q \in Question |-> "none"]
    /\ result = [q \in Question |-> "none"]

Ask ==
    /\ asked < MaxQuestions
    /\ asked' = asked + 1
    /\ UNCHANGED <<offered, accepted, result>>

Offer(q, v) ==
    /\ q <= asked /\ offered[q] = "none" /\ result[q] = "none"
    /\ offered' = [offered EXCEPT ![q] = v]
    /\ UNCHANGED <<asked, accepted, result>>

Accept(q) ==
    /\ offered[q] # "none" /\ accepted[q] = "none"
    /\ accepted' = [accepted EXCEPT ![q] = offered[q]]
    /\ UNCHANGED <<asked, offered, result>>

Return(q) ==
    /\ q <= asked /\ result[q] = "none"
    /\ \E v \in {"null", accepted[q]} \ {"none"} : result' = [result EXCEPT ![q] = v]
    /\ UNCHANGED <<asked, offered, accepted>>

Next ==
    \/ Ask
    \/ \E q \in Question : Return(q) \/ Accept(q) \/ \E v \in {"null", "text"} : Offer(q, v)

Safety == Init /\ [][Next]_vars
Spec == Safety /\ \A q \in Question : WF_vars(Return(q))
=============================================================================
