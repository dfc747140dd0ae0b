----------------------------- MODULE FlowRecord -----------------------------
(***************************************************************************)
(* What a listener of flows may rely on (struct FlowSession and FlowNode   *)
(* in rin_interpreter.h): the record of a flow only grows, a node that has *)
(* ended stays as it is, and so does a flow that has ended.                *)
(***************************************************************************)
EXTENDS Naturals, Sequences

CONSTANT Ids

VARIABLES
    status,  \* of each flow, "none" before it exists
    nodes    \* the status of each of its nodes

Ends == {"SUCCESS", "ERROR", "CANCELLED", "TIMEOUT"}
Init == status = [id \in Ids |-> "none"] /\ nodes = [id \in Ids |-> <<>>]

Begin(id) ==
    /\ status[id] = "none" /\ status' = [status EXCEPT ![id] = "RUNNING"] /\ UNCHANGED nodes

\* ns is what became of the nodes: some ended, some are new.
Ended(old, new) == new = old \/ (old = "RUNNING" /\ new \in {"SUCCESS", "ERROR"})
Follows(ns, id) ==
    Len(ns) >= Len(nodes[id]) /\ \A k \in 1 .. Len(nodes[id]) : Ended(nodes[id][k], ns[k])
Write(id) ==
    /\ status[id] = "RUNNING" /\ UNCHANGED status
    /\ Follows(nodes'[id], id) /\ nodes' = [nodes EXCEPT ![id] = nodes'[id]]

End(id) ==
    /\ status[id] = "RUNNING" /\ status'[id] \in Ends
    /\ status' = [status EXCEPT ![id] = status'[id]] /\ UNCHANGED nodes

Next == \E id \in Ids : Begin(id) \/ Write(id) \/ End(id)
vars == <<status, nodes>>
Spec == Init /\ [][Next]_vars
=============================================================================
