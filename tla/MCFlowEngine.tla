---------------------------- MODULE MCFlowEngine ----------------------------
(***************************************************************************)
(* Hosts for model checking FlowEngine: one looks into a single flow, the  *)
(* other into many small flows and replays.                                *)
(***************************************************************************)
EXTENDS FlowEngine

OneFlow(chains, inner, stages, errors) ==
    [flows |-> 1, chains |-> chains, inner |-> inner, stages |-> stages, errors |-> errors,
     timed |-> TRUE, cancels |-> TRUE]
ManyFlows(flows, errors, cancels) ==
    [flows |-> flows, chains |-> 1, inner |-> 0, stages |-> {1}, errors |-> errors,
     timed |-> FALSE, cancels |-> cancels]

TheHosts == {OneFlow(1, 1, {1, 2}, {"rin", "throw", "exit"}), OneFlow(2, 0, {1}, {"rin"}),
             ManyFlows(2, Errors, TRUE), ManyFlows(5, {"internal"}, FALSE)}
=============================================================================
