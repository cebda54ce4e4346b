-------------------------- MODULE MCAgentRequests --------------------------
(* Small instances of AgentRequests for TLC.                               *)
EXTENDS AgentRequests, TLC

CONSTANTS change, poll1, poll2, poll3, connect

OneChange == [s \in Signed |-> CASE s = change -> "change"
                                 [] s = connect -> "connect"
                                 [] OTHER -> "poll"]

Symmetry == Permutations(Deliveries) \cup Permutations({poll1, poll2, poll3})
=============================================================================
