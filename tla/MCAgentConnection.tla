------------------------- MODULE MCAgentConnection -------------------------
(* Small instances of AgentConnection for TLC.                             *)
EXTENDS AgentConnection, TLC

Symmetry == Permutations(Conns)
=============================================================================
