--------------------------- MODULE MCAgentManager ---------------------------
(* Instances of AgentManager for TLC. *)
EXTENDS AgentManager, TLC

Symmetry == Permutations(Conns) \cup Permutations(Calls) \cup Permutations(Admins)
=============================================================================
