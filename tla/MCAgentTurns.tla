---------------------------- MODULE MCAgentTurns ----------------------------
(* AgentTurns with two requests and two questions, which are exchangeable.   *)
EXTENDS AgentTurns

Symmetry == Permutations(Questions)
=============================================================================
