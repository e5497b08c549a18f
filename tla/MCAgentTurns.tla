---------------------------- MODULE MCAgentTurns ----------------------------
(* Instances of AgentTurns for model checking. *)
EXTENDS AgentTurns, TLC

MCSymmetry == Permutations(Holders) \cup Permutations(Harnesses)
=============================================================================
