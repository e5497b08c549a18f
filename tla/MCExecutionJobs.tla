-------------------------- MODULE MCExecutionJobs --------------------------
(* Instances of ExecutionJobs for TLC.                                     *)
EXTENDS ExecutionJobs, TLC

MCSymmetry == Permutations(Jobs) \cup Permutations(Loops)
=============================================================================
