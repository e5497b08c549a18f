-------------------------- MODULE MCReplicaClaims --------------------------
(* Instances of ReplicaClaims for TLC.                                     *)
EXTENDS ReplicaClaims, TLC

MCSymmetry == Permutations(Calls)
=============================================================================
