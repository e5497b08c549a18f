-------------------------- MODULE MCBatchExecution --------------------------
(* Instances of BatchExecution for TLC.                                    *)
EXTENDS BatchExecution
CONSTANTS a, b

(* Two pages; the second repeats a key of the first.                       *)
TwoPages == <<<<a>>, <<b, a, b>>>>
OnePage == <<<<a, b>>>>

(* Handlers are interchangeable; only for runs that check no liveness.     *)
MCSymmetry == Permutations(Handlers)
=============================================================================
