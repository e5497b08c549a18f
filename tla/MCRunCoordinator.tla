------------------------- MODULE MCRunCoordinator -------------------------
(* Instances of RunCoordinator for TLC.                                    *)
EXTENDS RunCoordinator, TLC

Once == [r \in Runs |-> 1]
RootTwice == [r \in Runs |-> IF r = Root THEN 2 ELSE 1]
OneStep == [r \in Runs |-> 1]
TwoSteps == [r \in Runs |-> 2]
MCSymmetry == Permutations(Handlers) \cup Permutations(Kids)
===========================================================================
