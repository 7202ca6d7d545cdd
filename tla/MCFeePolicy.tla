---------------------------- MODULE MCFeePolicy ----------------------------
(* Instances of FeePolicy for TLC.                                           *)
EXTENDS FeePolicy, TLC

CONSTANTS p1, p2

(* A full block with a high priority fee, and one that is nearly empty.       *)
Busy == [used |-> 60, rewards |-> [k \in Percentiles |-> IF k = 3 THEN 12 ELSE 1]]
Quiet == [used |-> 5, rewards |-> [k \in Percentiles |-> 0]]
BusyOrQuiet == {Busy, Quiet}

Symmetry == Permutations(Runs)
=============================================================================
