----------------------------- MODULE MCScheduler -----------------------------
(* Instances of Scheduler for TLC.                                            *)
EXTENDS Scheduler, TLC

CONSTANTS a, b, p1, p2

Symmetry == Permutations(Slots) \cup Permutations(Runs)
=============================================================================
