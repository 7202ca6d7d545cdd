----------------------------- MODULE MCExecutor -----------------------------
(* Instances of Executor for TLC.                                            *)
EXTENDS Executor, TLC

CONSTANTS a, b, q1, q2, p1, p2

Symmetry == Permutations({a, b}) \cup Permutations({q1, q2})
=============================================================================
