------------------------- MODULE MCBroadcasterLock -------------------------
(* Instances of BroadcasterLock for TLC.                                     *)
EXTENDS BroadcasterLock, TLC

CONSTANTS r1, r2, r3

MCRequests == {r1, r2, r3}
Symmetry == Permutations(MCRequests)
=============================================================================
