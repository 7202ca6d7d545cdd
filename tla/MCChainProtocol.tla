--------------------------- MODULE MCChainProtocol ---------------------------
(* Instances of ChainProtocol for TLC.                                       *)
EXTENDS ChainProtocol
=============================================================================
