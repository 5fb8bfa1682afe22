--------------------------- MODULE MCCCacheStats ---------------------------
(* Instances of CCacheStats with few processes and files. *)
EXTENDS CCacheStats, TLC

TwoNames == 1 .. 2
=============================================================================
