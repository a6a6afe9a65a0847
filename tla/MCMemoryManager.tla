-------------------------- MODULE MCMemoryManager --------------------------
(* A block of a few segments: small enough to be exhausted and fragmented, *)
(* with counters that wrap.                                                *)
EXTENDS MemoryManager

MCRequests == {1, 2, 4}
=============================================================================
