--------------------------- MODULE MCBufferManager ---------------------------
(* The buffer manager for TLC: threads are alike. *)
EXTENDS BufferManager, TLC

CONSTANTS v0, v1

Symmetry == Permutations(Threads)
==============================================================================
