--------------------------- MODULE MCMemoryBlock ----------------------------
(* Instances of MemoryBlock for TLC.                                       *)
EXTENDS MemoryBlock, TLC

(* One misaligned address, one below and one past the pool.                *)
MCForeign == { 1, 0 - zTypeSize, zTypeSize * zLength }

Symmetry == Permutations(Holders)
=============================================================================
