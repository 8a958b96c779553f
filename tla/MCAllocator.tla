----------------------------- MODULE MCAllocator -----------------------------
(***************************************************************************)
(* Instances of Allocator for TLC: blocks of 4 units with an MMD of 2, and *)
(* a uint32 that is small, but wide enough to number the blocks.           *)
(***************************************************************************)
EXTENDS Allocator
==============================================================================
