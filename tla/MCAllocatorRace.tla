--------------------------- MODULE MCAllocatorRace ---------------------------
(***************************************************************************)
(* Instances of AllocatorRace for TLC, with the numbers of MCAllocator.    *)
(***************************************************************************)
EXTENDS AllocatorRace, TLC

Symmetry == Permutations(KernelThreads)

==============================================================================
