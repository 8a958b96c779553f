------------------------------ MODULE MCKernel ------------------------------
(***************************************************************************)
(* Model values for the checks of Kernel.                                  *)
(***************************************************************************)
EXTENDS Kernel, TLC

Symmetry == Permutations(Workers)

=============================================================================
