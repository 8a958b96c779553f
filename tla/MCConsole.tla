------------------------------ MODULE MCConsole ------------------------------
(***************************************************************************)
(* Instances of Console for TLC.  Liveness is checked with the rest, so    *)
(* that there is no symmetry.                                              *)
(***************************************************************************)
EXTENDS Console

==============================================================================
