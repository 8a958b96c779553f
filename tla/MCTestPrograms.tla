---------------------------- MODULE MCTestPrograms ---------------------------
(***************************************************************************)
(* Instances of TestPrograms for TLC.                                      *)
(***************************************************************************)
EXTENDS TestPrograms

==============================================================================
