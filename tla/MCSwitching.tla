----------------------------- MODULE MCSwitching -----------------------------
(***************************************************************************)
(* Instances of Switching for TLC: the boot and the output thread, one     *)
(* application thread from the start and one made later.                   *)
(***************************************************************************)
EXTENDS Switching

==============================================================================
