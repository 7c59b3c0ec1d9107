------------------------------ MODULE MC_RxPath ------------------------------
(***************************************************************************)
(* RxPath with three tasks.                                                *)
(***************************************************************************)
EXTENDS RxPath

CONSTANTS r1, r2, r3
=============================================================================
