------------------------------ MODULE MC_PktMem ------------------------------
(***************************************************************************)
(* PktMem with one task in each direction.                                 *)
(***************************************************************************)
EXTENDS PktMem
=============================================================================
