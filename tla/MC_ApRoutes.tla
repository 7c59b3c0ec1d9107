----------------------------- MODULE MC_ApRoutes ----------------------------
(***************************************************************************)
(* ApRoutes with two failing calls and two changes of the address.         *)
(***************************************************************************)
EXTENDS ApRoutes
=============================================================================
