---- MODULE MC_HalowLink ----
(***************************************************************************)
(* The HaLow link with a bounded number of faults (see the .cfg files).    *)
(***************************************************************************)
EXTENDS HalowLink
====
