---------------------------- MODULE MC_PktMemTx -----------------------------
(***************************************************************************)
(* PktMemTx with one task of the IP stack and two of the driver.           *)
(***************************************************************************)
EXTENDS PktMemTx

CONSTANTS t1, t2, t3
=============================================================================
