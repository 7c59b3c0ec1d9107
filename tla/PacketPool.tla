----------------------------- MODULE PacketPool -----------------------------
(***************************************************************************)
(* What the packet memory promises its users in either direction, without  *)
(* tasks, counters or places in the code: packets are handed out one at a  *)
(* time, at most N data packets and C reserved command buffers are out at  *)
(* any moment, and only a packet that is out comes back.  PktMemTx and     *)
(* RxPath implement it.                                                    *)
(***************************************************************************)
EXTENDS Naturals

CONSTANTS N, C

VARIABLES
    out,        \* data packets that users hold
    cmdOut      \* command buffers that users hold

poolVars == <<out, cmdOut>>

PoolInit == out = 0 /\ cmdOut = 0

Alloc == out < N /\ out' = out + 1 /\ UNCHANGED cmdOut
Free == out > 0 /\ out' = out - 1 /\ UNCHANGED cmdOut
AllocCommand == cmdOut < C /\ cmdOut' = cmdOut + 1 /\ UNCHANGED out
FreeCommand == cmdOut > 0 /\ cmdOut' = cmdOut - 1 /\ UNCHANGED out

PoolNext == Alloc \/ Free \/ AllocCommand \/ FreeCommand

PoolSpec == PoolInit /\ [][PoolNext]_poolVars

=============================================================================
