------------------------------- MODULE PktMem -------------------------------
(***************************************************************************)
(* The whole heap packet memory while the driver shuts it down             *)
(* (mmhal_wlan_pktmem_deinit): packets of both directions are still being  *)
(* freed by other tasks while the shutdown polls the pools.                *)
(***************************************************************************)
EXTENDS PktMemTx, RxPath

CONSTANT DeinitPolls    \* iterations of the polling loop (100 in the code)

VARIABLES
    deinit,     \* "running", "polling" or "done"
    polls       \* ii, the loop counter

pktMemVars == <<txVars, rxVars, deinit, polls>>

PktMemInit == TxInit /\ RxInit /\ deinit = "running" /\ polls = 0

\* The driver uses the pools until it starts the shutdown; from then on other
\* tasks only finish their calls and free packets.
UseTx ==
    /\ \/ deinit = "running" /\ TxNext
       \/ deinit # "running" /\ (\E t \in TxThreads : FreeTxData(t) \/ Continue(t))
       \/ deinit # "running" /\ FreeTxCommand
    /\ UNCHANGED <<rxVars, deinit, polls>>

UseRx ==
    /\ \/ deinit = "running" /\ RxNext
       \/ deinit # "running" /\ (\E t \in RxThreads : PbufFree(t) \/ RxContinue(t))
       \/ deinit # "running" /\ FreeRxCommand
    /\ UNCHANGED <<txVars, deinit, polls>>

DeinitStart ==
    /\ deinit = "running"
    /\ deinit' = "polling"
    /\ UNCHANGED <<txVars, rxVars, polls>>

\* The condition the loop is left on: the bitwise or of the lengths of the two
\* FREE lists and (twice) of tx_data_pool_allocated is zero.
LoopExit == txCmdFree = 0 /\ rxCmdFree = 0 /\ txAllocated = 0

\* One iteration: leave, or sleep for 10 ms.
DeinitPoll ==
    /\ deinit = "polling"
    /\ polls < DeinitPolls
    /\ \/ LoopExit /\ deinit' = "done" /\ UNCHANGED polls
       \/ ~LoopExit /\ polls' = polls + 1 /\ UNCHANGED deinit
    /\ UNCHANGED <<txVars, rxVars>>

\* The iterations are used up; leaks are reported and the call returns.
DeinitTimeout ==
    /\ deinit = "polling"
    /\ polls = DeinitPolls
    /\ deinit' = "done"
    /\ UNCHANGED <<txVars, rxVars, polls>>

PktMemNext == UseTx \/ UseRx \/ DeinitStart \/ DeinitPoll \/ DeinitTimeout

PktMemSpec == PktMemInit /\ [][PktMemNext]_pktMemVars

NothingAllocated ==
    /\ txCmdFree = TX_COMMAND_POOL_N_BLOCKS
    /\ rxCmdFree = RX_COMMAND_POOL_N_BLOCKS
    /\ txAllocated = 0
    /\ rxAllocated = 0

\* What the comment on the loop in mmhal_wlan_pktmem_deinit says: an iteration
\* waits for other tasks exactly when there is still memory allocated.
DeinitWaitsWhileAllocated ==
    [][DeinitPoll => (deinit' = "done") = NothingAllocated]_pktMemVars

=============================================================================
