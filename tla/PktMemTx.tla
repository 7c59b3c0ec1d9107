------------------------------ MODULE PktMemTx ------------------------------
(***************************************************************************)
(* Transmit half of the heap packet memory (mmpktmem_heap.c): a counter of *)
(* data packets allocated on the heap, a flag that pauses the data path    *)
(* when the counter reaches the pool limit, and a small reserve of command *)
(* buffers kept on a free list.  The counter and the flag are C11 atomics  *)
(* touched by several tasks without a lock, so every atomic access is one  *)
(* action and txPc says which access a task makes next.  An operator named *)
(* X_... beside an action X is a mistake in that code which the properties *)
(* must notice; no specification uses it.                                  *)
(***************************************************************************)
EXTENDS Integers, FiniteSets

CONSTANTS
    TxThreads,          \* tasks that allocate or free transmit packets
    DriverThreads,      \* those of them inside the driver: commands, management
    TX_POOL_N_BLOCKS,           \* MMPKTMEM_TX_POOL_N_BLOCKS
    TX_COMMAND_POOL_N_BLOCKS    \* command buffers in reserve (2 in the code)

ASSUME TxPoolAssumption ==
    /\ TX_POOL_N_BLOCKS \in Nat
    /\ TX_COMMAND_POOL_N_BLOCKS \in Nat

\* The pool is larger by two than the number of tasks that can be inside an
\* allocation at once: 20 blocks by default, for a handful of tasks.
ASSUME TxThreadsAssumption ==
    /\ IsFiniteSet(TxThreads)
    /\ DriverThreads \subseteq TxThreads
    /\ Cardinality(TxThreads) + 2 <= TX_POOL_N_BLOCKS

VARIABLES
    txAllocated,    \* tx_data_pool_allocated
    txPaused,       \* tx_data_pool_tx_paused
    txCmdFree,      \* length of tx_command_pool_free_list
    txOut,          \* data-pool packets the driver and the stack hold
    txCmdOut,       \* command-pool packets the driver holds
    driverPaused,   \* flow control state as the driver last read it
    txPc              \* next access of each task

txVars == <<txAllocated, txPaused, txCmdFree, txOut, txCmdOut, driverPaused, txPc>>

\* TX_DATA_POOL_UNPAUSE_THRESHOLD and TX_DATA_POOL_PAUSE_THRESHOLD.
UnpauseThreshold == TX_POOL_N_BLOCKS - 2
PauseThreshold == TX_POOL_N_BLOCKS - 1

\* The places a task can be at.  "add" .. "pauseCb": inside
\* mmhal_wlan_alloc_mmpkt_for_tx; "unpauseCheck" .. "unpauseCb": inside
\* tx_data_pool_pkt_free.
Places == {"idle", "cmdInit", "add", "undo", "heap", "pauseCheck", "pause",
           "pauseCb", "unpauseCheck", "unpause", "unpauseCb"}

\* Tasks whose fetch_add of txAllocated has no packet handed out for it yet.
Claiming == {t \in TxThreads :
                txPc[t] \in {"undo", "heap", "pauseCheck", "pause", "pauseCb"}}
\* Those of them that already own a heap packet.
Carrying == {t \in TxThreads : txPc[t] \in {"pauseCheck", "pause", "pauseCb"}}
\* Those of them still within the limit.
Granted == {t \in TxThreads :
                txPc[t] \in {"heap", "pauseCheck", "pause", "pauseCb"}}

\* Tasks that hold a command buffer they have not handed out yet.
Preparing == {t \in TxThreads : txPc[t] = "cmdInit"}

TxGoto(t, place) == txPc' = [txPc EXCEPT ![t] = place]

TxInit ==
    /\ txAllocated = 0
    /\ txPaused = FALSE
    /\ txCmdFree = TX_COMMAND_POOL_N_BLOCKS
    /\ txOut = 0
    /\ txCmdOut = 0
    /\ driverPaused = FALSE
    /\ txPc = [t \in TxThreads |-> "idle"]

-----------------------------------------------------------------------------
(* mmhal_wlan_alloc_mmpkt_for_tx *)

\* The stack sends a frame (mmnetif_tx): it waits until the driver reports the
\* data path ready, then allocates.
AllocTxData(t) ==
    /\ txPc[t] = "idle"
    /\ ~driverPaused
    /\ TxGoto(t, "add")
    /\ UNCHANGED <<txAllocated, txPaused, txCmdFree, txOut, txCmdOut, driverPaused>>

\* The wait times out: mmnetif_tx drops the frame.
TransmitBlocked(t) ==
    /\ txPc[t] = "idle"
    /\ driverPaused
    /\ UNCHANGED txVars

\* The driver allocates a management frame, which does not wait.
AllocTxManagement(t) ==
    /\ txPc[t] = "idle"
    /\ t \in DriverThreads
    /\ TxGoto(t, "add")
    /\ UNCHANGED <<txAllocated, txPaused, txCmdFree, txOut, txCmdOut, driverPaused>>

\* The driver allocates a command: take a reserved buffer, or fall through to
\* the data pool when the free list is empty.
AllocTxCommand(t) ==
    /\ txPc[t] = "idle"
    /\ t \in DriverThreads
    /\ \/ /\ txCmdFree > 0
          /\ txCmdFree' = txCmdFree - 1
          /\ TxGoto(t, "cmdInit")
       \/ /\ txCmdFree = 0
          /\ TxGoto(t, "add")
          /\ UNCHANGED txCmdFree
    /\ UNCHANGED <<txAllocated, txPaused, txOut, txCmdOut, driverPaused>>

CommandInit_BufferDropped(t) ==
    /\ txPc[t] = "cmdInit"
    /\ \/ /\ txCmdOut' = txCmdOut + 1
          /\ TxGoto(t, "idle")
       \/ /\ TxGoto(t, "add")
          /\ UNCHANGED txCmdOut
    /\ UNCHANGED <<txAllocated, txPaused, txCmdFree, txOut, driverPaused>>

\* mmpkt_init_buf on the reserved buffer: it fits and is returned, or the
\* command is too big, the buffer goes back and the data pool is tried.
CommandInit(t) ==
    /\ txPc[t] = "cmdInit"
    /\ \/ /\ txCmdOut' = txCmdOut + 1
          /\ TxGoto(t, "idle")
          /\ UNCHANGED txCmdFree
       \/ /\ txCmdFree' = txCmdFree + 1
          /\ TxGoto(t, "add")
          /\ UNCHANGED txCmdOut
    /\ UNCHANGED <<txAllocated, txPaused, txOut, driverPaused>>

FetchAdd_LimitOffByOne(t) ==
    /\ txPc[t] = "add"
    /\ txAllocated' = txAllocated + 1
    /\ TxGoto(t, IF txAllocated > TX_POOL_N_BLOCKS THEN "undo" ELSE "heap")
    /\ UNCHANGED <<txPaused, txCmdFree, txOut, txCmdOut, driverPaused>>

\* atomic_fetch_add, and the comparison of the old value with the limit.
FetchAdd(t) ==
    /\ txPc[t] = "add"
    /\ txAllocated' = txAllocated + 1
    /\ TxGoto(t, IF txAllocated >= TX_POOL_N_BLOCKS THEN "undo" ELSE "heap")
    /\ UNCHANGED <<txPaused, txCmdFree, txOut, txCmdOut, driverPaused>>

HeapAlloc_NoUndo(t) ==
    /\ txPc[t] = "heap"
    /\ \/ TxGoto(t, "pauseCheck")
       \/ TxGoto(t, "idle")
    /\ UNCHANGED <<txAllocated, txPaused, txCmdFree, txOut, txCmdOut, driverPaused>>

\* mmpkt_alloc_on_heap succeeds or runs out of heap.
HeapAlloc(t) ==
    /\ txPc[t] = "heap"
    /\ \/ TxGoto(t, "pauseCheck")
       \/ TxGoto(t, "undo")
    /\ UNCHANGED <<txAllocated, txPaused, txCmdFree, txOut, txCmdOut, driverPaused>>

\* A failed allocation takes its increment back and returns NULL.
UndoAdd(t) ==
    /\ txPc[t] = "undo"
    /\ txAllocated' = txAllocated - 1
    /\ TxGoto(t, "idle")
    /\ UNCHANGED <<txPaused, txCmdFree, txOut, txCmdOut, driverPaused>>

\* The caller gets the packet unless the pool has just become full.
CheckPause(t) ==
    /\ txPc[t] = "pauseCheck"
    /\ \/ /\ txAllocated > PauseThreshold
          /\ TxGoto(t, "pause")
          /\ UNCHANGED txOut
       \/ /\ ~(txAllocated > PauseThreshold)
          /\ TxGoto(t, "idle")
          /\ txOut' = txOut + 1
    /\ UNCHANGED <<txAllocated, txPaused, txCmdFree, txCmdOut, driverPaused>>

\* atomic_exchange of the flag to 1; the callback only if it was 0.
SetPaused(t) ==
    /\ txPc[t] = "pause"
    /\ txPaused' = TRUE
    /\ \/ /\ txPaused
          /\ TxGoto(t, "idle")
          /\ txOut' = txOut + 1
       \/ /\ ~txPaused
          /\ TxGoto(t, "pauseCb")
          /\ UNCHANGED txOut
    /\ UNCHANGED <<txAllocated, txCmdFree, txCmdOut, driverPaused>>

\* tx_flow_control_cb (external): the driver asks for the flow control state
\* with mmhal_wlan_pktmem_tx_flow_control_state.
FlowControlState == txPaused

PausedCallback_AssumesPaused(t) ==
    /\ txPc[t] = "pauseCb"
    /\ driverPaused' = TRUE
    /\ TxGoto(t, "idle")
    /\ txOut' = txOut + 1
    /\ UNCHANGED <<txAllocated, txPaused, txCmdFree, txCmdOut>>

PausedCallback(t) ==
    /\ txPc[t] = "pauseCb"
    /\ driverPaused' = FlowControlState
    /\ TxGoto(t, "idle")
    /\ txOut' = txOut + 1
    /\ UNCHANGED <<txAllocated, txPaused, txCmdFree, txCmdOut>>

-----------------------------------------------------------------------------
(* tx_data_pool_pkt_free and tx_command_reserved_free *)

\* atomic_fetch_sub, its assertion (FreeAssertion) and the release of the heap
\* block.
FreeTxData(t) ==
    /\ txPc[t] = "idle"
    /\ txOut > 0
    /\ txOut' = txOut - 1
    /\ txAllocated' = txAllocated - 1
    /\ TxGoto(t, "unpauseCheck")
    /\ UNCHANGED <<txPaused, txCmdFree, txCmdOut, driverPaused>>

CheckUnpause_EdgeOnly(t) ==
    /\ txPc[t] = "unpauseCheck"
    /\ TxGoto(t, IF txAllocated = UnpauseThreshold - 1 THEN "unpause" ELSE "idle")
    /\ UNCHANGED <<txAllocated, txPaused, txCmdFree, txOut, txCmdOut, driverPaused>>

\* The counter is read again, after the decrement.
CheckUnpause(t) ==
    /\ txPc[t] = "unpauseCheck"
    /\ TxGoto(t, IF txAllocated < UnpauseThreshold THEN "unpause" ELSE "idle")
    /\ UNCHANGED <<txAllocated, txPaused, txCmdFree, txOut, txCmdOut, driverPaused>>

\* atomic_exchange of the flag to 0; the callback only if it was 1.
ClearPaused(t) ==
    /\ txPc[t] = "unpause"
    /\ txPaused' = FALSE
    /\ TxGoto(t, IF txPaused THEN "unpauseCb" ELSE "idle")
    /\ UNCHANGED <<txAllocated, txCmdFree, txOut, txCmdOut, driverPaused>>

UnpausedCallback_Lost(t) ==
    /\ txPc[t] = "unpauseCb"
    /\ TxGoto(t, "idle")
    /\ UNCHANGED <<txAllocated, txPaused, txCmdFree, txOut, txCmdOut, driverPaused>>

UnpausedCallback(t) ==
    /\ txPc[t] = "unpauseCb"
    /\ driverPaused' = FlowControlState
    /\ TxGoto(t, "idle")
    /\ UNCHANGED <<txAllocated, txPaused, txCmdFree, txOut, txCmdOut>>

\* A command buffer returns to the free list inside a critical section.
FreeTxCommand ==
    /\ txCmdOut > 0
    /\ txCmdOut' = txCmdOut - 1
    /\ txCmdFree' = txCmdFree + 1
    /\ UNCHANGED <<txAllocated, txPaused, txOut, driverPaused, txPc>>

-----------------------------------------------------------------------------

\* Steps that carry an allocation or a free on to its end.
Continue(t) ==
    \/ CommandInit(t) \/ FetchAdd(t) \/ HeapAlloc(t) \/ UndoAdd(t)
    \/ CheckPause(t) \/ SetPaused(t) \/ PausedCallback(t)
    \/ CheckUnpause(t) \/ ClearPaused(t) \/ UnpausedCallback(t)

TxNext ==
    \/ \E t \in TxThreads :
          \/ AllocTxData(t) \/ TransmitBlocked(t)
          \/ AllocTxManagement(t) \/ AllocTxCommand(t)
          \/ FreeTxData(t)
          \/ Continue(t)
    \/ FreeTxCommand

TxSpec == TxInit /\ [][TxNext]_txVars

\* Every task that is inside a call gets to run, and the driver sends, and so
\* frees, the packets it holds.
TxFairSpec ==
    /\ TxSpec
    /\ \A t \in TxThreads : WF_txVars(Continue(t))
    /\ WF_txVars(\E t \in TxThreads : FreeTxData(t))

-----------------------------------------------------------------------------
(* Properties *)

TxTypeOK ==
    /\ txAllocated \in Nat
    /\ txPaused \in BOOLEAN
    /\ txCmdFree \in 0..TX_COMMAND_POOL_N_BLOCKS
    /\ txOut \in Nat
    /\ txCmdOut \in Nat
    /\ driverPaused \in BOOLEAN
    /\ txPc \in [TxThreads -> Places]

\* The counter is exactly the packets handed out plus the increments of
\* allocations still under way: no failure path, and no order of the atomic
\* steps, loses or repeats an increment.
Accounting == txAllocated = txOut + Cardinality(Claiming)

\* The assertion in tx_data_pool_pkt_free (old_value > 0) holds whenever there
\* is a packet to free.
FreeAssertion == txOut > 0 => txAllocated > 0

\* Although increments overshoot the limit for a moment, the packets that
\* exist never exceed MMPKTMEM_TX_POOL_N_BLOCKS.
PoolLimit == txOut + Cardinality(Granted) <= TX_POOL_N_BLOCKS

\* A paused data path is never forgotten: a packet exists whose free is still
\* to come, or a task is between its free and its look at the flag.  In
\* particular the path is not left paused when every packet has been freed
\* and no task is inside a call.
PauseHasReleaser ==
    txPaused =>
        \/ txOut > 0
        \/ Carrying # {}
        \/ \E t \in TxThreads : txPc[t] \in {"unpauseCheck", "unpause"}

\* The callback carries no argument, and callbacks of two tasks may run in the
\* opposite order of their exchanges: the driver's view still agrees with the
\* flag as soon as no callback is pending.
DriverViewSettles ==
    driverPaused # txPaused =>
        \E t \in TxThreads : txPc[t] \in {"pauseCb", "unpauseCb"}

\* Command buffers are neither lost nor duplicated by the too-big path.
CommandBuffersConserved ==
    txCmdFree + txCmdOut + Cardinality(Preparing) = TX_COMMAND_POOL_N_BLOCKS

TxPool == INSTANCE PacketPool
            WITH N <- TX_POOL_N_BLOCKS, C <- TX_COMMAND_POOL_N_BLOCKS,
                 out <- txOut, cmdOut <- txCmdOut

\* To its users the transmit memory is a pool that hands out and takes back one
\* packet at a time within its limits: the counter that overshoots, the failing
\* allocations and the fall-back from the command reserve do not show.
TxImplementsPool == TxPool!PoolSpec

\* The inductive invariant.
TxInv ==
    /\ TxTypeOK
    /\ Accounting
    /\ PoolLimit
    /\ CommandBuffersConserved
    /\ PauseHasReleaser
    /\ DriverViewSettles

\* The data path becomes ready again and again, unless the driver never stops
\* allocating frames that ignore flow control.
EventuallyReady ==
    \/ []<>(~driverPaused)
    \/ []<><<\E t \in TxThreads : AllocTxManagement(t) \/ AllocTxCommand(t)>>_txVars

=============================================================================
