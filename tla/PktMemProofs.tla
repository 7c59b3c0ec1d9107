---------------------------- MODULE PktMemProofs ----------------------------
(***************************************************************************)
(* Proofs about the heap packet memory: the transmit half, for any number  *)
(* of tasks and any pool size that TxThreadsAssumption allows; the receive *)
(* path, for any number of tasks and any sizes of the pools; and the whole *)
(* while it is shut down.                                                  *)
(***************************************************************************)
EXTENDS PktMem, CountingLemmas

-----------------------------------------------------------------------------
(* The transmit half *)

(***************************************************************************)
(* How a step of one task changes the sizes of the sets of tasks that the  *)
(* invariants count.                                                       *)
(***************************************************************************)
LEMMA TxCounts ==
    ASSUME TxTypeOK, NEW t \in TxThreads, NEW p, TxGoto(t, p)
    PROVE  /\ Cardinality(Claiming) \in Nat /\ Cardinality(Claiming') \in Nat
           /\ Cardinality(Claiming') = Cardinality(Claiming)
                + (IF p \in {"undo", "heap", "pauseCheck", "pause", "pauseCb"} THEN 1 ELSE 0)
                - (IF txPc[t] \in {"undo", "heap", "pauseCheck", "pause", "pauseCb"} THEN 1 ELSE 0)
           /\ Cardinality(Granted) \in Nat /\ Cardinality(Granted') \in Nat
           /\ Cardinality(Granted') = Cardinality(Granted)
                + (IF p \in {"heap", "pauseCheck", "pause", "pauseCb"} THEN 1 ELSE 0)
                - (IF txPc[t] \in {"heap", "pauseCheck", "pause", "pauseCb"} THEN 1 ELSE 0)
           /\ Cardinality(Preparing) \in Nat /\ Cardinality(Preparing') \in Nat
           /\ Cardinality(Preparing') = Cardinality(Preparing)
                + (IF p = "cmdInit" THEN 1 ELSE 0)
                - (IF txPc[t] = "cmdInit" THEN 1 ELSE 0)
<1> USE TxThreadsAssumption
<1>1. /\ txPc \in [TxThreads -> Places]
      /\ txPc' = [txPc EXCEPT ![t] = p]
  BY DEF TxTypeOK, TxGoto
<1>2. /\ Cardinality(Claiming) \in Nat /\ Cardinality(Claiming') \in Nat
      /\ Cardinality(Claiming') = Cardinality(Claiming)
           + (IF t \in Claiming' THEN 1 ELSE 0) - (IF t \in Claiming THEN 1 ELSE 0)
  <2>1. IsFiniteSet(Claiming)
    BY FS_Subset DEF Claiming
  <2>2. \A u : u # t => (u \in Claiming' <=> u \in Claiming)
    BY <1>1 DEF Claiming
  <2>3. QED
    BY <2>1, <2>2, CountMove
<1>3. /\ Cardinality(Granted) \in Nat /\ Cardinality(Granted') \in Nat
      /\ Cardinality(Granted') = Cardinality(Granted)
           + (IF t \in Granted' THEN 1 ELSE 0) - (IF t \in Granted THEN 1 ELSE 0)
  <2>1. IsFiniteSet(Granted)
    BY FS_Subset DEF Granted
  <2>2. \A u : u # t => (u \in Granted' <=> u \in Granted)
    BY <1>1 DEF Granted
  <2>3. QED
    BY <2>1, <2>2, CountMove
<1>4. /\ Cardinality(Preparing) \in Nat /\ Cardinality(Preparing') \in Nat
      /\ Cardinality(Preparing') = Cardinality(Preparing)
           + (IF t \in Preparing' THEN 1 ELSE 0) - (IF t \in Preparing THEN 1 ELSE 0)
  <2>1. IsFiniteSet(Preparing)
    BY FS_Subset DEF Preparing
  <2>2. \A u : u # t => (u \in Preparing' <=> u \in Preparing)
    BY <1>1 DEF Preparing
  <2>3. QED
    BY <2>1, <2>2, CountMove
<1>5. /\ t \in Claiming' <=> p \in {"undo", "heap", "pauseCheck", "pause", "pauseCb"}
      /\ t \in Claiming <=> txPc[t] \in {"undo", "heap", "pauseCheck", "pause", "pauseCb"}
      /\ t \in Granted' <=> p \in {"heap", "pauseCheck", "pause", "pauseCb"}
      /\ t \in Granted <=> txPc[t] \in {"heap", "pauseCheck", "pause", "pauseCb"}
      /\ t \in Preparing' <=> p = "cmdInit"
      /\ t \in Preparing <=> txPc[t] = "cmdInit"
  BY <1>1 DEF Claiming, Granted, Preparing
<1>6. QED
  BY <1>2, <1>3, <1>4, <1>5

(***************************************************************************)
(* The initial state satisfies the inductive invariant.                    *)
(***************************************************************************)
LEMMA TxInitInv == TxInit => TxInv
<1> SUFFICES ASSUME TxInit PROVE TxInv
  OBVIOUS
<1> USE TxPoolAssumption, TxThreadsAssumption DEF TxInit
<1>1. TxTypeOK
  <2>1. txPaused \in BOOLEAN /\ driverPaused \in BOOLEAN
    BY Zenon
  <2>2. /\ txAllocated \in Nat /\ txOut \in Nat /\ txCmdOut \in Nat
        /\ txCmdFree \in 0..TX_COMMAND_POOL_N_BLOCKS
    OBVIOUS
  <2>3. txPc \in [TxThreads -> Places]
    BY DEF Places
  <2>4. QED
    BY <2>1, <2>2, <2>3, Zenon DEF TxTypeOK
<1>2. Claiming = {} /\ Granted = {} /\ Preparing = {}
  BY DEF Claiming, Granted, Preparing
<1>3. Accounting /\ PoolLimit /\ CommandBuffersConserved
  BY <1>2, FS_EmptySet DEF Accounting, PoolLimit, CommandBuffersConserved
<1>4. PauseHasReleaser /\ DriverViewSettles
  BY DEF PauseHasReleaser, DriverViewSettles
<1>5. QED
  BY <1>1, <1>3, <1>4 DEF TxInv

(***************************************************************************)
(* Every step of a task preserves the types of the counters, the counter   *)
(* equation, the limit and the command reserve.                            *)
(***************************************************************************)
LEMMA TxCountingStep ==
    ASSUME TxInv, NEW t \in TxThreads,
           \/ AllocTxData(t) \/ AllocTxManagement(t) \/ AllocTxCommand(t)
           \/ FreeTxData(t) \/ Continue(t)
    PROVE  /\ txAllocated' \in Nat /\ txOut' \in Nat /\ txCmdOut' \in Nat
           /\ txCmdFree' \in 0..TX_COMMAND_POOL_N_BLOCKS
           /\ txPc' \in [TxThreads -> Places]
           /\ Accounting'
           /\ PoolLimit'
           /\ CommandBuffersConserved'
<1> USE TxPoolAssumption, TxThreadsAssumption
<1> DEFINE ca == Cardinality(Claiming)
           gr == Cardinality(Granted)
           pr == Cardinality(Preparing)
<1>0. /\ TxTypeOK
      /\ txAllocated \in Nat /\ txOut \in Nat /\ txCmdOut \in Nat
      /\ txCmdFree \in 0..TX_COMMAND_POOL_N_BLOCKS
      /\ txPc \in [TxThreads -> Places]
      /\ txAllocated = txOut + ca
      /\ txOut + gr <= TX_POOL_N_BLOCKS
      /\ txCmdFree + txCmdOut + pr = TX_COMMAND_POOL_N_BLOCKS
  BY DEF TxInv, TxTypeOK, Accounting, PoolLimit, CommandBuffersConserved
<1> SUFFICES /\ txAllocated' \in Nat /\ txOut' \in Nat /\ txCmdOut' \in Nat
             /\ txCmdFree' \in 0..TX_COMMAND_POOL_N_BLOCKS
             /\ txPc' \in [TxThreads -> Places]
             /\ txAllocated' = txOut' + ca'
             /\ txOut' + gr' <= TX_POOL_N_BLOCKS
             /\ txCmdFree' + txCmdOut' + pr' = TX_COMMAND_POOL_N_BLOCKS
  BY DEF Accounting, PoolLimit, CommandBuffersConserved
<1>c. \A p : TxGoto(t, p) =>
        /\ ca \in Nat /\ gr \in Nat /\ pr \in Nat
        /\ ca' \in Nat /\ gr' \in Nat /\ pr' \in Nat
        /\ ca' = ca
             + (IF p \in {"undo", "heap", "pauseCheck", "pause", "pauseCb"} THEN 1 ELSE 0)
             - (IF txPc[t] \in {"undo", "heap", "pauseCheck", "pause", "pauseCb"} THEN 1 ELSE 0)
        /\ gr' = gr
             + (IF p \in {"heap", "pauseCheck", "pause", "pauseCb"} THEN 1 ELSE 0)
             - (IF txPc[t] \in {"heap", "pauseCheck", "pause", "pauseCb"} THEN 1 ELSE 0)
        /\ pr' = pr
             + (IF p = "cmdInit" THEN 1 ELSE 0)
             - (IF txPc[t] = "cmdInit" THEN 1 ELSE 0)
  BY <1>0, TxCounts
<1>g. gr <= ca
  BY FS_Subset DEF Granted, Claiming
<1>p. \A p : TxGoto(t, p) /\ p \in Places => txPc' \in [TxThreads -> Places]
  BY <1>0 DEF TxGoto
<1> HIDE DEF ca, gr, pr
<1> USE <1>0, <1>c, <1>p, <1>g
<1>1. CASE AllocTxData(t)
  BY <1>1 DEF AllocTxData, Places
<1>2. CASE AllocTxManagement(t)
  BY <1>2 DEF AllocTxManagement, Places
<1>3. CASE AllocTxCommand(t)
  <2>1. CASE txCmdFree > 0 /\ txCmdFree' = txCmdFree - 1 /\ TxGoto(t, "cmdInit")
    BY <1>3, <2>1 DEF AllocTxCommand, Places
  <2>2. CASE txCmdFree' = txCmdFree /\ TxGoto(t, "add")
    BY <1>3, <2>2 DEF AllocTxCommand, Places
  <2>3. QED
    BY <1>3, <2>1, <2>2 DEF AllocTxCommand
<1>4. CASE FreeTxData(t)
  BY <1>4 DEF FreeTxData, Places
<1>5. CASE CommandInit(t)
  <2>1. CASE txCmdOut' = txCmdOut + 1 /\ txCmdFree' = txCmdFree /\ TxGoto(t, "idle")
    BY <1>5, <2>1 DEF CommandInit, Places
  <2>2. CASE txCmdFree' = txCmdFree + 1 /\ txCmdOut' = txCmdOut /\ TxGoto(t, "add")
    BY <1>5, <2>2 DEF CommandInit, Places
  <2>3. QED
    BY <1>5, <2>1, <2>2 DEF CommandInit
<1>6. CASE FetchAdd(t)
  BY <1>6 DEF FetchAdd, Places
<1>7. CASE HeapAlloc(t)
  BY <1>7 DEF HeapAlloc, Places
<1>8. CASE UndoAdd(t)
  BY <1>8 DEF UndoAdd, Places
<1>9. CASE CheckPause(t)
  BY <1>9 DEF CheckPause, Places
<1>10. CASE SetPaused(t)
  <2>1. CASE txOut' = txOut + 1 /\ TxGoto(t, "idle")
    BY <1>10, <2>1 DEF SetPaused, Places
  <2>2. CASE txOut' = txOut /\ TxGoto(t, "pauseCb")
    BY <1>10, <2>2 DEF SetPaused, Places
  <2>3. QED
    BY <1>10, <2>1, <2>2 DEF SetPaused
<1>11. CASE PausedCallback(t)
  BY <1>11 DEF PausedCallback, Places
<1>12. CASE CheckUnpause(t)
  BY <1>12 DEF CheckUnpause, Places
<1>13. CASE ClearPaused(t)
  BY <1>13 DEF ClearPaused, Places
<1>14. CASE UnpausedCallback(t)
  BY <1>14 DEF UnpausedCallback, Places
<1>15. QED
  BY <1>1, <1>2, <1>3, <1>4, <1>5, <1>6, <1>7, <1>8, <1>9, <1>10, <1>11, <1>12,
     <1>13, <1>14 DEF Continue

(***************************************************************************)
(* A task that is not claiming a unit of the counter leaves room for at    *)
(* most the others to do so.                                               *)
(***************************************************************************)
LEMMA OthersClaiming ==
    ASSUME NEW t \in TxThreads, t \notin Claiming
    PROVE  /\ Cardinality(Claiming) \in Nat
           /\ Cardinality(Claiming) + 1 <= Cardinality(TxThreads)
<1>1. /\ IsFiniteSet(TxThreads \ {t})
      /\ Cardinality(TxThreads \ {t}) = Cardinality(TxThreads) - 1
  BY TxThreadsAssumption, FS_RemoveElement
<1>2. Claiming \in SUBSET (TxThreads \ {t})
  BY DEF Claiming
<1>3. /\ IsFiniteSet(Claiming)
      /\ Cardinality(Claiming) <= Cardinality(TxThreads \ {t})
  BY <1>1, <1>2, FS_Subset
<1>4. Cardinality(Claiming) \in Nat /\ Cardinality(TxThreads) \in Nat
  BY <1>3, TxThreadsAssumption, FS_CardinalityType
<1>5. QED
  BY <1>1, <1>3, <1>4

(***************************************************************************)
(* Every step of a task preserves the flow-control part of the invariant.  *)
(* The one delicate step is CheckUnpause: a task that has freed a packet   *)
(* gives up only if the counter is at least the unpause threshold, and the *)
(* other tasks' unfinished allocations alone cannot make it that large.    *)
(***************************************************************************)
LEMMA TxFlowStep ==
    ASSUME TxInv, NEW t \in TxThreads,
           \/ AllocTxData(t) \/ AllocTxManagement(t) \/ AllocTxCommand(t)
           \/ FreeTxData(t) \/ Continue(t)
    PROVE  /\ txPaused' \in BOOLEAN /\ driverPaused' \in BOOLEAN
           /\ PauseHasReleaser'
           /\ DriverViewSettles'
<1>0. /\ txPaused \in BOOLEAN /\ driverPaused \in BOOLEAN
      /\ txOut \in Nat
      /\ txPc \in [TxThreads -> Places]
      /\ PauseHasReleaser
      /\ DriverViewSettles
  BY DEF TxInv, TxTypeOK
<1> USE <1>0 DEF PauseHasReleaser, DriverViewSettles, Carrying, TxGoto
<1>1. CASE AllocTxData(t)
  BY <1>1 DEF AllocTxData
<1>2. CASE AllocTxManagement(t)
  BY <1>2 DEF AllocTxManagement
<1>3. CASE AllocTxCommand(t)
  BY <1>3 DEF AllocTxCommand
<1>4. CASE FreeTxData(t)
  BY <1>4 DEF FreeTxData
<1>5. CASE CommandInit(t)
  BY <1>5 DEF CommandInit
<1>6. CASE FetchAdd(t)
  BY <1>6 DEF FetchAdd
<1>7. CASE HeapAlloc(t)
  BY <1>7 DEF HeapAlloc
<1>8. CASE UndoAdd(t)
  BY <1>8 DEF UndoAdd
<1>9. CASE CheckPause(t)
  BY <1>9 DEF CheckPause
<1>10. CASE SetPaused(t)
  <2>1. CASE txPaused
    <3>1. txPaused' = TRUE /\ driverPaused' = driverPaused
      BY <1>10, Zenon DEF SetPaused
    <3>2. txOut' > 0 /\ txPc' = [txPc EXCEPT ![t] = "idle"] /\ txPc[t] = "pause"
      BY <1>10, <2>1 DEF SetPaused
    <3>3. QED
      BY <2>1, <3>1, <3>2
  <2>2. CASE ~txPaused
    <3>1. txPaused' = TRUE /\ driverPaused' = driverPaused
      BY <1>10, Zenon DEF SetPaused
    <3>2. txPc'[t] = "pauseCb"
      BY <1>10, <2>2 DEF SetPaused
    <3>3. QED
      BY <3>1, <3>2
  <2>3. QED
    BY <2>1, <2>2
<1>11. CASE PausedCallback(t)
  BY <1>11 DEF PausedCallback, FlowControlState
<1>12. CASE CheckUnpause(t)
  <2>1. CASE txAllocated < UnpauseThreshold
    BY <1>12, <2>1 DEF CheckUnpause
  <2>2. CASE ~(txAllocated < UnpauseThreshold)
    <3>1. t \notin Claiming
      BY <1>12 DEF CheckUnpause, Claiming
    <3>2. Cardinality(Claiming) \in Nat /\ Cardinality(Claiming) < UnpauseThreshold
      BY <3>1, OthersClaiming, TxThreadsAssumption, TxPoolAssumption, FS_CardinalityType
         DEF UnpauseThreshold
    <3>3. txOut > 0
      BY <2>2, <3>2, TxPoolAssumption DEF TxInv, TxTypeOK, Accounting, UnpauseThreshold
    <3>4. QED
      BY <1>12, <2>2, <3>3 DEF CheckUnpause
  <2>3. QED
    BY <2>1, <2>2
<1>13. CASE ClearPaused(t)
  BY <1>13 DEF ClearPaused
<1>14. CASE UnpausedCallback(t)
  BY <1>14 DEF UnpausedCallback, FlowControlState
<1>15. QED
  BY <1>1, <1>2, <1>3, <1>4, <1>5, <1>6, <1>7, <1>8, <1>9, <1>10, <1>11, <1>12,
     <1>13, <1>14 DEF Continue

(***************************************************************************)
(* Returning a command buffer touches only the two command counts.         *)
(***************************************************************************)
LEMMA TxFreeCommandStep == TxInv /\ FreeTxCommand => TxInv'
<1> SUFFICES ASSUME TxInv, FreeTxCommand PROVE TxInv'
  OBVIOUS
<1>1. /\ Claiming' = Claiming /\ Granted' = Granted /\ Preparing' = Preparing
      /\ Carrying' = Carrying
  BY DEF FreeTxCommand, Claiming, Granted, Preparing, Carrying
<1>2. Cardinality(Preparing) \in Nat
  BY TxThreadsAssumption, FS_Subset, FS_CardinalityType DEF Preparing
<1>3. /\ txCmdFree' \in 0..TX_COMMAND_POOL_N_BLOCKS
      /\ txCmdOut' \in Nat
      /\ CommandBuffersConserved'
  BY <1>1, <1>2, TxPoolAssumption
     DEF TxInv, TxTypeOK, CommandBuffersConserved, FreeTxCommand
<1>4. /\ txAllocated' = txAllocated /\ txPaused' = txPaused /\ txOut' = txOut
      /\ driverPaused' = driverPaused /\ txPc' = txPc
  BY DEF FreeTxCommand
<1>5. TxTypeOK'
  BY <1>3, <1>4, Zenon DEF TxInv, TxTypeOK
<1>6. Accounting' /\ PoolLimit' /\ PauseHasReleaser' /\ DriverViewSettles'
  BY <1>1, <1>4, Zenon DEF TxInv, Accounting, PoolLimit, PauseHasReleaser, DriverViewSettles
<1>7. QED
  BY <1>3, <1>5, <1>6 DEF TxInv

(***************************************************************************)
(* TxInv is an invariant of the transmit packet memory.                    *)
(***************************************************************************)
THEOREM TxInvariant == TxSpec => []TxInv
<1>1. TxInit => TxInv
  BY TxInitInv
<1>2. TxInv /\ [TxNext]_txVars => TxInv'
  <2> SUFFICES ASSUME TxInv, [TxNext]_txVars PROVE TxInv'
    OBVIOUS
  <2>1. ASSUME NEW t \in TxThreads,
               \/ AllocTxData(t) \/ AllocTxManagement(t) \/ AllocTxCommand(t)
               \/ FreeTxData(t) \/ Continue(t)
        PROVE  TxInv'
    BY <2>1, TxCountingStep, TxFlowStep, Zenon DEF TxInv, TxTypeOK
  <2>2. CASE FreeTxCommand
    BY <2>2, TxFreeCommandStep
  <2>3. CASE UNCHANGED txVars
    BY <2>3 DEF txVars, TxInv, TxTypeOK, Accounting, PoolLimit, CommandBuffersConserved,
       PauseHasReleaser, DriverViewSettles, Claiming, Granted, Preparing, Carrying
  <2>4. QED
    BY <2>1, <2>2, <2>3 DEF TxNext, TransmitBlocked
<1>3. QED
  BY <1>1, <1>2, PTL DEF TxSpec

(***************************************************************************)
(* The variables keep their types; in particular the counter never goes    *)
(* negative and the command reserve never overflows.                       *)
(***************************************************************************)
THEOREM TxTypeCorrect == TxSpec => []TxTypeOK
<1>1. TxInv => TxTypeOK
  BY DEF TxInv
<1>2. QED
  BY <1>1, TxInvariant, PTL

(***************************************************************************)
(* The assertion in tx_data_pool_pkt_free never fails.                     *)
(***************************************************************************)
THEOREM FreeNeverAsserts == TxSpec => []FreeAssertion
<1>1. TxInv => FreeAssertion
  <2> SUFFICES ASSUME TxInv PROVE FreeAssertion
    OBVIOUS
  <2>1. Cardinality(Claiming) \in Nat
    BY TxThreadsAssumption, FS_Subset, FS_CardinalityType DEF Claiming
  <2>2. QED
    BY <2>1 DEF TxInv, TxTypeOK, Accounting, FreeAssertion
<1>2. QED
  BY <1>1, TxInvariant, PTL

(***************************************************************************)
(* However the atomic steps interleave, no more than                       *)
(* MMPKTMEM_TX_POOL_N_BLOCKS packets exist.                                *)
(***************************************************************************)
THEOREM TxPoolLimited == TxSpec => []PoolLimit
<1>1. TxInv => PoolLimit
  BY DEF TxInv
<1>2. QED
  BY <1>1, TxInvariant, PTL

(***************************************************************************)
(* No unpause is lost: a paused path always has a free still to come.      *)
(***************************************************************************)
THEOREM NoLostUnpause == TxSpec => []PauseHasReleaser
<1>1. TxInv => PauseHasReleaser
  BY DEF TxInv
<1>2. QED
  BY <1>1, TxInvariant, PTL

(***************************************************************************)
(* The driver's view of flow control agrees with the flag whenever no      *)
(* callback is pending, in whatever order callbacks ran.                   *)
(***************************************************************************)
THEOREM DriverViewCorrect == TxSpec => []DriverViewSettles
<1>1. TxInv => DriverViewSettles
  BY DEF TxInv
<1>2. QED
  BY <1>1, TxInvariant, PTL

(***************************************************************************)
(* The counter equation: no increment is lost or repeated.                 *)
(***************************************************************************)
THEOREM TxCounterExact == TxSpec => []Accounting
<1>1. TxInv => Accounting
  BY DEF TxInv
<1>2. QED
  BY <1>1, TxInvariant, PTL

(***************************************************************************)
(* Command buffers are neither lost nor duplicated.                        *)
(***************************************************************************)
THEOREM TxReserveConserved == TxSpec => []CommandBuffersConserved
<1>1. TxInv => CommandBuffersConserved
  BY DEF TxInv
<1>2. QED
  BY <1>1, TxInvariant, PTL

(***************************************************************************)
(* The transmit memory implements the atomic pool.  A packet is handed out *)
(* in three places, all of them by a task that is among Granted: PoolLimit *)
(* then says that fewer than N packets were out.                           *)
(***************************************************************************)
THEOREM TxRefinesPool == TxSpec => TxImplementsPool
<1>1. TxInit => TxPool!PoolInit
  BY DEF TxInit, TxPool!PoolInit
<1>2. TxInv /\ [TxNext]_txVars => [TxPool!PoolNext]_(TxPool!poolVars)
  <2> SUFFICES ASSUME TxInv, [TxNext]_txVars
               PROVE  TxPool!PoolNext \/ UNCHANGED <<txOut, txCmdOut>>
    BY DEF TxPool!poolVars
  <2> USE TxPoolAssumption, TxThreadsAssumption
  <2>0. txOut \in Nat /\ txCmdOut \in Nat /\ txCmdFree \in Nat
    BY DEF TxInv, TxTypeOK
  <2>1. ASSUME NEW t \in TxThreads, t \in Granted PROVE txOut < TX_POOL_N_BLOCKS
    <3>1. IsFiniteSet(Granted)
      BY FS_Subset DEF Granted
    <3>2. Cardinality(Granted) \in Nat /\ Cardinality(Granted) # 0
      BY <2>1, <3>1, FS_CardinalityType, FS_EmptySet
    <3>3. QED
      BY <2>0, <3>2 DEF TxInv, PoolLimit
  <2>2. ASSUME NEW t \in TxThreads, t \in Preparing
        PROVE  txCmdOut < TX_COMMAND_POOL_N_BLOCKS
    <3>1. IsFiniteSet(Preparing)
      BY FS_Subset DEF Preparing
    <3>2. Cardinality(Preparing) \in Nat /\ Cardinality(Preparing) # 0
      BY <2>2, <3>1, FS_CardinalityType, FS_EmptySet
    <3>3. QED
      BY <2>0, <3>2 DEF TxInv, CommandBuffersConserved
  <2>3. ASSUME NEW t \in TxThreads, Continue(t)
        PROVE  TxPool!PoolNext \/ UNCHANGED <<txOut, txCmdOut>>
    <3>1. CASE CommandInit(t)
      <4>1. t \in Preparing
        BY <3>1 DEF CommandInit, Preparing
      <4>2. QED
        BY <3>1, <4>1, <2>2 DEF CommandInit, TxPool!PoolNext, TxPool!AllocCommand
    <3>2. CASE CheckPause(t) \/ SetPaused(t) \/ PausedCallback(t)
      <4>1. t \in Granted
        BY <3>2 DEF CheckPause, SetPaused, PausedCallback, Granted
      <4>2. QED
        BY <3>2, <4>1, <2>1
           DEF CheckPause, SetPaused, PausedCallback, TxPool!PoolNext, TxPool!Alloc
    <3>3. CASE \/ FetchAdd(t) \/ HeapAlloc(t) \/ UndoAdd(t)
               \/ CheckUnpause(t) \/ ClearPaused(t) \/ UnpausedCallback(t)
      BY <3>3 DEF FetchAdd, HeapAlloc, UndoAdd, CheckUnpause, ClearPaused,
         UnpausedCallback
    <3>4. QED
      BY <2>3, <3>1, <3>2, <3>3 DEF Continue
  <2>4. ASSUME NEW t \in TxThreads, FreeTxData(t)
        PROVE  TxPool!PoolNext
    BY <2>4 DEF FreeTxData, TxPool!PoolNext, TxPool!Free
  <2>5. CASE FreeTxCommand
    BY <2>5 DEF FreeTxCommand, TxPool!PoolNext, TxPool!FreeCommand
  <2>6. ASSUME NEW t \in TxThreads,
               \/ AllocTxData(t) \/ TransmitBlocked(t)
               \/ AllocTxManagement(t) \/ AllocTxCommand(t)
        PROVE  UNCHANGED <<txOut, txCmdOut>>
    BY <2>6 DEF AllocTxData, TransmitBlocked, AllocTxManagement, AllocTxCommand, txVars
  <2>7. CASE UNCHANGED txVars
    BY <2>7 DEF txVars
  <2>8. QED
    BY <2>3, <2>4, <2>5, <2>6, <2>7 DEF TxNext
<1>3. QED
  BY <1>1, <1>2, TxInvariant, PTL DEF TxSpec, TxImplementsPool, TxPool!PoolSpec

-----------------------------------------------------------------------------
(* The receive path *)

(***************************************************************************)
(* How a step of one task changes the sizes of the sets of tasks that the  *)
(* invariants count.                                                       *)
(***************************************************************************)
LEMMA RxCounts ==
    ASSUME RxTypeOK, NEW t \in RxThreads, NEW p, RxGoto(t, p)
    PROVE
           /\ Cardinality(RxClaiming) \in Nat /\ Cardinality(RxClaiming') \in Nat
           /\ Cardinality(RxClaiming') = Cardinality(RxClaiming)
                + (IF p \in {"heap", "undo", "netifRx", "release", "input", "wrapRelease"} THEN 1 ELSE 0)
                - (IF rxPc[t] \in {"heap", "undo", "netifRx", "release", "input", "wrapRelease"} THEN 1 ELSE 0)
           /\ Cardinality(RxGranted) \in Nat /\ Cardinality(RxGranted') \in Nat
           /\ Cardinality(RxGranted') = Cardinality(RxGranted)
                + (IF p \in {"heap", "netifRx", "release", "input", "wrapRelease"} THEN 1 ELSE 0)
                - (IF rxPc[t] \in {"heap", "netifRx", "release", "input", "wrapRelease"} THEN 1 ELSE 0)
           /\ Cardinality(Wrapping) \in Nat /\ Cardinality(Wrapping') \in Nat
           /\ Cardinality(Wrapping') = Cardinality(Wrapping)
                + (IF p \in {"input", "wrapRelease", "wrapFree"} THEN 1 ELSE 0)
                - (IF rxPc[t] \in {"input", "wrapRelease", "wrapFree"} THEN 1 ELSE 0)
           /\ Cardinality(RxPreparing) \in Nat /\ Cardinality(RxPreparing') \in Nat
           /\ Cardinality(RxPreparing') = Cardinality(RxPreparing)
                + (IF p \in {"cmdInit"} THEN 1 ELSE 0)
                - (IF rxPc[t] \in {"cmdInit"} THEN 1 ELSE 0)
<1> USE RxPoolAssumption
<1>1. /\ rxPc \in [RxThreads -> RxPlaces]
      /\ rxPc' = [rxPc EXCEPT ![t] = p]
  BY DEF RxTypeOK, RxGoto
<1>2. /\ Cardinality(RxClaiming) \in Nat /\ Cardinality(RxClaiming') \in Nat
      /\ Cardinality(RxClaiming') = Cardinality(RxClaiming)
           + (IF t \in RxClaiming' THEN 1 ELSE 0) - (IF t \in RxClaiming THEN 1 ELSE 0)
  <2>1. IsFiniteSet(RxClaiming)
    BY SubsetCount DEF RxClaiming, At
  <2>2. \A u : u # t => (u \in RxClaiming' <=> u \in RxClaiming)
    BY <1>1 DEF RxClaiming, At
  <2>3. QED
    BY <2>1, <2>2, CountMove
<1>3. /\ Cardinality(RxGranted) \in Nat /\ Cardinality(RxGranted') \in Nat
      /\ Cardinality(RxGranted') = Cardinality(RxGranted)
           + (IF t \in RxGranted' THEN 1 ELSE 0) - (IF t \in RxGranted THEN 1 ELSE 0)
  <2>1. IsFiniteSet(RxGranted)
    BY SubsetCount DEF RxGranted, At
  <2>2. \A u : u # t => (u \in RxGranted' <=> u \in RxGranted)
    BY <1>1 DEF RxGranted, At
  <2>3. QED
    BY <2>1, <2>2, CountMove
<1>4. /\ Cardinality(Wrapping) \in Nat /\ Cardinality(Wrapping') \in Nat
      /\ Cardinality(Wrapping') = Cardinality(Wrapping)
           + (IF t \in Wrapping' THEN 1 ELSE 0) - (IF t \in Wrapping THEN 1 ELSE 0)
  <2>1. IsFiniteSet(Wrapping)
    BY SubsetCount DEF Wrapping, At
  <2>2. \A u : u # t => (u \in Wrapping' <=> u \in Wrapping)
    BY <1>1 DEF Wrapping, At
  <2>3. QED
    BY <2>1, <2>2, CountMove
<1>5. /\ Cardinality(RxPreparing) \in Nat /\ Cardinality(RxPreparing') \in Nat
      /\ Cardinality(RxPreparing') = Cardinality(RxPreparing)
           + (IF t \in RxPreparing' THEN 1 ELSE 0) - (IF t \in RxPreparing THEN 1 ELSE 0)
  <2>1. IsFiniteSet(RxPreparing)
    BY SubsetCount DEF RxPreparing, At
  <2>2. \A u : u # t => (u \in RxPreparing' <=> u \in RxPreparing)
    BY <1>1 DEF RxPreparing, At
  <2>3. QED
    BY <2>1, <2>2, CountMove
<1>6. /\ t \in RxClaiming' <=> p \in {"heap", "undo", "netifRx", "release", "input", "wrapRelease"}
      /\ t \in RxClaiming <=> rxPc[t] \in {"heap", "undo", "netifRx", "release", "input", "wrapRelease"}
      /\ t \in RxGranted' <=> p \in {"heap", "netifRx", "release", "input", "wrapRelease"}
      /\ t \in RxGranted <=> rxPc[t] \in {"heap", "netifRx", "release", "input", "wrapRelease"}
      /\ t \in Wrapping' <=> p \in {"input", "wrapRelease", "wrapFree"}
      /\ t \in Wrapping <=> rxPc[t] \in {"input", "wrapRelease", "wrapFree"}
      /\ t \in RxPreparing' <=> p \in {"cmdInit"}
      /\ t \in RxPreparing <=> rxPc[t] \in {"cmdInit"}
  BY <1>1 DEF RxClaiming, RxGranted, Wrapping, RxPreparing, At
<1>7. QED
  BY <1>2, <1>3, <1>4, <1>5, <1>6

(***************************************************************************)
(* The initial state satisfies the inductive invariant.                    *)
(***************************************************************************)
LEMMA RxInitInv == RxInit => RxInv
<1> SUFFICES ASSUME RxInit PROVE RxInv
  OBVIOUS
<1> USE RxPoolAssumption DEF RxInit
<1>1. RxTypeOK
  BY DEF RxTypeOK, RxPlaces
<1>2. RxClaiming = {} /\ RxGranted = {} /\ Wrapping = {} /\ RxPreparing = {}
  BY DEF RxClaiming, RxGranted, Wrapping, RxPreparing, At
<1>3. QED
  BY <1>1, <1>2, FS_EmptySet
     DEF RxInv, RxAccounting, RxPoolLimit, WrappersConserved, RxCommandBuffersConserved

(***************************************************************************)
(* Every step of a task preserves the inductive invariant.                 *)
(***************************************************************************)
LEMMA RxTaskStep ==
    ASSUME RxInv, NEW t \in RxThreads,
           \/ AllocRxCommand(t) \/ RxFetchAdd(t) \/ Deliver(t) \/ PbufFree(t)
           \/ RxContinue(t)
    PROVE  RxInv'
<1> USE RxPoolAssumption
<1> DEFINE cl == Cardinality(RxClaiming)
           gr == Cardinality(RxGranted)
           wr == Cardinality(Wrapping)
           pr == Cardinality(RxPreparing)
<1>a. /\ RxTypeOK
      /\ rxAllocated \in Nat /\ rxCmdOut \in Nat /\ rxHeld \in Nat /\ inStack \in Nat
      /\ rxCmdFree \in 0..RX_COMMAND_POOL_N_BLOCKS
      /\ wrappers \in 0..RX_POOL_N_BLOCKS
      /\ rxPc \in [RxThreads -> RxPlaces]
      /\ rxAllocated = rxHeld + inStack + cl
      /\ rxHeld + inStack + gr <= RX_POOL_N_BLOCKS
      /\ wrappers + inStack + wr = RX_POOL_N_BLOCKS
      /\ rxCmdFree + rxCmdOut + pr = RX_COMMAND_POOL_N_BLOCKS
  BY DEF RxInv, RxTypeOK, RxAccounting, RxPoolLimit, WrappersConserved,
         RxCommandBuffersConserved
<1> SUFFICES /\ rxAllocated' \in Nat /\ rxCmdOut' \in Nat /\ rxHeld' \in Nat /\ inStack' \in Nat
             /\ rxCmdFree' \in 0..RX_COMMAND_POOL_N_BLOCKS
             /\ wrappers' \in 0..RX_POOL_N_BLOCKS
             /\ rxPc' \in [RxThreads -> RxPlaces]
             /\ rxAllocated' = rxHeld' + inStack' + cl'
             /\ rxHeld' + inStack' + gr' <= RX_POOL_N_BLOCKS
             /\ wrappers' + inStack' + wr' = RX_POOL_N_BLOCKS
             /\ rxCmdFree' + rxCmdOut' + pr' = RX_COMMAND_POOL_N_BLOCKS
  BY DEF RxInv, RxTypeOK, RxAccounting, RxPoolLimit, WrappersConserved,
         RxCommandBuffersConserved
<1>b. \A p : RxGoto(t, p) =>
        /\ cl \in Nat /\ cl' \in Nat
        /\ cl' = cl + (IF p \in {"heap", "undo", "netifRx", "release", "input", "wrapRelease"} THEN 1 ELSE 0)
                   - (IF rxPc[t] \in {"heap", "undo", "netifRx", "release", "input", "wrapRelease"} THEN 1 ELSE 0)
        /\ gr \in Nat /\ gr' \in Nat
        /\ gr' = gr + (IF p \in {"heap", "netifRx", "release", "input", "wrapRelease"} THEN 1 ELSE 0)
                   - (IF rxPc[t] \in {"heap", "netifRx", "release", "input", "wrapRelease"} THEN 1 ELSE 0)
        /\ wr \in Nat /\ wr' \in Nat
        /\ wr' = wr + (IF p \in {"input", "wrapRelease", "wrapFree"} THEN 1 ELSE 0)
                   - (IF rxPc[t] \in {"input", "wrapRelease", "wrapFree"} THEN 1 ELSE 0)
        /\ pr \in Nat /\ pr' \in Nat
        /\ pr' = pr + (IF p \in {"cmdInit"} THEN 1 ELSE 0)
                   - (IF rxPc[t] \in {"cmdInit"} THEN 1 ELSE 0)
  BY <1>a, RxCounts
<1>c. \A p : RxGoto(t, p) /\ p \in RxPlaces => rxPc' \in [RxThreads -> RxPlaces]
  BY <1>a DEF RxGoto
<1>d. gr <= cl
  <2>1. RxGranted \in SUBSET RxClaiming /\ RxClaiming \in SUBSET RxThreads
    BY DEF RxGranted, RxClaiming, At
  <2>2. QED
    BY <2>1, SubsetCount
<1> HIDE DEF cl, gr, wr, pr
<1> USE <1>a, <1>b, <1>c, <1>d
<1>1. CASE AllocRxCommand(t)
  BY <1>1 DEF AllocRxCommand, RxPlaces
<1>2. CASE RxFetchAdd(t)
  <2>1. CASE rxAllocated >= RX_POOL_N_BLOCKS
    <3>1. RxGoto(t, "undo")
      BY <1>2, <2>1 DEF RxFetchAdd
    <3>2. QED
      BY <1>2, <3>1 DEF RxFetchAdd, RxPlaces
  <2>2. CASE ~(rxAllocated >= RX_POOL_N_BLOCKS)
    <3>1. RxGoto(t, "heap")
      BY <1>2, <2>2 DEF RxFetchAdd
    <3>2. QED
      BY <1>2, <2>2, <3>1 DEF RxFetchAdd, RxPlaces
  <2>3. QED
    BY <2>1, <2>2
<1>3. CASE Deliver(t)
  BY <1>3 DEF Deliver, RxPlaces
<1>4. CASE PbufFree(t)
  BY <1>4 DEF PbufFree, RxPlaces
<1>5. CASE RxCommandInit(t)
  <2>1. CASE rxCmdOut' = rxCmdOut + 1 /\ rxCmdFree' = rxCmdFree
    BY <1>5, <2>1 DEF RxCommandInit, RxPlaces
  <2>2. CASE rxCmdFree' = rxCmdFree + 1 /\ rxCmdOut' = rxCmdOut
    BY <1>5, <2>2 DEF RxCommandInit, RxPlaces
  <2>3. QED
    BY <1>5, <2>1, <2>2 DEF RxCommandInit
<1>6. CASE RxHeapAlloc(t)
  BY <1>6 DEF RxHeapAlloc, RxPlaces
<1>7. CASE RxUndoAdd(t)
  BY <1>7 DEF RxUndoAdd, RxPlaces
<1>8. CASE MmnetifRx(t)
  <2>1. CASE RxGoto(t, "release") /\ wrappers' = wrappers
    BY <1>8, <2>1 DEF MmnetifRx, RxPlaces
  <2>2. CASE RxGoto(t, "input") /\ wrappers > 0 /\ wrappers' = wrappers - 1
    BY <1>8, <2>2 DEF MmnetifRx, RxPlaces
  <2>3. QED
    BY <1>8, <2>1, <2>2 DEF MmnetifRx
<1>9. CASE TcpipInput(t)
  BY <1>9 DEF TcpipInput, RxPlaces
<1>10. CASE Release(t)
  BY <1>10 DEF Release, RxPlaces
<1>11. CASE WrapRelease(t)
  BY <1>11 DEF WrapRelease, RxPlaces
<1>12. CASE WrapFree(t)
  BY <1>12 DEF WrapFree, RxPlaces
<1>13. QED
  BY <1>1, <1>2, <1>3, <1>4, <1>5, <1>6, <1>7, <1>8, <1>9, <1>10, <1>11, <1>12
     DEF RxContinue

(***************************************************************************)
(* RxInv is an invariant of the receive path.                              *)
(***************************************************************************)
THEOREM RxInvariant == RxSpec => []RxInv
<1>1. RxInit => RxInv
  BY RxInitInv
<1>2. RxInv /\ [RxNext]_rxVars => RxInv'
  <2> SUFFICES ASSUME RxInv, [RxNext]_rxVars PROVE RxInv'
    OBVIOUS
  <2>1. ASSUME NEW t \in RxThreads,
               \/ AllocRxCommand(t) \/ RxFetchAdd(t) \/ Deliver(t) \/ PbufFree(t)
               \/ RxContinue(t)
        PROVE  RxInv'
    BY <2>1, RxTaskStep
  <2>2. CASE FreeRxCommand
    <3>1. /\ RxClaiming' = RxClaiming /\ RxGranted' = RxGranted
          /\ Wrapping' = Wrapping /\ RxPreparing' = RxPreparing
      BY <2>2 DEF FreeRxCommand, RxClaiming, RxGranted, Wrapping, RxPreparing, At
    <3>2. Cardinality(RxPreparing) \in Nat
      BY RxPoolAssumption, SubsetCount DEF RxPreparing, At
    <3>3. QED
      BY <2>2, <3>1, <3>2, RxPoolAssumption
         DEF FreeRxCommand, RxInv, RxTypeOK, RxAccounting, RxPoolLimit, WrappersConserved,
         RxCommandBuffersConserved
  <2>3. CASE UNCHANGED rxVars
    BY <2>3 DEF rxVars, RxInv, RxTypeOK, RxAccounting, RxPoolLimit, WrappersConserved,
         RxCommandBuffersConserved,
         RxClaiming, RxGranted, Wrapping, RxPreparing, At
  <2>4. QED
    BY <2>1, <2>2, <2>3 DEF RxNext
<1>3. QED
  BY <1>1, <1>2, PTL DEF RxSpec

(***************************************************************************)
(* No path through mmnetif_rx leaks a packet or releases one twice.        *)
(***************************************************************************)
THEOREM RxNoLeak == RxSpec => []RxAccounting
<1>1. RxInv => RxAccounting
  BY DEF RxInv
<1>2. QED
  BY <1>1, RxInvariant, PTL

(***************************************************************************)
(* A received packet finds RX_POOL empty only while another task is giving *)
(* a wrapper back: were every wrapper in use by a live packet, the packet  *)
(* in hand would be one more than the packet memory allows.                *)
(***************************************************************************)
THEOREM WrapperShortage == RxSpec => []WrapperShortageIsTransient
<1>1. RxInv => WrapperShortageIsTransient
  <2> SUFFICES ASSUME RxInv, wrappers = 0,
                      NEW t \in At({"netifRx"}), At({"wrapFree"}) = {}
               PROVE  FALSE
    BY DEF WrapperShortageIsTransient
  <2>1. (Wrapping \cup {t}) \in SUBSET RxGranted /\ t \notin Wrapping
    BY DEF Wrapping, RxGranted, At
  <2>2. IsFiniteSet(RxGranted) /\ Cardinality(RxGranted) \in Nat
    BY RxPoolAssumption, SubsetCount DEF RxGranted, At
  <2>3. IsFiniteSet(Wrapping) /\ Cardinality(Wrapping) \in Nat
    BY RxPoolAssumption, SubsetCount DEF Wrapping, At
  <2>4. Cardinality(Wrapping \cup {t}) = Cardinality(Wrapping) + 1
    BY <2>1, <2>3, FS_AddElement
  <2>5. Cardinality(Wrapping) + 1 <= Cardinality(RxGranted)
    BY <2>1, <2>2, <2>4, SubsetCount
  <2>6. QED
    BY <2>2, <2>3, <2>5, RxPoolAssumption
       DEF RxInv, RxTypeOK, RxPoolLimit, WrappersConserved
<1>2. QED
  BY <1>1, RxInvariant, PTL

(***************************************************************************)
(* The variables stay in their ranges: no counter goes below zero and no   *)
(* pool above its size.                                                    *)
(***************************************************************************)
THEOREM RxTypeCorrect == RxSpec => []RxTypeOK
<1>1. RxInv => RxTypeOK
  BY DEF RxInv
<1>2. QED
  BY <1>1, RxInvariant, PTL

(***************************************************************************)
(* At most MMPKTMEM_RX_POOL_N_BLOCKS received data packets exist.          *)
(***************************************************************************)
THEOREM RxPoolLimited == RxSpec => []RxPoolLimit
<1>1. RxInv => RxPoolLimit
  BY DEF RxInv
<1>2. QED
  BY <1>1, RxInvariant, PTL

(***************************************************************************)
(* Elements of RX_POOL and command response buffers are neither lost nor   *)
(* duplicated.                                                             *)
(***************************************************************************)
THEOREM RxWrappersConserved == RxSpec => []WrappersConserved
<1>1. RxInv => WrappersConserved
  BY DEF RxInv
<1>2. QED
  BY <1>1, RxInvariant, PTL

(***************************************************************************)
(* The reserve of command response buffers is conserved.                   *)
(***************************************************************************)
THEOREM RxReserveConserved == RxSpec => []RxCommandBuffersConserved
<1>1. RxInv => RxCommandBuffersConserved
  BY DEF RxInv
<1>2. QED
  BY <1>1, RxInvariant, PTL

(***************************************************************************)
(* How a step of one task changes the number of tasks that own a packet.   *)
(***************************************************************************)
LEMMA RxOwningCount ==
    ASSUME RxTypeOK, NEW t \in RxThreads, NEW p, RxGoto(t, p)
    PROVE  /\ Cardinality(RxOwning) \in Nat /\ Cardinality(RxOwning') \in Nat
           /\ Cardinality(RxOwning') = Cardinality(RxOwning)
                + (IF p \in {"netifRx", "release", "input", "wrapRelease"} THEN 1 ELSE 0)
                - (IF rxPc[t] \in {"netifRx", "release", "input", "wrapRelease"} THEN 1 ELSE 0)
<1>1. /\ rxPc \in [RxThreads -> RxPlaces]
      /\ rxPc' = [rxPc EXCEPT ![t] = p]
  BY DEF RxTypeOK, RxGoto
<1>2. IsFiniteSet(RxOwning)
  BY RxPoolAssumption, SubsetCount DEF RxOwning, At
<1>3. \A u : u # t => (u \in RxOwning' <=> u \in RxOwning)
  BY <1>1 DEF RxOwning, At
<1>4. /\ t \in RxOwning' <=> p \in {"netifRx", "release", "input", "wrapRelease"}
      /\ t \in RxOwning <=> rxPc[t] \in {"netifRx", "release", "input", "wrapRelease"}
  BY <1>1 DEF RxOwning, At
<1>5. QED
  BY <1>2, <1>3, <1>4, CountMove

(***************************************************************************)
(* A task about to allocate finds room for its packet: the check of the    *)
(* limit that it passed still holds for the packets that are out.          *)
(***************************************************************************)
LEMMA RxRoom ==
    ASSUME RxInv, NEW t \in RxThreads, rxPc[t] = "heap"
    PROVE  rxHeld + inStack + Cardinality(RxOwning) < RX_POOL_N_BLOCKS
<1>1. (RxOwning \cup {t}) \in SUBSET RxGranted /\ t \notin RxOwning
  BY DEF RxOwning, RxGranted, At
<1>2. IsFiniteSet(RxGranted) /\ Cardinality(RxGranted) \in Nat
  BY RxPoolAssumption, SubsetCount DEF RxGranted, At
<1>3. IsFiniteSet(RxOwning) /\ Cardinality(RxOwning) \in Nat
  BY RxPoolAssumption, SubsetCount DEF RxOwning, At
<1>4. Cardinality(RxOwning \cup {t}) = Cardinality(RxOwning) + 1
  BY <1>1, <1>3, FS_AddElement
<1>5. Cardinality(RxOwning) + 1 <= Cardinality(RxGranted)
  BY <1>1, <1>2, <1>4, SubsetCount
<1>6. QED
  BY <1>2, <1>3, <1>5, RxPoolAssumption DEF RxInv, RxTypeOK, RxPoolLimit

(***************************************************************************)
(* The receive path implements the abstract packet pool: on every path     *)
(* through the driver, mmnetif_rx and the stack a packet is handed out     *)
(* once, within the limit, and comes back once.                            *)
(***************************************************************************)
THEOREM RxRefinesPool == RxSpec => RxImplementsPool
<1>1. RxInit => RxPool!PoolInit
  <2>1. ASSUME RxInit PROVE RxOwning = {}
    BY <2>1 DEF RxInit, RxOwning, At
  <2>2. QED
    BY <2>1, FS_EmptySet DEF RxInit, RxPool!PoolInit
<1>2. RxInv /\ [RxNext]_rxVars => [RxPool!PoolNext]_(RxPool!poolVars)
  <2> DEFINE ow == Cardinality(RxOwning)
             total == rxHeld + inStack + ow
  <2> SUFFICES ASSUME RxInv, [RxNext]_rxVars
               PROVE  \/ total < RX_POOL_N_BLOCKS /\ total' = total + 1 /\ rxCmdOut' = rxCmdOut
                      \/ total > 0 /\ total' = total - 1 /\ rxCmdOut' = rxCmdOut
                      \/ /\ rxCmdOut < RX_COMMAND_POOL_N_BLOCKS
                         /\ rxCmdOut' = rxCmdOut + 1 /\ total' = total
                      \/ rxCmdOut > 0 /\ rxCmdOut' = rxCmdOut - 1 /\ total' = total
                      \/ total' = total /\ rxCmdOut' = rxCmdOut
    BY DEF RxPool!poolVars, RxPool!PoolNext, RxPool!Alloc, RxPool!Free,
           RxPool!AllocCommand, RxPool!FreeCommand
  <2> USE RxPoolAssumption
  <2>a. /\ RxTypeOK
        /\ rxHeld \in Nat /\ inStack \in Nat /\ rxCmdOut \in Nat /\ rxCmdFree \in Nat
    BY DEF RxInv, RxTypeOK
  <2>b. \A t \in RxThreads : \A p : RxGoto(t, p) =>
          /\ ow \in Nat /\ ow' \in Nat
          /\ ow' = ow + (IF p \in {"netifRx", "release", "input", "wrapRelease"} THEN 1 ELSE 0)
                      - (IF rxPc[t] \in {"netifRx", "release", "input", "wrapRelease"} THEN 1 ELSE 0)
    BY <2>a, RxOwningCount
  <2>c. \A t \in RxThreads : rxPc[t] = "heap" => total < RX_POOL_N_BLOCKS
    BY RxRoom
  <2>d. ASSUME NEW t \in RxThreads, rxPc[t] = "cmdInit"
        PROVE  rxCmdOut < RX_COMMAND_POOL_N_BLOCKS
    <3>1. IsFiniteSet(RxPreparing) /\ t \in RxPreparing
      BY <2>d, SubsetCount DEF RxPreparing, At
    <3>2. Cardinality(RxPreparing) \in Nat /\ Cardinality(RxPreparing) # 0
      BY <3>1, FS_CardinalityType, FS_EmptySet
    <3>3. QED
      BY <2>a, <3>2 DEF RxInv, RxCommandBuffersConserved
  <2>e. \A t \in RxThreads : t \in RxOwning => ow \in Nat /\ ow > 0
    <3>1. IsFiniteSet(RxOwning)
      BY SubsetCount DEF RxOwning, At
    <3>2. QED
      BY <3>1, FS_CardinalityType, FS_EmptySet
  <2>f. ASSUME NEW t \in RxThreads, rxPc[t] \in {"release", "wrapRelease"}
        PROVE  ow \in Nat /\ ow > 0
    BY <2>e, <2>f DEF RxOwning, At
  <2>g. rxPc' = rxPc => ow' = ow
    BY DEF RxOwning, At
  <2> HIDE DEF ow
  <2>1. ASSUME NEW t \in RxThreads,
               \/ AllocRxCommand(t) \/ RxFetchAdd(t) \/ RxUndoAdd(t) \/ WrapFree(t)
        PROVE  total' = total /\ rxCmdOut' = rxCmdOut
    BY <2>1, <2>a, <2>b DEF AllocRxCommand, RxFetchAdd, RxUndoAdd, WrapFree
  <2>2. ASSUME NEW t \in RxThreads,
               \/ Deliver(t) \/ PbufFree(t) \/ MmnetifRx(t) \/ TcpipInput(t)
        PROVE  total' = total /\ rxCmdOut' = rxCmdOut
    <3>1. CASE Deliver(t)
      BY <3>1, <2>a, <2>b DEF Deliver
    <3>2. CASE PbufFree(t)
      BY <3>2, <2>a, <2>b DEF PbufFree
    <3>3. CASE MmnetifRx(t)
      BY <3>3, <2>a, <2>b DEF MmnetifRx
    <3>4. CASE TcpipInput(t)
      BY <3>4, <2>a, <2>b DEF TcpipInput
    <3>5. QED
      BY <2>2, <3>1, <3>2, <3>3, <3>4
  <2>3. ASSUME NEW t \in RxThreads, RxHeapAlloc(t)
        PROVE  /\ \/ total < RX_POOL_N_BLOCKS /\ total' = total + 1
                  \/ total' = total
               /\ rxCmdOut' = rxCmdOut
    BY <2>3, <2>a, <2>b, <2>c DEF RxHeapAlloc
  <2>4. ASSUME NEW t \in RxThreads, Release(t) \/ WrapRelease(t)
        PROVE  total > 0 /\ total' = total - 1 /\ rxCmdOut' = rxCmdOut
    BY <2>4, <2>a, <2>b, <2>f DEF Release, WrapRelease
  <2>5. ASSUME NEW t \in RxThreads, RxCommandInit(t)
        PROVE  /\ \/ rxCmdOut < RX_COMMAND_POOL_N_BLOCKS /\ rxCmdOut' = rxCmdOut + 1
                  \/ rxCmdOut' = rxCmdOut
               /\ total' = total
    BY <2>5, <2>a, <2>b, <2>d DEF RxCommandInit
  <2>6. CASE FreeRxCommand
    BY <2>6, <2>g DEF FreeRxCommand
  <2>7. CASE UNCHANGED rxVars
    BY <2>7, <2>g DEF rxVars
  <2>8. QED
    BY <2>1, <2>2, <2>3, <2>4, <2>5, <2>6, <2>7 DEF RxNext, RxContinue
<1>3. QED
  BY <1>1, <1>2, RxInvariant, PTL DEF RxSpec, RxImplementsPool, RxPool!PoolSpec

-----------------------------------------------------------------------------
(* The whole, while it is shut down *)

(***************************************************************************)
(* mmhal_wlan_pktmem_deinit disturbs neither half: what is proved of the   *)
(* transmit half and of the receive path holds while the shutdown polls.   *)
(***************************************************************************)
THEOREM PktMemHalves == PktMemSpec => TxSpec /\ RxSpec
<1>1. PktMemInit => TxInit /\ RxInit
  BY DEF PktMemInit
<1>2. [PktMemNext]_pktMemVars => [TxNext]_txVars
  BY DEF PktMemNext, pktMemVars, UseTx, UseRx, DeinitStart, DeinitPoll, DeinitTimeout, TxNext
<1>3. [PktMemNext]_pktMemVars => [RxNext]_rxVars
  BY DEF PktMemNext, pktMemVars, UseTx, UseRx, DeinitStart, DeinitPoll, DeinitTimeout, RxNext
<1>4. QED
  BY <1>1, <1>2, <1>3, PTL DEF PktMemSpec, TxSpec, RxSpec

\* When the loop is left before its iterations are used up: no transmit data
\* packet exists or is being allocated, and every reserved buffer of both
\* directions is in use.  (The loop was meant to be left when none is in use.)
DeinitEarlyExit ==
    [][DeinitPoll /\ deinit' = "done" =>
          /\ txOut = 0 /\ Claiming = {}
          /\ txCmdOut + Cardinality(Preparing) = TX_COMMAND_POOL_N_BLOCKS
          /\ rxCmdOut + Cardinality(RxPreparing) = RX_COMMAND_POOL_N_BLOCKS]_pktMemVars

(***************************************************************************)
(* The loop of mmhal_wlan_pktmem_deinit tests the lengths of the free      *)
(* lists for zero: with a reserve of any size, in any state, it is left    *)
(* early only when the whole reserve is out.                               *)
(***************************************************************************)
THEOREM PktMemEarlyExit == PktMemSpec => DeinitEarlyExit
<1>1. TxInv /\ RxInv /\ [PktMemNext]_pktMemVars =>
        (DeinitPoll /\ deinit' = "done" =>
          /\ txOut = 0 /\ Claiming = {}
          /\ txCmdOut + Cardinality(Preparing) = TX_COMMAND_POOL_N_BLOCKS
          /\ rxCmdOut + Cardinality(RxPreparing) = RX_COMMAND_POOL_N_BLOCKS)
  <2> SUFFICES ASSUME TxInv, RxInv, DeinitPoll, deinit' = "done"
               PROVE  /\ txOut = 0 /\ Claiming = {}
                      /\ txCmdOut + Cardinality(Preparing) = TX_COMMAND_POOL_N_BLOCKS
                      /\ rxCmdOut + Cardinality(RxPreparing) = RX_COMMAND_POOL_N_BLOCKS
    OBVIOUS
  <2>1. txCmdFree = 0 /\ rxCmdFree = 0 /\ txAllocated = 0
    BY DEF DeinitPoll, LoopExit
  <2>2. /\ IsFiniteSet(Claiming) /\ IsFiniteSet(Preparing) /\ IsFiniteSet(RxPreparing)
        /\ Cardinality(Claiming) \in Nat /\ Cardinality(Preparing) \in Nat
        /\ Cardinality(RxPreparing) \in Nat
    BY TxThreadsAssumption, RxPoolAssumption, FS_Subset, FS_CardinalityType
       DEF Claiming, Preparing, RxPreparing, At
  <2>3. txOut = 0 /\ Cardinality(Claiming) = 0
    BY <2>1, <2>2 DEF TxInv, TxTypeOK, Accounting
  <2>4. Claiming = {}
    BY <2>2, <2>3, FS_EmptySet
  <2>5. txCmdOut + Cardinality(Preparing) = TX_COMMAND_POOL_N_BLOCKS
    BY <2>1, <2>2 DEF TxInv, TxTypeOK, CommandBuffersConserved
  <2>6. rxCmdOut + Cardinality(RxPreparing) = RX_COMMAND_POOL_N_BLOCKS
    BY <2>1, <2>2 DEF RxInv, RxTypeOK, RxCommandBuffersConserved
  <2>7. QED
    BY <2>3, <2>4, <2>5, <2>6
<1>2. QED
  BY <1>1, PktMemHalves, TxInvariant, RxInvariant, PTL DEF PktMemSpec, DeinitEarlyExit

=============================================================================
