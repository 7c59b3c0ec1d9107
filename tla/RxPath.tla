------------------------------- MODULE RxPath -------------------------------
(***************************************************************************)
(* Receive path: the receive half of the heap packet memory                *)
(* (mmpktmem_heap.c) and the part of the network interface that hands      *)
(* packets to the IP stack (mmnetif_rx in mmnetif.c).  A data packet is    *)
(* charged to rx_pool_allocated; while the stack holds it, it is wrapped   *)
(* in an element of the memory pool RX_POOL, which has as many elements as *)
(* the counter allows packets.  Releasing a wrapped packet gives back the  *)
(* packet first and the wrapper second.                                    *)
(***************************************************************************)
EXTENDS Integers, FiniteSets

CONSTANTS
    RxThreads,      \* tasks that allocate, deliver or release received packets
    RX_POOL_N_BLOCKS,           \* MMPKTMEM_RX_POOL_N_BLOCKS, also size of RX_POOL
    RX_COMMAND_POOL_N_BLOCKS    \* command response buffers in reserve (2)

ASSUME RxPoolAssumption ==
    /\ IsFiniteSet(RxThreads)
    /\ RX_POOL_N_BLOCKS \in Nat
    /\ RX_COMMAND_POOL_N_BLOCKS \in Nat

VARIABLES
    rxAllocated,    \* rx_pool_allocated
    rxCmdFree,      \* length of rx_command_pool_free_list
    rxCmdOut,       \* command responses the driver holds, from the reserve
    rxHeld,         \* data packets the driver holds, not delivered yet
    wrappers,       \* free elements of RX_POOL
    inStack,        \* wrapped packets the IP stack holds
    rxPc            \* next step of each task

rxVars == <<rxAllocated, rxCmdFree, rxCmdOut, rxHeld, wrappers, inStack, rxPc>>

RxPlaces == {"idle", "cmdInit", "heap", "undo", "netifRx", "release", "input",
             "wrapRelease", "wrapFree"}

At(places) == {t \in RxThreads : rxPc[t] \in places}

\* Tasks that account for one unit of rxAllocated, that own a data packet,
\* and that own an element of RX_POOL.
RxClaiming == At({"heap", "undo", "netifRx", "release", "input", "wrapRelease"})
RxGranted == At({"heap", "netifRx", "release", "input", "wrapRelease"})
Wrapping == At({"input", "wrapRelease", "wrapFree"})
\* Tasks that hold a command response buffer they have not handed out yet.
RxPreparing == At({"cmdInit"})

RxGoto(t, place) == rxPc' = [rxPc EXCEPT ![t] = place]

RxInit ==
    /\ rxAllocated = 0
    /\ rxCmdFree = RX_COMMAND_POOL_N_BLOCKS
    /\ rxCmdOut = 0
    /\ rxHeld = 0
    /\ wrappers = RX_POOL_N_BLOCKS
    /\ inStack = 0
    /\ rxPc = [t \in RxThreads |-> "idle"]

-----------------------------------------------------------------------------
(* mmhal_wlan_alloc_mmpkt_for_rx *)

\* A command response takes a buffer of the reserve.  (When the free list is
\* empty it comes from the heap, charged to no counter: nothing here changes.)
AllocRxCommand(t) ==
    /\ rxPc[t] = "idle"
    /\ rxCmdFree > 0
    /\ rxCmdFree' = rxCmdFree - 1
    /\ RxGoto(t, "cmdInit")
    /\ UNCHANGED <<rxAllocated, rxCmdOut, rxHeld, wrappers, inStack>>

RxCommandInit_BufferDropped(t) ==
    /\ rxPc[t] = "cmdInit"
    /\ RxGoto(t, "idle")
    /\ \/ rxCmdOut' = rxCmdOut + 1
       \/ UNCHANGED rxCmdOut
    /\ UNCHANGED <<rxAllocated, rxCmdFree, rxHeld, wrappers, inStack>>

\* The response fits the buffer, or the buffer goes back and the heap is used.
RxCommandInit(t) ==
    /\ rxPc[t] = "cmdInit"
    /\ RxGoto(t, "idle")
    /\ \/ /\ rxCmdOut' = rxCmdOut + 1
          /\ UNCHANGED rxCmdFree
       \/ /\ rxCmdFree' = rxCmdFree + 1
          /\ UNCHANGED rxCmdOut
    /\ UNCHANGED <<rxAllocated, rxHeld, wrappers, inStack>>

RxFetchAdd_LimitOffByOne(t) ==
    /\ rxPc[t] = "idle"
    /\ rxAllocated' = rxAllocated + 1
    /\ RxGoto(t, IF rxAllocated > RX_POOL_N_BLOCKS THEN "undo" ELSE "heap")
    /\ UNCHANGED <<rxCmdFree, rxCmdOut, rxHeld, wrappers, inStack>>

\* A data or management frame: atomic_fetch_add and the check of the limit.
RxFetchAdd(t) ==
    /\ rxPc[t] = "idle"
    /\ rxAllocated' = rxAllocated + 1
    /\ RxGoto(t, IF rxAllocated >= RX_POOL_N_BLOCKS THEN "undo" ELSE "heap")
    /\ UNCHANGED <<rxCmdFree, rxCmdOut, rxHeld, wrappers, inStack>>

RxHeapAlloc(t) ==
    /\ rxPc[t] = "heap"
    /\ \/ /\ RxGoto(t, "idle")
          /\ rxHeld' = rxHeld + 1
       \/ /\ RxGoto(t, "undo")
          /\ UNCHANGED rxHeld
    /\ UNCHANGED <<rxAllocated, rxCmdFree, rxCmdOut, wrappers, inStack>>

RxUndoAdd(t) ==
    /\ rxPc[t] = "undo"
    /\ rxAllocated' = rxAllocated - 1
    /\ RxGoto(t, "idle")
    /\ UNCHANGED <<rxCmdFree, rxCmdOut, rxHeld, wrappers, inStack>>

-----------------------------------------------------------------------------
(* mmnetif_rx and the release of packets *)

\* The driver delivers a packet to the callback, or drops it itself.
Deliver(t) ==
    /\ rxPc[t] = "idle"
    /\ rxHeld > 0
    /\ rxHeld' = rxHeld - 1
    /\ \/ RxGoto(t, "netifRx")
       \/ RxGoto(t, "release")
    /\ UNCHANGED <<rxAllocated, rxCmdFree, rxCmdOut, wrappers, inStack>>

\* A packet of another VIF is released; otherwise it is wrapped, or released
\* when RX_POOL is empty.
MmnetifRx(t) ==
    /\ rxPc[t] = "netifRx"
    /\ \E otherVif \in BOOLEAN :
          \/ /\ otherVif \/ wrappers = 0
             /\ RxGoto(t, "release")
             /\ UNCHANGED wrappers
          \/ /\ ~otherVif /\ wrappers > 0
             /\ wrappers' = wrappers - 1
             /\ RxGoto(t, "input")
    /\ UNCHANGED <<rxAllocated, rxCmdFree, rxCmdOut, rxHeld, inStack>>

TcpipInput_ErrorNotFreed(t) ==
    /\ rxPc[t] = "input"
    /\ RxGoto(t, "idle")
    /\ \/ inStack' = inStack + 1
       \/ UNCHANGED inStack
    /\ UNCHANGED <<rxAllocated, rxCmdFree, rxCmdOut, rxHeld, wrappers>>

\* tcpip_input queues the pbuf for the stack; when it refuses, pbuf_free.
TcpipInput(t) ==
    /\ rxPc[t] = "input"
    /\ \/ /\ RxGoto(t, "idle")
          /\ inStack' = inStack + 1
       \/ /\ RxGoto(t, "wrapRelease")
          /\ UNCHANGED inStack
    /\ UNCHANGED <<rxAllocated, rxCmdFree, rxCmdOut, rxHeld, wrappers>>

\* The stack or an application is done with a pbuf: pbuf_free.
PbufFree(t) ==
    /\ rxPc[t] = "idle"
    /\ inStack > 0
    /\ inStack' = inStack - 1
    /\ RxGoto(t, "wrapRelease")
    /\ UNCHANGED <<rxAllocated, rxCmdFree, rxCmdOut, rxHeld, wrappers>>

\* mmpkt_pbuf_wrapper_free, first part: mmpkt_release, hence rx_pkt_free.
WrapRelease(t) ==
    /\ rxPc[t] = "wrapRelease"
    /\ rxAllocated' = rxAllocated - 1
    /\ RxGoto(t, "wrapFree")
    /\ UNCHANGED <<rxCmdFree, rxCmdOut, rxHeld, wrappers, inStack>>

WrapFree_Forgotten(t) ==
    /\ rxPc[t] = "wrapFree"
    /\ RxGoto(t, "idle")
    /\ UNCHANGED <<rxAllocated, rxCmdFree, rxCmdOut, rxHeld, wrappers, inStack>>

\* Second part: LWIP_MEMPOOL_FREE.
WrapFree(t) ==
    /\ rxPc[t] = "wrapFree"
    /\ wrappers' = wrappers + 1
    /\ RxGoto(t, "idle")
    /\ UNCHANGED <<rxAllocated, rxCmdFree, rxCmdOut, rxHeld, inStack>>

Release_Uncounted(t) ==
    /\ rxPc[t] = "release"
    /\ RxGoto(t, "idle")
    /\ UNCHANGED <<rxAllocated, rxCmdFree, rxCmdOut, rxHeld, wrappers, inStack>>

\* mmpkt_release of a packet that has no wrapper: rx_pkt_free.
Release(t) ==
    /\ rxPc[t] = "release"
    /\ rxAllocated' = rxAllocated - 1
    /\ RxGoto(t, "idle")
    /\ UNCHANGED <<rxCmdFree, rxCmdOut, rxHeld, wrappers, inStack>>

\* rx_command_reserved_free.
FreeRxCommand ==
    /\ rxCmdOut > 0
    /\ rxCmdOut' = rxCmdOut - 1
    /\ rxCmdFree' = rxCmdFree + 1
    /\ UNCHANGED <<rxAllocated, rxHeld, wrappers, inStack, rxPc>>

-----------------------------------------------------------------------------

RxContinue(t) ==
    \/ RxCommandInit(t) \/ RxHeapAlloc(t) \/ RxUndoAdd(t)
    \/ MmnetifRx(t) \/ TcpipInput(t) \/ Release(t)
    \/ WrapRelease(t) \/ WrapFree(t)

RxNext ==
    \/ \E t \in RxThreads :
          \/ AllocRxCommand(t) \/ RxFetchAdd(t)
          \/ Deliver(t) \/ PbufFree(t)
          \/ RxContinue(t)
    \/ FreeRxCommand

RxSpec == RxInit /\ [][RxNext]_rxVars

-----------------------------------------------------------------------------
(* Properties *)

RxTypeOK ==
    /\ rxAllocated \in Nat
    /\ rxCmdFree \in 0..RX_COMMAND_POOL_N_BLOCKS
    /\ rxCmdOut \in Nat
    /\ rxHeld \in Nat
    /\ wrappers \in 0..RX_POOL_N_BLOCKS
    /\ inStack \in Nat
    /\ rxPc \in [RxThreads -> RxPlaces]

\* Every unit of the counter is one packet in exactly one place: no drop path
\* of mmnetif_rx (other VIF, no wrapper, refused by the stack) leaks a packet
\* or releases it twice.
RxAccounting == rxAllocated = rxHeld + inStack + Cardinality(RxClaiming)

\* The data packets that exist never exceed MMPKTMEM_RX_POOL_N_BLOCKS.
RxPoolLimit == rxHeld + inStack + Cardinality(RxGranted) <= RX_POOL_N_BLOCKS

\* Wrappers are conserved, and one is held exactly while a packet is in the
\* stack or on its way in or out.
WrappersConserved == wrappers + inStack + Cardinality(Wrapping) = RX_POOL_N_BLOCKS

\* RX_POOL is as large as the packet limit, so a packet finds it empty only
\* while some other task is between giving back a packet and giving back its
\* wrapper (mmpkt_pbuf_wrapper_free frees in that order).
WrapperShortageIsTransient ==
    (wrappers = 0 /\ At({"netifRx"}) # {}) => At({"wrapFree"}) # {}

\* Response buffers are neither lost nor duplicated.
RxCommandBuffersConserved ==
    rxCmdFree + rxCmdOut + Cardinality(RxPreparing) = RX_COMMAND_POOL_N_BLOCKS

\* Tasks that hold a data packet between the driver, the interface and the stack.
RxOwning == At({"netifRx", "release", "input", "wrapRelease"})

RxPool == INSTANCE PacketPool
            WITH N <- RX_POOL_N_BLOCKS, C <- RX_COMMAND_POOL_N_BLOCKS,
                 out <- rxHeld + inStack + Cardinality(RxOwning), cmdOut <- rxCmdOut

\* To its users the receive memory is the same kind of pool, wherever a packet is
\* on its way through mmnetif_rx and the stack: a packet counts from the moment
\* it is allocated to the moment it is released, on every drop path once.
RxImplementsPool == RxPool!PoolSpec

\* The inductive invariant.
RxInv ==
    /\ RxTypeOK
    /\ RxAccounting
    /\ RxPoolLimit
    /\ WrappersConserved
    /\ RxCommandBuffersConserved

=============================================================================
