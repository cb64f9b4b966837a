----------------------------- MODULE EthernetRx -----------------------------
(***************************************************************************)
(* The receiving half of ethernetif.c: a pool of buffers that the DMA      *)
(* fills, the input thread hands to lwIP and lwIP frees again.  The pool   *)
(* is no larger than the number of descriptors, so it is exhausted by the  *)
(* first frame; from then on RxAllocStatus keeps the input thread from the *)
(* HAL until a freed buffer wakes it.                                      *)
(*                                                                         *)
(* The input thread and the threads that free buffers have one priority    *)
(* and no time slices: a call of low_level_input or pbuf_free_custom is    *)
(* one action.  The link thread, which builds the descriptors when it      *)
(* starts the MAC, has a lower priority and can be preempted anywhere.     *)
(***************************************************************************)
EXTENDS Naturals, FiniteSets

CONSTANTS
  Buffer,        \* the buffers of RX_POOL (ETH_RX_BUFFER_CNT)
  RxDescriptors  \* ETH_RX_DESC_CNT

(* With fewer buffers than descriptors the first start would find the pool *)
(* exhausted while nobody holds a buffer that could be freed.              *)
ASSUME RxAssumption ==
  /\ IsFiniteSet(Buffer)
  /\ RxDescriptors \in Nat \ {0}
  /\ RxDescriptors <= Cardinality(Buffer)

VARIABLES
  owner,       \* who has a buffer: the pool, the DMA, a descriptor holding a
               \* frame, the input thread or lwIP
  unbuilt,     \* RxBuildDescCnt: descriptors that wait for a buffer
  allocStatus, \* RxAllocStatus
  rxSem,       \* RxPktSemaphore
  irq,         \* frame received, or no buffer for one, pending in the DMA
  starved,     \* the DMA found no descriptor and is suspended
  mac,         \* EthernetHandle.gState
  input,       \* where the input thread is
  link,        \* where the link thread is in HAL_ETH_Start_IT
  raced        \* history: a buffer was freed while the link thread was preempted
               \* between a failed allocation and the store of its status

vars == <<owner, unbuilt, allocStatus, rxSem, irq, starved, mac, input, link, raced>>

Owner == {"pool", "dma", "filled", "input", "lwip"}
OwnedBy(o) == {b \in Buffer : owner[b] = o}
InDescriptors == {b \in Buffer : owner[b] \in {"dma", "filled"}}
Outside == {b \in Buffer : owner[b] \in {"input", "lwip"}}

TypeOK ==
  /\ owner \in [Buffer -> Owner]
  /\ unbuilt \in 0 .. RxDescriptors
  /\ allocStatus \in {"RX_ALLOC_OK", "RX_ALLOC_ERROR"}
  /\ rxSem \in BOOLEAN /\ irq \in BOOLEAN /\ starved \in BOOLEAN
  /\ mac \in {"READY", "BUSY", "STARTED"}
  /\ input \in {"wait", "read", "deliver"}
  /\ link \in {"run", "build", "mark"}
  /\ raced \in BOOLEAN

Init ==
  /\ owner = [b \in Buffer |-> "pool"]
  /\ unbuilt = RxDescriptors
  /\ allocStatus = "RX_ALLOC_OK"
  /\ rxSem = FALSE /\ irq = FALSE /\ starved = FALSE
  /\ mac = "READY"
  /\ input = "wait"
  /\ link = "run"
  /\ raced = FALSE

-----------------------------------------------------------------------------
(* ethernetif_input_thread *)

take ==
  /\ input = "wait"
  /\ rxSem
  /\ rxSem' = FALSE
  /\ input' = "read"
  /\ UNCHANGED <<owner, unbuilt, allocStatus, irq, starved, mac, link, raced>>

(* What HAL_ETH_RxAllocateCallback leaves behind when asked for n buffers  *)
StatusAfter(n) == IF n > Cardinality(OwnedBy("pool")) THEN "RX_ALLOC_ERROR" ELSE allocStatus

countKept(missing, new) == missing  \* mutant: RxBuildDescCnt is not counted down

Left(missing, new) == missing - Cardinality(new)

noFrame ==
  /\ input' = "wait"
  /\ UNCHANGED <<owner, unbuilt, allocStatus, starved>>

(* HAL_ETH_ReadData takes at most one frame and then fills the descriptors *)
(* without a buffer, as many as the pool allows.                           *)
readData ==
  \E got \in SUBSET OwnedBy("filled"), new \in SUBSET OwnedBy("pool") :
    LET missing == unbuilt + Cardinality(got) IN
    /\ Cardinality(got) = IF OwnedBy("filled") = {} THEN 0 ELSE 1
    /\ \/ Cardinality(new) = missing
       \/ Cardinality(new) < missing /\ new = OwnedBy("pool")
    /\ owner' = [b \in Buffer |-> CASE b \in got -> "input"
                                    [] b \in new -> "dma"
                                    [] OTHER -> owner[b]]
    /\ unbuilt' = Left(missing, new)
    /\ allocStatus' = StatusAfter(missing)
    /\ starved' = (starved /\ new = {})
    /\ input' = IF got = {} THEN "wait" ELSE "deliver"

(* HAL_ETH_ReadData refuses while the MAC is not started.                  *)
low_level_input ==
  /\ input = "read"
  /\ IF allocStatus = "RX_ALLOC_OK" /\ mac = "STARTED" THEN readData ELSE noFrame
  /\ UNCHANGED <<rxSem, irq, mac, link, raced>>

statusKept(b) ==  \* mutant: the thread is woken but the status stays
  /\ owner' = [owner EXCEPT ![b] = "pool"]
  /\ rxSem' = (rxSem \/ allocStatus = "RX_ALLOC_ERROR")
  /\ UNCHANGED allocStatus

signalForgotten(b) ==  \* mutant: the input thread is not woken
  /\ owner' = [owner EXCEPT ![b] = "pool"]
  /\ allocStatus' = "RX_ALLOC_OK"
  /\ UNCHANGED rxSem

pbuf_free_custom(b) ==
  /\ owner' = [owner EXCEPT ![b] = "pool"]
  /\ allocStatus' = "RX_ALLOC_OK"
  /\ rxSem' = (rxSem \/ allocStatus = "RX_ALLOC_ERROR")

(* tcpip_input takes the frame, or has no message or no room in its        *)
(* mailbox for it.                                                         *)
deliver ==
  /\ input = "deliver"
  /\ input' = "read"
  /\ \E b \in OwnedBy("input") :
       \/ owner' = [owner EXCEPT ![b] = "lwip"] /\ UNCHANGED <<allocStatus, rxSem>>
       \/ pbuf_free_custom(b)
  /\ UNCHANGED <<unbuilt, irq, starved, mac, link, raced>>

ethernetif_input_thread == take \/ low_level_input \/ deliver

freed(b) ==
  /\ owner[b] = "lwip"
  /\ pbuf_free_custom(b)
  /\ raced' = (raced \/ link = "mark")
  /\ UNCHANGED <<unbuilt, irq, starved, mac, input, link>>

-----------------------------------------------------------------------------
(* The MAC's DMA and its interrupt *)

frameArrives ==
  /\ mac = "STARTED"
  /\ \E b \in OwnedBy("dma") : owner' = [owner EXCEPT ![b] = "filled"]
  /\ irq' = TRUE
  /\ UNCHANGED <<unbuilt, allocStatus, rxSem, starved, mac, input, link, raced>>

(* A frame is lost, the DMA is suspended until a descriptor is filled.     *)
bufferUnavailable ==
  /\ mac = "STARTED"
  /\ OwnedBy("dma") = {}
  /\ ~starved
  /\ starved' = TRUE
  /\ irq' = TRUE
  /\ UNCHANGED <<owner, unbuilt, allocStatus, rxSem, mac, input, link, raced>>

(* HAL_ETH_RxCpltCallback, and HAL_ETH_ErrorCallback on RBUS               *)
HAL_ETH_RxCpltCallback ==
  /\ mac = "STARTED"
  /\ irq
  /\ irq' = FALSE
  /\ rxSem' = TRUE
  /\ UNCHANGED <<owner, unbuilt, allocStatus, starved, mac, input, link, raced>>

-----------------------------------------------------------------------------
(* The link thread in HAL_ETH_Start_IT and HAL_ETH_Stop_IT *)

LinkRuns == input = "wait" /\ ~rxSem

(* Descriptors that hold a frame nobody read are given back to the DMA.    *)
start ==
  /\ LinkRuns /\ link = "run"
  /\ mac = "READY"
  /\ mac' = "BUSY"
  /\ link' = "build"
  /\ owner' = [b \in Buffer |-> IF owner[b] = "filled" THEN "dma" ELSE owner[b]]
  /\ UNCHANGED <<unbuilt, allocStatus, rxSem, irq, starved, input, raced>>

buildCountsOnly ==  \* mutant: no buffer is attached to the descriptor
  /\ LinkRuns /\ link = "build"
  /\ unbuilt > 0 /\ OwnedBy("pool") # {}
  /\ unbuilt' = unbuilt - 1
  /\ UNCHANGED <<owner, allocStatus, rxSem, irq, starved, mac, input, link, raced>>

build ==
  /\ LinkRuns /\ link = "build"
  /\ unbuilt > 0
  /\ \E b \in OwnedBy("pool") : owner' = [owner EXCEPT ![b] = "dma"]
  /\ unbuilt' = unbuilt - 1
  /\ UNCHANGED <<allocStatus, rxSem, irq, starved, mac, input, link, raced>>

(* LWIP_MEMPOOL_ALLOC has returned NULL; the status is not yet stored.     *)
poolEmpty ==
  /\ LinkRuns /\ link = "build"
  /\ unbuilt > 0 /\ OwnedBy("pool") = {}
  /\ link' = "mark"
  /\ UNCHANGED <<owner, unbuilt, allocStatus, rxSem, irq, starved, mac, input, raced>>

(* All descriptors are built, or the status of the failure is stored.      *)
started ==
  /\ LinkRuns
  /\ \/ link = "build" /\ unbuilt = 0 /\ UNCHANGED allocStatus
     \/ link = "mark" /\ allocStatus' = "RX_ALLOC_ERROR"
  /\ link' = "run"
  /\ mac' = "STARTED"
  /\ starved' = FALSE
  /\ UNCHANGED <<owner, unbuilt, rxSem, irq, input, raced>>

stop ==
  /\ LinkRuns /\ link = "run"
  /\ mac = "STARTED"
  /\ mac' = "READY"
  /\ UNCHANGED <<owner, unbuilt, allocStatus, rxSem, irq, starved, input, link, raced>>

ethernet_link_thread == start \/ build \/ poolEmpty \/ started \/ stop

-----------------------------------------------------------------------------
Next ==
  \/ ethernetif_input_thread
  \/ \E b \in Buffer : freed(b)
  \/ frameArrives \/ bufferUnavailable \/ HAL_ETH_RxCpltCallback
  \/ ethernet_link_thread

Spec == Init /\ [][Next]_vars

(* Frames keep coming, the threads run, and lwIP (in the end the task that *)
(* reads the socket) frees what it was given.                              *)
Fairness ==
  /\ WF_vars(ethernetif_input_thread)
  /\ WF_vars(frameArrives \/ bufferUnavailable) /\ WF_vars(HAL_ETH_RxCpltCallback)
  /\ \A b \in Buffer : WF_vars(freed(b))
  /\ SF_vars(start \/ build \/ poolEmpty \/ started)

FairSpec == Spec /\ Fairness

-----------------------------------------------------------------------------
(* While RxAllocStatus keeps the input thread from the HAL there is a      *)
(* buffer whose release will wake it, until the two threads raced: between *)
(* the link thread's failed allocation and its store of the status all     *)
(* buffers may be freed, by threads that still find RX_ALLOC_OK, and then  *)
(* nobody is left to wake it ("signal the ethernetif_input task").         *)
NoLostWakeup == ~raced /\ allocStatus = "RX_ALLOC_ERROR" => Outside # {}

(* A frame in a descriptor, or a descriptor without a buffer, is never     *)
(* left to a sleeping input thread: one signal may stand for many frames,  *)
(* so the thread must read until nothing is left.                          *)
FramesNoticed ==
  /\ mac = "STARTED" /\ allocStatus = "RX_ALLOC_OK"
  /\ OwnedBy("filled") # {} \/ unbuilt > 0
  => irq \/ rxSem \/ input # "wait"

(* A descriptor lacks a buffer exactly when RxBuildDescCnt counts it, so   *)
(* no buffer of the pool is lost, and none is in two descriptors.          *)
DescriptorsAccounted == Cardinality(InDescriptors) + unbuilt = RxDescriptors

(* However often the pool is exhausted and the MAC restarted, as long as   *)
(* the MAC runs in the end, and the threads did not race, frames go on     *)
(* reaching lwIP.                                                          *)
ReceptionGoesOn == <>[](mac = "STARTED" /\ ~raced) => []<>(input = "deliver")
=============================================================================
