-------------------------- MODULE EthernetRxProofs --------------------------
(***************************************************************************)
(* For every pool and every number of descriptors it can serve: no buffer  *)
(* of the receive path is lost (DescriptorsAccounted), and unless the link *)
(* thread is preempted at one place, RxAllocStatus never stops the input   *)
(* thread for good (NoLostWakeup), however often the MAC is restarted.     *)
(*                                                                         *)
(* Argument.  The first is inductive with the types: a step moves buffers  *)
(* into descriptors exactly as it counts RxBuildDescCnt down.  The second  *)
(* follows by counting: when an allocation fails the pool is empty and a   *)
(* descriptor lacks a buffer, so fewer buffers than there are can be in    *)
(* descriptors, and the rest is with the input thread or lwIP.  MarkInv    *)
(* says that this is still so when the link thread stores its failure.     *)
(* The last part shows that no received frame is forgotten                 *)
(* (FramesNoticed): the MAC receives only when it runs, and is started     *)
(* only with no frame in its descriptors (BusyInv); and that the path      *)
(* never runs out of steps of its own (ReceptionGoing).                    *)
(***************************************************************************)
EXTENDS EthernetRx, FiniteSetTheorems, TLAPS

CountInv == TypeOK /\ DescriptorsAccounted

MarkInv ==
  /\ link # "run" => mac # "STARTED"
  /\ link = "mark" => OwnedBy("pool") = {} /\ unbuilt > 0 /\ input = "wait" /\ ~rxSem

IInv == CountInv /\ (~raced => MarkInv /\ NoLostWakeup)

-----------------------------------------------------------------------------
(* Every set of buffers is finite, and one that is not all of them is      *)
(* smaller than the pool.                                                  *)
LEMMA BufferSets ==
  ASSUME NEW S \in SUBSET Buffer
  PROVE  /\ IsFiniteSet(S)
         /\ Cardinality(S) \in Nat
         /\ Cardinality(S) <= Cardinality(Buffer)
         /\ Cardinality(S) = Cardinality(Buffer) => S = Buffer
<1>1. IsFiniteSet(S) /\ Cardinality(S) <= Cardinality(Buffer)
      /\ (Cardinality(S) = Cardinality(Buffer) => S = Buffer)
  BY FS_Subset, RxAssumption, Zenon
<1> QED
  BY <1>1, FS_CardinalityType

(* Attaching buffers of the pool to descriptors, and taking buffers out of *)
(* them, changes the count of attached ones by as much.                    *)
LEMMA Exchange ==
  ASSUME NEW S \in SUBSET Buffer, NEW got \in SUBSET S,
         NEW new \in SUBSET Buffer, new \cap S = {}
  PROVE  Cardinality((S \ got) \cup new)
           = Cardinality(S) - Cardinality(got) + Cardinality(new)
<1>1. IsFiniteSet(S) /\ IsFiniteSet(new) /\ IsFiniteSet(S \ got)
  BY BufferSets
<1>2. Cardinality(S \ got) = Cardinality(S) - Cardinality(got)
  <2>1. S \cap got = got
    OBVIOUS
  <2> QED
    BY <1>1, <2>1, FS_Difference
<1>3. Cardinality((S \ got) \cup new) = Cardinality(S \ got) + Cardinality(new) - Cardinality({})
  <2>1. (S \ got) \cap new = {}
    OBVIOUS
  <2> QED
    BY <1>1, <2>1, FS_Union
<1> QED
  BY <1>2, <1>3, FS_EmptySet, BufferSets

-----------------------------------------------------------------------------
(* CountInv is inductive *)

(* The invariant of the count holds initially: no descriptor has a buffer. *)
LEMMA CountInit == Init => CountInv
<1> SUFFICES ASSUME Init PROVE CountInv
  OBVIOUS
<1>1. TypeOK
  <2>1. unbuilt \in 0 .. RxDescriptors
    BY RxAssumption DEF Init
  <2>2. owner \in [Buffer -> Owner]
    BY DEF Init, Owner
  <2> QED
    BY <2>1, <2>2 DEF Init, TypeOK
<1>2. InDescriptors = {}
  BY DEF Init, InDescriptors
<1> QED
  BY <1>1, <1>2, FS_EmptySet, RxAssumption DEF CountInv, DescriptorsAccounted, Init

(* HAL_ETH_ReadData: the frame taken out is counted up, the buffers put in *)
(* are counted down.                                                       *)
LEMMA CountReadData ==
  ASSUME CountInv, low_level_input, readData
  PROVE  CountInv'
<1>1. PICK got \in SUBSET OwnedBy("filled"), new \in SUBSET OwnedBy("pool") :
        /\ Cardinality(new) <= unbuilt + Cardinality(got)
        /\ owner' = [b \in Buffer |-> CASE b \in got -> "input"
                                        [] b \in new -> "dma"
                                        [] OTHER -> owner[b]]
        /\ unbuilt' = unbuilt + Cardinality(got) - Cardinality(new)
        /\ allocStatus' = StatusAfter(unbuilt + Cardinality(got))
        /\ starved' = (starved /\ new = {})
        /\ input' \in {"wait", "deliver"}
  BY BufferSets DEF readData, Left, OwnedBy, CountInv, TypeOK
<1>2. /\ got \in SUBSET InDescriptors /\ new \in SUBSET Buffer
      /\ new \cap InDescriptors = {} /\ got \cap new = {}
  BY DEF OwnedBy, InDescriptors
<1>3. InDescriptors' = (InDescriptors \ got) \cup new
  BY <1>1, <1>2 DEF InDescriptors, OwnedBy
<1>4. InDescriptors \in SUBSET Buffer
  BY DEF InDescriptors
<1>5. Cardinality(InDescriptors') = Cardinality(InDescriptors) - Cardinality(got) + Cardinality(new)
  BY <1>2, <1>3, <1>4, Exchange
<1>6. /\ Cardinality(got) \in Nat /\ Cardinality(new) \in Nat
      /\ Cardinality(InDescriptors) \in Nat /\ Cardinality(InDescriptors') \in Nat
  <2>1. got \in SUBSET Buffer /\ InDescriptors' \in SUBSET Buffer
    BY <1>2, <1>3, <1>4
  <2> QED
    BY <1>2, <1>4, <2>1, BufferSets
<1>7. unbuilt \in Nat /\ Cardinality(InDescriptors) + unbuilt = RxDescriptors
  BY RxAssumption DEF CountInv, TypeOK, DescriptorsAccounted
<1>8. Cardinality(InDescriptors') + unbuilt' = RxDescriptors /\ unbuilt' \in Nat
  BY <1>1, <1>5, <1>6, <1>7
<1>9. owner' \in [Buffer -> Owner]
  BY <1>1 DEF CountInv, TypeOK, Owner
<1>10. allocStatus' \in {"RX_ALLOC_OK", "RX_ALLOC_ERROR"}
  BY <1>1 DEF StatusAfter, CountInv, TypeOK
<1>11. starved' \in BOOLEAN
  BY <1>1, Zenon
<1>12. unbuilt' \in 0 .. RxDescriptors
  BY <1>6, <1>8, RxAssumption
<1>13. TypeOK'
  BY <1>1, <1>9, <1>10, <1>11, <1>12 DEF CountInv, TypeOK, low_level_input
<1> QED
  BY <1>8, <1>13 DEF CountInv, DescriptorsAccounted

(* The link thread attaches one buffer and counts one descriptor down.     *)
LEMMA CountBuild ==
  ASSUME CountInv, build
  PROVE  CountInv'
<1>1. PICK b \in OwnedBy("pool") : owner' = [owner EXCEPT ![b] = "dma"]
  BY DEF build
<1>2. b \in Buffer /\ b \notin InDescriptors /\ InDescriptors \in SUBSET Buffer
  BY DEF OwnedBy, InDescriptors
<1>3. InDescriptors' = InDescriptors \cup {b}
  BY <1>1, <1>2 DEF InDescriptors, OwnedBy, CountInv, TypeOK
<1>4. Cardinality(InDescriptors') = Cardinality(InDescriptors) + 1
  BY <1>2, <1>3, FS_AddElement, BufferSets
<1>5. Cardinality(InDescriptors) \in Nat
  BY <1>2, BufferSets
<1>6. TypeOK'
  <2>1. unbuilt' \in 0 .. RxDescriptors
    BY RxAssumption DEF CountInv, TypeOK, build
  <2>2. owner' \in [Buffer -> Owner]
    BY <1>1, <1>2 DEF CountInv, TypeOK, Owner
  <2> QED
    BY <2>1, <2>2 DEF CountInv, TypeOK, build
<1> QED
  BY <1>4, <1>5, <1>6, RxAssumption DEF CountInv, DescriptorsAccounted, TypeOK, build

(* Every other step moves no buffer into or out of a descriptor.           *)
LEMMA CountSame ==
  ASSUME CountInv, TypeOK', InDescriptors' = InDescriptors, unbuilt' = unbuilt
  PROVE  CountInv'
  BY DEF CountInv, DescriptorsAccounted

(* The invariant of the count holds after every step.                      *)
LEMMA CountNext == CountInv /\ [Next]_vars => CountInv'
<1> SUFFICES ASSUME CountInv, [Next]_vars PROVE CountInv'
  OBVIOUS
<1> USE DEF CountInv
<1>1. CASE take
  <2>1. TypeOK' BY <1>1 DEF take, TypeOK
  <2> QED BY <1>1, <2>1, CountSame DEF take, InDescriptors
<1>2. CASE low_level_input
  <2>1. CASE readData
    BY <1>2, <2>1, CountReadData
  <2>2. CASE noFrame
    <3>1. TypeOK' BY <1>2, <2>2 DEF noFrame, low_level_input, TypeOK
    <3> QED BY <2>2, <3>1, CountSame DEF noFrame, InDescriptors
  <2> QED BY <1>2, <2>1, <2>2 DEF low_level_input
<1>3. CASE deliver
  <2>1. PICK b \in OwnedBy("input") :
          \/ owner' = [owner EXCEPT ![b] = "lwip"] /\ UNCHANGED <<allocStatus, rxSem>>
          \/ pbuf_free_custom(b)
    BY <1>3 DEF deliver
  <2>2. TypeOK'
    BY <1>3, <2>1 DEF deliver, pbuf_free_custom, TypeOK, Owner
  <2>3. InDescriptors' = InDescriptors
    BY <2>1 DEF OwnedBy, InDescriptors, pbuf_free_custom, TypeOK
  <2> QED BY <1>3, <2>2, <2>3, CountSame DEF deliver
<1>4. ASSUME NEW b \in Buffer, freed(b) PROVE CountInv'
  <2>1. TypeOK' BY <1>4 DEF freed, pbuf_free_custom, TypeOK, Owner
  <2>2. InDescriptors' = InDescriptors
    BY <1>4 DEF freed, pbuf_free_custom, InDescriptors, TypeOK
  <2> QED BY <1>4, <2>1, <2>2, CountSame DEF freed
<1>5. CASE frameArrives
  <2>1. PICK b \in OwnedBy("dma") : owner' = [owner EXCEPT ![b] = "filled"]
    BY <1>5 DEF frameArrives
  <2>2. TypeOK' BY <1>5, <2>1 DEF frameArrives, TypeOK, Owner
  <2>3. InDescriptors' = InDescriptors
    BY <2>1 DEF OwnedBy, InDescriptors, TypeOK
  <2> QED BY <1>5, <2>2, <2>3, CountSame DEF frameArrives
<1>6. CASE bufferUnavailable
  <2>1. TypeOK' BY <1>6 DEF bufferUnavailable, TypeOK
  <2> QED BY <1>6, <2>1, CountSame DEF bufferUnavailable, InDescriptors
<1>7. CASE HAL_ETH_RxCpltCallback
  <2>1. TypeOK' BY <1>7 DEF HAL_ETH_RxCpltCallback, TypeOK
  <2> QED BY <1>7, <2>1, CountSame DEF HAL_ETH_RxCpltCallback, InDescriptors
<1>8. CASE start
  <2>1. TypeOK' BY <1>8 DEF start, TypeOK, Owner
  <2>2. InDescriptors' = InDescriptors BY <1>8 DEF start, InDescriptors, TypeOK
  <2> QED BY <1>8, <2>1, <2>2, CountSame DEF start
<1>9. CASE build
  BY <1>9, CountBuild
<1>10. CASE poolEmpty
  <2>1. TypeOK' BY <1>10 DEF poolEmpty, TypeOK
  <2> QED BY <1>10, <2>1, CountSame DEF poolEmpty, InDescriptors
<1>11. CASE started
  <2>1. TypeOK' BY <1>11 DEF started, TypeOK
  <2> QED BY <1>11, <2>1, CountSame DEF started, InDescriptors
<1>12. CASE stop
  <2>1. TypeOK' BY <1>12 DEF stop, TypeOK
  <2> QED BY <1>12, <2>1, CountSame DEF stop, InDescriptors
<1>13. CASE UNCHANGED vars
  <2>1. TypeOK' BY <1>13 DEF vars, TypeOK
  <2> QED BY <1>13, <2>1, CountSame DEF vars, InDescriptors
<1> QED
  BY <1>1, <1>2, <1>3, <1>4, <1>5, <1>6, <1>7, <1>8, <1>9, <1>10, <1>11, <1>12, <1>13
     DEF Next, ethernetif_input_thread, ethernet_link_thread

(* DescriptorsAccounted holds for every pool, also when the MAC is started *)
(* again and again.                                                        *)
THEOREM NoBufferLost == Spec => []DescriptorsAccounted
<1>1. CountInv => DescriptorsAccounted
  BY DEF CountInv
<1> QED
  BY <1>1, CountInit, CountNext, PTL DEF Spec

-----------------------------------------------------------------------------
(* NoLostWakeup *)

(* With the pool empty and a descriptor without a buffer, somebody outside *)
(* has one: the counting argument.                                         *)
LEMMA SomebodyHasOne ==
  CountInv /\ OwnedBy("pool") = {} /\ unbuilt > 0 => Outside # {}
<1> SUFFICES ASSUME CountInv, OwnedBy("pool") = {}, unbuilt > 0, Outside = {} PROVE FALSE
  OBVIOUS
<1>1. InDescriptors = Buffer
  BY DEF InDescriptors, Outside, OwnedBy, CountInv, TypeOK, Owner
<1>2. Cardinality(Buffer) + unbuilt = RxDescriptors
  BY <1>1 DEF CountInv, DescriptorsAccounted
<1>3. Cardinality(Buffer) \in Nat
  BY BufferSets
<1> QED
  BY <1>2, <1>3, RxAssumption DEF CountInv, TypeOK

(* When the HAL runs out of buffers while it rebuilds, the pool is empty   *)
(* afterwards and RxBuildDescCnt is not 0.                                 *)
LEMMA ReadDataExhausts ==
  ASSUME CountInv, readData, allocStatus = "RX_ALLOC_OK", allocStatus' = "RX_ALLOC_ERROR"
  PROVE  OwnedBy("pool")' = {} /\ unbuilt' > 0
<1>1. PICK got \in SUBSET OwnedBy("filled"), new \in SUBSET OwnedBy("pool") :
        /\ \/ Cardinality(new) = unbuilt + Cardinality(got)
           \/ Cardinality(new) < unbuilt + Cardinality(got) /\ new = OwnedBy("pool")
        /\ owner' = [b \in Buffer |-> CASE b \in got -> "input"
                                        [] b \in new -> "dma"
                                        [] OTHER -> owner[b]]
        /\ unbuilt' = unbuilt + Cardinality(got) - Cardinality(new)
        /\ allocStatus' = StatusAfter(unbuilt + Cardinality(got))
  BY BufferSets DEF readData, Left, OwnedBy, CountInv, TypeOK
<1>2. OwnedBy("pool") \in SUBSET Buffer /\ got \in SUBSET Buffer /\ new \in SUBSET Buffer
  BY DEF OwnedBy
<1>3. /\ Cardinality(OwnedBy("pool")) \in Nat /\ Cardinality(got) \in Nat
      /\ Cardinality(new) \in Nat /\ unbuilt \in Nat
  BY <1>2, BufferSets DEF CountInv, TypeOK
<1>4. unbuilt + Cardinality(got) > Cardinality(OwnedBy("pool"))
  BY <1>1 DEF StatusAfter
<1>5. Cardinality(new) <= Cardinality(OwnedBy("pool"))
  BY <1>2, BufferSets, FS_Subset
<1>6. new = OwnedBy("pool")
  BY <1>1, <1>3, <1>4, <1>5
<1>7. OwnedBy("pool")' = {}
  BY <1>1, <1>6 DEF OwnedBy
<1> QED
  BY <1>1, <1>3, <1>4, <1>6, <1>7

(* Once the threads raced, they have; a step after which they did not      *)
(* frees nothing in the link thread's window.                              *)
LEMMA RacedStays ==
  ASSUME TypeOK, ~raced', [Next]_vars
  PROVE  ~raced /\ (link = "mark" => \A b \in Buffer : ~freed(b))
<1>1. ASSUME NEW b \in Buffer, freed(b) PROVE ~raced /\ link # "mark"
  BY <1>1, Zenon DEF freed
<1>2. CASE \A b \in Buffer : ~freed(b)
  <2>1. raced' = raced
    BY <1>2 DEF Next, vars, ethernetif_input_thread, take, low_level_input, deliver,
       frameArrives, bufferUnavailable, HAL_ETH_RxCpltCallback, ethernet_link_thread,
       start, build, poolEmpty, started, stop
  <2> QED BY <1>2, <2>1
<1> QED
  BY <1>1, <1>2

(* Between the link thread's failed allocation and its store nobody else   *)
(* moves a buffer: the MAC is not running, and the input thread sleeps.    *)
LEMMA MarkNext ==
  ASSUME IInv, ~raced', [Next]_vars
  PROVE  MarkInv'
<1> USE RacedStays DEF IInv, CountInv, MarkInv
<1>1. CASE ethernetif_input_thread
  <2>1. link # "mark" /\ UNCHANGED <<link, mac>>
    BY <1>1 DEF ethernetif_input_thread, take, low_level_input, deliver
  <2> QED BY <2>1
<1>2. ASSUME NEW b \in Buffer, freed(b) PROVE MarkInv'
  <2>1. link # "mark" /\ UNCHANGED <<link, mac>>
    BY <1>2, RacedStays DEF freed
  <2> QED BY <2>1
<1>3. CASE frameArrives \/ bufferUnavailable \/ HAL_ETH_RxCpltCallback
  <2>1. link = "run" /\ UNCHANGED <<link, mac>>
    BY <1>3 DEF frameArrives, bufferUnavailable, HAL_ETH_RxCpltCallback
  <2> QED BY <2>1
<1>4. CASE start \/ build
  <2>1. link' = "build" /\ mac' # "STARTED"
    BY <1>4 DEF start, build
  <2> QED BY <2>1
<1>5. CASE poolEmpty
  <2>1. OwnedBy("pool")' = OwnedBy("pool")
    BY <1>5 DEF poolEmpty, OwnedBy
  <2> QED BY <1>5, <2>1 DEF poolEmpty, LinkRuns
<1>6. CASE started \/ stop
  BY <1>6 DEF started, stop
<1>7. CASE UNCHANGED vars
  <2>1. OwnedBy("pool")' = OwnedBy("pool")
    BY <1>7 DEF vars, OwnedBy
  <2> QED BY <1>7, <2>1 DEF vars
<1> QED
  BY <1>1, <1>2, <1>3, <1>4, <1>5, <1>6, <1>7 DEF Next, ethernet_link_thread

(* A step that sets RX_ALLOC_ERROR, or takes a buffer from its last        *)
(* holder, leaves the status and the holders in agreement.                 *)
LEMMA WakeupNext ==
  ASSUME IInv, ~raced', CountInv', [Next]_vars
  PROVE  NoLostWakeup'
<1> USE RacedStays DEF IInv, CountInv, MarkInv, NoLostWakeup
<1>1. CASE take
  BY <1>1 DEF take, Outside
<1>2. CASE low_level_input
  <2>1. CASE noFrame
    BY <2>1 DEF noFrame, Outside
  <2>2. CASE readData /\ allocStatus = "RX_ALLOC_OK" /\ allocStatus' = "RX_ALLOC_ERROR"
    <3>1. OwnedBy("pool")' = {} /\ unbuilt' > 0
      BY <2>2, ReadDataExhausts
    <3>2. (CountInv /\ OwnedBy("pool") = {} /\ unbuilt > 0 => Outside # {})'
      BY SomebodyHasOne, PTL
    <3> QED BY <3>1, <3>2
  <2>3. CASE allocStatus' # "RX_ALLOC_ERROR"
    BY <2>3
  <2> QED BY <1>2, <2>1, <2>2, <2>3 DEF low_level_input
<1>3. CASE deliver
  BY <1>3 DEF deliver, pbuf_free_custom, Outside, OwnedBy, TypeOK
<1>4. ASSUME NEW b \in Buffer, freed(b) PROVE NoLostWakeup'
  BY <1>4 DEF freed, pbuf_free_custom
<1>5. CASE frameArrives
  <2>1. PICK b \in OwnedBy("dma") : owner' = [owner EXCEPT ![b] = "filled"]
    BY <1>5 DEF frameArrives
  <2>2. Outside' = Outside
    BY <2>1 DEF Outside, OwnedBy, TypeOK
  <2> QED BY <1>5, <2>2 DEF frameArrives
<1>6. CASE bufferUnavailable \/ HAL_ETH_RxCpltCallback
  BY <1>6 DEF bufferUnavailable, HAL_ETH_RxCpltCallback, Outside
<1>7. CASE start
  BY <1>7 DEF start, Outside, TypeOK
<1>8. CASE build
  <2>1. PICK b \in OwnedBy("pool") : owner' = [owner EXCEPT ![b] = "dma"]
    BY <1>8 DEF build
  <2>2. Outside' = Outside
    BY <2>1 DEF Outside, OwnedBy, TypeOK
  <2> QED BY <1>8, <2>2 DEF build
<1>9. CASE poolEmpty
  BY <1>9 DEF poolEmpty, Outside
<1>10. CASE started
  <2>1. Outside' = Outside
    BY <1>10 DEF started, Outside
  <2>2. link = "mark" => Outside # {}
    BY SomebodyHasOne
  <2> QED BY <1>10, <2>1, <2>2 DEF started
<1>11. CASE stop
  BY <1>11 DEF stop, Outside
<1>12. CASE UNCHANGED vars
  BY <1>12 DEF vars, Outside
<1> QED
  BY <1>1, <1>2, <1>3, <1>4, <1>5, <1>6, <1>7, <1>8, <1>9, <1>10, <1>11, <1>12
     DEF Next, ethernetif_input_thread, ethernet_link_thread

(* Unless a buffer was freed between the link thread's failed allocation   *)
(* and its store, the input thread is never kept from the HAL without a    *)
(* buffer outside whose release will wake it.                              *)
THEOREM WakeupKept == Spec => []NoLostWakeup
<1>1. Init => IInv
  <2>1. ASSUME Init PROVE MarkInv /\ NoLostWakeup
    BY <2>1 DEF Init, MarkInv, NoLostWakeup
  <2> QED BY <2>1, CountInit DEF IInv
<1>2. IInv /\ [Next]_vars => IInv'
  <2>1. IInv /\ [Next]_vars => CountInv'
    BY CountNext DEF IInv
  <2> QED
    BY <2>1, MarkNext, WakeupNext DEF IInv
<1>3. IInv => NoLostWakeup
  BY DEF IInv, NoLostWakeup
<1> QED
  BY <1>1, <1>2, <1>3, PTL DEF Spec

-----------------------------------------------------------------------------
(* FramesNoticed *)

(* While the MAC is being started no descriptor holds a frame, and nobody  *)
(* but the link thread starts it.                                          *)
BusyInv ==
  /\ link # "run" <=> mac = "BUSY"
  /\ mac = "BUSY" => OwnedBy("filled") = {}

NoticeInv == CountInv /\ BusyInv /\ FramesNoticed

(* A thread that found no frame and went back to sleep has built all the   *)
(* descriptors, or has the status that says it could not.                  *)
LEMMA ReadDataNotices ==
  ASSUME CountInv, low_level_input, readData
  PROVE  FramesNoticed'
<1>1. PICK got \in SUBSET OwnedBy("filled"), new \in SUBSET OwnedBy("pool") :
        /\ Cardinality(got) = IF OwnedBy("filled") = {} THEN 0 ELSE 1
        /\ \/ Cardinality(new) = unbuilt + Cardinality(got)
           \/ Cardinality(new) < unbuilt + Cardinality(got) /\ new = OwnedBy("pool")
        /\ owner' = [b \in Buffer |-> CASE b \in got -> "input"
                                        [] b \in new -> "dma"
                                        [] OTHER -> owner[b]]
        /\ unbuilt' = Left(unbuilt + Cardinality(got), new)
        /\ allocStatus' = StatusAfter(unbuilt + Cardinality(got))
        /\ starved' = (starved /\ new = {})
        /\ input' = IF got = {} THEN "wait" ELSE "deliver"
  BY Zenon DEF readData
<1>2. /\ OwnedBy("pool") \in SUBSET Buffer /\ OwnedBy("filled") \in SUBSET Buffer
      /\ got \in SUBSET Buffer /\ new \in SUBSET Buffer
  BY DEF OwnedBy
<1>3. /\ Cardinality(OwnedBy("pool")) \in Nat /\ Cardinality(got) \in Nat
      /\ Cardinality(new) \in Nat /\ unbuilt \in Nat
  BY <1>2, BufferSets DEF CountInv, TypeOK
<1>4. CASE got # {}
  BY <1>1, <1>4 DEF FramesNoticed
<1>5. CASE got = {}
  <2>1. Cardinality(got) = 0
    BY <1>5, FS_EmptySet
  <2>2. OwnedBy("filled") = {}
    BY <1>1, <2>1
  <2>3. OwnedBy("filled")' = {}
    <3>1. \A b \in Buffer : owner'[b] = "dma" \/ owner'[b] = owner[b]
      BY <1>1, <1>5
    <3> QED BY <2>2, <3>1 DEF OwnedBy
  <2>4. CASE Cardinality(new) = unbuilt
    BY <1>1, <1>3, <2>1, <2>3, <2>4 DEF FramesNoticed, Left
  <2>5. CASE Cardinality(new) # unbuilt
    <3>1. Cardinality(OwnedBy("pool")) < unbuilt + Cardinality(got)
      BY <1>1, <1>3, <2>1, <2>5
    <3>2. allocStatus' = "RX_ALLOC_ERROR"
      BY <1>1, <1>3, <3>1 DEF StatusAfter
    <3> QED BY <3>2 DEF FramesNoticed
  <2> QED BY <2>4, <2>5
<1> QED
  BY <1>4, <1>5

(* Only the link thread changes gState, and it gives every descriptor back *)
(* to the DMA when it begins to start the MAC.                             *)
LEMMA BusyNext ==
  ASSUME CountInv, BusyInv, [Next]_vars
  PROVE  BusyInv'
<1> USE DEF CountInv, BusyInv, TypeOK
<1>1. CASE take \/ bufferUnavailable \/ HAL_ETH_RxCpltCallback \/ poolEmpty \/ UNCHANGED vars
  <2>1. OwnedBy("filled")' = OwnedBy("filled")
    BY <1>1 DEF take, bufferUnavailable, HAL_ETH_RxCpltCallback, poolEmpty, vars, OwnedBy
  <2> QED
    BY <1>1, <2>1 DEF take, bufferUnavailable, HAL_ETH_RxCpltCallback, poolEmpty, vars
<1>2. CASE low_level_input
  <2>1. UNCHANGED <<link, mac>>
    BY <1>2 DEF low_level_input
  <2>2. mac = "BUSY" => owner' = owner
    BY <1>2 DEF low_level_input, noFrame
  <2> QED
    BY <2>1, <2>2 DEF OwnedBy
<1>3. CASE deliver \/ \E b \in Buffer : freed(b)
  <2>1. PICK b \in Buffer : owner' = [owner EXCEPT ![b] = "lwip"]
                          \/ owner' = [owner EXCEPT ![b] = "pool"]
    BY <1>3 DEF deliver, freed, pbuf_free_custom, OwnedBy
  <2>2. OwnedBy("filled")' \subseteq OwnedBy("filled")
    BY <2>1 DEF OwnedBy
  <2>3. UNCHANGED <<link, mac>>
    BY <1>3 DEF deliver, freed
  <2> QED
    BY <2>2, <2>3
<1>4. CASE frameArrives
  BY <1>4 DEF frameArrives
<1>5. CASE start
  BY <1>5 DEF start, OwnedBy
<1>6. CASE build
  <2>1. PICK b \in Buffer : owner' = [owner EXCEPT ![b] = "dma"]
    BY <1>6 DEF build, OwnedBy
  <2>2. OwnedBy("filled")' \subseteq OwnedBy("filled")
    BY <2>1 DEF OwnedBy
  <2> QED
    BY <1>6, <2>2 DEF build
<1>7. CASE started \/ stop
  BY <1>7 DEF started, stop
<1> QED
  BY <1>1, <1>2, <1>3, <1>4, <1>5, <1>6, <1>7 DEF Next, ethernetif_input_thread, ethernet_link_thread

(* A frame, or a descriptor without a buffer, comes with a signal or finds *)
(* the thread awake; the signal is passed on until the thread has looked.  *)
LEMMA NoticeNext ==
  ASSUME NoticeInv, [Next]_vars
  PROVE  FramesNoticed'
<1> USE DEF NoticeInv, CountInv, BusyInv, FramesNoticed
<1>1. CASE take
  BY <1>1 DEF take
<1>2. CASE low_level_input
  <2>1. CASE readData
    BY <1>2, <2>1, ReadDataNotices
  <2>2. CASE noFrame /\ ~(allocStatus = "RX_ALLOC_OK" /\ mac = "STARTED")
    BY <1>2, <2>2 DEF low_level_input, noFrame
  <2> QED
    BY <1>2, <2>1, <2>2 DEF low_level_input
<1>3. CASE deliver
  BY <1>3 DEF deliver
<1>4. ASSUME NEW b \in Buffer, freed(b) PROVE FramesNoticed'
  <2>1. allocStatus = "RX_ALLOC_ERROR" => rxSem'
    BY <1>4, Zenon DEF freed, pbuf_free_custom
  <2>2. allocStatus \in {"RX_ALLOC_OK", "RX_ALLOC_ERROR"} /\ (rxSem => rxSem')
    BY <1>4 DEF freed, pbuf_free_custom, TypeOK
  <2>3. OwnedBy("filled")' \subseteq OwnedBy("filled")
    BY <1>4 DEF freed, pbuf_free_custom, OwnedBy, TypeOK
  <2>4. UNCHANGED <<unbuilt, irq, mac, input>>
    BY <1>4 DEF freed
  <2> QED
    BY <2>1, <2>2, <2>3, <2>4
<1>5. CASE frameArrives \/ bufferUnavailable
  BY <1>5 DEF frameArrives, bufferUnavailable
<1>6. CASE HAL_ETH_RxCpltCallback
  BY <1>6 DEF HAL_ETH_RxCpltCallback
<1>7. CASE start \/ build \/ poolEmpty
  <2>1. mac' = "BUSY"
    BY <1>7 DEF start, build, poolEmpty
  <2> QED BY <2>1
<1>8. CASE started
  <2>1. OwnedBy("filled")' = {}
    BY <1>8 DEF started, OwnedBy
  <2> QED BY <1>8, <2>1 DEF started
<1>9. CASE stop
  BY <1>9 DEF stop
<1>10. CASE UNCHANGED vars
  BY <1>10 DEF vars, OwnedBy
<1> QED
  BY <1>1, <1>2, <1>3, <1>4, <1>5, <1>6, <1>7, <1>8, <1>9, <1>10
     DEF Next, ethernetif_input_thread, ethernet_link_thread

(* However often the MAC is restarted and whichever threads race, a frame  *)
(* in a descriptor is never left to an input thread that sleeps without a  *)
(* signal on its way.                                                      *)
THEOREM NoFrameForgotten == Spec => []FramesNoticed
<1>1. Init => NoticeInv
  <2>1. Init => BusyInv /\ FramesNoticed
    BY DEF Init, BusyInv, FramesNoticed
  <2> QED BY <2>1, CountInit DEF NoticeInv
<1>2. NoticeInv /\ [Next]_vars => NoticeInv'
  BY CountNext, BusyNext, NoticeNext DEF NoticeInv
<1>3. NoticeInv => FramesNoticed
  BY DEF NoticeInv
<1> QED
  BY <1>1, <1>2, <1>3, PTL DEF Spec

(* Every variable keeps its type; in it RxBuildDescCnt never leaves the    *)
(* number of descriptors.                                                  *)
THEOREM TypeCorrect == Spec => []TypeOK
<1>1. CountInv => TypeOK
  BY DEF CountInv
<1> QED
  BY <1>1, CountInit, CountNext, PTL DEF Spec
-----------------------------------------------------------------------------
(* Reception never comes to a standstill: what each part above promises,   *)
(* put together                                                            *)

(* low_level_input returns one frame, which is handed on before the next.  *)
OneInHand ==
  /\ \A b \in OwnedBy("input") : input = "deliver"
  /\ \A b, c \in OwnedBy("input") : b = c
  /\ input = "deliver" => OwnedBy("input") # {}

(* While the MAC runs the DMA has a buffer to receive into, or the input   *)
(* thread is awake or about to be woken, or it is held back by             *)
(* RxAllocStatus and lwIP has a buffer whose release lets it go on.        *)
ReceptionGoing ==
  mac = "STARTED" /\ ~raced
    => \/ OwnedBy("dma") # {} \/ irq \/ rxSem \/ input # "wait"
       \/ allocStatus = "RX_ALLOC_ERROR" /\ OwnedBy("lwip") # {}

(* Buffers the input thread neither takes nor hands on.                    *)
LEMMA HandSame ==
  ASSUME OneInHand, input' = "deliver" <=> input = "deliver", OwnedBy("input")' = OwnedBy("input")
  PROVE  OneInHand'
  BY DEF OneInHand

(* HAL_ETH_ReadData gives the thread one frame or none.                    *)
LEMMA HandRead ==
  ASSUME CountInv, OneInHand, low_level_input
  PROVE  OneInHand'
<1>0. input = "read" /\ OwnedBy("input") = {}
  BY DEF low_level_input, OneInHand
<1>1. CASE noFrame
  <2>1. OwnedBy("input")' = {} /\ input' = "wait"
    BY <1>0, <1>1 DEF noFrame, OwnedBy
  <2> QED BY <2>1 DEF OneInHand
<1>2. CASE readData
  <2>1. PICK got \in SUBSET OwnedBy("filled"), new \in SUBSET OwnedBy("pool") :
          /\ Cardinality(got) = IF OwnedBy("filled") = {} THEN 0 ELSE 1
          /\ owner' = [b \in Buffer |-> CASE b \in got -> "input"
                                          [] b \in new -> "dma"
                                          [] OTHER -> owner[b]]
          /\ input' = IF got = {} THEN "wait" ELSE "deliver"
    BY <1>2, Zenon DEF readData
  <2>2. got \in SUBSET Buffer /\ IsFiniteSet(got)
    BY BufferSets DEF OwnedBy
  <2>3. OwnedBy("input")' = got
    BY <1>0, <2>1, <2>2 DEF OwnedBy
  <2>4. \A b, c \in got : b = c
    <3>1. CASE Cardinality(got) = 0
      BY <2>2, <3>1, FS_EmptySet
    <3>2. CASE Cardinality(got) = 1
      <4>1. PICK b : got = {b}
        BY <2>2, <3>2, FS_Singleton
      <4> QED BY <4>1
    <3> QED BY <2>1, <3>1, <3>2
  <2> HIDE DEF OwnedBy
  <2> QED BY <2>1, <2>3, <2>4 DEF OneInHand
<1> QED
  BY <1>1, <1>2 DEF low_level_input

LEMMA HandNext ==
  ASSUME CountInv, OneInHand, [Next]_vars
  PROVE  OneInHand'
<1>0. owner \in [Buffer -> Owner]
  BY DEF CountInv, TypeOK
<1>1. CASE take
  BY <1>1, HandSame DEF take, OwnedBy
<1>2. CASE low_level_input
  BY <1>2, HandRead
<1>3. CASE deliver
  <2>1. PICK b \in OwnedBy("input") : \/ owner' = [owner EXCEPT ![b] = "lwip"]
                                      \/ owner' = [owner EXCEPT ![b] = "pool"]
    BY <1>3 DEF deliver, pbuf_free_custom
  <2>2. \A c \in OwnedBy("input") : c = b
    BY <2>1 DEF OneInHand
  <2>3. OwnedBy("input")' = {}
    BY <1>0, <2>1, <2>2 DEF OwnedBy
  <2> QED BY <1>3, <2>3 DEF deliver, OneInHand
<1>4. ASSUME NEW b \in Buffer, freed(b) PROVE OneInHand'
  <2>1. OwnedBy("input")' = OwnedBy("input")
    BY <1>0, <1>4 DEF freed, pbuf_free_custom, OwnedBy
  <2> QED BY <1>4, <2>1, HandSame DEF freed
<1>5. CASE frameArrives
  <2>1. PICK b \in Buffer : owner[b] = "dma" /\ owner' = [owner EXCEPT ![b] = "filled"]
    BY <1>5 DEF frameArrives, OwnedBy
  <2>2. OwnedBy("input")' = OwnedBy("input")
    BY <1>0, <2>1 DEF OwnedBy
  <2> QED BY <1>5, <2>2, HandSame DEF frameArrives
<1>6. CASE bufferUnavailable \/ HAL_ETH_RxCpltCallback \/ poolEmpty \/ started \/ stop \/ UNCHANGED vars
  <2>1. UNCHANGED <<owner, input>>
    BY <1>6 DEF bufferUnavailable, HAL_ETH_RxCpltCallback, poolEmpty, started, stop, vars
  <2> QED BY <2>1, HandSame DEF OwnedBy
<1>7. CASE start
  <2>1. OwnedBy("input")' = OwnedBy("input")
    BY <1>0, <1>7 DEF start, OwnedBy
  <2> QED BY <1>7, <2>1, HandSame DEF start
<1>8. CASE build
  <2>1. PICK b \in Buffer : owner[b] = "pool" /\ owner' = [owner EXCEPT ![b] = "dma"]
    BY <1>8 DEF build, OwnedBy
  <2>2. OwnedBy("input")' = OwnedBy("input")
    BY <1>0, <2>1 DEF OwnedBy
  <2> QED BY <1>8, <2>2, HandSame DEF build
<1> QED
  BY <1>1, <1>2, <1>3, <1>4, <1>5, <1>6, <1>7, <1>8
     DEF Next, ethernetif_input_thread, ethernet_link_thread

(* A full set of descriptors without a frame belongs to the DMA.           *)
LEMMA DmaHasOne ==
  CountInv /\ unbuilt = 0 /\ OwnedBy("filled") = {} => OwnedBy("dma") # {}
<1> SUFFICES ASSUME CountInv, unbuilt = 0, OwnedBy("filled") = {}, OwnedBy("dma") = {} PROVE FALSE
  OBVIOUS
<1>1. InDescriptors = {}
  BY DEF InDescriptors, OwnedBy
<1>2. Cardinality(InDescriptors) = 0
  BY <1>1, FS_EmptySet
<1> QED
  BY <1>2, RxAssumption DEF CountInv, DescriptorsAccounted

(* However often the pool is exhausted, frames are lost and the MAC is     *)
(* restarted, the receive path always has a next step of its own, until    *)
(* the two threads race: the buffers, the semaphore and RxAllocStatus are  *)
(* never all waiting for each other.                                       *)
THEOREM ReceptionNeverStalls == Spec => [](ReceptionGoing /\ OneInHand)
<1>1. Init => OneInHand
  BY DEF Init, OneInHand, OwnedBy
<1>2. CountInv /\ OneInHand /\ [Next]_vars => OneInHand'
  BY HandNext
<1>3. CountInv /\ NoLostWakeup /\ FramesNoticed /\ OneInHand => ReceptionGoing
  <2> SUFFICES ASSUME CountInv, NoLostWakeup, FramesNoticed, OneInHand,
                      mac = "STARTED", ~raced, ~irq, ~rxSem, input = "wait", OwnedBy("dma") = {}
               PROVE  allocStatus = "RX_ALLOC_ERROR" /\ OwnedBy("lwip") # {}
    BY DEF ReceptionGoing
  <2>1. allocStatus = "RX_ALLOC_ERROR"
    <3> SUFFICES ASSUME allocStatus = "RX_ALLOC_OK" PROVE FALSE
      BY DEF CountInv, TypeOK
    <3>1. OwnedBy("filled") = {} /\ ~(unbuilt > 0)
      BY DEF FramesNoticed
    <3>2. unbuilt = 0
      BY <3>1, RxAssumption DEF CountInv, TypeOK
    <3> QED BY <3>1, <3>2, DmaHasOne
  <2>2. Outside # {} /\ OwnedBy("input") = {}
    BY <2>1 DEF NoLostWakeup, OneInHand
  <2> QED BY <2>1, <2>2 DEF Outside, OwnedBy
<1>4. Spec => []CountInv
  BY CountInit, CountNext, PTL DEF Spec
<1> QED
  BY <1>1, <1>2, <1>3, <1>4, WakeupKept, NoFrameForgotten, PTL DEF Spec
=============================================================================
