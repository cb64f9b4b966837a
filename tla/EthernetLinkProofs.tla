------------------------- MODULE EthernetLinkProofs -------------------------
(***************************************************************************)
(* For every number of frames and descriptors, every set of link modes and *)
(* every cable: the variables keep their types, the MAC follows the link   *)
(* flag, and, unless the link thread is preempted between filling in       *)
(* TxConfig and the HAL's call, every pbuf is released exactly once.       *)
(*                                                                         *)
(* Argument.  LinkInv says what the link thread knows of flag and MAC at   *)
(* each of its steps; nobody else writes either.  OutputInv says that one  *)
(* thread at a time is about to call the HAL and that TxConfig holds what  *)
(* this one wrote, so what is queued is what was referenced.               *)
(* The last part is about waiting: a thread under the core lock always has *)
(* a completion to come, and the link thread loses one only to it.         *)
(***************************************************************************)
EXTENDS EthernetLink, TLAPS

LinkInv ==
  /\ pc["link"] = "update" => seen \in LinkMode
  /\ pc["link"] \in {"stop", "setDown", "setLinkDown"} => linkUp = TRUE
  /\ pc["link"] \in {"update", "setUp", "setLinkUp"} => linkUp = FALSE
  /\ pc["link"] \in {"setDown", "setLinkDown"} => mac = "READY"
  /\ pc["link"] \in {"setUp", "setLinkUp"} => mac = "STARTED"

ConfigInv ==
  \A t \in Thread : pc[t] = "transmit" => txConfig \in Frame /\ sending[t] \in Frame

IInv == TypeOK /\ LinkInv /\ ConfigInv /\ MacFollowsFlag

OutputInv ==
  /\ pc["core"] # "transmit" \/ pc["link"] # "transmit"
  /\ \A t \in Thread : pc[t] = "transmit" => txConfig = sending[t]

-----------------------------------------------------------------------------
(* Types and the MAC *)

(* The numbers of the link states are told apart.                          *)
LEMMA LinkStates ==
  /\ LinkMode \subseteq Int
  /\ LINK_DOWN \notin LinkMode /\ AUTONEGO_NOTDONE \notin LinkMode
  /\ \A s \in {READ_ERROR, OK, LINK_DOWN, AUTONEGO_NOTDONE} : ~MapLinkState(s).changed
  /\ \A s : MapLinkState(s).changed => s \in LinkMode
  /\ \A s : MapLinkState(s).mode = s
  BY DEF LinkMode, READ_ERROR, OK, LINK_DOWN, AUTONEGO_NOTDONE, FULL_100, HALF_100,
         FULL_10, HALF_10, MapLinkState

(* A thread that moves leaves the other where it was.                      *)
LEMMA GoesOnly ==
  ASSUME TypeOK, NEW t \in Thread, NEW from, NEW to, Goes(t, from, to)
  PROVE  /\ pc[t] = from /\ pc'[t] = to
         /\ \A u \in Thread : u # t => pc'[u] = pc[u]
         /\ DOMAIN pc' = Thread
  BY DEF Goes, TypeOK

(* LAN8742_GetLinkState leaves the types of the registers.                 *)
LEMMA PhyTypes ==
  ASSUME PhyTypeOK, LAN8742_GetLinkState
  PROVE  PhyTypeOK'
<1> USE PhyAssumption DEF PhyTypeOK, Returns
<1>1. CASE readBsr
  BY <1>1 DEF readBsr
<1>2. CASE readBsrAgain
  BY <1>2 DEF readBsrAgain
<1>3. CASE readBcr
  BY <1>3 DEF readBcr
<1>4. CASE readPhyscsr
  BY <1>4 DEF readPhyscsr
<1>5. CASE readFails
  BY <1>5 DEF readFails
<1> QED
  BY <1>1, <1>2, <1>3, <1>4, <1>5 DEF LAN8742_GetLinkState

(* The wire leaves them too.                                               *)
LEMMA WireTypes ==
  ASSUME PhyTypeOK, unplugged \/ plugged \/ negotiated \/ settles
  PROVE  PhyTypeOK' /\ UNCHANGED seen
  BY PhyAssumption DEF PhyTypeOK, unplugged, plugged, negotiated, settles

-----------------------------------------------------------------------------
(* The types and ConfigInv: one lemma for each party *)

RingOK == ring \in Seq(Frame) /\ Len(ring) <= TxDescriptors /\ sent \in 0 .. Len(ring)

(* What the variables of the transmit path are, put together.              *)
TxOK ==
  /\ sending \in [Thread -> Frame \cup {NoFrame}]
  /\ txConfig \in Frame \cup {NoFrame}
  /\ referenced \subseteq Frame
  /\ RingOK
  /\ txStatus \in BOOLEAN /\ txSem \in BOOLEAN

PcOK ==
  /\ pc["core"] \in {"idle"} \cup InOutput
  /\ pc["link"] \in {"delay", "poll", "stop", "setDown", "setLinkDown",
                     "update", "setUp", "setLinkUp", "output"} \cup InOutput
  /\ DOMAIN pc = Thread

NetifOK ==
  /\ mac \in {"READY", "STARTED"}
  /\ macMode \in {0} \cup LinkMode
  /\ netifUp \in BOOLEAN /\ linkUp \in BOOLEAN

(* TypeOK is the conjunction of the four.                                  *)
LEMMA TypeParts == TypeOK <=> PhyTypeOK /\ NetifOK /\ PcOK /\ TxOK
  BY DEF TypeOK, NetifOK, PcOK, TxOK, RingOK

(* Same, in the next state.                                                *)
LEMMA TypePartsNext == TypeOK' <=> PhyTypeOK' /\ NetifOK' /\ PcOK' /\ TxOK'
  BY TypeParts, PTL

(* A thread that moves inside low_level_output has a place.                *)
LEMMA OutputPlace ==
  ASSUME PcOK, NEW t \in Thread, NEW from, NEW to, Goes(t, from, to),
         to \in InOutput \cup {Return(t)}
  PROVE  PcOK'
  BY DEF PcOK, Goes, Return, Thread, InOutput

(* The link thread has a place after each of its steps.                    *)
LEMMA LinkPlace ==
  ASSUME PcOK, NEW from, NEW to, LinkGoes(from, to),
         to \in {"delay", "poll", "stop", "setDown", "setLinkDown",
                "update", "setUp", "setLinkUp", "output"}
  PROVE  PcOK'
  BY DEF PcOK, Goes, LinkGoes, Thread

(* low_level_output keeps the types and transmits only frames.             *)
LEMMA OutputTypes ==
  ASSUME IInv, NEW t \in Thread, low_level_output(t)
  PROVE  TypeOK' /\ ConfigInv'
<1> USE DEF IInv
<1>0. PhyTypeOK /\ NetifOK /\ PcOK /\ TxOK
  BY TypeParts
<1>1. CASE prepare(t)
  <2>1. PICK p \in Frame :
          /\ txConfig' = p
          /\ sending' = [sending EXCEPT ![t] = p]
          /\ referenced' = referenced \cup {p}
    BY <1>1 DEF prepare
  <2>2. TxOK'
    BY <1>0, <1>1, <2>1 DEF prepare, TxOK, RingOK
  <2>3. \E from : Goes(t, from, "transmit")
    BY <1>1 DEF prepare
  <2>4. PcOK'
    BY <1>0, <2>3, OutputPlace DEF InOutput
  <2>5. PhyTypeOK' /\ NetifOK'
    BY ZenonT(60), <1>0, <1>1 DEF prepare, phyVars, netifVars, PhyTypeOK, NetifOK
  <2>6. ConfigInv'
    <3>1. \A u \in Thread : u # t => pc'[u] = pc[u]
      BY <2>3, GoesOnly
    <3> QED BY <1>0, <2>1, <3>1 DEF ConfigInv, TxOK
  <2> QED BY <2>2, <2>4, <2>5, <2>6, TypePartsNext
<1>2. CASE transmit(t)
  <2>1. PhyTypeOK' /\ NetifOK'
    BY ZenonT(60), <1>0, <1>2 DEF transmit, phyVars, netifVars, PhyTypeOK, NetifOK
  <2>2. CASE refused(t)
    <3>1. TxOK'
      BY <1>0, <1>2, <2>2 DEF transmit, refused, TxOK, RingOK
    <3>2. Goes(t, "transmit", Return(t))
      BY <2>2 DEF refused
    <3>3. PcOK'
      BY <1>0, <3>2, OutputPlace
    <3>4. ConfigInv'
      <4>1. pc'[t] # "transmit" /\ \A u \in Thread : u # t => pc'[u] = pc[u]
        BY <3>2, GoesOnly DEF Return
      <4> QED BY <1>0, <1>2, <2>2, <4>1 DEF ConfigInv, refused, transmit, TxOK
    <3> QED BY <2>1, <3>1, <3>3, <3>4, TypePartsNext
  <2>3. CASE accepted(t)
    <3>1. Goes(t, "transmit", "wait") /\ Len(ring) < TxDescriptors
      BY <2>3 DEF accepted, Accepted
    <3>2. txConfig \in Frame
      BY <3>1, GoesOnly DEF ConfigInv
    <3>3. ring' \in Seq(Frame) /\ Len(ring') = Len(ring) + 1
      BY <1>0, <2>3, <3>2 DEF accepted, TxOK, RingOK
    <3>4. TxOK'
      BY <1>0, <1>2, <2>3, <3>1, <3>3, LinkAssumption DEF transmit, accepted, TxOK, RingOK
    <3>5. PcOK'
      BY <1>0, <3>1, OutputPlace DEF InOutput
    <3>6. ConfigInv'
      <4>1. pc'[t] # "transmit" /\ \A u \in Thread : u # t => pc'[u] = pc[u]
        BY <3>1, GoesOnly
      <4> QED BY <1>2, <2>3, <4>1 DEF ConfigInv, accepted, transmit
    <3> QED BY <2>1, <3>4, <3>5, <3>6, TypePartsNext
  <2> QED BY <1>2, <2>2, <2>3 DEF transmit
<1>3. CASE take(t)
  <2>1. Goes(t, "wait", "release")
    BY <1>3 DEF take
  <2>2. PhyTypeOK' /\ NetifOK' /\ TxOK'
    <3>1. PhyTypeOK' /\ NetifOK'
      BY ZenonT(60), <1>0, <1>3 DEF take, phyVars, netifVars, PhyTypeOK, NetifOK
    <3>2. TxOK'
      BY <1>0, <1>3 DEF take, TxOK, RingOK
    <3> QED BY <3>1, <3>2
  <2>3. PcOK'
    BY <1>0, <2>1, OutputPlace DEF InOutput
  <2>4. ConfigInv'
    <3>1. pc'[t] # "transmit" /\ \A u \in Thread : u # t => pc'[u] = pc[u]
      BY <2>1, GoesOnly
    <3> QED BY <1>3, <3>1 DEF ConfigInv, take
  <2> QED BY <2>2, <2>3, <2>4, TypePartsNext
<1>4. CASE release(t)
  <2>1. Goes(t, "release", Return(t))
    BY <1>4 DEF release
  <2>2. ring' \in Seq(Frame) /\ Len(ring') <= Len(ring)
    BY <1>0, <1>4 DEF release, TxOK, RingOK
  <2>3. TxOK'
    BY <1>0, <1>4, <2>2, LinkAssumption DEF release, TxOK, RingOK
  <2>4. PhyTypeOK' /\ NetifOK'
    BY ZenonT(60), <1>0, <1>4 DEF release, phyVars, netifVars, PhyTypeOK, NetifOK
  <2>5. PcOK'
    BY <1>0, <2>1, OutputPlace
  <2>6. ConfigInv'
    <3>1. pc'[t] # "transmit" /\ \A u \in Thread : u # t => pc'[u] = pc[u]
      BY <2>1, GoesOnly DEF Return
    <3> QED BY <1>0, <1>4, <3>1 DEF ConfigInv, release, TxOK
  <2> QED BY <2>3, <2>4, <2>5, <2>6, TypePartsNext
<1> QED
  BY <1>1, <1>2, <1>3, <1>4 DEF low_level_output

(* The DMA and its interrupt keep them.                                    *)
LEMMA DmaTypes ==
  ASSUME IInv, dmaCompletes \/ HAL_ETH_TxCpltCallback
  PROVE  TypeOK' /\ ConfigInv'
<1> USE DEF IInv
<1>0. PhyTypeOK /\ NetifOK /\ PcOK /\ TxOK
  BY TypeParts
<1>1. UNCHANGED <<phyVars, netifVars, pc, sending, txConfig, referenced, ring>>
  BY DEF dmaCompletes, HAL_ETH_TxCpltCallback
<1>2. PhyTypeOK' /\ NetifOK' /\ PcOK' /\ ConfigInv'
  <2>1. PhyTypeOK'
    BY <1>0, <1>1 DEF phyVars, PhyTypeOK
  <2>2. NetifOK'
    BY <1>0, <1>1 DEF netifVars, NetifOK
  <2>3. PcOK' /\ ConfigInv'
    BY <1>0, <1>1 DEF PcOK, ConfigInv
  <2> QED BY <2>1, <2>2, <2>3
<1>3. sent' \in 0 .. Len(ring)
  BY <1>0 DEF dmaCompletes, HAL_ETH_TxCpltCallback, TxOK, RingOK
<1>4. txStatus' \in BOOLEAN /\ txSem' \in BOOLEAN
  BY <1>0 DEF dmaCompletes, HAL_ETH_TxCpltCallback, TxOK
<1>5. TxOK'
  BY <1>0, <1>1, <1>3, <1>4 DEF TxOK, RingOK
<1> QED
  BY <1>2, <1>5, TypePartsNext

(* What the link thread leaves alone in all of its steps but low_level_output *)
LEMMA LinkTouches ==
  ASSUME IInv, ethernet_link_thread
  PROVE  /\ UNCHANGED <<sending, txConfig, referenced, ring, txSem>>
         /\ pc'["core"] = pc["core"] /\ pc["link"] \notin InOutput /\ pc'["link"] \notin InOutput
<1>1. UNCHANGED <<sending, txConfig, referenced, ring, txSem>>
  BY DEF ethernet_link_thread, wakes, getLinkState, decide, stop, netifSetDown, netifSetLinkDown,
         HW_ETH_update_mac_config, netifSetUp, netifSetLinkUp, txVars
<1>2. \E from, to \in {"delay", "poll", "stop", "setDown", "setLinkDown",
                      "update", "setUp", "setLinkUp", "output"} : LinkGoes(from, to)
  BY Zenon DEF ethernet_link_thread, wakes, getLinkState, decide, stop, netifSetDown, netifSetLinkDown,
         HW_ETH_update_mac_config, netifSetUp, netifSetLinkUp
<1> QED
  BY <1>1, <1>2, GoesOnly DEF LinkGoes, Thread, InOutput, IInv

(* The link thread keeps the types.                                        *)
LEMMA LinkTypes ==
  ASSUME IInv, ethernet_link_thread
  PROVE  TypeOK' /\ ConfigInv'
<1> USE DEF IInv
<1>0. PhyTypeOK /\ NetifOK /\ PcOK /\ TxOK
  BY TypeParts
<1>1. ConfigInv'
  BY LinkTouches DEF ConfigInv, Thread, InOutput
<1>2. TxOK'
  <2>1. \/ UNCHANGED <<sent, txStatus>>
        \/ sent < Len(ring) /\ sent' = sent + 1 /\ txStatus' = TRUE
    BY DEF ethernet_link_thread, wakes, getLinkState, decide, stop, netifSetDown, netifSetLinkDown,
         HW_ETH_update_mac_config, netifSetUp, netifSetLinkUp, txVars
  <2>2. sent' \in 0 .. Len(ring) /\ txStatus' \in BOOLEAN
    <3>1. sent' \in 0 .. Len(ring)
      BY <1>0, <2>1 DEF TxOK, RingOK
    <3>2. txStatus' \in BOOLEAN
      BY <1>0, <2>1, Zenon DEF TxOK
    <3> QED BY <3>1, <3>2
  <2>3. RingOK'
    BY <1>0, <2>2, LinkTouches DEF TxOK, RingOK
  <2>4. txSem' \in BOOLEAN
    BY <1>0, LinkTouches DEF TxOK
  <2> QED BY <1>0, <2>2, <2>3, <2>4, LinkTouches DEF TxOK
<1>3. PcOK'
  <2>1. \E from, to \in {"delay", "poll", "stop", "setDown", "setLinkDown",
                        "update", "setUp", "setLinkUp", "output"} : LinkGoes(from, to)
    BY Zenon DEF ethernet_link_thread, wakes, getLinkState, decide, stop, netifSetDown, netifSetLinkDown,
           HW_ETH_update_mac_config, netifSetUp, netifSetLinkUp
  <2> QED BY <1>0, <2>1, LinkPlace
<1>4. PhyTypeOK'
  <2>1. CASE LAN8742_GetLinkState
    BY <1>0, <2>1, PhyTypes
  <2>2. CASE reading = "none" /\ reading' = "BSR" /\ UNCHANGED <<cable, bsrLink, seen, calm>>
    BY <1>0, <2>2 DEF PhyTypeOK
  <2>3. CASE UNCHANGED phyVars
    BY <1>0, <2>3 DEF phyVars, PhyTypeOK
  <2> QED
    BY <2>1, <2>2, <2>3 DEF ethernet_link_thread, wakes, getLinkState, decide, stop, netifSetDown,
       netifSetLinkDown, HW_ETH_update_mac_config, netifSetUp, netifSetLinkUp
<1>5. NetifOK'
  <2>1. CASE HW_ETH_update_mac_config
    <3>1. pc["link"] = "update"
      BY <2>1 DEF HW_ETH_update_mac_config, LinkGoes, Goes
    <3>2. MapLinkState(seen).mode \in LinkMode
      BY <3>1, LinkStates DEF LinkInv
    <3> QED BY <1>0, <2>1, <3>2 DEF HW_ETH_update_mac_config, NetifOK
  <2>2. CASE UNCHANGED <<mac, macMode>> /\ netifUp' \in BOOLEAN /\ linkUp' \in BOOLEAN
    BY <1>0, <2>2 DEF NetifOK
  <2>3. CASE stop
    BY <1>0, <2>3 DEF stop, NetifOK
  <2> QED
    BY <1>0, <2>1, <2>2, <2>3 DEF ethernet_link_thread, wakes, getLinkState, decide, netifSetDown,
       netifSetLinkDown, netifSetUp, netifSetLinkUp, netifVars, NetifOK
<1> QED
  BY <1>1, <1>2, <1>3, <1>4, <1>5, TypePartsNext

-----------------------------------------------------------------------------
(* The MAC and the link flag *)

(* The link thread's own steps keep what it knows of flag and MAC.         *)
LEMMA LinkKnows ==
  ASSUME IInv, ethernet_link_thread
  PROVE  LinkInv' /\ MacFollowsFlag'
<1> USE DEF IInv, LinkInv, MacFollowsFlag
<1>0. /\ mac \in {"READY", "STARTED"} /\ linkUp \in BOOLEAN /\ "link" \in Thread
      /\ "link" \in DOMAIN pc
  BY DEF TypeOK, Thread
<1>1. CASE wakes
  <2>1. pc["link"] = "delay" /\ pc'["link"] = "poll" /\ UNCHANGED <<mac, linkUp>>
    BY <1>0, <1>1 DEF wakes, LinkGoes, Goes, netifVars
  <2> QED BY <2>1
<1>2. CASE getLinkState
  <2>1. pc["link"] = "poll" /\ pc'["link"] = "poll" /\ UNCHANGED <<mac, linkUp>>
    BY <1>0, <1>2 DEF getLinkState, LinkGoes, Goes, netifVars
  <2> QED BY <2>1
<1>3. CASE decide
  <2>1. /\ pc["link"] = "poll" /\ UNCHANGED <<mac, linkUp>>
        /\ pc'["link"] = IF linkUp /\ seen' <= LINK_DOWN THEN "stop"
                         ELSE IF ~linkUp /\ seen' > LINK_DOWN /\ MapLinkState(seen').changed
                         THEN "update" ELSE "delay"
    BY <1>0, <1>3 DEF decide, LinkGoes, Goes, netifVars
  <2>2. MapLinkState(seen').changed => seen' \in LinkMode
    BY LinkStates
  <2> QED BY <1>0, <2>1, <2>2
<1>4. CASE stop
  <2>1. pc["link"] = "stop" /\ pc'["link"] = "setDown" /\ mac' = "READY" /\ UNCHANGED linkUp
    BY <1>0, <1>4 DEF stop, LinkGoes, Goes
  <2> QED BY <2>1
<1>5. CASE netifSetDown
  <2>1. pc["link"] = "setDown" /\ pc'["link"] = "setLinkDown" /\ UNCHANGED <<mac, linkUp>>
    BY <1>0, <1>5 DEF netifSetDown, LinkGoes, Goes
  <2> QED BY <2>1
<1>6. CASE netifSetLinkDown
  <2>1. pc["link"] = "setLinkDown" /\ pc'["link"] = "delay" /\ UNCHANGED mac /\ linkUp' = FALSE
    BY <1>0, <1>6 DEF netifSetLinkDown, LinkGoes, Goes
  <2> QED BY <2>1
<1>7. CASE HW_ETH_update_mac_config
  <2>1. /\ pc["link"] = "update" /\ UNCHANGED linkUp
        /\ \/ pc'["link"] = "setUp" /\ mac' = "STARTED"
           \/ pc'["link"] = "delay" /\ mac' = mac
    BY <1>0, <1>7 DEF HW_ETH_update_mac_config, LinkGoes, Goes
  <2> QED BY <2>1
<1>8. CASE netifSetUp
  <2>1. pc["link"] = "setUp" /\ pc'["link"] = "setLinkUp" /\ UNCHANGED <<mac, linkUp>>
    BY <1>0, <1>8 DEF netifSetUp, LinkGoes, Goes
  <2> QED BY <2>1
<1>9. CASE netifSetLinkUp
  <2>1. pc["link"] = "setLinkUp" /\ pc'["link"] = "output" /\ UNCHANGED mac /\ linkUp' = TRUE
    BY <1>0, <1>9 DEF netifSetLinkUp, LinkGoes, Goes
  <2> QED BY <2>1
<1> QED
  BY <1>1, <1>2, <1>3, <1>4, <1>5, <1>6, <1>7, <1>8, <1>9 DEF ethernet_link_thread

(* A step that leaves MAC, flag and state read, and with which the link    *)
(* thread at most moves inside low_level_output, keeps it too.             *)
LEMMA LinkUntouched ==
  ASSUME IInv, UNCHANGED <<mac, linkUp, seen>>,
         \/ pc'["link"] = pc["link"]
         \/ pc["link"] \in InOutput \cup {"output"} /\ pc'["link"] \in InOutput \cup {"delay"}
  PROVE  LinkInv' /\ MacFollowsFlag'
  BY DEF IInv, LinkInv, MacFollowsFlag, InOutput

(* Senders are such steps.                                                 *)
LEMMA OutputMoves ==
  ASSUME IInv, NEW t \in Thread, low_level_output(t)
  PROVE  /\ UNCHANGED <<mac, linkUp, seen>>
         /\ \/ pc'["link"] = pc["link"]
            \/ pc["link"] \in InOutput \cup {"output"} /\ pc'["link"] \in InOutput \cup {"delay"}
<1>1. UNCHANGED <<mac, linkUp, seen>>
  BY DEF low_level_output, prepare, transmit, take, release, phyVars, netifVars
<1>2. \/ t = "core" /\ \E from, to : Goes(t, from, to)
      \/ t = "link" /\ \E from \in InOutput \cup {"output"}, to \in InOutput \cup {"delay"} : Goes(t, from, to)
  BY Zenon DEF low_level_output, prepare, transmit, accepted, refused, take, release, InOutput, Return, Thread
<1> QED
  BY <1>1, <1>2, GoesOnly DEF Thread, IInv

(* IInv is inductive.                                                      *)
LEMMA Invariance == IInv /\ [Next]_vars => IInv'
<1> SUFFICES ASSUME IInv, [Next]_vars PROVE IInv'
  OBVIOUS
<1>1. ASSUME NEW t \in Thread, low_level_output(t) PROVE IInv'
  BY <1>1, OutputTypes, OutputMoves, LinkUntouched DEF IInv
<1>2. CASE ethernet_link_thread
  BY <1>2, LinkTypes, LinkKnows DEF IInv
<1>3. CASE dmaCompletes \/ HAL_ETH_TxCpltCallback
  <2>1. UNCHANGED <<mac, linkUp, seen, pc>>
    BY <1>3 DEF dmaCompletes, HAL_ETH_TxCpltCallback, phyVars, netifVars
  <2> QED BY <1>3, <2>1, DmaTypes, LinkUntouched DEF IInv
<1>4. ASSUME UNCHANGED <<netifVars, txVars, pc>>, PhyTypeOK', UNCHANGED seen PROVE IInv'
  <2>1. NetifOK' /\ PcOK'
    BY <1>4, TypeParts DEF netifVars, NetifOK, PcOK, IInv
  <2>2. TxOK'
    BY <1>4, TypeParts DEF txVars, TxOK, RingOK, IInv
  <2>3. ConfigInv'
    BY <1>4 DEF txVars, ConfigInv, IInv
  <2>4. LinkInv' /\ MacFollowsFlag'
    BY <1>4, LinkUntouched DEF netifVars
  <2> QED BY <1>4, <2>1, <2>2, <2>3, <2>4, TypePartsNext DEF IInv
<1>5. CASE Wire
  <2>1. PhyTypeOK' /\ UNCHANGED seen
    BY <1>5, WireTypes, TypeParts DEF Wire, cablePlugged, IInv
  <2> QED BY <1>4, <1>5, <2>1 DEF Wire
<1>6. CASE UNCHANGED vars
  <2>1. PhyTypeOK'
    BY <1>6, TypeParts DEF vars, phyVars, PhyTypeOK, IInv
  <2> QED BY <1>4, <1>6, <2>1 DEF vars, phyVars
<1> QED
  BY <1>1, <1>2, <1>3, <1>5, <1>6 DEF Next

(* It holds initially.                                                     *)
LEMMA Initially == Init => IInv
<1> SUFFICES ASSUME Init PROVE IInv
  OBVIOUS
<1>1. PhyTypeOK
  BY PhyAssumption DEF Init, PhyInit, PhyTypeOK
<1>2. NetifOK /\ PcOK
  BY DEF Init, NetifOK, PcOK, Thread
<1>3. TxOK
  <2>1. RingOK
    BY LinkAssumption DEF Init, RingOK
  <2>2. sending \in [Thread -> Frame \cup {NoFrame}] /\ txConfig \in Frame \cup {NoFrame}
    BY DEF Init
  <2> QED BY <2>1, <2>2 DEF Init, TxOK
<1>4. LinkInv /\ ConfigInv /\ MacFollowsFlag
  BY DEF Init, LinkInv, ConfigInv, MacFollowsFlag, Thread
<1> QED
  BY <1>1, <1>2, <1>3, <1>4, TypeParts DEF IInv

(* Every variable keeps its type, also when transmissions overlap.         *)
THEOREM TypeCorrect == Spec => []TypeOK
<1>1. IInv => TypeOK
  BY DEF IInv
<1> QED
  BY <1>1, Initially, Invariance, PTL DEF Spec

(* MacFollowsFlag: the MAC is never left running behind a link flag that   *)
(* is down, nor stopped behind one that is up.                             *)
THEOREM MacFollows == Spec => []MacFollowsFlag
<1>1. IInv => MacFollowsFlag
  BY DEF IInv
<1> QED
  BY <1>1, Initially, Invariance, PTL DEF Spec

-----------------------------------------------------------------------------
(* The frames *)

(* Queueing a new frame keeps the ring without repetition.                 *)
LEMMA AppendFrame ==
  ASSUME NEW s \in Seq(Frame), IsInjective(s), NEW f \in Frame, f \notin Range(s)
  PROVE  Range(Append(s, f)) = Range(s) \cup {f} /\ IsInjective(Append(s, f))
<1> DEFINE a == Append(s, f)
<1>1. Len(s) \in Nat /\ DOMAIN s = 1 .. Len(s)
  OBVIOUS
<1>2. /\ a \in Seq(Frame) /\ DOMAIN a = 1 .. Len(s) + 1
      /\ \A i \in 1 .. Len(s) : a[i] = s[i]
      /\ a[Len(s) + 1] = f
  OBVIOUS
<1> HIDE DEF a
<1>3. Range(a) = Range(s) \cup {f}
  BY <1>1, <1>2 DEF Range
<1>4. \A i \in 1 .. Len(s) : s[i] # f
  BY <1>1 DEF Range
<1>5. IsInjective(a)
  <2> SUFFICES ASSUME NEW i \in DOMAIN a, NEW j \in DOMAIN a, a[i] = a[j] PROVE i = j
    BY DEF IsInjective
  <2> QED BY <1>1, <1>2, <1>4 DEF IsInjective
<1> QED
  BY <1>3, <1>5 DEF a

(* Releasing the n oldest takes exactly them out of it.                    *)
LEMMA ReleaseFrames ==
  ASSUME NEW s \in Seq(Frame), IsInjective(s), NEW n \in 0 .. Len(s)
  PROVE  /\ Range(SubSeq(s, n + 1, Len(s))) = Range(s) \ {s[i] : i \in 1 .. n}
         /\ IsInjective(SubSeq(s, n + 1, Len(s)))
<1> DEFINE r == SubSeq(s, n + 1, Len(s))
<1>1. Len(s) \in Nat /\ DOMAIN s = 1 .. Len(s)
  OBVIOUS
<1>2. /\ DOMAIN r = 1 .. Len(s) - n
      /\ \A i \in 1 .. Len(s) - n : r[i] = s[n + i]
  BY <1>1
<1> HIDE DEF r
<1>3. ASSUME NEW f PROVE f \in Range(r) <=> f \in Range(s) /\ \A i \in 1 .. n : s[i] # f
  <2>1. ASSUME NEW i \in DOMAIN r, r[i] = f
        PROVE  f \in Range(s) /\ \A k \in 1 .. n : s[k] # f
    <3>1. n + i \in DOMAIN s /\ s[n + i] = f
      BY <1>1, <1>2, <2>1
    <3>2. \A k \in 1 .. n : k \in DOMAIN s /\ k # n + i
      BY <1>1, <1>2, <2>1
    <3> QED BY <3>1, <3>2 DEF IsInjective, Range
  <2>2. ASSUME NEW j \in DOMAIN s, s[j] = f, \A k \in 1 .. n : s[k] # f
        PROVE  f \in Range(r)
    <3>1. j - n \in 1 .. Len(s) - n
      BY <1>1, <2>2
    <3>2. r[j - n] = f
      BY <1>1, <1>2, <2>2, <3>1
    <3> QED BY <1>2, <3>1, <3>2 DEF Range
  <2> QED BY <2>1, <2>2 DEF Range
<1>4. Range(r) = Range(s) \ {s[i] : i \in 1 .. n}
  BY <1>3
<1>5. IsInjective(r)
  <2> SUFFICES ASSUME NEW i \in DOMAIN r, NEW j \in DOMAIN r, r[i] = r[j] PROVE i = j
    BY DEF IsInjective
  <2>1. n + i \in DOMAIN s /\ n + j \in DOMAIN s /\ s[n + i] = s[n + j]
    BY SMTT(30), <1>1, <1>2
  <2>2. n + i = n + j
    BY <2>1 DEF IsInjective
  <2> QED BY <1>1, <1>2, <2>2
<1> QED
  BY <1>4, <1>5 DEF r

FrameInv == IInv /\ OutputInv /\ FramesAccounted

(* With one thread at a time before the HAL a call queues what it          *)
(* referenced, and releasing does not touch what another one prepared.     *)
LEMMA OutputFrames ==
  ASSUME ~Preempted, FrameInv, NEW t \in Thread, low_level_output(t)
  PROVE  OutputInv' /\ FramesAccounted'
<1> USE DEF FrameInv
<1> DEFINE calls == {u \in Thread : pc[u] = "transmit"}
           queued == {sending[u] : u \in calls}
<1>0. /\ TypeOK /\ ring \in Seq(Frame) /\ sent \in 0 .. Len(ring)
      /\ sending \in [Thread -> Frame \cup {NoFrame}]
  BY DEF IInv, TypeOK
<1>1. CASE prepare(t)
  <2>1. PICK p \in Frame \ Range(ring) :
          /\ txConfig' = p
          /\ sending' = [sending EXCEPT ![t] = p]
          /\ referenced' = referenced \cup {p}
    BY <1>1 DEF prepare
  <2>2. \E from : Goes(t, from, "transmit")
    BY <1>1 DEF prepare
  <2>3. \A u \in Thread : pc[u] # "transmit"
    BY <1>1 DEF prepare
  <2>4. pc'[t] = "transmit" /\ \A u \in Thread : u # t => pc'[u] # "transmit"
    BY <1>0, <2>2, <2>3, GoesOnly
  <2>5. calls = {} /\ calls' = {t}
    BY <2>3, <2>4
  <2>6. sending'[t] = p /\ ring' = ring
    BY <1>0, <1>1, <2>1 DEF prepare
  <2>7. OutputInv'
    BY <2>1, <2>4, <2>6 DEF OutputInv, Thread
  <2>8. referenced = Range(ring) /\ IsInjective(ring)
    BY <2>5 DEF FramesAccounted
  <2>9. FramesAccounted'
    BY <2>1, <2>5, <2>6, <2>8 DEF FramesAccounted
  <2> QED BY <2>7, <2>9
<1>2. ASSUME pc[t] = "transmit", pc'[t] # "transmit",
             \A u \in Thread : u # t => pc'[u] = pc[u]
      PROVE  calls' = {} /\ calls = {t} /\ OutputInv'
  <2>1. \A u \in Thread : u # t => pc[u] # "transmit"
    BY <1>2 DEF OutputInv, Thread
  <2>2. \A u \in Thread : pc'[u] # "transmit"
    BY <1>2, <2>1
  <2>3. calls' = {} /\ calls = {t}
    BY <1>2, <2>1, <2>2
  <2>4. OutputInv'
    BY <2>2 DEF OutputInv, Thread
  <2> QED BY <2>3, <2>4
<1>3. CASE transmit(t)
  <2>1. CASE refused(t)
    <3>1. Goes(t, "transmit", Return(t))
      BY <2>1 DEF refused
    <3>2. pc[t] = "transmit" /\ pc'[t] = Return(t) /\ \A u \in Thread : u # t => pc'[u] = pc[u]
      BY <1>0, <3>1, GoesOnly
    <3>3. calls' = {} /\ calls = {t} /\ OutputInv'
      BY <1>2, <3>2 DEF Return, InOutput
    <3>4. referenced' = referenced \ {sending[t]} /\ ring' = ring
      BY <2>1 DEF refused
    <3> QED BY <3>3, <3>4 DEF FramesAccounted
  <2>2. CASE accepted(t)
    <3>1. Goes(t, "transmit", "wait")
      BY <2>2 DEF accepted
    <3>2. pc[t] = "transmit" /\ pc'[t] = "wait" /\ \A u \in Thread : u # t => pc'[u] = pc[u]
      BY <1>0, <3>1, GoesOnly
    <3>3. calls' = {} /\ calls = {t} /\ OutputInv'
      BY <1>2, <3>2 DEF InOutput
    <3>4. txConfig = sending[t] /\ sending[t] \in Frame
      BY <3>2 DEF OutputInv, IInv, ConfigInv
    <3>5. ring' = Append(ring, sending[t]) /\ referenced' = referenced
      BY <2>2, <3>4 DEF accepted
    <3>6. /\ referenced = Range(ring) \cup {sending[t]}
          /\ IsInjective(ring) /\ sending[t] \notin Range(ring)
      BY <3>3 DEF FramesAccounted
    <3>7. Range(ring') = Range(ring) \cup {sending[t]} /\ IsInjective(ring')
      BY <1>0, <3>4, <3>5, <3>6, AppendFrame
    <3> QED BY <3>3, <3>5, <3>6, <3>7 DEF FramesAccounted
  <2> QED BY <1>3, <2>1, <2>2 DEF transmit
<1>4. ASSUME pc[t] # "transmit", pc'[t] # "transmit", txConfig' = txConfig,
             \A u \in Thread : u # t => pc'[u] = pc[u] /\ sending'[u] = sending[u]
      PROVE  calls' = calls /\ queued' = queued /\ OutputInv'
  <2>1. calls' = calls
    BY <1>4
  <2>2. \A u \in calls : sending'[u] = sending[u]
    BY <1>4
  <2>3. queued' = queued
    BY <2>1, <2>2
  <2>4. OutputInv'
    BY <1>4 DEF OutputInv, Thread
  <2> QED BY <2>1, <2>3, <2>4
<1>5. CASE take(t)
  <2>1. Goes(t, "wait", "release") /\ UNCHANGED <<ring, referenced, sending, txConfig>>
    BY <1>5 DEF take
  <2>2. pc[t] = "wait" /\ pc'[t] = "release" /\ \A u \in Thread : u # t => pc'[u] = pc[u]
    BY <1>0, <2>1, GoesOnly
  <2>3. calls' = calls /\ OutputInv'
    BY <1>4, <2>1, <2>2
  <2> QED BY <2>1, <2>3 DEF FramesAccounted
<1>6. CASE release(t)
  <2>1. /\ Goes(t, "release", Return(t))
        /\ referenced' = referenced \ {ring[i] : i \in 1 .. sent}
        /\ ring' = SubSeq(ring, sent + 1, Len(ring))
        /\ sending' = [sending EXCEPT ![t] = NoFrame] /\ txConfig' = txConfig
    BY <1>6 DEF release
  <2>2. pc[t] = "release" /\ pc'[t] = Return(t) /\ \A u \in Thread : u # t => pc'[u] = pc[u]
    BY <1>0, <2>1, GoesOnly
  <2>3. pc'[t] # "transmit" /\ \A u \in Thread : u # t => sending'[u] = sending[u]
    BY <1>0, <2>1, <2>2 DEF Return
  <2>4. calls' = calls /\ queued' = queued /\ OutputInv'
    BY <1>4, <2>1, <2>2, <2>3
  <2>5. /\ referenced = Range(ring) \cup queued /\ IsInjective(ring)
        /\ \A u \in calls : sending[u] \notin Range(ring)
    BY DEF FramesAccounted
  <2>6. /\ Range(ring') = Range(ring) \ {ring[i] : i \in 1 .. sent}
        /\ IsInjective(ring')
    BY <1>0, <2>1, <2>5, ReleaseFrames
  <2>7. {ring[i] : i \in 1 .. sent} \subseteq Range(ring)
    BY <1>0 DEF Range
  <2>8. referenced' = Range(ring') \cup queued
    BY <2>1, <2>5, <2>6, <2>7
  <2>9. \A u \in calls' : sending'[u] \notin Range(ring')
    BY <2>2, <2>3, <2>4, <2>5, <2>6
  <2> QED BY <2>4, <2>6, <2>8, <2>9 DEF FramesAccounted
<1> QED
  BY <1>1, <1>3, <1>5, <1>6 DEF low_level_output

(* Everybody else moves no frame.                                          *)
LEMMA OtherFrames ==
  ASSUME FrameInv, UNCHANGED <<sending, txConfig, referenced, ring>>,
         pc'["core"] = pc["core"],
         \/ pc'["link"] = pc["link"]
         \/ pc["link"] \notin InOutput /\ pc'["link"] \notin InOutput
  PROVE  OutputInv' /\ FramesAccounted'
<1>1. {u \in Thread : pc'[u] = "transmit"} = {u \in Thread : pc[u] = "transmit"}
  BY DEF Thread, InOutput
<1>2. FramesAccounted'
  BY <1>1 DEF FrameInv, FramesAccounted
<1>3. OutputInv'
  BY DEF FrameInv, OutputInv, Thread, InOutput
<1> QED
  BY <1>2, <1>3

(* However transmissions overlap, unless the link thread is preempted with *)
(* TxConfig in its hands, every reference taken by low_level_output is in  *)
(* one place, and released once.                                           *)
THEOREM FramesReleasedOnce == ASSUME ~Preempted PROVE Spec => []FramesAccounted
<1>1. Init => FrameInv
  <2> SUFFICES ASSUME Init PROVE OutputInv /\ FramesAccounted
    BY Initially DEF FrameInv
  <2>1. \A t \in Thread : pc[t] \notin InOutput
    BY DEF Init, InOutput, Thread
  <2>2. OutputInv
    BY <2>1 DEF OutputInv, Thread, InOutput
  <2>3. {t \in Thread : pc[t] = "transmit"} = {}
    BY <2>1 DEF InOutput
  <2>4. referenced = {} /\ Range(ring) = {} /\ IsInjective(ring)
    BY DEF Init, Range, IsInjective
  <2> QED BY <2>2, <2>3, <2>4 DEF FramesAccounted
<1>2. FrameInv /\ [Next]_vars => FrameInv'
  <2> SUFFICES ASSUME FrameInv, [Next]_vars PROVE OutputInv' /\ FramesAccounted'
    BY Invariance DEF FrameInv
  <2>1. ASSUME NEW t \in Thread, low_level_output(t) PROVE OutputInv' /\ FramesAccounted'
    BY <2>1, OutputFrames
  <2>2. CASE ethernet_link_thread
    BY <2>2, LinkTouches, OtherFrames DEF FrameInv
  <2>3. CASE dmaCompletes \/ HAL_ETH_TxCpltCallback
    BY <2>3, OtherFrames DEF dmaCompletes, HAL_ETH_TxCpltCallback
  <2>4. CASE Wire
    BY <2>4, OtherFrames DEF Wire, txVars
  <2>5. CASE UNCHANGED vars
    BY <2>5, OtherFrames DEF vars, txVars
  <2> QED
    BY <2>1, <2>2, <2>3, <2>4, <2>5 DEF Next
<1>3. FrameInv => FramesAccounted
  BY DEF FrameInv
<1> QED
  BY <1>1, <1>2, <1>3, PTL DEF Spec-----------------------------------------------------------------------------
(* Whoever waits for TxPktSemaphore.  The wait has no timeout of its own:  *)
(* it ends only if a completion has been given, is pending in the          *)
(* interrupt register, or will be raised by a frame still in the ring.     *)

CompletionComes == txSem \/ txStatus \/ sent < Len(ring)

(* The thread under the core lock never waits for a completion that does   *)
(* not come: low_level_output in ethernetif.c. (While the cable is out the *)
(* frame stays in the ring and nothing raises it.)                         *)
CoreWaitHasEnd == pc["core"] = "wait" => CompletionComes

(* The link thread may, since one interrupt can stand for two frames; but  *)
(* it comes to that only by a step in which the other sender takes the     *)
(* semaphore.                                                              *)
LinkLosesToCore ==
  [][pc'["link"] = "wait" /\ ~CompletionComes'
       => \/ pc["core"] = "wait" /\ pc'["core"] = "release"
          \/ pc["link"] = "wait" /\ ~CompletionComes]_vars

(* HAL_ETH_ReleaseTxPacket forgets only frames that are finished.          *)
LEMMA ReleaseKeepsRest ==
  ASSUME RingOK, ring' = SubSeq(ring, sent + 1, Len(ring)), sent' = 0, sent < Len(ring)
  PROVE  sent' < Len(ring')
<1>1. Len(ring') = Len(ring) - sent
  BY DEF RingOK
<1> QED
  BY <1>1 DEF RingOK

(* A completion that was to come still is, unless someone takes it; and    *)
(* whoever begins to wait has one coming.                                  *)
LEMMA SenderCompletion ==
  ASSUME IInv, NEW t \in Thread, low_level_output(t)
  PROVE  /\ CompletionComes => CompletionComes' \/ take(t)
         /\ pc[t] # "wait" /\ pc'[t] = "wait" => CompletionComes'
<1>0. RingOK
  BY TypeParts DEF IInv, TxOK
<1>1. CASE prepare(t)
  <2>1. UNCHANGED <<ring, sent, txStatus, txSem>>
    BY <1>1 DEF prepare
  <2>2. pc'[t] = "transmit"
    BY <1>1, GoesOnly DEF prepare, IInv
  <2> QED BY <2>1, <2>2 DEF CompletionComes
<1>2. CASE transmit(t)
  <2>1. UNCHANGED <<sent, txStatus, txSem>>
    BY <1>2 DEF transmit
  <2>2. CASE accepted(t)
    <3>1. txConfig \in Frame
      BY <2>2, GoesOnly DEF accepted, ConfigInv, IInv
    <3>2. Len(ring') = Len(ring) + 1
      BY <1>0, <2>2, <3>1 DEF accepted, RingOK
    <3>3. sent' < Len(ring')
      BY <1>0, <2>1, <3>2 DEF RingOK
    <3> QED BY <3>3 DEF CompletionComes
  <2>3. CASE refused(t)
    <3>1. UNCHANGED ring
      BY <2>3 DEF refused
    <3>2. pc'[t] # "wait"
      BY <2>3, GoesOnly DEF refused, IInv, Return
    <3> QED BY <2>1, <3>1, <3>2 DEF CompletionComes
  <2> QED BY <1>2, <2>2, <2>3 DEF transmit
<1>3. CASE take(t)
  <2>1. pc[t] = "wait"
    BY <1>3, GoesOnly DEF take, IInv
  <2> QED BY <1>3, <2>1
<1>4. CASE release(t)
  <2>1. pc'[t] # "wait"
    BY <1>4, GoesOnly DEF release, IInv, Return
  <2>2. sent < Len(ring) => sent' < Len(ring')
    BY <1>0, <1>4, ReleaseKeepsRest DEF release
  <2> QED BY <1>4, <2>1, <2>2 DEF release, CompletionComes
<1> QED
  BY <1>1, <1>2, <1>3, <1>4 DEF low_level_output

(* Nobody else takes a completion away, or begins to wait.                 *)
LEMMA OthersKeepCompletion ==
  ASSUME IInv, [Next]_vars, \A t \in Thread : ~low_level_output(t)
  PROVE  /\ CompletionComes => CompletionComes'
         /\ \A t \in Thread : pc'[t] = "wait" => pc[t] = "wait"
         /\ pc'["core"] = pc["core"]
<1>1. CASE ethernet_link_thread
  <2>1. \/ UNCHANGED <<sent, txStatus>>
        \/ txStatus' = TRUE
    BY <1>1 DEF ethernet_link_thread, wakes, getLinkState, decide, stop, netifSetDown,
       netifSetLinkDown, HW_ETH_update_mac_config, netifSetUp, netifSetLinkUp, txVars
  <2>2. CompletionComes => CompletionComes'
    BY <1>1, <2>1, LinkTouches DEF CompletionComes
  <2> QED BY <1>1, <2>2, LinkTouches DEF Thread, InOutput
<1>2. CASE dmaCompletes
  BY <1>2 DEF dmaCompletes, CompletionComes
<1>3. CASE HAL_ETH_TxCpltCallback
  BY <1>3 DEF HAL_ETH_TxCpltCallback, CompletionComes
<1>4. CASE Wire \/ UNCHANGED vars
  <2>1. UNCHANGED <<ring, sent, txStatus, txSem, pc>>
    BY <1>4 DEF Wire, vars, txVars
  <2> QED BY <2>1 DEF CompletionComes
<1> QED
  BY <1>1, <1>2, <1>3, <1>4 DEF Next

(* The link thread takes the semaphore only while the core does not wait.  *)
LEMMA LinkTakesLast ==
  ASSUME IInv, take("link")
  PROVE  pc["core"] # "wait" /\ pc'["core"] # "wait"
<1>1. Runs("link") /\ txSem
  BY DEF take, Goes
<1>2. pc["core"] # "wait"
  BY <1>1 DEF Runs, Blocked
<1>3. pc'["core"] = pc["core"]
  BY GoesOnly DEF take, Thread, IInv
<1> QED
  BY <1>2, <1>3

(* One step from a state in which the core has something to wait for.      *)
LEMMA CoreWaitKept == IInv /\ CoreWaitHasEnd /\ [Next]_vars => CoreWaitHasEnd'
<1> SUFFICES ASSUME IInv, CoreWaitHasEnd, [Next]_vars, pc'["core"] = "wait"
             PROVE  CompletionComes'
  BY DEF CoreWaitHasEnd
<1> USE DEF CoreWaitHasEnd
<1>1. CASE \A t \in Thread : ~low_level_output(t)
  BY <1>1, OthersKeepCompletion
<1>2. CASE low_level_output("core")
  <2>1. ~take("core")
    BY GoesOnly DEF take, Thread, IInv
  <2>2. pc["core"] = "wait" => CompletionComes'
    BY <1>2, <2>1, SenderCompletion DEF Thread
  <2> QED BY <1>2, <2>2, SenderCompletion DEF Thread
<1>3. CASE low_level_output("link")
  <2>1. pc["core"] = "wait"
    <3>1. \E from, to : Goes("link", from, to)
      BY <1>3, Zenon DEF low_level_output, prepare, transmit, accepted, refused, take, release
    <3> QED BY <3>1, GoesOnly DEF Thread, IInv
  <2>2. ~take("link")
    BY <2>1, LinkTakesLast
  <2> QED BY <1>3, <2>1, <2>2, SenderCompletion DEF Thread
<1> QED
  BY <1>1, <1>2, <1>3 DEF Thread

(* Whoever sends under the core lock never waits for TxPktSemaphore with   *)
(* no completion to come, however the link thread's sending, and its own   *)
(* taking and releasing, are interleaved: low_level_output in ethernetif.c.*)
THEOREM CoreNeverWaitsInVain == Spec => []CoreWaitHasEnd
<1>1. Init => CoreWaitHasEnd
  BY DEF Init, CoreWaitHasEnd, Thread
<1>2. Init => IInv
  BY Initially
<1> QED
  BY <1>1, <1>2, Invariance, CoreWaitKept, PTL DEF Spec

(* One step that leaves the link thread waiting for nothing.               *)
LEMMA LinkLosesStep ==
  ASSUME IInv, [Next]_vars, pc'["link"] = "wait", ~CompletionComes'
  PROVE  \/ pc["core"] = "wait" /\ pc'["core"] = "release"
         \/ pc["link"] = "wait" /\ ~CompletionComes
<1>1. CASE \A t \in Thread : ~low_level_output(t)
  BY <1>1, OthersKeepCompletion DEF Thread
<1>2. CASE low_level_output("core")
  <2>1. pc["link"] = "wait"
    <3>1. \E from, to : Goes("core", from, to)
      BY <1>2, Zenon DEF low_level_output, prepare, transmit, accepted, refused, take, release
    <3> QED BY <3>1, GoesOnly DEF Thread, IInv
  <2>2. take("core") => pc["core"] = "wait" /\ pc'["core"] = "release"
    BY GoesOnly DEF take, Thread, IInv
  <2> QED BY <1>2, <2>1, <2>2, SenderCompletion DEF Thread
<1>3. CASE low_level_output("link")
  <2>1. ~take("link")
    BY GoesOnly DEF take, Thread, IInv
  <2> QED BY <1>3, <2>1, SenderCompletion DEF Thread
<1> QED
  BY <1>1, <1>2, <1>3 DEF Thread

(* If the link thread is left waiting for a completion that does not come, *)
(* the other sender's xSemaphoreTake took it: no frame is forgotten by     *)
(* HAL_ETH_ReleaseTxPacket, by the interrupt or by HAL_ETH_Stop_IT.        *)
THEOREM LinkLosesOnlyToCore == Spec => LinkLosesToCore
<1>1. IInv /\ [Next]_vars
      => [pc'["link"] = "wait" /\ ~CompletionComes'
            => \/ pc["core"] = "wait" /\ pc'["core"] = "release"
               \/ pc["link"] = "wait" /\ ~CompletionComes]_vars
  BY LinkLosesStep
<1>2. Init => IInv
  BY Initially
<1> QED
  BY <1>1, <1>2, Invariance, PTL DEF Spec, LinkLosesToCore
=============================================================================
