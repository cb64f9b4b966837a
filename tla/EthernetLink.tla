---------------------------- MODULE EthernetLink ----------------------------
(***************************************************************************)
(* The sending half of ethernetif.c and the thread that watches the cable. *)
(* Two threads come to low_level_output: whoever holds lwIP's core lock    *)
(* (TCP/IP thread or network task, both of priority 4: "core"), and the    *)
(* link thread itself (priority 3, without the lock), because lwIP's       *)
(* netif_set_link_up announces the address with an ARP frame.              *)
(*                                                                         *)
(* A lower thread runs only while the higher one is blocked; the Ethernet  *)
(* interrupt runs at any time.                                             *)
(***************************************************************************)
EXTENDS PhyLink, Sequences, FiniteSets, Functions

CONSTANTS
  Frame,         \* pbufs that can be on their way
  NoFrame,
  TxDescriptors, \* ETH_TX_DESC_CNT
  Preempted,     \* may the link thread be preempted between filling in TxConfig
                 \* and the HAL's call?
  QuickSwap      \* may a cable be plugged before the link thread saw it unplugged?

ASSUME LinkAssumption ==
  /\ NoFrame \notin Frame
  /\ TxDescriptors \in Nat \ {0}
  /\ Preempted \in BOOLEAN /\ QuickSwap \in BOOLEAN

VARIABLES
  mac,        \* EthernetHandle.gState
  macMode,    \* the mode HW_ETH_update_mac_config configured last
  netifUp,    \* NETIF_FLAG_UP
  linkUp,     \* NETIF_FLAG_LINK_UP
  pc,         \* where each thread is
  sending,    \* the pbuf p of a thread's call of low_level_output
  txConfig,   \* TxConfig.pData; TxConfig is one for both threads
  referenced, \* the pbufs low_level_output has taken a reference of
  ring,       \* the pbufs of the transmit descriptors in use, oldest first
  sent,       \* how many of them the DMA has finished
  txStatus,   \* transmit status pending in the DMA's interrupt register
  txSem       \* TxPktSemaphore

txVars == <<sending, txConfig, referenced, ring, sent, txStatus, txSem>>
netifVars == <<mac, macMode, netifUp, linkUp>>
vars == <<phyVars, netifVars, txVars, pc>>

Thread == {"core", "link"}
InOutput == {"transmit", "wait", "release"}

TypeOK ==
  /\ PhyTypeOK
  /\ mac \in {"READY", "STARTED"}
  /\ macMode \in {0} \cup LinkMode
  /\ netifUp \in BOOLEAN /\ linkUp \in BOOLEAN
  /\ pc["core"] \in {"idle"} \cup InOutput
  /\ pc["link"] \in {"delay", "poll", "stop", "setDown", "setLinkDown",
                     "update", "setUp", "setLinkUp", "output"} \cup InOutput
  /\ DOMAIN pc = Thread
  /\ sending \in [Thread -> Frame \cup {NoFrame}]
  /\ txConfig \in Frame \cup {NoFrame}
  /\ referenced \subseteq Frame
  /\ ring \in Seq(Frame) /\ Len(ring) <= TxDescriptors
  /\ sent \in 0 .. Len(ring)
  /\ txStatus \in BOOLEAN /\ txSem \in BOOLEAN

(* low_level_init has run and networkStackInit has set the interface up,   *)
(* all in the network task, which the link thread cannot preempt.          *)
Init ==
  /\ PhyInit
  /\ mac = "READY" /\ macMode = 0
  /\ netifUp = TRUE /\ linkUp = FALSE
  /\ pc = [t \in Thread |-> IF t = "core" THEN "idle" ELSE "poll"]
  /\ sending = [t \in Thread |-> NoFrame]
  /\ txConfig = NoFrame
  /\ referenced = {}
  /\ ring = <<>> /\ sent = 0
  /\ txStatus = FALSE /\ txSem = FALSE

-----------------------------------------------------------------------------
(* Scheduling *)

Blocked == pc["core"] = "idle" \/ (pc["core"] = "wait" /\ ~txSem)

Runs(t) == t = "link" => Blocked

Goes(t, from, to) == pc[t] = from /\ Runs(t) /\ pc' = [pc EXCEPT ![t] = to]

LinkGoes(from, to) == Goes("link", from, to)

-----------------------------------------------------------------------------
(* low_level_output, called with a chain that fits the descriptors (for a  *)
(* longer one it returns ERR_IF and changes nothing)                       *)

Return(t) == IF t = "core" THEN "idle" ELSE "delay"

(* TxConfig is filled in and pbuf_ref called. lwIP sends from the core     *)
(* when it finds the interface up.                                         *)
prepare(t) ==
  /\ \/ t = "core" /\ Goes(t, "idle", "transmit") /\ netifUp /\ linkUp
     \/ t = "link" /\ Goes(t, "output", "transmit")
  /\ Preempted \/ \A other \in Thread : pc[other] # "transmit"
  /\ \E p \in Frame \ (Range(ring) \cup Range(sending)) :
       /\ txConfig' = p
       /\ sending' = [sending EXCEPT ![t] = p]
       /\ referenced' = referenced \cup {p}
  /\ UNCHANGED <<phyVars, netifVars, ring, sent, txStatus, txSem>>

Accepted == mac = "STARTED" /\ Len(ring) < TxDescriptors

refusalKeepsReference(t) ==  \* mutant: no pbuf_free when the HAL refuses
  /\ ~Accepted
  /\ Goes(t, "transmit", Return(t))
  /\ sending' = [sending EXCEPT ![t] = NoFrame]
  /\ UNCHANGED <<referenced, ring>>

(* The HAL refuses the frame: it is freed, and ERR_OK returned.            *)
refused(t) ==
  /\ ~Accepted
  /\ Goes(t, "transmit", Return(t))
  /\ referenced' = referenced \ {sending[t]}
  /\ sending' = [sending EXCEPT ![t] = NoFrame]
  /\ UNCHANGED ring

(* HAL_ETH_Transmit_IT queues what TxConfig says, whoever wrote it.        *)
accepted(t) ==
  /\ Accepted
  /\ Goes(t, "transmit", "wait")
  /\ ring' = Append(ring, txConfig)
  /\ UNCHANGED <<sending, referenced>>

transmit(t) ==
  /\ accepted(t) \/ refused(t)
  /\ UNCHANGED <<phyVars, netifVars, txConfig, sent, txStatus, txSem>>

(* The loop around xSemaphoreTake ends; its timeouts only repeat it.       *)
take(t) ==
  /\ txSem
  /\ Goes(t, "wait", "release")
  /\ txSem' = FALSE
  /\ UNCHANGED <<phyVars, netifVars, sending, txConfig, referenced, ring, sent, txStatus>>

(* HAL_ETH_ReleaseTxPacket calls HAL_ETH_TxFreeCallback for every frame    *)
(* the DMA has finished.                                                   *)
release(t) ==
  /\ Goes(t, "release", Return(t))
  /\ referenced' = referenced \ {ring[i] : i \in 1 .. sent}
  /\ ring' = SubSeq(ring, sent + 1, Len(ring))
  /\ sent' = 0
  /\ sending' = [sending EXCEPT ![t] = NoFrame]
  /\ UNCHANGED <<phyVars, netifVars, txConfig, txStatus, txSem>>

low_level_output(t) == prepare(t) \/ transmit(t) \/ take(t) \/ release(t)

-----------------------------------------------------------------------------
(* The MAC's DMA and its interrupt *)

dmaCompletes ==
  /\ mac = "STARTED"
  /\ sent < Len(ring)
  /\ sent' = sent + 1
  /\ txStatus' = TRUE
  /\ UNCHANGED <<phyVars, netifVars, pc, sending, txConfig, referenced, ring, txSem>>

givesRxSemaphore ==  \* mutant: the callback gives the other semaphore
  /\ mac = "STARTED"
  /\ txStatus
  /\ txStatus' = FALSE
  /\ UNCHANGED <<phyVars, netifVars, pc, sending, txConfig, referenced, ring, sent, txSem>>

(* One call for all frames completed since the last one.                   *)
HAL_ETH_TxCpltCallback ==
  /\ mac = "STARTED"
  /\ txStatus
  /\ txStatus' = FALSE
  /\ txSem' = TRUE
  /\ UNCHANGED <<phyVars, netifVars, pc, sending, txConfig, referenced, ring, sent>>

-----------------------------------------------------------------------------
(* ethernet_link_thread *)

wakes ==
  /\ LinkGoes("delay", "poll")
  /\ UNCHANGED <<phyVars, netifVars, txVars>>

getLinkState ==
  /\ LinkGoes("poll", "poll")
  /\ IF reading = "none"
     THEN reading' = "BSR" /\ UNCHANGED <<cable, bsrLink, seen, calm>>
     ELSE LAN8742_GetLinkState /\ reading' # "none"
  /\ UNCHANGED <<netifVars, txVars>>

(* What is done with the state read: a read error counts as a lost link,   *)
(* a negotiation in progress as no news.                                   *)
decide ==
  /\ reading # "none"
  /\ LAN8742_GetLinkState /\ reading' = "none"
  /\ LinkGoes("poll", IF linkUp /\ seen' <= LINK_DOWN THEN "stop"
                      ELSE IF ~linkUp /\ seen' > LINK_DOWN /\ MapLinkState(seen').changed
                      THEN "update" ELSE "delay")
  /\ UNCHANGED <<netifVars, txVars>>

stopForgotten ==  \* mutant: the interface goes down, the MAC goes on
  /\ LinkGoes("stop", "setDown")
  /\ UNCHANGED <<phyVars, netifVars, txVars>>

(* HAL_ETH_Stop_IT lets the DMA finish the frame it is at, or not even     *)
(* that, and masks the interrupt; the other frames stay in the ring.       *)
stop ==
  /\ LinkGoes("stop", "setDown")
  /\ mac' = "READY"
  /\ \/ UNCHANGED <<sent, txStatus>>
     \/ sent < Len(ring) /\ sent' = sent + 1 /\ txStatus' = TRUE
  /\ UNCHANGED <<phyVars, macMode, netifUp, linkUp, sending, txConfig, referenced, ring, txSem>>

netifSetDown ==
  /\ LinkGoes("setDown", "setLinkDown")
  /\ netifUp' = FALSE
  /\ UNCHANGED <<phyVars, mac, macMode, linkUp, txVars>>

netifSetLinkDown ==
  /\ LinkGoes("setLinkDown", "delay")
  /\ linkUp' = FALSE
  /\ UNCHANGED <<phyVars, mac, macMode, netifUp, txVars>>

(* HW_ETH_update_mac_config: the HAL configures and starts only a MAC that *)
(* is not running; otherwise the link stays down until the next poll.      *)
HW_ETH_update_mac_config ==
  /\ IF mac = "READY"
     THEN /\ LinkGoes("update", "setUp")
          /\ macMode' = MapLinkState(seen).mode
          /\ mac' = "STARTED"
     ELSE LinkGoes("update", "delay") /\ UNCHANGED <<mac, macMode>>
  /\ UNCHANGED <<phyVars, netifUp, linkUp, txVars>>

netifSetUp ==
  /\ LinkGoes("setUp", "setLinkUp")
  /\ netifUp' = TRUE
  /\ UNCHANGED <<phyVars, mac, macMode, linkUp, txVars>>

netifSetLinkUp ==
  /\ LinkGoes("setLinkUp", "output")
  /\ linkUp' = TRUE
  /\ UNCHANGED <<phyVars, mac, macMode, netifUp, txVars>>

ethernet_link_thread ==
  \/ wakes \/ getLinkState \/ decide
  \/ stop \/ netifSetDown \/ netifSetLinkDown
  \/ HW_ETH_update_mac_config \/ netifSetUp \/ netifSetLinkUp

-----------------------------------------------------------------------------
(* A cable comes back; unless QuickSwap, only after the thread has noticed *)
(* that it was gone (it looks every 100 ms, a negotiation takes longer).   *)
cablePlugged ==
  /\ plugged
  /\ QuickSwap \/ (~linkUp /\ pc["link"] = "delay")

Wire == (unplugged \/ cablePlugged \/ negotiated \/ settles)
        /\ UNCHANGED <<netifVars, txVars, pc>>

Next ==
  \/ \E t \in Thread : low_level_output(t)
  \/ ethernet_link_thread
  \/ dmaCompletes \/ HAL_ETH_TxCpltCallback
  \/ Wire

Spec == Init /\ [][Next]_vars

(* The hardware ends what it is told to do, a negotiation ends, and both   *)
(* threads run when the scheduler lets them. Nobody has to send.           *)
Fairness ==
  /\ WF_vars(dmaCompletes) /\ WF_vars(HAL_ETH_TxCpltCallback)
  /\ WF_vars(negotiated /\ UNCHANGED <<netifVars, txVars, pc>>)
  /\ WF_vars(transmit("core") \/ take("core") \/ release("core"))
  /\ SF_vars(ethernet_link_thread \/ low_level_output("link"))

FairSpec == Spec /\ Fairness

-----------------------------------------------------------------------------
(* Every reference low_level_output took belongs to exactly one place, a   *)
(* descriptor or a call that has not handed its frame over yet: nothing is *)
(* freed under the DMA, freed twice, or kept for ever, although either     *)
(* thread may release the other's frames and return before its own is out. *)
(* (Not so if Preempted: the link thread may hand over what the core wrote *)
(* to TxConfig since, which then is freed twice, and its own frame never.) *)
FramesAccounted ==
  LET calls == {t \in Thread : pc[t] = "transmit"} IN
  /\ referenced = Range(ring) \cup {sending[t] : t \in calls}
  /\ IsInjective(ring)
  /\ \A t \in calls : sending[t] \notin Range(ring)

(* The MAC runs exactly while the link flag is up, but for the steps that  *)
(* change both; were it ever left running behind a flag that is down,      *)
(* HW_ETH_update_mac_config would be refused at every poll from then on.   *)
MacFollowsFlag ==
  /\ linkUp /\ pc["link"] \notin {"setDown", "setLinkDown"} => mac = "STARTED"
  /\ ~linkUp /\ pc["link"] \notin {"setUp", "setLinkUp"} => mac = "READY"

(* With the cable left alone, the flag the network task polls comes to     *)
(* tell whether there is a link, and the MAC is in the link's mode, unless *)
(* the link thread is left waiting for a completion.                       *)
LinkFollowsCable ==
  \/ <>[](pc["link"] = "wait")
  \/ <>[](calm => /\ linkUp <=> cable \in Modes
                  /\ linkUp => macMode = cable)

(* That happens only where two transmissions have met: then one interrupt  *)
(* may stand for both completions, and the core takes the semaphore.       *)
AnnouncementReturns ==
  \/ <>(\A t \in Thread : pc[t] \in InOutput)
  \/ []<>(pc["link"] # "wait")

(* With the cable left in, whoever sends under the core lock returns: the  *)
(* wait for TxPktSemaphore has no timeout, and an unplugged cable stops    *)
(* the DMA in the middle of it.                                            *)
OutputReturns == []<>(calm /\ cable # LINK_DOWN => pc["core"] = "idle")

(* Neither sender is left waiting for TxPktSemaphore, but in the two cases *)
(* named above.                                                            *)
SendersReturn == AnnouncementReturns /\ OutputReturns

(* Refuted: "The packet is contained in the pbuf that is passed to the     *)
(* function" (low_level_output). Between filling in TxConfig and handing   *)
(* it to the HAL the link thread can be preempted by the other sender.     *)
TransmitsItsPbuf ==
  [][\A t \in Thread : pc[t] = "transmit" /\ pc'[t] = "wait"
       => ring' = Append(ring, sending[t])]_<<pc, ring>>
=============================================================================
