------------------------------- MODULE PhyLink -------------------------------
(***************************************************************************)
(* The LAN8742 transceiver as LAN8742_GetLinkState sees it: a chain of     *)
(* register reads, each of which may fail, while the cable changes between *)
(* any two of them.  EthernetLink extends this module with the thread that *)
(* makes the reads.                                                        *)
(***************************************************************************)
EXTENDS Integers

(* ETH_PHY_LinkState_t. Numbers, because the link thread compares them.    *)
READ_ERROR == -5
OK == 0
LINK_DOWN == 1
FULL_100 == 2
HALF_100 == 3
FULL_10 == 4
HALF_10 == 5
AUTONEGO_NOTDONE == 6

LinkMode == {FULL_100, HALF_100, FULL_10, HALF_10}

CONSTANTS
  Modes,      \* the link modes the partners on the cable can offer
  AutoNego,   \* AUTONEGO_EN in BCR; the program never writes BCR
  ForcedMode, \* the mode of BCR, used when auto-negotiation is off
  ReadFaults  \* may HAL_ETH_ReadPHYRegister fail?

ASSUME PhyAssumption ==
  /\ Modes \subseteq LinkMode /\ Modes # {}
  /\ ForcedMode \in LinkMode
  /\ AutoNego \in BOOLEAN /\ ReadFaults \in BOOLEAN
  /\ ~AutoNego => Modes = {ForcedMode}

VARIABLES
  cable,     \* what the wire is like: down, negotiating, or in a mode
  bsrLink,   \* LINK_STATUS of BSR: stays low after a drop until it is read
  reading,   \* the register LAN8742_GetLinkState reads next
  seen,      \* what LAN8742_GetLinkState returned last
  calm       \* from now on the cable is left alone and reads succeed

phyVars == <<cable, bsrLink, reading, seen, calm>>

PhyTypeOK ==
  /\ cable \in {LINK_DOWN, AUTONEGO_NOTDONE} \cup Modes
  /\ bsrLink \in BOOLEAN
  /\ reading \in {"none", "BSR", "BSR again", "BCR", "PHYSCSR"}
  /\ seen \in {READ_ERROR, OK, LINK_DOWN, AUTONEGO_NOTDONE} \cup LinkMode
  /\ calm \in BOOLEAN

PhyInit ==
  /\ cable = LINK_DOWN
  /\ bsrLink = FALSE
  /\ reading = "none"
  /\ seen = OK
  /\ calm = FALSE

-----------------------------------------------------------------------------
(* LAN8742_GetLinkState, one action per register *)

Returns(state) == seen' = state /\ reading' = "none"

(* The first read of BSR only ends the latching of an earlier drop.        *)
readBsr ==
  /\ reading = "BSR"
  /\ bsrLink' = (cable # LINK_DOWN)
  /\ reading' = "BSR again"
  /\ UNCHANGED <<cable, seen, calm>>

readBsrAgain ==
  /\ reading = "BSR again"
  /\ bsrLink' = (cable # LINK_DOWN)
  /\ IF bsrLink THEN reading' = "BCR" /\ UNCHANGED seen ELSE Returns(LINK_DOWN)
  /\ UNCHANGED <<cable, calm>>

readBcr ==
  /\ reading = "BCR"
  /\ IF AutoNego THEN reading' = "PHYSCSR" /\ UNCHANGED seen ELSE Returns(ForcedMode)
  /\ UNCHANGED <<cable, bsrLink, calm>>

readPhyscsr ==
  /\ reading = "PHYSCSR"
  /\ Returns(IF cable \in Modes THEN cable ELSE AUTONEGO_NOTDONE)
  /\ UNCHANGED <<cable, bsrLink, calm>>

readFails ==
  /\ reading # "none"
  /\ ReadFaults /\ ~calm
  /\ Returns(READ_ERROR)
  /\ UNCHANGED <<cable, bsrLink, calm>>

LAN8742_GetLinkState ==
  readBsr \/ readBsrAgain \/ readBcr \/ readPhyscsr \/ readFails

mapsAnything(state) == [changed |-> TRUE, mode |-> state]  \* mutant: no default case

(* ETH_PHY_IO_MapLinkState: LinkChanged, and the mode it is worth          *)
MapLinkState(state) ==
  IF state \in LinkMode THEN [changed |-> TRUE, mode |-> state]
                        ELSE [changed |-> FALSE, mode |-> state]

-----------------------------------------------------------------------------
(* The wire. Without auto-negotiation a link is in its mode at once.       *)

unplugged ==
  /\ ~calm
  /\ cable # LINK_DOWN
  /\ cable' = LINK_DOWN
  /\ bsrLink' = FALSE
  /\ UNCHANGED <<reading, seen, calm>>

plugged ==
  /\ ~calm
  /\ cable = LINK_DOWN
  /\ cable' = IF AutoNego THEN AUTONEGO_NOTDONE ELSE ForcedMode
  /\ UNCHANGED <<bsrLink, reading, seen, calm>>

negotiated ==
  /\ cable = AUTONEGO_NOTDONE
  /\ cable' \in Modes
  /\ UNCHANGED <<bsrLink, reading, seen, calm>>

settles ==
  /\ ~calm
  /\ calm' = TRUE
  /\ UNCHANGED <<cable, bsrLink, reading, seen>>
=============================================================================
