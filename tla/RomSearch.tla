----------------------------- MODULE RomSearch -----------------------------
(***************************************************************************)
(* The DS18B20 driver as it is built with ENABLE_DS18B20_ROM_SEARCH: at    *)
(* start-up it searches the bus for the codes of its sensors, bit by bit,  *)
(* and later reads them one after the other, each selected by its code.    *)
(*                                                                         *)
(* A UART transaction is one step here, from the call that starts it to    *)
(* the handler that acts on its end; how completions pair and how the task *)
(* interleaves with the interrupts inside a transaction is the subject of  *)
(* Ds18b20.  Codes are short, and the CRC is the parity of their bits,     *)
(* which like the CRC-8 detects a single wrong bit.                        *)
(***************************************************************************)
EXTENDS Naturals, Sequences, FiniteSets

CONSTANTS
  NUMBER_OF_DS18B20_SENSORS, \* app_config.hpp
  MAX_DEVICE_ID_BITS,        \* 64 in the code
  MaxSensors,                \* bound: sensors on the bus
  MaxNoise                   \* bound: sampled bits that noise inverts

ASSUME SearchAssumption ==
  /\ NUMBER_OF_DS18B20_SENSORS \in Nat \ {0}
  /\ MAX_DEVICE_ID_BITS \in Nat \ {0, 1}
  /\ MaxSensors \in Nat /\ MaxNoise \in Nat

Bit == 1 .. MAX_DEVICE_ID_BITS
Code == [Bit -> {0, 1}]
NoCode == [b \in Bit |-> 0]
Slot == 1 .. NUMBER_OF_DS18B20_SENSORS

(* calculateCrc of the first seven bytes equals the last one               *)
CrcOk(c) == Cardinality({b \in Bit : c[b] = 1}) % 2 = 0

VARIABLES
  state,     \* _State
  search,    \* _SearchState
  romCodes,  \* the first _NumSensorsFound elements of _RomCodes
  romCode,   \* _SearchRomCode, the code of this pass or the one before it
  bitNumber, lastDiscrepancy, lastZero, lastDevice, \* _SearchBitNumber ...
  matchRom,  \* _MatchRomTxBuf
  current,   \* _CurrentSensorIndex, counted from 1
  temp,      \* _LastTempCelsius: what it holds and whose it is
  busy,      \* a transaction is in flight
  sensors,   \* environment: the codes on the bus
  listening, \* environment: the sensors that follow this pass
  noise,     \* history: sampled bits inverted by noise
  silent,    \* history: a search reset was not answered
  failed,    \* history: a HAL call was refused, or an error interrupted
  measured   \* history: a measurement was started

searchVars == <<romCode, bitNumber, lastDiscrepancy, lastZero, lastDevice>>
busVars == <<sensors, listening>>
histVars == <<noise, silent, failed, measured>>
vars == <<state, search, romCodes, searchVars, matchRom, current, temp, busy, busVars, histVars>>

(* The transaction that follows when one has ended well                    *)
Following == [RESET_FOR_CONVERT |-> "SKIP_ROM_FOR_CONVERT",
              SKIP_ROM_FOR_CONVERT |-> "CONVERT_T",
              RESET_FOR_READ |-> "SEND_MATCH_ROM_FOR_READ",
              SEND_MATCH_ROM_FOR_READ |-> "MATCH_ROM_FOR_READ",
              MATCH_ROM_FOR_READ |-> "READ_SCRATCH_CMD",
              READ_SCRATCH_CMD |-> "READ_SCRATCH_CPLT"]

State == {"UNINITIALIZED", "IDLE", "SEARCHING", "CONVERT_T", "WAIT_CONVERSION",
          "READ_SCRATCH_CPLT"} \cup DOMAIN Following
SearchState == {"SRCH_IDLE", "SRCH_RESET", "SRCH_CMD", "SRCH_READ_BITS", "SRCH_WRITE_DIR",
                "SRCH_SEQ_COMPLETE"}

Temp(kind, code) == [kind |-> kind, of |-> code]
INVALID_TEMP == Temp("invalid", NoCode)

TypeOK ==
  /\ state \in State
  /\ search \in SearchState
  /\ Len(romCodes) <= NUMBER_OF_DS18B20_SENSORS
  /\ \A i \in DOMAIN romCodes : romCodes[i] \in Code
  /\ romCode \in Code
  /\ bitNumber \in 0 .. MAX_DEVICE_ID_BITS + 1
  /\ lastDiscrepancy \in 0 .. MAX_DEVICE_ID_BITS
  /\ lastZero \in 0 .. MAX_DEVICE_ID_BITS
  /\ matchRom \in [Slot -> Code]
  /\ current \in 1 .. NUMBER_OF_DS18B20_SENSORS + 1
  /\ temp \in [Slot -> [kind : {"zero", "invalid", "fresh", "old"}, of : Code]]
  /\ {lastDevice, busy, silent, failed, measured} \subseteq BOOLEAN
  /\ sensors \subseteq Code /\ listening \subseteq sensors
  /\ noise \in 0 .. MaxNoise

(* The initialiser { INVALID_TEMP } of the array reaches its first element *)
(* only.                                                                   *)
Init ==
  /\ state = "UNINITIALIZED" /\ search = "SRCH_IDLE"
  /\ romCodes = <<>> /\ romCode = NoCode
  /\ bitNumber = 0 /\ lastDiscrepancy = 0 /\ lastZero = 0
  /\ lastDevice = FALSE
  /\ matchRom = [i \in Slot |-> NoCode]
  /\ current = 1
  /\ temp = [i \in Slot |-> IF i = 1 THEN INVALID_TEMP ELSE Temp("zero", NoCode)]
  /\ busy = FALSE
  /\ sensors \in {S \in SUBSET {c \in Code : CrcOk(c) /\ c # NoCode} :
                    Cardinality(S) <= MaxSensors}
  /\ listening = {}
  /\ noise = 0 /\ silent = FALSE /\ failed = FALSE /\ measured = FALSE

-----------------------------------------------------------------------------
(* Steps shared by the handlers *)

setErrorAndIdle ==
  /\ temp' = [i \in Slot |-> INVALID_TEMP]
  /\ state' = "IDLE"

(* The UART accepts a transaction, or refuses the rate or the transfer.    *)
Accepted == busy' = TRUE /\ UNCHANGED failed
Refused == busy' = FALSE /\ failed' = TRUE

(* A transaction of the search; when it is refused the search is over.     *)
SearchTransact(s) ==
  \/ Accepted /\ search' = s
  \/ Refused /\ search' = "SRCH_SEQ_COMPLETE"

SearchOver == busy' = FALSE /\ search' = "SRCH_SEQ_COMPLETE" /\ UNCHANGED failed

(* A transaction of a measurement; when it is refused the driver resets.   *)
Transact(s) ==
  \/ Accepted /\ state' = s /\ UNCHANGED temp
  \/ Refused /\ setErrorAndIdle

processWithoutEncode ==  \* mutant: the match frames are not prepared
  /\ search' = "SRCH_IDLE"
  /\ state' = "IDLE"
  /\ UNCHANGED matchRom

processSearchComplete ==
  /\ search' = "SRCH_IDLE"
  /\ state' = "IDLE"
  /\ matchRom' = [i \in Slot |-> IF i \in DOMAIN romCodes THEN romCodes[i] ELSE matchRom[i]]

-----------------------------------------------------------------------------
(* The task: initialize with startSearchRom, then isSensorReady and        *)
(* startMeasure in every cycle                                             *)

startSearchRom ==
  /\ state = "UNINITIALIZED"
  /\ \/ Accepted /\ state' = "SEARCHING" /\ search' = "SRCH_RESET" /\ UNCHANGED matchRom
     \/ Refused /\ processSearchComplete
  /\ UNCHANGED <<romCodes, searchVars, current, temp, busVars, noise, silent, measured>>

isSensorReady ==
  /\ search = "SRCH_SEQ_COMPLETE"
  /\ processSearchComplete
  /\ UNCHANGED <<romCodes, searchVars, current, temp, busy, busVars, histVars>>

Aged(t) == IF t.kind = "fresh" THEN Temp("old", t.of) ELSE t

startMeasure ==
  /\ search # "SRCH_SEQ_COMPLETE"
  /\ state = "IDLE" /\ romCodes # <<>>
  /\ current' = 1
  /\ measured' = TRUE
  /\ \/ Accepted /\ state' = "RESET_FOR_CONVERT" /\ temp' = [i \in Slot |-> Aged(temp[i])]
     \/ Refused /\ setErrorAndIdle
  /\ UNCHANGED <<search, romCodes, searchVars, matchRom, busVars, noise, silent>>

-----------------------------------------------------------------------------
(* handleSearchTransaction *)

(* Without a presence pulse the handler returns and nothing is in flight.  *)
searchReset ==
  /\ search = "SRCH_RESET"
  /\ \/ busy' = FALSE /\ silent' = TRUE /\ UNCHANGED <<search, state, temp, failed>>
     \/ UNCHANGED silent          \* also over an empty bus: noise looks like a pulse
        /\ \/ Refused /\ setErrorAndIdle /\ UNCHANGED search
           \/ SearchTransact("SRCH_CMD") /\ UNCHANGED <<state, temp>>
  /\ UNCHANGED <<romCodes, searchVars, listening, noise>>

searchCommand ==
  /\ search = "SRCH_CMD"
  /\ bitNumber' = 1
  /\ lastZero' = 0
  /\ listening' = sensors
  /\ SearchTransact("SRCH_READ_BITS")
  /\ UNCHANGED <<state, temp, romCodes, romCode, lastDiscrepancy, lastDevice, noise, silent>>

(* The bus is a wired AND of what the listening sensors send: their bit,   *)
(* then its complement.                                                    *)
Sampled == <<IF \E c \in listening : c[bitNumber] = 0 THEN 0 ELSE 1,
             IF \E c \in listening : c[bitNumber] = 1 THEN 0 ELSE 1>>

directionForgetsPath(id, cmp) ==  \* mutant: the path to the last discrepancy is not kept
  IF id # cmp THEN id ELSE IF bitNumber = lastDiscrepancy THEN 1 ELSE 0

(* At a discrepancy: the way of the last pass up to the last zero taken    *)
(* there, one at it, and zero beyond it.                                   *)
SearchDirection(id, cmp) ==
  CASE id # cmp -> id
    [] id = cmp /\ bitNumber < lastDiscrepancy -> romCode[bitNumber]
    [] id = cmp /\ bitNumber >= lastDiscrepancy -> IF bitNumber = lastDiscrepancy THEN 1 ELSE 0

takeDirection(id, cmp) ==
  LET dir == SearchDirection(id, cmp) IN
  /\ romCode' = [romCode EXCEPT ![bitNumber] = dir]
  /\ lastZero' = IF id = cmp /\ dir = 0 THEN bitNumber ELSE lastZero
  /\ SearchTransact("SRCH_WRITE_DIR")

nobodyHangs ==  \* mutant: 1 and 1 ends nothing
  busy' = FALSE /\ UNCHANGED <<search, failed, romCode, lastZero>>

nobodyAnswers == SearchOver /\ UNCHANGED <<romCode, lastZero>>

searchReadBits ==
  /\ search = "SRCH_READ_BITS"
  /\ \E id, cmp \in {0, 1} :
       /\ noise' = noise + (IF <<id, cmp>> = Sampled THEN 0 ELSE 1)
       /\ noise' <= MaxNoise
       /\ id = Sampled[1] \/ cmp = Sampled[2]
       /\ IF id = 1 /\ cmp = 1 THEN nobodyAnswers ELSE takeDirection(id, cmp)
  /\ UNCHANGED <<state, temp, romCodes, bitNumber, lastDiscrepancy, lastDevice, listening, silent>>

passWithoutLimit(last) ==  \* mutant: the number of slots is not looked at
  /\ romCodes' = IF CrcOk(romCode) THEN Append(romCodes, romCode) ELSE romCodes
  /\ IF CrcOk(romCode) /\ ~last
     THEN bitNumber' = 0 /\ lastZero' = 0 /\ SearchTransact("SRCH_RESET")
     ELSE SearchOver /\ bitNumber' = bitNumber + 1 /\ UNCHANGED lastZero

passWithoutCrc(last) ==  \* mutant: the code is stored without its CRC
  /\ romCodes' = Append(romCodes, romCode)
  /\ SearchOver /\ bitNumber' = bitNumber + 1 /\ UNCHANGED lastZero

(* All bits are known: store the code, and search on unless it was the     *)
(* last one, or the slots are full, or its CRC is wrong.                   *)
passEnds(last) ==
  IF CrcOk(romCode)
  THEN /\ romCodes' = Append(romCodes, romCode)
       /\ IF ~last /\ Len(romCodes') < NUMBER_OF_DS18B20_SENSORS
          THEN bitNumber' = 0 /\ lastZero' = 0 /\ SearchTransact("SRCH_RESET")
          ELSE SearchOver /\ bitNumber' = bitNumber + 1 /\ UNCHANGED lastZero
  ELSE SearchOver /\ bitNumber' = bitNumber + 1 /\ UNCHANGED <<romCodes, lastZero>>

(* The direction has been sent: the sensors with another bit drop out.     *)
searchWriteDirection ==
  /\ search = "SRCH_WRITE_DIR"
  /\ listening' = {c \in listening : c[bitNumber] = romCode[bitNumber]}
  /\ IF bitNumber < MAX_DEVICE_ID_BITS
     THEN /\ bitNumber' = bitNumber + 1
          /\ SearchTransact("SRCH_READ_BITS")
          /\ UNCHANGED <<romCodes, lastDiscrepancy, lastZero, lastDevice>>
     ELSE /\ lastDiscrepancy' = lastZero
          /\ lastDevice' = (lastDevice \/ lastZero = 0)
          /\ passEnds(lastDevice')
  /\ UNCHANGED <<state, temp, romCode, noise, silent>>

handleSearchTransaction ==
  /\ state = "SEARCHING"
  /\ searchReset \/ searchCommand \/ searchReadBits \/ searchWriteDirection
  /\ UNCHANGED current

-----------------------------------------------------------------------------
(* A measurement of all the sensors found *)

measureStep ==
  /\ state \in DOMAIN Following
  /\ Transact(Following[state])
  /\ UNCHANGED current

conversionStarted ==
  /\ state = "CONVERT_T"
  /\ busy' = FALSE
  /\ \/ state' = "WAIT_CONVERSION" /\ UNCHANGED <<temp, failed>>
     \/ failed' = TRUE /\ setErrorAndIdle
  /\ UNCHANGED current

(* The sensor whose code was sent answers; without one, the scratchpad     *)
(* reads as ones, whose CRC is wrong. That the sensors heard the commands, *)
(* which the code does not verify, is assumed here; Ds18b20 is about it.   *)
ScratchpadOf(code) == IF code \in sensors THEN Temp("fresh", code) ELSE INVALID_TEMP

readScratchpad ==
  /\ state = "READ_SCRATCH_CPLT"
  /\ \E t \in {ScratchpadOf(matchRom[current]), INVALID_TEMP} :
       LET read == [temp EXCEPT ![current] = t]
           crcError == t # ScratchpadOf(matchRom[current])
       IN  \/ /\ current < Len(romCodes)
              /\ busy' = TRUE /\ state' = "RESET_FOR_READ" /\ temp' = read
              /\ failed' = (failed \/ crcError)
           \/ /\ current < Len(romCodes)
              /\ Refused /\ setErrorAndIdle
           \/ /\ current >= Len(romCodes)
              /\ busy' = FALSE /\ state' = "IDLE" /\ temp' = read
              /\ failed' = (failed \/ crcError)
  /\ current' = current + 1

measuring ==
  /\ measureStep \/ conversionStarted \/ readScratchpad
  /\ UNCHANGED <<search, romCodes, searchVars, listening, noise, silent>>

handleTransactionComplete ==
  /\ busy
  /\ handleSearchTransaction \/ measuring
  /\ UNCHANGED <<matchRom, sensors, measured>>

handleConversionTimerElapsed ==
  /\ state = "WAIT_CONVERSION"
  /\ Transact("RESET_FOR_READ")
  /\ UNCHANGED <<search, romCodes, searchVars, matchRom, current, busVars, noise, silent, measured>>

handleUartError ==
  /\ busy
  /\ Refused
  /\ search' = IF state = "SEARCHING" THEN "SRCH_SEQ_COMPLETE" ELSE search
  /\ setErrorAndIdle
  /\ UNCHANGED <<romCodes, searchVars, matchRom, current, busVars, noise, silent, measured>>

-----------------------------------------------------------------------------
Next ==
  \/ startSearchRom \/ isSensorReady \/ startMeasure
  \/ handleTransactionComplete
  \/ handleConversionTimerElapsed
  \/ handleUartError

Spec == Init /\ [][Next]_vars

(* Transactions end and the task polls; errors are never forced.           *)
FairSpec == Spec /\ WF_vars(handleTransactionComplete) /\ WF_vars(isSensorReady)

-----------------------------------------------------------------------------
Found == {romCodes[i] : i \in DOMAIN romCodes}
SearchIsOver == state # "UNINITIALIZED" /\ search \in {"SRCH_SEQ_COMPLETE", "SRCH_IDLE"}

(* The order in which a search that tries zero first meets the codes       *)
Precedes(c, d) == \E b \in Bit : c[b] < d[b] /\ \A a \in 1 .. b - 1 : c[a] = d[a]
Rank(c) == Cardinality({d \in sensors : Precedes(d, c)}) + 1

(* Without noise the passes meet the sensors in that order, each once, and *)
(* unless a call failed or nobody answered a reset, the search ends with   *)
(* all of them, or as many as there are slots (handleSearchTransaction).   *)
SearchExact ==
  noise = 0 =>
    /\ \A i \in DOMAIN romCodes : romCodes[i] \in sensors /\ Rank(romCodes[i]) = i
    /\ SearchIsOver /\ ~failed /\ ~silent
         => \/ Found = sensors
            \/ Len(romCodes) = NUMBER_OF_DS18B20_SENSORS

(* A single bit inverted by noise, in whichever pass, never makes the      *)
(* driver know a sensor that is not there: it may only find one twice, or  *)
(* miss some (searchReadBits, the CRC at the end of the pass).             *)
CodesReal == noise <= 1 => Found \subseteq sensors

(* When a task finds the driver ready after a measurement, each slot holds *)
(* the sentinel or what the sensor of this slot has converted in it, and   *)
(* if nothing failed all of them hold a value: the read loop, its index    *)
(* and the frames prepared at the end of the search belong together.       *)
OwnReading ==
  measured /\ state = "IDLE" =>
    \A i \in DOMAIN romCodes :
      /\ temp[i] \in {INVALID_TEMP, Temp("fresh", romCodes[i])}
      /\ noise = 0 /\ ~failed => temp[i] = Temp("fresh", romCodes[i])

(* The search ends and the sensor becomes ready, unless a reset of the     *)
(* search was not answered: that handler returns without an end, and the   *)
(* driver keeps searching for ever.                                        *)
SearchEnds == state = "SEARCHING" ~> (silent \/ (state = "IDLE" /\ search # "SRCH_SEQ_COMPLETE"))
=============================================================================
