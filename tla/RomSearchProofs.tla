-------------------------- MODULE RomSearchProofs --------------------------
(***************************************************************************)
(* For any number of slots, bits and sensors: without noise the search     *)
(* meets the sensors one by one in their order and ends with all of them   *)
(* or all slots full (SearchExact), one inverted bit never makes up a      *)
(* sensor (CodesReal), and each slot holds its own sensor's reading        *)
(* (OwnReading).                                                           *)
(*                                                                         *)
(* Argument.  In a pass the sensors that listen are those that agree with  *)
(* the bits sent so far (PassInv), and one of them is there as long as no  *)
(* sample was inverted; a sample inverted at the last bit gives a code at  *)
(* distance one from a sensor, which the CRC refuses.  Without noise the   *)
(* pass takes the way of the last code up to its last zero branch, one     *)
(* there and the least way after it (PathInv): the code it ends with is    *)
(* the next in the order, because nothing after that branch is above the   *)
(* last code or below the new one.                                         *)
(* The last part is why a search ends: its steps count down, and the task  *)
(* never waits for an answer that will not come.                           *)
(***************************************************************************)
EXTENDS RomSearch, FiniteSetTheorems, FunctionTheorems, WellFoundedInduction, TLAPS

Running == {"SRCH_RESET", "SRCH_CMD", "SRCH_READ_BITS", "SRCH_WRITE_DIR"}
InPass == {"SRCH_READ_BITS", "SRCH_WRITE_DIR"}
Converting == {"RESET_FOR_CONVERT", "SKIP_ROM_FOR_CONVERT", "CONVERT_T", "WAIT_CONVERSION"}
Reading == {"RESET_FOR_READ", "SEND_MATCH_ROM_FOR_READ", "MATCH_ROM_FOR_READ", "READ_SCRATCH_CMD",
            "READ_SCRATCH_CPLT"}

(* A search that runs has a slot for the next code, a pass is at a bit,    *)
(* and a measurement at a sensor that was found.                           *)
ShapeInv ==
  /\ romCodes \in Seq(Code)
  /\ \A c \in sensors : CrcOk(c) /\ c # NoCode
  /\ state = "UNINITIALIZED" => romCodes = <<>>
  /\ search \in Running => Len(romCodes) < NUMBER_OF_DS18B20_SENSORS
  /\ search \in InPass => bitNumber \in Bit
  /\ state \in Converting => current = 1 /\ romCodes # <<>>
  /\ state \in Reading => current <= Len(romCodes)

TypeInv == TypeOK /\ ShapeInv

Agree(c, d, n) == \A a \in 1 .. n : c[a] = d[a]

(* The sensors that listen agree with the bits sent so far, and there are  *)
(* some unless noise, or an empty bus, has misled the pass.                *)
PassInv ==
  state = "SEARCHING" /\ search \in InPass =>
    /\ listening = {c \in sensors : Agree(c, romCode, bitNumber - 1)}
    /\ noise = 0 \/ (search = "SRCH_WRITE_DIR" /\ noise <= 1) =>
         listening # {} \/ (bitNumber = 1 /\ sensors = {})
    /\ noise = 0 /\ search = "SRCH_WRITE_DIR" =>
         \E c \in listening : c[bitNumber] = romCode[bitNumber]

CodesInv == TypeInv /\ PassInv /\ CodesReal

(* At bit b of the way to q another sensor has turned off, q taking zero   *)
(* or one.                                                                 *)
ZeroBranch(q, b) == q[b] = 0 /\ \E c \in sensors : c[b] = 1 /\ Agree(c, q, b - 1)
OneBranch(q, b) == q[b] = 1 /\ \E c \in sensors : c[b] = 0 /\ Agree(c, q, b - 1)

(* z is the last zero branch among the first n bits of q, or 0.            *)
LastZero(q, z, n) ==
  /\ z # 0 => z \in 1 .. n /\ ZeroBranch(q, z)
  /\ \A b \in z + 1 .. n : ~ZeroBranch(q, b)

Below(q) == {c \in sensors : Precedes(c, q)}

(* The codes found are the first sensors in the order, and the last of     *)
(* them is still in romCode when the next pass starts.                     *)
ChainInv ==
  /\ \A i \in DOMAIN romCodes : romCodes[i] \in sensors /\ Rank(romCodes[i]) = i
  /\ romCodes # <<>> => Below(romCodes[Len(romCodes)]) \union {romCodes[Len(romCodes)]} = Found

Last == romCodes[Len(romCodes)]

LastInv ==
  state = "SEARCHING" /\ search \in Running =>
    /\ ~lastDevice
    /\ romCodes = <<>> <=> lastDiscrepancy = 0
    /\ romCodes # <<>> => LastZero(Last, lastDiscrepancy, MAX_DEVICE_ID_BITS)
    /\ romCodes # <<>> /\ search \in {"SRCH_RESET", "SRCH_CMD"} => romCode = Last

(* The first n bits of the pass have taken the last code's way up to its   *)
(* last zero branch, one there and zero at every branch after it.          *)
Path(n) ==
  /\ \A a \in 1 .. n : /\ a < lastDiscrepancy => romCode[a] = Last[a]
                       /\ a = lastDiscrepancy => romCode[a] = 1
                       /\ a > lastDiscrepancy => ~OneBranch(romCode, a)
  /\ romCodes # <<>> => \A a \in n + 1 .. MAX_DEVICE_ID_BITS : romCode[a] = Last[a]
  /\ LastZero(romCode, lastZero, n)

PathInv ==
  /\ state = "SEARCHING" /\ search = "SRCH_READ_BITS" => Path(bitNumber - 1)
  /\ state = "SEARCHING" /\ search = "SRCH_WRITE_DIR" => Path(bitNumber)

OverInv ==
  SearchIsOver /\ ~failed /\ ~silent
    => Found = sensors \/ Len(romCodes) = NUMBER_OF_DS18B20_SENSORS

(* The search starts from its initial values.                              *)
StartInv ==
  state = "UNINITIALIZED" => search = "SRCH_IDLE" /\ ~lastDevice /\ lastDiscrepancy = 0

SearchInv == StartInv /\ (noise = 0 => ChainInv /\ LastInv /\ PathInv /\ OverInv)

(* The frame of a slot is that of its code, or was never prepared because  *)
(* a call was refused.                                                     *)
MatchInv ==
  /\ \A i \in DOMAIN romCodes : matchRom[i] \in {NoCode, romCodes[i]}
  /\ \A i \in Slot \ DOMAIN romCodes : matchRom[i] = NoCode
  /\ measured => state \notin {"UNINITIALIZED", "SEARCHING"} /\ search # "SRCH_SEQ_COMPLETE"
  /\ ~failed /\ state \notin {"UNINITIALIZED", "SEARCHING"} =>
       search = "SRCH_IDLE" /\ \A i \in DOMAIN romCodes : matchRom[i] = romCodes[i]

Own(i) ==
  /\ temp[i] \in {INVALID_TEMP, Temp("fresh", romCodes[i])}
  /\ noise = 0 /\ ~failed => temp[i] = Temp("fresh", romCodes[i])

ReadInv == state \in Reading => \A i \in 1 .. current - 1 : Own(i)

ReadingInv == MatchInv /\ ReadInv /\ OwnReading
-----------------------------------------------------------------------------
(* Types and shape *)

LEMMA BitFacts ==
  /\ 1 \in Bit /\ MAX_DEVICE_ID_BITS \in Bit /\ MAX_DEVICE_ID_BITS \in Nat
  /\ MAX_DEVICE_ID_BITS > 1 /\ NUMBER_OF_DS18B20_SENSORS \in Nat
  /\ NUMBER_OF_DS18B20_SENSORS > 0 /\ NoCode \in Code
BY SearchAssumption DEF SearchAssumption, Bit, NoCode, Code

LEMMA InitType == Init => TypeInv
<1> SUFFICES ASSUME Init PROVE TypeInv
  OBVIOUS
<1>1. sensors \subseteq {c \in Code : CrcOk(c) /\ c # NoCode}
  BY DEF Init
<1>2. temp \in [Slot -> [kind : {"zero", "invalid", "fresh", "old"}, of : Code]]
  BY BitFacts DEF Init, Temp, INVALID_TEMP
<1>3. matchRom \in [Slot -> Code]
  BY BitFacts DEF Init
<1>4. /\ state \in State /\ search \in SearchState /\ romCode \in Code
      /\ {lastDevice, busy, silent, failed, measured} \subseteq BOOLEAN
  BY BitFacts DEF Init, State, SearchState
<1>5. /\ bitNumber = 0 /\ lastDiscrepancy = 0 /\ lastZero = 0 /\ current = 1 /\ noise = 0
      /\ romCodes = <<>> /\ listening = {}
  BY DEF Init
<1>6. Len(romCodes) <= NUMBER_OF_DS18B20_SENSORS /\ \A i \in DOMAIN romCodes : romCodes[i] \in Code
  BY <1>5, BitFacts
<1>7. 0 \in 0 .. MaxNoise /\ 1 \in 1 .. NUMBER_OF_DS18B20_SENSORS + 1
  BY SearchAssumption, BitFacts DEF SearchAssumption
<1>8. TypeOK
  BY <1>1, <1>2, <1>3, <1>4, <1>5, <1>6, <1>7, BitFacts DEF TypeOK
<1> QED
  BY <1>1, <1>8, BitFacts DEF Init, TypeInv, ShapeInv, Running, InPass, Converting, Reading

(* The parts of the types that are the same in every handler.              *)
LEMMA SentinelType == INVALID_TEMP \in [kind : {"zero", "invalid", "fresh", "old"}, of : Code]
BY BitFacts DEF INVALID_TEMP, Temp

LEMMA ResetType ==
  ASSUME setErrorAndIdle
  PROVE  /\ temp' \in [Slot -> [kind : {"zero", "invalid", "fresh", "old"}, of : Code]]
         /\ state' = "IDLE"
BY SentinelType DEF setErrorAndIdle

LEMMA CompleteType ==
  ASSUME TypeInv, processSearchComplete
  PROVE  matchRom' \in [Slot -> Code] /\ state' = "IDLE" /\ search' = "SRCH_IDLE"
BY DEF processSearchComplete, TypeInv, TypeOK, ShapeInv

(* The task.                                                               *)
LEMMA TaskType ==
  ASSUME TypeInv, startSearchRom \/ isSensorReady \/ startMeasure
  PROVE  TypeInv'
<1> USE BitFacts DEF TypeInv, State, SearchState
<1>1. CASE startSearchRom
  <2>1. /\ matchRom' \in [Slot -> Code] /\ busy' \in BOOLEAN /\ failed' \in BOOLEAN
        /\ state' \in {"SEARCHING", "IDLE"} /\ search' \in {"SRCH_RESET", "SRCH_IDLE"}
        /\ romCodes = <<>>
    BY <1>1, CompleteType DEF startSearchRom, Accepted, Refused, TypeOK, ShapeInv
  <2>2. UNCHANGED <<romCodes, searchVars, current, temp, busVars, noise, silent, measured>>
    BY <1>1 DEF startSearchRom
  <2>3. TypeOK'
    BY <2>1, <2>2 DEF TypeOK, searchVars, busVars
  <2>4. ShapeInv'
    BY <2>1, <2>2 DEF ShapeInv, searchVars, busVars, Running, InPass, Converting, Reading
  <2> QED
    BY <2>3, <2>4
<1>2. CASE isSensorReady
  <2>1. matchRom' \in [Slot -> Code] /\ state' = "IDLE" /\ search' = "SRCH_IDLE"
    BY <1>2, CompleteType DEF isSensorReady
  <2>2. UNCHANGED <<romCodes, searchVars, current, temp, busy, busVars, histVars>>
    BY <1>2 DEF isSensorReady
  <2>3. TypeOK'
    BY <2>1, <2>2 DEF TypeOK, searchVars, busVars, histVars
  <2>4. ShapeInv'
    BY <2>1, <2>2 DEF ShapeInv, searchVars, busVars, Running, InPass, Converting, Reading
  <2> QED
    BY <2>3, <2>4
<1>3. CASE startMeasure
  <2>1. /\ current' = 1 /\ measured' = TRUE /\ romCodes # <<>>
        /\ UNCHANGED <<search, romCodes, searchVars, matchRom, busVars, noise, silent>>
    BY <1>3 DEF startMeasure
  <2>2. /\ busy' \in BOOLEAN /\ failed' \in BOOLEAN
        /\ state' \in {"RESET_FOR_CONVERT", "IDLE"}
    BY <1>3, ResetType DEF startMeasure, Accepted, Refused, TypeOK
  <2>3. temp' \in [Slot -> [kind : {"zero", "invalid", "fresh", "old"}, of : Code]]
    <3>1. \A i \in Slot :
            Aged(temp[i]) \in [kind : {"zero", "invalid", "fresh", "old"}, of : Code]
      BY DEF TypeOK, Aged, Temp
    <3> QED
      BY <1>3, <3>1, ResetType DEF startMeasure
  <2>4. TypeOK'
    BY <2>1, <2>2, <2>3 DEF TypeOK, searchVars, busVars, Following
  <2>5. ShapeInv'
    BY <2>1, <2>2 DEF ShapeInv, searchVars, busVars, Running, InPass, Converting, Reading
  <2> QED
    BY <2>4, <2>5
<1> QED
  BY <1>1, <1>2, <1>3

(* A transaction of the search goes on with s or ends it.                  *)
LEMMA SearchTransactType ==
  ASSUME TypeOK, NEW s \in Running, SearchTransact(s) \/ SearchOver
  PROVE  busy' \in BOOLEAN /\ failed' \in BOOLEAN /\ search' \in {s, "SRCH_SEQ_COMPLETE"}
BY DEF SearchTransact, SearchOver, Accepted, Refused, TypeOK

(* The search.                                                             *)
LEMMA SearchType ==
  ASSUME TypeInv, handleSearchTransaction, UNCHANGED <<matchRom, sensors, measured>>
  PROVE  TypeInv'
<1> USE BitFacts DEF TypeInv, State, SearchState
<1>1. state = "SEARCHING" /\ UNCHANGED current
  BY DEF handleSearchTransaction
<1>2. CASE searchReset
  <2>1. /\ UNCHANGED <<romCodes, searchVars, listening, noise>> /\ search = "SRCH_RESET"
        /\ search' \in {"SRCH_RESET", "SRCH_CMD", "SRCH_SEQ_COMPLETE"}
        /\ busy' \in BOOLEAN /\ failed' \in BOOLEAN /\ silent' \in BOOLEAN
        /\ state' \in {"SEARCHING", "IDLE"}
    BY <1>1, <1>2, ResetType
       DEF searchReset, SearchTransact, Accepted, Refused, TypeOK
  <2>2. temp' \in [Slot -> [kind : {"zero", "invalid", "fresh", "old"}, of : Code]]
    BY <1>2, ResetType DEF searchReset, TypeOK
  <2>3. TypeOK'
    BY <1>1, <2>1, <2>2 DEF TypeOK, searchVars
  <2>4. ShapeInv'
    BY <1>1, <2>1 DEF ShapeInv, searchVars, Running, InPass, Converting, Reading
  <2> QED
    BY <2>3, <2>4
<1>3. CASE searchCommand
  <2>1. /\ bitNumber' = 1 /\ lastZero' = 0 /\ listening' = sensors /\ search = "SRCH_CMD"
        /\ UNCHANGED <<state, temp, romCodes, romCode, lastDiscrepancy, lastDevice, noise, silent>>
    BY <1>3 DEF searchCommand
  <2>2. /\ busy' \in BOOLEAN /\ failed' \in BOOLEAN
        /\ search' \in {"SRCH_READ_BITS", "SRCH_SEQ_COMPLETE"}
    BY <1>3, SearchTransactType DEF searchCommand, Running
  <2>3. TypeOK'
    BY <1>1, <2>1, <2>2 DEF TypeOK
  <2>4. ShapeInv'
    BY <1>1, <2>1, <2>2 DEF ShapeInv, Running, InPass, Converting, Reading
  <2> QED
    BY <2>3, <2>4
<1>4. CASE searchReadBits
  <2>1. PICK id \in {0, 1}, cmp \in {0, 1} :
          /\ noise' = noise + (IF <<id, cmp>> = Sampled THEN 0 ELSE 1)
          /\ noise' <= MaxNoise
          /\ id = Sampled[1] \/ cmp = Sampled[2]
          /\ IF id = 1 /\ cmp = 1 THEN nobodyAnswers ELSE takeDirection(id, cmp)
    BY <1>4 DEF searchReadBits
  <2>2. /\ UNCHANGED <<state, temp, romCodes, bitNumber, lastDiscrepancy, lastDevice, listening,
                       silent>>
        /\ search = "SRCH_READ_BITS" /\ bitNumber \in Bit
    BY <1>4 DEF searchReadBits, ShapeInv, InPass
  <2>3. noise' \in 0 .. MaxNoise
    BY <2>1, SearchAssumption DEF TypeOK, SearchAssumption
  <2>4. SearchDirection(id, cmp) \in {0, 1}
    BY <2>2 DEF SearchDirection, TypeOK, Code
  <2>5. romCode' \in Code /\ lastZero' \in 0 .. MAX_DEVICE_ID_BITS
    BY SMTT(30), <2>1, <2>2, <2>4 DEF nobodyAnswers, takeDirection, TypeOK, Code, Bit
  <2>6. /\ busy' \in BOOLEAN /\ failed' \in BOOLEAN
        /\ search' \in {"SRCH_WRITE_DIR", "SRCH_SEQ_COMPLETE"}
    BY <2>1, SearchTransactType DEF nobodyAnswers, takeDirection, Running
  <2>7. TypeOK'
    BY <1>1, <2>2, <2>3, <2>5, <2>6 DEF TypeOK
  <2>8. ShapeInv'
    BY <1>1, <2>2, <2>6 DEF ShapeInv, Running, InPass, Converting, Reading
  <2> QED
    BY <2>7, <2>8
<1>5. CASE searchWriteDirection
  <2>1. /\ search = "SRCH_WRITE_DIR" /\ bitNumber \in Bit
        /\ Len(romCodes) < NUMBER_OF_DS18B20_SENSORS
        /\ UNCHANGED <<state, temp, romCode, noise, silent>>
        /\ listening' \subseteq listening
    BY <1>5 DEF searchWriteDirection, ShapeInv, InPass, Running
  <2>2. CASE bitNumber < MAX_DEVICE_ID_BITS
    <3>1. /\ bitNumber' = bitNumber + 1 /\ SearchTransact("SRCH_READ_BITS")
          /\ UNCHANGED <<romCodes, lastDiscrepancy, lastZero, lastDevice>>
      BY <1>5, <2>2 DEF searchWriteDirection
    <3>2. /\ busy' \in BOOLEAN /\ failed' \in BOOLEAN
          /\ search' \in {"SRCH_READ_BITS", "SRCH_SEQ_COMPLETE"}
      BY <3>1, SearchTransactType DEF Running
    <3>3. bitNumber' \in Bit
      BY <2>1, <2>2, <3>1 DEF Bit
    <3>4. TypeOK'
      BY <1>1, <2>1, <3>1, <3>2, <3>3 DEF TypeOK, Bit
    <3>5. ShapeInv'
      BY <1>1, <2>1, <3>1, <3>2, <3>3 DEF ShapeInv, Running, InPass, Converting, Reading
    <3> QED
      BY <3>4, <3>5
  <2>3. CASE ~(bitNumber < MAX_DEVICE_ID_BITS)
    <3>1. /\ lastDiscrepancy' = lastZero /\ lastDevice' = (lastDevice \/ lastZero = 0)
          /\ passEnds(lastDevice')
      BY <1>5, <2>3 DEF searchWriteDirection
    <3>2. bitNumber = MAX_DEVICE_ID_BITS
      BY <2>1, <2>3 DEF Bit
    <3>3. /\ busy' \in BOOLEAN /\ failed' \in BOOLEAN
          /\ search' \in {"SRCH_RESET", "SRCH_SEQ_COMPLETE"}
      BY <3>1, SearchTransactType DEF passEnds, Running
    <3>4. bitNumber' \in 0 .. MAX_DEVICE_ID_BITS + 1 /\ lastZero' \in 0 .. MAX_DEVICE_ID_BITS
      BY <3>1, <3>2 DEF passEnds, TypeOK
    <3>5. /\ romCodes' \in Seq(Code) /\ Len(romCodes') <= NUMBER_OF_DS18B20_SENSORS
          /\ search' = "SRCH_RESET" => Len(romCodes') < NUMBER_OF_DS18B20_SENSORS
      <4>1. romCode \in Code /\ romCodes \in Seq(Code)
        BY DEF TypeOK, ShapeInv
      <4>2. /\ Append(romCodes, romCode) \in Seq(Code)
            /\ Len(Append(romCodes, romCode)) = Len(romCodes) + 1 /\ Len(romCodes) \in Nat
        BY <4>1
      <4>3. Len(Append(romCodes, romCode)) <= NUMBER_OF_DS18B20_SENSORS
        BY <2>1, <4>2
      <4> QED
        BY <2>1, <3>1, <4>1, <4>2, <4>3 DEF passEnds, SearchOver
    <3>6. \A i \in DOMAIN romCodes' : romCodes'[i] \in Code
      BY <3>5
    <3>7. TypeOK'
      BY <1>1, <2>1, <3>1, <3>3, <3>4, <3>5, <3>6 DEF TypeOK
    <3>8. ShapeInv'
      BY <1>1, <2>1, <3>3, <3>5 DEF ShapeInv, Running, InPass, Converting, Reading
    <3> QED
      BY <3>7, <3>8
  <2> QED
    BY <2>2, <2>3
<1> QED
  BY <1>2, <1>3, <1>4, <1>5 DEF handleSearchTransaction

(* The measurement.                                                        *)
LEMMA MeasureType ==
  ASSUME TypeInv,
         \/ measuring /\ UNCHANGED <<matchRom, sensors, measured>>
         \/ handleConversionTimerElapsed
  PROVE  TypeInv'
<1> USE BitFacts DEF TypeInv
<1>1. UNCHANGED <<search, romCodes, searchVars, listening, noise, silent, matchRom, sensors,
                  measured>>
  BY DEF measuring, handleConversionTimerElapsed, busVars
<1>2. ASSUME NEW s \in State, Transact(s)
      PROVE  /\ busy' \in BOOLEAN /\ failed' \in BOOLEAN /\ state' \in {s, "IDLE"}
             /\ temp' \in [Slot -> [kind : {"zero", "invalid", "fresh", "old"}, of : Code]]
  BY <1>2, ResetType DEF Transact, Accepted, Refused, TypeOK
<1>3. ASSUME busy' \in BOOLEAN, failed' \in BOOLEAN, state' \in State,
             temp' \in [Slot -> [kind : {"zero", "invalid", "fresh", "old"}, of : Code]],
             current' \in 1 .. NUMBER_OF_DS18B20_SENSORS + 1,
             state' # "UNINITIALIZED",
             state' \in Converting => current' = 1 /\ romCodes # <<>>,
             state' \in Reading => current' <= Len(romCodes)
      PROVE  TypeInv'
  <2>1. TypeOK'
    BY <1>1, <1>3 DEF TypeOK, searchVars
  <2>2. ShapeInv'
    BY <1>1, <1>3 DEF ShapeInv, searchVars
  <2> QED
    BY <2>1, <2>2
<1>4. romCodes # <<>> => 1 <= Len(romCodes)
  BY DEF ShapeInv
<1> USE DEF State, Converting, Reading
<1>5. CASE measureStep
  <2>1. state \in DOMAIN Following /\ Transact(Following[state]) /\ current' = current
    BY <1>5 DEF measureStep
  <2>2. /\ Following[state] \in State /\ Following[state] # "UNINITIALIZED"
        /\ Following[state] \in Converting => state \in Converting
        /\ Following[state] \in Reading => state \in Reading
    BY <2>1 DEF Following
  <2>3. /\ busy' \in BOOLEAN /\ failed' \in BOOLEAN /\ state' \in {Following[state], "IDLE"}
        /\ temp' \in [Slot -> [kind : {"zero", "invalid", "fresh", "old"}, of : Code]]
    BY <1>2, <2>1, <2>2
  <2> QED
    BY <1>3, <2>1, <2>2, <2>3 DEF TypeOK, ShapeInv
<1>6. CASE conversionStarted
  <2>1. /\ state = "CONVERT_T" /\ current' = current /\ busy' = FALSE /\ failed' \in BOOLEAN
        /\ state' \in {"WAIT_CONVERSION", "IDLE"}
        /\ temp' \in [Slot -> [kind : {"zero", "invalid", "fresh", "old"}, of : Code]]
    BY <1>6, ResetType DEF conversionStarted, TypeOK
  <2> QED
    BY <1>3, <2>1 DEF TypeOK, ShapeInv
<1>7. CASE readScratchpad
  <2>1. PICK t \in {ScratchpadOf(matchRom[current]), INVALID_TEMP} :
          LET read == [temp EXCEPT ![current] = t]
              crcError == t # ScratchpadOf(matchRom[current])
          IN  \/ /\ current < Len(romCodes)
                 /\ busy' = TRUE /\ state' = "RESET_FOR_READ" /\ temp' = read
                 /\ failed' = (failed \/ crcError)
              \/ /\ current < Len(romCodes)
                 /\ Refused /\ setErrorAndIdle
              \/ /\ current >= Len(romCodes)
                 /\ busy' = FALSE /\ state' = "IDLE" /\ temp' = read
                 /\ failed' = (failed \/ crcError)
    BY <1>7 DEF readScratchpad
  <2>2. state = "READ_SCRATCH_CPLT" /\ current' = current + 1
    BY <1>7 DEF readScratchpad
  <2>3. current \in Slot /\ Len(romCodes) \in Nat
    BY <2>2 DEF TypeOK, ShapeInv, Slot
  <2>4. t \in [kind : {"zero", "invalid", "fresh", "old"}, of : Code]
    BY <2>3, SentinelType DEF ScratchpadOf, TypeOK, Temp
  <2>5. [temp EXCEPT ![current] = t]
          \in [Slot -> [kind : {"zero", "invalid", "fresh", "old"}, of : Code]]
    BY <2>3, <2>4 DEF TypeOK
  <2>6. /\ busy' \in BOOLEAN /\ failed' \in BOOLEAN
        /\ temp' \in [Slot -> [kind : {"zero", "invalid", "fresh", "old"}, of : Code]]
        /\ state' # "IDLE" => state' = "RESET_FOR_READ" /\ current < Len(romCodes)
    BY <2>1, <2>5, ResetType DEF Refused, TypeOK
  <2>7. current' \in 1 .. NUMBER_OF_DS18B20_SENSORS + 1
    BY <2>2, <2>3 DEF Slot
  <2> QED
    BY <1>3, <2>2, <2>3, <2>6, <2>7 DEF Slot, Following
<1>8. CASE handleConversionTimerElapsed
  <2>1. state = "WAIT_CONVERSION" /\ Transact("RESET_FOR_READ") /\ current' = current
    BY <1>8 DEF handleConversionTimerElapsed
  <2>2. /\ busy' \in BOOLEAN /\ failed' \in BOOLEAN /\ state' \in {"RESET_FOR_READ", "IDLE"}
        /\ temp' \in [Slot -> [kind : {"zero", "invalid", "fresh", "old"}, of : Code]]
    BY <1>2, <2>1 DEF Following
  <2> QED
    BY <1>3, <1>4, <2>1, <2>2 DEF TypeOK, ShapeInv, Following
<1> QED
  BY <1>5, <1>6, <1>7, <1>8 DEF measuring

LEMMA ErrorType ==
  ASSUME TypeInv, handleUartError
  PROVE  TypeInv'
<1> USE BitFacts DEF TypeInv, State, SearchState
<1>1. /\ busy' = FALSE /\ failed' = TRUE /\ state' = "IDLE"
      /\ search' \in {search, "SRCH_SEQ_COMPLETE"}
      /\ temp' \in [Slot -> [kind : {"zero", "invalid", "fresh", "old"}, of : Code]]
      /\ UNCHANGED <<romCodes, searchVars, matchRom, current, busVars, noise, silent, measured>>
  BY ResetType DEF handleUartError, Refused
<1>2. TypeOK'
  BY <1>1 DEF TypeOK, searchVars, busVars
<1>3. ShapeInv'
  BY <1>1 DEF ShapeInv, searchVars, busVars, Running, InPass, Converting, Reading
<1> QED
  BY <1>2, <1>3

LEMMA NextType == TypeInv /\ [Next]_vars => TypeInv'
<1> SUFFICES ASSUME TypeInv, [Next]_vars PROVE TypeInv'
  OBVIOUS
<1>1. CASE handleTransactionComplete
  <2>1. UNCHANGED <<matchRom, sensors, measured>> /\ (handleSearchTransaction \/ measuring)
    BY <1>1 DEF handleTransactionComplete
  <2> QED
    BY <2>1, SearchType, MeasureType
<1>2. CASE UNCHANGED vars
  BY <1>2 DEF vars, TypeInv, TypeOK, ShapeInv, searchVars, busVars, histVars
<1> QED
  BY <1>1, <1>2, TaskType, MeasureType, ErrorType DEF Next

(* The state keeps its types.                                              *)
THEOREM TypeCorrect == Spec => []TypeOK
<1>1. TypeInv => TypeOK
  BY DEF TypeInv
<1> QED
  BY <1>1, InitType, NextType, PTL DEF Spec
-----------------------------------------------------------------------------
(* CodesReal *)

LEMMA OneBitMore ==
  ASSUME NEW c \in Code, NEW d \in Code, NEW b \in Bit, c[b] = 0, d[b] = 1,
         \A a \in Bit \ {b} : c[a] = d[a]
  PROVE  ~(CrcOk(c) /\ CrcOk(d))
<1> DEFINE Ones(e) == {a \in Bit : e[a] = 1}
<1>1. IsFiniteSet(Bit)
  BY FS_Interval, BitFacts DEF Bit
<1>2. IsFiniteSet(Ones(c))
  BY <1>1, FS_Subset
<1>3. Ones(d) = Ones(c) \union {b} /\ b \notin Ones(c)
  OBVIOUS
<1>4. Cardinality(Ones(d)) = Cardinality(Ones(c)) + 1
  <2> HIDE DEF Ones
  <2> QED
    BY <1>2, <1>3, FS_AddElement
<1>5. Cardinality(Ones(c)) \in Nat
  BY <1>2, FS_CardinalityType
<1>6. \A n \in Nat : ~(n % 2 = 0 /\ (n + 1) % 2 = 0)
  OBVIOUS
<1>7. ~(Cardinality(Ones(c)) % 2 = 0 /\ Cardinality(Ones(d)) % 2 = 0)
  <2> HIDE DEF Ones
  <2> QED
    BY <1>4, <1>5, <1>6
<1> QED
  BY <1>7 DEF CrcOk

(* Two codes that differ in one bit do not both pass the CRC.              *)
LEMMA OneBitOff ==
  ASSUME NEW c \in Code, NEW d \in Code, NEW b \in Bit, c[b] # d[b],
         \A a \in Bit \ {b} : c[a] = d[a], CrcOk(c)
  PROVE  ~CrcOk(d)
<1>1. c[b] \in {0, 1} /\ d[b] \in {0, 1}
  BY DEF Code
<1>2. CASE c[b] = 0 /\ d[b] = 1
  BY <1>2, OneBitMore
<1>3. CASE c[b] = 1 /\ d[b] = 0
  BY <1>3, OneBitMore
<1> QED
  BY <1>1, <1>2, <1>3

(* A code is its bits.                                                     *)
LEMMA SameCode ==
  ASSUME NEW c \in Code, NEW d \in Code, Agree(c, d, MAX_DEVICE_ID_BITS)
  PROVE  c = d
<1>1. \A b \in Bit : c[b] = d[b]
  BY DEF Agree, Bit
<1> QED
  BY <1>1 DEF Code

(* What is sampled, in terms of the sensors that listen.                   *)
LEMMA SampledBits ==
  ASSUME TypeOK, bitNumber \in Bit
  PROVE  /\ Sampled[1] = 0 <=> \E c \in listening : c[bitNumber] = 0
         /\ Sampled[2] = 0 <=> \E c \in listening : c[bitNumber] = 1
         /\ Sampled[1] \in {0, 1} /\ Sampled[2] \in {0, 1}
         /\ \A c \in listening : c \in Code /\ c[bitNumber] \in {0, 1}
         /\ listening = {} <=> Sampled[1] = 1 /\ Sampled[2] = 1
<1>1. \A c \in listening : c \in Code /\ c[bitNumber] \in {0, 1}
  BY DEF TypeOK, Code
<1>2. /\ Sampled[1] = IF \E c \in listening : c[bitNumber] = 0 THEN 0 ELSE 1
      /\ Sampled[2] = IF \E c \in listening : c[bitNumber] = 1 THEN 0 ELSE 1
  BY DEF Sampled
<1> QED
  BY <1>1, <1>2

LEMMA ReadBitsCodes ==
  ASSUME CodesInv, state = "SEARCHING", searchReadBits, UNCHANGED sensors
  PROVE  PassInv'
<1> USE DEF CodesInv, TypeInv
<1>1. PICK id \in {0, 1}, cmp \in {0, 1} :
        /\ noise' = noise + (IF <<id, cmp>> = Sampled THEN 0 ELSE 1)
        /\ noise' <= MaxNoise
        /\ id = Sampled[1] \/ cmp = Sampled[2]
        /\ IF id = 1 /\ cmp = 1 THEN nobodyAnswers ELSE takeDirection(id, cmp)
  BY DEF searchReadBits
<1>2. /\ search = "SRCH_READ_BITS" /\ bitNumber \in Bit /\ noise \in Nat
      /\ UNCHANGED <<state, bitNumber, listening>>
  BY DEF searchReadBits, ShapeInv, InPass, TypeOK
<1>3. CASE id = 1 /\ cmp = 1
  <2>1. search' = "SRCH_SEQ_COMPLETE"
    BY <1>1, <1>3 DEF nobodyAnswers, SearchOver
  <2> QED
    BY <2>1 DEF PassInv, InPass
<1>4. CASE ~(id = 1 /\ cmp = 1) /\ search' # "SRCH_SEQ_COMPLETE"
  <2> DEFINE dir == SearchDirection(id, cmp)
  <2>1. /\ romCode' = [romCode EXCEPT ![bitNumber] = dir]
        /\ search' = "SRCH_WRITE_DIR"
    BY <1>1, <1>4 DEF takeDirection, SearchTransact
  <2>2. dir \in {0, 1} /\ (id # cmp => dir = id)
    BY <1>2 DEF SearchDirection, TypeOK, Code
  <2>3. romCode'[bitNumber] = dir /\ \A a \in Bit \ {bitNumber} : romCode'[a] = romCode[a]
    BY <1>2, <2>1 DEF TypeOK, Code
  <2>4. \A c : Agree(c, romCode', bitNumber - 1) <=> Agree(c, romCode, bitNumber - 1)
    <3>1. \A a \in 1 .. bitNumber - 1 : a \in Bit \ {bitNumber}
      BY <1>2, BitFacts DEF Bit
    <3>2. \A a \in 1 .. bitNumber - 1 : romCode'[a] = romCode[a]
      BY <2>3, <3>1
    <3> QED
      BY <3>2 DEF Agree
  <2>5. listening' = {c \in sensors : Agree(c, romCode', bitNumber - 1)}
    BY <1>2, <2>4 DEF PassInv, InPass
  <2>6. <<id, cmp>> = Sampled => id = Sampled[1] /\ cmp = Sampled[2]
    OBVIOUS
  <2>7. ASSUME noise' <= 1 PROVE listening # {} \/ (bitNumber = 1 /\ sensors = {})
    <3>1. CASE noise = 0
      BY <1>2, <3>1 DEF PassInv, InPass
    <3>2. CASE noise # 0
      <4>1. <<id, cmp>> = Sampled
        BY <1>1, <1>2, <2>7, <3>2
      <4> QED
        BY <1>2, <1>4, <2>6, <4>1, SampledBits
    <3> QED
      BY <3>1, <3>2
  <2>8. ASSUME noise' = 0 PROVE \E c \in listening : c[bitNumber] = dir
    <3>1. <<id, cmp>> = Sampled
      BY <1>1, <1>2, <2>8
    <3>2. id = Sampled[1] /\ cmp = Sampled[2] /\ (id = 0 \/ cmp = 0)
      BY <1>4, <2>6, <3>1
    <3> HIDE DEF dir
    <3> QED
      BY <1>2, <2>2, <3>2, SampledBits
  <2>9. noise' # 0 \/ noise' <= 1
    BY <1>1, <1>2
  <2> QED
    BY <1>2, <2>1, <2>3, <2>5, <2>7, <2>8, <2>9 DEF PassInv, InPass
<1>5. CASE search' = "SRCH_SEQ_COMPLETE"
  BY <1>5 DEF PassInv, InPass
<1> QED
  BY <1>3, <1>4, <1>5

(* The code stored at the end of a pass is that of a sensor.               *)
LEMMA CodeStored ==
  ASSUME CodesInv, state = "SEARCHING", search = "SRCH_WRITE_DIR", noise <= 1,
         bitNumber = MAX_DEVICE_ID_BITS, CrcOk(romCode)
  PROVE  romCode \in sensors
<1> USE DEF CodesInv, TypeInv
<1>1. listening = {c \in sensors : Agree(c, romCode, MAX_DEVICE_ID_BITS - 1)}
  BY DEF PassInv, InPass
<1>2. PICK c \in sensors : Agree(c, romCode, MAX_DEVICE_ID_BITS - 1)
  BY <1>1, BitFacts DEF PassInv, InPass
<1>3. c \in Code /\ romCode \in Code /\ CrcOk(c)
  BY DEF TypeOK, ShapeInv
<1>4. \A a \in Bit \ {MAX_DEVICE_ID_BITS} : c[a] = romCode[a]
  BY <1>2, BitFacts DEF Agree, Bit
<1>5. c[MAX_DEVICE_ID_BITS] = romCode[MAX_DEVICE_ID_BITS]
  BY <1>3, <1>4, OneBitOff, BitFacts
<1>6. Agree(c, romCode, MAX_DEVICE_ID_BITS)
  BY <1>4, <1>5 DEF Agree, Bit
<1> QED
  BY <1>3, <1>6, SameCode

LEMMA WriteDirectionCodes ==
  ASSUME CodesInv, state = "SEARCHING", searchWriteDirection, UNCHANGED sensors
  PROVE  PassInv' /\ CodesReal'
<1> USE DEF CodesInv, TypeInv
<1>1. /\ search = "SRCH_WRITE_DIR" /\ bitNumber \in Bit
      /\ listening' = {c \in listening : c[bitNumber] = romCode[bitNumber]}
      /\ UNCHANGED <<state, romCode, noise>>
  BY DEF searchWriteDirection, ShapeInv, InPass
<1>2. CASE bitNumber < MAX_DEVICE_ID_BITS
  <2>1. bitNumber' = bitNumber + 1 /\ SearchTransact("SRCH_READ_BITS") /\ romCodes' = romCodes
    BY <1>2 DEF searchWriteDirection
  <2>2. CodesReal'
    BY <1>1, <2>1 DEF CodesReal, Found
  <2>3. bitNumber' - 1 = bitNumber /\ bitNumber' # 1
    BY <1>1, <2>1 DEF Bit
  <2>4. \A c : Agree(c, romCode, bitNumber)
                 <=> Agree(c, romCode, bitNumber - 1) /\ c[bitNumber] = romCode[bitNumber]
    BY <1>1 DEF Agree, Bit
  <2>5. listening' = {c \in sensors : Agree(c, romCode, bitNumber)}
    BY <1>1, <2>4 DEF PassInv, InPass
  <2>6. noise = 0 => listening' # {}
    BY <1>1 DEF PassInv, InPass
  <2>7. search' \in {"SRCH_READ_BITS", "SRCH_SEQ_COMPLETE"}
    BY <2>1 DEF SearchTransact
  <2>8. PassInv'
    BY <1>1, <2>3, <2>5, <2>6, <2>7 DEF PassInv, InPass
  <2> QED
    BY <2>2, <2>8
<1>3. CASE ~(bitNumber < MAX_DEVICE_ID_BITS)
  <2>1. bitNumber = MAX_DEVICE_ID_BITS /\ passEnds(lastDevice')
    <3>1. passEnds(lastDevice')
      BY <1>3 DEF searchWriteDirection
    <3>2. bitNumber = MAX_DEVICE_ID_BITS
      BY <1>1, <1>3, BitFacts DEF Bit
    <3> QED
      BY <3>1, <3>2
  <2>2. search' \in {"SRCH_RESET", "SRCH_SEQ_COMPLETE"}
    BY <2>1 DEF passEnds, SearchTransact, SearchOver
  <2>3. PassInv'
    BY <2>2 DEF PassInv, InPass
  <2>4. romCodes' = romCodes \/ (CrcOk(romCode) /\ romCodes' = Append(romCodes, romCode))
    BY <2>1 DEF passEnds
  <2>5. ASSUME noise <= 1 PROVE Found' \subseteq sensors
    <3>1. Found \subseteq sensors
      BY <2>5 DEF CodesReal
    <3>2. CASE romCodes' = romCodes
      BY <3>1, <3>2 DEF Found
    <3>3. CASE CrcOk(romCode) /\ romCodes' = Append(romCodes, romCode)
      <4>1. romCode \in sensors
        BY <1>1, <2>1, <2>5, <3>3, CodeStored
      <4>2. romCodes \in Seq(Code) /\ romCode \in Code
        BY DEF ShapeInv, TypeOK
      <4>3. \A i \in DOMAIN romCodes' : romCodes'[i] \in Found \union {romCode}
        BY <3>3, <4>2 DEF Found
      <4> QED
        BY <3>1, <4>1, <4>3 DEF Found
    <3> QED
      BY <2>4, <3>2, <3>3
  <2>6. CodesReal'
    BY <1>1, <2>5 DEF CodesReal
  <2> QED
    BY <2>3, <2>6
<1> QED
  BY <1>2, <1>3

(* Outside of the search no code is added, and no pass is under way.       *)
LEMMA OutsideSearch ==
  ASSUME TypeOK, Next, ~(handleTransactionComplete /\ handleSearchTransaction)
  PROVE  /\ UNCHANGED <<romCodes, searchVars, sensors, noise, silent>>
         /\ state' = "SEARCHING" => search' = "SRCH_RESET" /\ state = "UNINITIALIZED"
<1>1. CASE startSearchRom \/ isSensorReady \/ startMeasure
  BY <1>1 DEF startSearchRom, isSensorReady, startMeasure, processSearchComplete,
              setErrorAndIdle, busVars, histVars
<1>2. CASE handleTransactionComplete
  <2>1. measuring /\ UNCHANGED <<matchRom, sensors, measured>>
    BY <1>2 DEF handleTransactionComplete
  <2>2. state' # "SEARCHING"
    <3>1. CASE measureStep
      BY <3>1 DEF measureStep, Following, Transact, setErrorAndIdle
    <3>2. CASE conversionStarted \/ readScratchpad
      BY <3>2 DEF conversionStarted, readScratchpad, setErrorAndIdle
    <3> QED
      BY <2>1, <3>1, <3>2 DEF measuring
  <2> QED
    BY <2>1, <2>2 DEF measuring
<1>3. CASE handleConversionTimerElapsed \/ handleUartError
  BY <1>3 DEF handleConversionTimerElapsed, handleUartError, Transact, setErrorAndIdle, busVars
<1> QED
  BY <1>1, <1>2, <1>3 DEF Next

LEMMA NextCodes == CodesInv /\ [Next]_vars => CodesInv'
<1> SUFFICES ASSUME CodesInv, [Next]_vars PROVE CodesInv'
  OBVIOUS
<1>1. TypeInv' /\ TypeInv
  BY NextType DEF CodesInv
<1>2. CASE Next /\ ~(handleTransactionComplete /\ handleSearchTransaction)
  <2>1. /\ UNCHANGED <<romCodes, sensors, noise>>
        /\ state' = "SEARCHING" => search' = "SRCH_RESET"
    BY <1>1, <1>2, OutsideSearch DEF TypeInv
  <2> QED
    BY <1>1, <2>1 DEF CodesInv, PassInv, InPass, CodesReal, Found
<1>3. CASE handleTransactionComplete /\ handleSearchTransaction
  <2>1. state = "SEARCHING" /\ UNCHANGED sensors
    BY <1>3 DEF handleTransactionComplete, handleSearchTransaction
  <2>2. CASE searchReset
    <3>1. UNCHANGED <<romCodes, noise>> /\ search' \notin InPass
      BY <2>2 DEF searchReset, SearchTransact, InPass
    <3> QED
      BY <1>1, <2>1, <3>1 DEF CodesInv, PassInv, CodesReal, Found
  <2>3. CASE searchCommand
    <3>1. /\ bitNumber' = 1 /\ listening' = sensors /\ UNCHANGED <<romCodes, romCode, noise>>
          /\ search' # "SRCH_WRITE_DIR"
      BY <2>3 DEF searchCommand, SearchTransact
    <3>2. \A c : Agree(c, romCode, 0)
      BY DEF Agree
    <3>3. PassInv'
      BY <2>1, <3>1, <3>2 DEF PassInv, InPass
    <3> QED
      BY <1>1, <2>1, <3>1, <3>3 DEF CodesInv, CodesReal, Found
  <2>4. CASE searchReadBits
    <3>1. PassInv'
      BY <2>1, <2>4, ReadBitsCodes
    <3>2. romCodes' = romCodes /\ noise <= noise'
      BY <1>1, <2>4 DEF searchReadBits, TypeInv, TypeOK
    <3>3. noise' <= 1 => noise <= 1
      BY <1>1, <3>2 DEF TypeInv, TypeOK
    <3> QED
      BY <1>1, <2>1, <3>1, <3>2, <3>3 DEF CodesInv, CodesReal, Found
  <2>5. CASE searchWriteDirection
    BY <1>1, <2>1, <2>5, WriteDirectionCodes DEF CodesInv
  <2> QED
    BY <1>3, <2>2, <2>3, <2>4, <2>5 DEF handleSearchTransaction
<1>4. CASE UNCHANGED vars
  <2>1. UNCHANGED <<state, search, romCodes, searchVars, busVars, noise>>
    BY <1>4 DEF vars, histVars
  <2> QED
    BY <1>1, <2>1 DEF CodesInv, PassInv, CodesReal, Found, searchVars, busVars, Agree
<1> QED
  BY <1>2, <1>3, <1>4

LEMMA InitCodes == Init => CodesInv
<1> SUFFICES ASSUME Init PROVE CodesInv
  OBVIOUS
<1>1. TypeInv /\ state = "UNINITIALIZED" /\ romCodes = <<>>
  BY InitType DEF Init
<1> QED
  BY <1>1 DEF CodesInv, PassInv, CodesReal, Found

(* One inverted bit, in whichever sample of whichever pass, never makes a  *)
(* code known that no sensor has (searchReadBits, searchWriteDirection).   *)
THEOREM CodesAreReal == Spec => []CodesReal
<1>1. CodesInv => CodesReal
  BY DEF CodesInv
<1> QED
  BY <1>1, InitCodes, NextCodes, PTL DEF Spec-----------------------------------------------------------------------------
(* OwnReading *)

(* The slots that are in use.                                              *)
LEMMA SlotsUsed ==
  ASSUME TypeInv
  PROVE  /\ DOMAIN romCodes = 1 .. Len(romCodes) /\ Len(romCodes) \in Nat
         /\ \A i \in DOMAIN romCodes : i \in Slot /\ romCodes[i] \in Code
BY BitFacts DEF TypeInv, TypeOK, ShapeInv, Slot

(* An error leaves the sentinel in every slot.                             *)
LEMMA ErrorOwns ==
  ASSUME TypeInv, setErrorAndIdle, failed' = TRUE, romCodes' = romCodes
  PROVE  ReadInv' /\ OwnReading'
<1>1. state' = "IDLE" /\ \A i \in Slot : temp'[i] = INVALID_TEMP
  BY DEF setErrorAndIdle
<1>2. \A i \in DOMAIN romCodes' : Own(i)'
  BY <1>1, SlotsUsed DEF Own
<1> QED
  BY <1>1, <1>2 DEF ReadInv, OwnReading, Own, Reading

(* The frames are made of the codes found.                                 *)
LEMMA CompleteMatches ==
  ASSUME TypeInv, MatchInv, processSearchComplete, romCodes' = romCodes
  PROVE  /\ \A i \in DOMAIN romCodes' : matchRom'[i] = romCodes'[i]
         /\ \A i \in Slot \ DOMAIN romCodes' : matchRom'[i] = NoCode
         /\ state' = "IDLE" /\ search' = "SRCH_IDLE"
BY SlotsUsed DEF processSearchComplete, MatchInv

LEMMA TaskOwns ==
  ASSUME TypeInv, ReadingInv, startSearchRom \/ isSensorReady \/ startMeasure
  PROVE  ReadingInv'
<1> USE DEF ReadingInv
<1>1. CASE startSearchRom
  <2>1. romCodes = <<>> /\ state = "UNINITIALIZED" /\ ~measured
    BY <1>1 DEF startSearchRom, TypeInv, ShapeInv, MatchInv
  <2>2. UNCHANGED <<romCodes, measured>>
    BY <1>1 DEF startSearchRom
  <2>3. \/ state' = "SEARCHING" /\ search' = "SRCH_RESET" /\ UNCHANGED matchRom
        \/ Refused /\ processSearchComplete
    BY <1>1 DEF startSearchRom
  <2>4. MatchInv'
    <3>1. CASE state' = "SEARCHING" /\ search' = "SRCH_RESET" /\ UNCHANGED matchRom
      BY <2>1, <2>2, <3>1 DEF MatchInv
    <3>2. CASE Refused /\ processSearchComplete
      BY <2>1, <2>2, <3>2, CompleteMatches DEF MatchInv
    <3> QED
      BY <2>3, <3>1, <3>2
  <2>5. ReadInv'
    BY <2>3 DEF ReadInv, Reading, processSearchComplete
  <2> QED
    BY <2>1, <2>2, <2>4, <2>5 DEF OwnReading
<1>2. CASE isSensorReady
  <2>1. search = "SRCH_SEQ_COMPLETE" /\ processSearchComplete /\ UNCHANGED <<romCodes, measured>>
    BY <1>2 DEF isSensorReady, histVars
  <2>2. ~measured
    BY <2>1 DEF MatchInv
  <2>3. MatchInv'
    BY <2>1, <2>2, CompleteMatches DEF MatchInv
  <2>4. ReadInv'
    BY <2>1 DEF ReadInv, Reading, processSearchComplete
  <2> QED
    BY <2>1, <2>2, <2>3, <2>4 DEF OwnReading
<1>3. CASE startMeasure
  <2>1. /\ search # "SRCH_SEQ_COMPLETE" /\ state = "IDLE"
        /\ UNCHANGED <<search, romCodes, matchRom, noise>>
    BY <1>3 DEF startMeasure
  <2>2. \/ state' = "RESET_FOR_CONVERT" /\ failed' = failed
        \/ failed' = TRUE /\ setErrorAndIdle
    BY <1>3 DEF startMeasure, Accepted, Refused
  <2>3. state' \notin {"UNINITIALIZED", "SEARCHING"} /\ (~failed' => ~failed)
    BY <2>2 DEF setErrorAndIdle
  <2>4. MatchInv'
    BY <2>1, <2>3 DEF MatchInv
  <2>5. ReadInv' /\ OwnReading'
    <3>1. CASE state' = "RESET_FOR_CONVERT"
      BY <3>1 DEF ReadInv, OwnReading, Reading
    <3>2. CASE failed' = TRUE /\ setErrorAndIdle
      BY <2>1, <3>2, ErrorOwns
    <3> QED
      BY <2>2, <3>1, <3>2
  <2> QED
    BY <2>4, <2>5
<1> QED
  BY <1>1, <1>2, <1>3

(* The search prepares no frame, and no measurement has been started.      *)
LEMMA SearchOwns ==
  ASSUME TypeInv, TypeInv', ReadingInv, handleSearchTransaction,
         UNCHANGED <<matchRom, sensors, measured>>
  PROVE  ReadingInv'
<1>1. state = "SEARCHING" /\ ~measured'
  BY DEF handleSearchTransaction, ReadingInv, MatchInv
<1>2. state' = "SEARCHING" \/ (state' = "IDLE" /\ failed')
  BY <1>1 DEF handleSearchTransaction, searchReset, searchCommand, searchReadBits,
              searchWriteDirection, Refused, setErrorAndIdle
<1>3. romCodes' = romCodes \/ romCodes' = Append(romCodes, romCode)
  BY DEF handleSearchTransaction, searchReset, searchCommand, searchReadBits,
         searchWriteDirection, passEnds
<1>4. \A i \in DOMAIN romCodes : i \in DOMAIN romCodes' /\ romCodes'[i] = romCodes[i]
  <2>1. romCodes \in Seq(Code) /\ romCode \in Code
    BY DEF TypeInv, TypeOK, ShapeInv
  <2> QED
    BY <1>3, <2>1
<1>5. \A i \in DOMAIN romCodes' : i \in Slot
  <2>1. romCodes' \in Seq(Code) /\ Len(romCodes') <= NUMBER_OF_DS18B20_SENSORS
    BY DEF TypeInv, TypeOK, ShapeInv
  <2> QED
    BY <2>1, BitFacts DEF Slot
<1>6. MatchInv'
  BY <1>1, <1>2, <1>4, <1>5 DEF ReadingInv, MatchInv
<1> QED
  BY <1>1, <1>2, <1>6 DEF ReadingInv, ReadInv, OwnReading, Reading

(* The sensor of a slot answers with its own reading.                      *)
LEMMA ScratchpadOwns ==
  ASSUME CodesInv, ReadingInv, readScratchpad,
         UNCHANGED <<search, romCodes, noise, matchRom, sensors, measured>>
  PROVE  ReadingInv'
<1> USE DEF CodesInv, ReadingInv
<1>1. /\ state = "READ_SCRATCH_CPLT" /\ current' = current + 1
      /\ current \in Slot /\ current <= Len(romCodes) /\ current \in DOMAIN romCodes
  BY SlotsUsed, BitFacts DEF readScratchpad, TypeInv, TypeOK, ShapeInv, Reading, Slot
<1>2. PICK t \in {ScratchpadOf(matchRom[current]), INVALID_TEMP} :
        LET read == [temp EXCEPT ![current] = t]
            crcError == t # ScratchpadOf(matchRom[current])
        IN  \/ /\ current < Len(romCodes)
               /\ busy' = TRUE /\ state' = "RESET_FOR_READ" /\ temp' = read
               /\ failed' = (failed \/ crcError)
            \/ /\ current < Len(romCodes)
               /\ Refused /\ setErrorAndIdle
            \/ /\ current >= Len(romCodes)
               /\ busy' = FALSE /\ state' = "IDLE" /\ temp' = read
               /\ failed' = (failed \/ crcError)
  BY DEF readScratchpad
<1>3. state' \in {"RESET_FOR_READ", "IDLE"} /\ (failed => failed')
  BY <1>2 DEF Refused, setErrorAndIdle
<1>4. MatchInv'
  BY <1>1, <1>3 DEF MatchInv
<1>5. CASE Refused /\ setErrorAndIdle
  BY <1>4, <1>5, ErrorOwns DEF Refused
<1>6. CASE /\ temp' = [temp EXCEPT ![current] = t]
           /\ failed' = (failed \/ t # ScratchpadOf(matchRom[current]))
           /\ state' = "IDLE" => current >= Len(romCodes)
  <2>1. temp'[current] = t /\ \A i \in Slot \ {current} : temp'[i] = temp[i]
    BY <1>1, <1>6 DEF TypeInv, TypeOK
  <2>2. matchRom[current] \in {NoCode, romCodes[current]} /\ NoCode \notin sensors
    BY <1>1 DEF MatchInv, TypeInv, ShapeInv
  <2>3. t \in {INVALID_TEMP, Temp("fresh", romCodes[current])}
    BY <2>2 DEF ScratchpadOf
  <2>4. ASSUME noise = 0, ~failed' PROVE t = Temp("fresh", romCodes[current])
    <3>1. ~failed /\ t = ScratchpadOf(matchRom[current])
      BY <1>6, <2>4
    <3>2. matchRom[current] = romCodes[current]
      BY <1>1, <3>1 DEF MatchInv
    <3>3. romCodes[current] \in sensors
      BY <1>1, <2>4 DEF CodesReal, Found
    <3> QED
      BY <3>1, <3>2, <3>3 DEF ScratchpadOf
  <2>5. \A i \in Slot : i = current => Own(i)'
    BY <2>1, <2>3, <2>4, Zenon DEF Own
  <2>6. \A i \in 1 .. current - 1 : i \in Slot \ {current} /\ Own(i)
    BY <1>1, BitFacts DEF ReadInv, Reading, Slot
  <2>7. \A i \in 1 .. current - 1 : Own(i)'
    BY <1>3, <2>1, <2>6 DEF Own
  <2>8. \A i \in 1 .. current : Own(i)'
    <3>1. \A i \in 1 .. current : i \in Slot /\ (i = current \/ i \in 1 .. current - 1)
      BY <1>1, BitFacts DEF Slot
    <3> QED
      BY <2>5, <2>7, <3>1
  <2>9. ReadInv'
    <3>1. current' - 1 = current
      BY <1>1 DEF Slot
    <3> QED
      BY <2>8, <3>1 DEF ReadInv
  <2>10. OwnReading'
    <3>1. DOMAIN romCodes' = 1 .. Len(romCodes) /\ Len(romCodes) \in Nat /\ current \in Nat
      BY <1>1, SlotsUsed, BitFacts DEF Slot
    <3>2. state' = "IDLE" => current = Len(romCodes)
      BY <1>1, <1>6, <3>1
    <3> QED
      BY <2>8, <3>1, <3>2 DEF OwnReading, Own
  <2> QED
    BY <1>4, <2>9, <2>10
<1> QED
  BY <1>2, <1>5, <1>6

LEMMA MeasureOwns ==
  ASSUME CodesInv, ReadingInv,
         \/ measuring /\ UNCHANGED <<matchRom, sensors, measured>>
         \/ handleConversionTimerElapsed
  PROVE  ReadingInv'
<1> USE DEF CodesInv, ReadingInv
<1>1. UNCHANGED <<search, romCodes, noise, matchRom, sensors, measured>>
  BY DEF measuring, handleConversionTimerElapsed, busVars
<1>2. ASSUME state \notin {"UNINITIALIZED", "SEARCHING", "IDLE"}, UNCHANGED current,
             \/ failed' = TRUE /\ setErrorAndIdle
             \/ /\ UNCHANGED <<temp, failed>>
                /\ state' \notin {"UNINITIALIZED", "SEARCHING", "IDLE"}
                /\ state' \in Reading => state \in Reading \/ current = 1
      PROVE  ReadingInv'
  <2>1. state' \notin {"UNINITIALIZED", "SEARCHING"} /\ (~failed' => ~failed)
    BY <1>2 DEF setErrorAndIdle
  <2>2. MatchInv'
    BY <1>1, <1>2, <2>1 DEF MatchInv
  <2>3. CASE failed' = TRUE /\ setErrorAndIdle
    BY <1>1, <2>2, <2>3, ErrorOwns
  <2>4. CASE /\ UNCHANGED <<temp, failed>>
             /\ state' \notin {"UNINITIALIZED", "SEARCHING", "IDLE"}
             /\ state' \in Reading => state \in Reading \/ current = 1
    <3>1. ReadInv'
      <4>1. current = 1 => 1 .. current - 1 = {}
        OBVIOUS
      <4> QED
        BY <1>1, <1>2, <2>4, <4>1 DEF ReadInv, Own
    <3> QED
      BY <2>2, <2>4, <3>1 DEF OwnReading
  <2> QED
    BY <1>2, <2>3, <2>4
<1>3. CASE measureStep
  <2>1. state \in DOMAIN Following /\ Transact(Following[state]) /\ UNCHANGED current
    BY <1>3 DEF measureStep
  <2>2. /\ Following[state] \notin {"UNINITIALIZED", "SEARCHING", "IDLE"}
        /\ Following[state] \in Reading => state \in Reading
        /\ state \notin {"UNINITIALIZED", "SEARCHING", "IDLE"}
    BY <2>1 DEF Following, Reading
  <2> QED
    BY <1>2, <2>1, <2>2 DEF Transact, Accepted, Refused
<1>4. CASE conversionStarted
  BY <1>2, <1>4 DEF conversionStarted, Reading
<1>5. CASE readScratchpad
  BY <1>1, <1>5, ScratchpadOwns
<1>6. CASE handleConversionTimerElapsed
  <2>1. state = "WAIT_CONVERSION" /\ UNCHANGED current /\ Transact("RESET_FOR_READ")
    BY <1>6 DEF handleConversionTimerElapsed
  <2>2. current = 1
    BY <2>1 DEF TypeInv, ShapeInv, Converting
  <2> QED
    BY <1>2, <2>1, <2>2 DEF Transact, Accepted, Refused
<1> QED
  BY <1>3, <1>4, <1>5, <1>6 DEF measuring

LEMMA NextOwns == CodesInv /\ ReadingInv /\ [Next]_vars => ReadingInv'
<1> SUFFICES ASSUME CodesInv, ReadingInv, [Next]_vars PROVE ReadingInv'
  OBVIOUS
<1>1. TypeInv /\ TypeInv'
  BY NextType DEF CodesInv
<1>2. CASE startSearchRom \/ isSensorReady \/ startMeasure
  BY <1>1, <1>2, TaskOwns
<1>3. CASE handleTransactionComplete
  <2>1. UNCHANGED <<matchRom, sensors, measured>> /\ (handleSearchTransaction \/ measuring)
    BY <1>3 DEF handleTransactionComplete
  <2> QED
    BY <1>1, <2>1, SearchOwns, MeasureOwns
<1>4. CASE handleConversionTimerElapsed
  BY <1>4, MeasureOwns
<1>5. CASE handleUartError
  <2>1. /\ failed' = TRUE /\ setErrorAndIdle
        /\ search' = IF state = "SEARCHING" THEN "SRCH_SEQ_COMPLETE" ELSE search
        /\ UNCHANGED <<romCodes, matchRom, noise, measured>>
    BY <1>5 DEF handleUartError, Refused
  <2>2. MatchInv'
    BY <2>1 DEF ReadingInv, MatchInv, setErrorAndIdle
  <2> QED
    BY <1>1, <2>1, <2>2, ErrorOwns DEF ReadingInv
<1>6. CASE UNCHANGED vars
  <2>1. UNCHANGED <<state, search, romCodes, matchRom, current, temp, noise, failed, measured>>
    BY <1>6 DEF vars, histVars
  <2> QED
    BY <2>1 DEF ReadingInv, MatchInv, ReadInv, OwnReading, Own
<1> QED
  BY <1>2, <1>3, <1>4, <1>5, <1>6 DEF Next

(* After a measurement each slot holds the sentinel or what its own sensor *)
(* has converted in it, and a value if nothing failed: the index of the    *)
(* read loop, the codes of the search and the frames made of them belong   *)
(* together (startMeasure, processSearchComplete, readScratchpad).         *)
THEOREM ReadingsOwned == Spec => []OwnReading
<1>1. Init => CodesInv /\ ReadingInv
  <2> SUFFICES ASSUME Init PROVE CodesInv /\ ReadingInv
    OBVIOUS
  <2>1. romCodes = <<>> /\ state = "UNINITIALIZED" /\ measured = FALSE
        /\ matchRom = [i \in Slot |-> NoCode]
    BY DEF Init
  <2> QED
    BY <2>1, InitCodes DEF ReadingInv, MatchInv, ReadInv, OwnReading, Reading
<1>2. CodesInv /\ ReadingInv /\ [Next]_vars => (CodesInv /\ ReadingInv)'
  BY NextCodes, NextOwns
<1>3. CodesInv /\ ReadingInv => OwnReading
  BY DEF ReadingInv
<1> QED
  BY <1>1, <1>2, <1>3, PTL DEF Spec-----------------------------------------------------------------------------
(* The order of the codes *)

LEMMA MinNat ==
  ASSUME NEW S \in SUBSET Nat, S # {}
  PROVE  \E m \in S : \A k \in S : m <= k
<1> DEFINE R == OpToRel(<, Nat)
<1>1. \E m \in S : \A k \in S : ~(<<k, m>> \in R)
  <2> HIDE DEF R
  <2>1. IsWellFoundedOn(R, Nat)
    BY NatLessThanWellFounded DEF R
  <2> QED
    BY <2>1, WFMin
<1>2. \A k, m \in Nat : k < m => <<k, m>> \in R
  BY Zenon DEF OpToRel
<1> HIDE DEF R
<1>3. PICK m \in S : \A k \in S : ~(<<k, m>> \in R)
  BY <1>1
<1>4. \A k \in S : ~(k < m)
  BY <1>2, <1>3
<1>5. \A k \in S : m <= k
  BY <1>4
<1> QED
  BY <1>5

(* Two codes have a first bit in which they differ.                        *)
LEMMA FirstDifference ==
  ASSUME NEW c \in Code, NEW d \in Code, c # d
  PROVE  \E b \in Bit : c[b] # d[b] /\ Agree(c, d, b - 1)
<1> DEFINE Diff == {b \in Bit : c[b] # d[b]}
<1>1. Diff # {} /\ Diff \in SUBSET Nat
  <2>1. ~Agree(c, d, MAX_DEVICE_ID_BITS)
    BY SameCode
  <2> QED
    BY <2>1 DEF Agree, Bit
<1>2. PICK b \in Diff : \A k \in Diff : b <= k
  <2> HIDE DEF Diff
  <2> QED
    BY <1>1, MinNat
<1>3. \A a \in 1 .. b - 1 : a \in Bit /\ ~(b <= a)
  BY <1>2, BitFacts DEF Bit
<1> QED
  BY <1>2, <1>3 DEF Agree

LEMMA PrecedesAt ==
  ASSUME NEW c \in Code, NEW d \in Code
  PROVE  Precedes(c, d) <=> \E b \in Bit : c[b] = 0 /\ d[b] = 1 /\ Agree(c, d, b - 1)
<1>1. \A b \in Bit : c[b] \in {0, 1} /\ d[b] \in {0, 1}
  BY DEF Code
<1>2. \A b \in Bit : c[b] < d[b] <=> c[b] = 0 /\ d[b] = 1
  BY <1>1
<1> QED
  BY <1>2 DEF Precedes, Agree

LEMMA PrecedesIrreflexive ==
  ASSUME NEW c \in Code
  PROVE  ~Precedes(c, c)
BY PrecedesAt

LEMMA PrecedesTotal ==
  ASSUME NEW c \in Code, NEW d \in Code, c # d
  PROVE  Precedes(c, d) \/ Precedes(d, c)
<1>1. PICK b \in Bit : c[b] # d[b] /\ Agree(c, d, b - 1)
  BY FirstDifference
<1>2. c[b] \in {0, 1} /\ d[b] \in {0, 1} /\ Agree(d, c, b - 1)
  BY <1>1 DEF Code, Agree
<1>3. (c[b] = 0 /\ d[b] = 1) \/ (d[b] = 0 /\ c[b] = 1)
  BY <1>1, <1>2
<1> QED
  BY <1>1, <1>2, <1>3, PrecedesAt

LEMMA PrecedesTransitive ==
  ASSUME NEW c \in Code, NEW d \in Code, NEW e \in Code, Precedes(c, d), Precedes(d, e)
  PROVE  Precedes(c, e)
<1>1. PICK b \in Bit : c[b] = 0 /\ d[b] = 1 /\ Agree(c, d, b - 1)
  BY PrecedesAt
<1>2. PICK f \in Bit : d[f] = 0 /\ e[f] = 1 /\ Agree(d, e, f - 1)
  BY PrecedesAt
<1>3. b # f /\ b \in Nat /\ f \in Nat /\ b >= 1 /\ f >= 1
  BY <1>1, <1>2, BitFacts DEF Bit
<1>4. CASE b < f
  <2>1. b \in 1 .. f - 1 /\ \A a \in 1 .. b - 1 : a \in 1 .. f - 1
    BY <1>3, <1>4
  <2>2. e[b] = 1 /\ Agree(c, e, b - 1)
    BY <1>1, <1>2, <2>1 DEF Agree
  <2> QED
    BY <1>1, <2>2, PrecedesAt
<1>5. CASE f < b
  <2>1. f \in 1 .. b - 1 /\ \A a \in 1 .. f - 1 : a \in 1 .. b - 1
    BY <1>3, <1>5
  <2>2. c[f] = 0 /\ Agree(c, e, f - 1)
    BY <1>1, <1>2, <2>1 DEF Agree
  <2> QED
    BY <1>2, <2>2, PrecedesAt
<1> QED
  BY <1>3, <1>4, <1>5

LEMMA CodeFinite == IsFiniteSet(Code)
<1> DEFINE f == [X \in SUBSET Bit |-> [b \in Bit |-> IF b \in X THEN 1 ELSE 0]]
<1>1. IsFiniteSet(SUBSET Bit)
  <2>1. IsFiniteSet(Bit)
    BY FS_Interval, BitFacts DEF Bit
  <2> QED
    BY <2>1, FS_SUBSET
<1>2. \A c \in Code : \E X \in SUBSET Bit : f[X] = c
  <2> TAKE c \in Code
  <2> WITNESS {b \in Bit : c[b] = 1} \in SUBSET Bit
  <2>1. \A b \in Bit : c[b] = IF b \in {a \in Bit : c[a] = 1} THEN 1 ELSE 0
    BY DEF Code
  <2> QED
    BY <2>1 DEF Code
<1>3. f \in [SUBSET Bit -> Code]
  BY DEF Code
<1>4. f \in Surjection(SUBSET Bit, Code)
  <2> HIDE DEF f
  <2> QED
    BY <1>2, <1>3, Fun_IsSurj
<1> QED
  <2> HIDE DEF f
  <2> QED
    BY <1>1, <1>4, FS_Surjection

LEMMA BelowFinite ==
  ASSUME sensors \subseteq Code, NEW q
  PROVE  /\ IsFiniteSet(Below(q)) /\ Cardinality(Below(q)) \in Nat
         /\ Rank(q) = Cardinality(Below(q)) + 1
<1>1. Below(q) \subseteq Code
  BY DEF Below
<1> QED
  BY <1>1, CodeFinite, FS_Subset, FS_CardinalityType DEF Below, Rank

(* A code that takes the least way is the first in the order.              *)
LEMMA FirstInOrder ==
  ASSUME sensors \subseteq Code, NEW q \in sensors, \A a \in Bit : ~OneBranch(q, a)
  PROVE  Below(q) = {} /\ Rank(q) = 1
<1>1. Below(q) = {}
  BY PrecedesAt DEF Below, OneBranch
<1> QED
  BY <1>1, BelowFinite, FS_EmptySet

(* A code with no zero branch is the last one.                             *)
LEMMA LastInOrder ==
  ASSUME sensors \subseteq Code, NEW q \in sensors, LastZero(q, 0, MAX_DEVICE_ID_BITS)
  PROVE  sensors = Below(q) \union {q}
<1>1. \A b \in Bit : ~ZeroBranch(q, b)
  BY DEF LastZero, Bit
<1>2. ASSUME NEW c \in sensors, c # q PROVE Precedes(c, q)
  <2>1. CASE Precedes(q, c)
    <3>1. PICK b \in Bit : q[b] = 0 /\ c[b] = 1 /\ Agree(q, c, b - 1)
      BY <2>1, PrecedesAt
    <3> QED
      BY <1>1, <3>1 DEF ZeroBranch, Agree
  <2> QED
    BY <1>2, <2>1, PrecedesTotal
<1> QED
  BY <1>2 DEF Below

(* The way of p up to its last zero branch, one there and the least way    *)
(* after it is that of the next code in the order.                         *)
LEMMA NextInOrder ==
  ASSUME sensors \subseteq Code, NEW p \in sensors, NEW q \in sensors, NEW z \in Bit,
         LastZero(p, z, MAX_DEVICE_ID_BITS), Agree(q, p, z - 1), q[z] = 1,
         \A a \in z + 1 .. MAX_DEVICE_ID_BITS : ~OneBranch(q, a)
  PROVE  Below(q) = Below(p) \union {p} /\ Rank(q) = Rank(p) + 1
<1>1. p \in Code /\ q \in Code /\ p[z] = 0 /\ z # 0
  BY BitFacts DEF LastZero, ZeroBranch, Bit
<1>2. Precedes(p, q)
  BY <1>1, PrecedesAt DEF Agree
<1>3. ASSUME NEW c \in sensors, Precedes(c, q), c # p PROVE Precedes(c, p)
  <2>1. PICK e \in Bit : c[e] = 0 /\ q[e] = 1 /\ Agree(c, q, e - 1)
    BY <1>3, PrecedesAt
  <2>2. e \in Nat /\ z \in Nat /\ e >= 1 /\ z >= 1 /\ e <= MAX_DEVICE_ID_BITS
    BY BitFacts DEF Bit
  <2>3. ~(e > z)
    <3>1. OneBranch(q, e)
      BY <2>1 DEF OneBranch
    <3>2. e > z => e \in z + 1 .. MAX_DEVICE_ID_BITS
      BY <2>2, BitFacts
    <3> QED
      BY <3>1, <3>2
  <2>4. Agree(c, p, e - 1)
    <3>1. \A a \in 1 .. e - 1 : a \in 1 .. z - 1
      BY <2>2, <2>3
    <3> QED
      BY <2>1, <3>1 DEF Agree
  <2>5. CASE e < z
    <3>1. e \in 1 .. z - 1
      BY <2>2, <2>5
    <3>2. p[e] = 1
      BY <2>1, <3>1 DEF Agree
    <3> QED
      BY <1>1, <2>1, <2>4, <3>2, PrecedesAt
  <2>6. CASE e = z
    <3>1. ~Precedes(p, c)
      <4>1. SUFFICES ASSUME NEW f \in Bit, p[f] = 0, c[f] = 1, Agree(p, c, f - 1)
                     PROVE  FALSE
        BY <1>1, PrecedesAt
      <4>2. ~(f < z)
        <5>1. f < z => f \in 1 .. e - 1
          BY <2>2, <2>6, BitFacts DEF Bit
        <5> QED
          BY <2>4, <4>1, <5>1 DEF Agree
      <4>3. f # z
        BY <2>1, <2>6, <4>1
      <4>4. f \in z + 1 .. MAX_DEVICE_ID_BITS
        BY <2>2, <4>2, <4>3, BitFacts DEF Bit
      <4>5. ZeroBranch(p, f)
        BY <4>1 DEF ZeroBranch, Agree
      <4> QED
        BY <4>4, <4>5 DEF LastZero
    <3> QED
      BY <1>1, <1>3, <3>1, PrecedesTotal
  <2> QED
    BY <2>2, <2>3, <2>5, <2>6
<1>4. Below(q) \subseteq Below(p) \union {p}
  BY <1>3 DEF Below
<1>5. Below(p) \union {p} \subseteq Below(q)
  BY <1>1, <1>2, PrecedesTransitive DEF Below
<1>6. Below(q) = Below(p) \union {p}
  BY <1>4, <1>5
<1>7. p \notin Below(p)
  BY <1>1, PrecedesIrreflexive DEF Below
<1>8. Cardinality(Below(q)) = Cardinality(Below(p)) + 1
  BY <1>6, <1>7, BelowFinite, FS_AddElement
<1> QED
  BY <1>6, <1>8, BelowFinite-----------------------------------------------------------------------------
(* SearchExact *)

(* The branches of a code at bit b depend on its first b bits only.        *)
LEMMA SameBranches ==
  ASSUME NEW q, NEW r, NEW b \in Bit, Agree(q, r, b)
  PROVE  (ZeroBranch(q, b) <=> ZeroBranch(r, b)) /\ (OneBranch(q, b) <=> OneBranch(r, b))
<1>1. q[b] = r[b]
  BY BitFacts DEF Agree, Bit
<1>2. \A a \in 1 .. b - 1 : q[a] = r[a]
  BY BitFacts DEF Agree, Bit
<1> QED
  BY <1>1, <1>2 DEF ZeroBranch, OneBranch, Agree

LEMMA LastFacts ==
  ASSUME CodesInv, ChainInv, romCodes # <<>>
  PROVE  /\ Last \in sensors /\ Rank(Last) = Len(romCodes) /\ Last \in Code
         /\ Below(Last) \union {Last} = Found
<1>1. Len(romCodes) \in DOMAIN romCodes
  BY DEF CodesInv, TypeInv, ShapeInv
<1> QED
  BY <1>1 DEF ChainInv, Last, CodesInv, TypeInv, TypeOK

(* One more bit of the pass: the direction keeps it on its path.           *)
LEMMA DirectionOnPath ==
  ASSUME CodesInv, ChainInv, LastInv, state = "SEARCHING", search = "SRCH_READ_BITS",
         Path(bitNumber - 1), NEW id, NEW cmp, <<id, cmp>> = Sampled, ~(id = 1 /\ cmp = 1),
         takeDirection(id, cmp),
         UNCHANGED <<romCodes, sensors, bitNumber, lastDiscrepancy>>
  PROVE  Path(bitNumber)'
<1> DEFINE n == bitNumber
           L == lastDiscrepancy
           dir == SearchDirection(id, cmp)
<1> USE DEF CodesInv, TypeInv
<1>1. /\ n \in Bit /\ n \in Nat /\ n >= 1 /\ L \in Nat /\ L <= MAX_DEVICE_ID_BITS
      /\ romCode \in Code /\ lastZero \in Nat
  BY BitFacts DEF TypeOK, ShapeInv, InPass, Bit
<1>2. /\ romCode' = [romCode EXCEPT ![n] = dir]
      /\ lastZero' = IF id = cmp /\ dir = 0 THEN n ELSE lastZero
  BY DEF takeDirection
<1>3. romCode'[n] = dir /\ \A a \in Bit \ {n} : romCode'[a] = romCode[a]
  BY <1>1, <1>2 DEF Code
<1>4. /\ listening = {c \in sensors : Agree(c, romCode, n - 1)}
      /\ id = 0 <=> \E c \in listening : c[n] = 0
      /\ cmp = 0 <=> \E c \in listening : c[n] = 1
      /\ id \in {0, 1} /\ cmp \in {0, 1}
      /\ \A c \in listening : c[n] \in {0, 1}
  <2>1. id = Sampled[1] /\ cmp = Sampled[2]
    <3> DEFINE sm == Sampled
    <3>1. <<id, cmp>> = sm
      OBVIOUS
    <3> HIDE DEF sm
    <3>2. id = sm[1] /\ cmp = sm[2]
      BY <3>1
    <3> QED
      BY <3>2 DEF sm
  <2> QED
    BY <1>1, <2>1, SampledBits DEF PassInv, InPass
<1>5. /\ id # cmp => dir = id
      /\ id = cmp => id = 0
      /\ id = cmp /\ n < L => dir = romCode[n]
      /\ id = cmp /\ n = L => dir = 1
      /\ id = cmp /\ n > L => dir = 0
      /\ dir \in {0, 1}
  BY <1>1, <1>4 DEF SearchDirection, Code
<1> HIDE DEF dir
<1>6. \A a \in 1 .. n - 1 : a \in Bit /\ romCode'[a] = romCode[a]
  BY <1>1, <1>3, BitFacts DEF Bit
<1>7. Agree(romCode', romCode, n - 1)
  BY <1>6 DEF Agree
<1>8. \A c : Agree(c, romCode', n - 1) <=> Agree(c, romCode, n - 1)
  BY <1>6 DEF Agree
<1>9. \A a \in 1 .. n - 1 : /\ OneBranch(romCode', a) <=> OneBranch(romCode, a)
                            /\ ZeroBranch(romCode', a) <=> ZeroBranch(romCode, a)
  <2> TAKE a \in 1 .. n - 1
  <2>1. a \in Bit /\ Agree(romCode', romCode, a)
    BY <1>1, <1>6 DEF Agree
  <2> QED
    BY <2>1, SameBranches
<1>10. /\ OneBranch(romCode', n) <=> dir = 1 /\ id = 0
       /\ ZeroBranch(romCode', n) <=> dir = 0 /\ cmp = 0
  BY <1>3, <1>4, <1>8 DEF OneBranch, ZeroBranch
<1>11. romCodes # <<>> => Last \in Code /\ Last \in sensors /\ LastZero(Last, L, MAX_DEVICE_ID_BITS)
  BY LastFacts DEF LastInv, Running
<1>12. L # 0 => romCodes # <<>>
  BY DEF LastInv, Running
<1>13. n <= L => romCodes # <<>> /\ Agree(Last, romCode, n - 1)
  BY <1>1, <1>12 DEF Path, Agree
<1>14. romCodes # <<>> => romCode[n] = Last[n]
  BY <1>1, BitFacts DEF Path, Bit
<1>15. \A a \in 1 .. n : /\ a < L => romCode'[a] = Last[a]
                         /\ a = L => romCode'[a] = 1
                         /\ a > L => ~OneBranch(romCode', a)
  <2> TAKE a \in 1 .. n
  <2>1. CASE a \in 1 .. n - 1
    BY <1>6, <1>9, <2>1 DEF Path
  <2>2. CASE a = n
    <3>1. n < L => dir = Last[n]
      <4>1. n < L => Last \in listening
        BY <1>1, <1>4, <1>11, <1>13
      <4> QED
        BY <1>1, <1>4, <1>5, <1>13, <1>14, <4>1
    <3>2. n = L => dir = 1
      <4>1. SUFFICES ASSUME n = L PROVE dir = 1
        OBVIOUS
      <4>2. PICK c \in sensors : c[L] = 1 /\ Agree(c, Last, L - 1)
        BY <1>1, <1>11, <1>13, <4>1 DEF LastZero, ZeroBranch
      <4>3. Agree(c, romCode, n - 1)
        BY <1>1, <1>13, <4>1, <4>2 DEF Agree
      <4>4. cmp = 0
        BY <1>4, <4>1, <4>2, <4>3
      <4> QED
        BY <1>4, <1>5, <4>1, <4>4
    <3>3. n > L => ~OneBranch(romCode', n)
      BY <1>4, <1>5, <1>10
    <3> QED
      BY <1>3, <2>2, <3>1, <3>2, <3>3
  <2>3. a = n \/ a \in 1 .. n - 1
    BY <1>1
  <2> QED
    BY <2>1, <2>2, <2>3
<1>16. romCodes # <<>> => \A a \in n + 1 .. MAX_DEVICE_ID_BITS : romCode'[a] = Last[a]
  <2>1. \A a \in n + 1 .. MAX_DEVICE_ID_BITS :
          a \in Bit \ {n} /\ a \in (n - 1) + 1 .. MAX_DEVICE_ID_BITS
    BY <1>1, BitFacts DEF Bit
  <2> QED
    BY <1>3, <2>1 DEF Path
<1>17. LastZero(romCode', lastZero', n)
  <2>1. CASE id = cmp /\ dir = 0
    <3>1. lastZero' = n /\ ZeroBranch(romCode', n)
      BY <1>2, <1>5, <1>10, <2>1
    <3> QED
      BY <1>1, <3>1 DEF LastZero
  <2>2. CASE ~(id = cmp /\ dir = 0)
    <3>1. lastZero' = lastZero /\ ~ZeroBranch(romCode', n)
      BY <1>2, <1>4, <1>5, <1>10, <2>2
    <3>2. lastZero # 0 => lastZero \in 1 .. n - 1 /\ ZeroBranch(romCode, lastZero)
      BY DEF Path, LastZero
    <3>3. \A b \in lastZero + 1 .. n - 1 : b \in 1 .. n - 1 /\ ~ZeroBranch(romCode, b)
      BY <1>1 DEF Path, LastZero
    <3>4. \A b \in lastZero + 1 .. n : b = n \/ b \in lastZero + 1 .. n - 1
      BY <1>1
    <3>5. \A b \in lastZero + 1 .. n : ~ZeroBranch(romCode', b)
      BY <1>9, <3>1, <3>3, <3>4
    <3>6. lastZero # 0 => lastZero \in 1 .. n /\ ZeroBranch(romCode', lastZero)
      BY <1>1, <1>9, <3>2
    <3> QED
      BY <3>1, <3>5, <3>6 DEF LastZero
  <2> QED
    BY <2>1, <2>2
<1>18. Last' = Last
  BY DEF Last
<1> QED
  BY <1>15, <1>16, <1>17, <1>18 DEF Path, OneBranch, ZeroBranch, LastZero
(* Without noise a pass ends with the code of the next in the order.       *)
LEMMA PassFindsNext ==
  ASSUME CodesInv, ChainInv, LastInv, Path(MAX_DEVICE_ID_BITS), state = "SEARCHING",
         search = "SRCH_WRITE_DIR", noise = 0, bitNumber = MAX_DEVICE_ID_BITS
  PROVE  /\ romCode \in sensors /\ CrcOk(romCode)
         /\ Rank(romCode) = Len(romCodes) + 1
         /\ Below(romCode) = Found
         /\ LastZero(romCode, lastZero, MAX_DEVICE_ID_BITS)
<1> USE DEF CodesInv, TypeInv
<1>1. sensors \subseteq Code /\ romCode \in Code /\ lastDiscrepancy \in 0 .. MAX_DEVICE_ID_BITS
  BY DEF TypeOK
<1>2. PICK c \in listening : c[MAX_DEVICE_ID_BITS] = romCode[MAX_DEVICE_ID_BITS]
  BY DEF PassInv, InPass
<1>3. c \in sensors /\ c = romCode
  <2>1. c \in sensors /\ Agree(c, romCode, MAX_DEVICE_ID_BITS - 1)
    BY DEF PassInv, InPass
  <2>2. \A a \in 1 .. MAX_DEVICE_ID_BITS :
          a = MAX_DEVICE_ID_BITS \/ a \in 1 .. MAX_DEVICE_ID_BITS - 1
    BY BitFacts
  <2>3. Agree(c, romCode, MAX_DEVICE_ID_BITS)
    BY <1>2, <2>1, <2>2 DEF Agree
  <2> QED
    BY <1>1, <2>1, <2>3, SameCode
<1>4. romCode \in sensors /\ CrcOk(romCode)
  BY <1>3 DEF ShapeInv
<1>5. LastZero(romCode, lastZero, MAX_DEVICE_ID_BITS)
  BY DEF Path
<1>6. CASE romCodes = <<>>
  <2>1. \A a \in Bit : ~OneBranch(romCode, a)
    <3>1. lastDiscrepancy = 0
      BY <1>6 DEF LastInv, Running
    <3> QED
      BY <3>1, BitFacts DEF Path, Bit
  <2>2. Found = {} /\ Len(romCodes) = 0
    BY <1>6 DEF Found
  <2> QED
    BY <1>1, <1>4, <1>5, <2>1, <2>2, FirstInOrder
<1>7. CASE romCodes # <<>>
  <2>1. /\ Last \in sensors /\ Rank(Last) = Len(romCodes)
        /\ Below(Last) \union {Last} = Found
    BY <1>7, LastFacts
  <2>2. lastDiscrepancy \in Bit /\ LastZero(Last, lastDiscrepancy, MAX_DEVICE_ID_BITS)
    BY <1>1, <1>7, BitFacts DEF LastInv, Running, Bit
  <2>3. /\ \A a \in 1 .. lastDiscrepancy - 1 : a \in 1 .. MAX_DEVICE_ID_BITS /\ a < lastDiscrepancy
        /\ lastDiscrepancy \in 1 .. MAX_DEVICE_ID_BITS
        /\ \A a \in lastDiscrepancy + 1 .. MAX_DEVICE_ID_BITS :
             a \in 1 .. MAX_DEVICE_ID_BITS /\ a > lastDiscrepancy
    BY <2>2, BitFacts DEF Bit
  <2>4. /\ Agree(romCode, Last, lastDiscrepancy - 1) /\ romCode[lastDiscrepancy] = 1
        /\ \A a \in lastDiscrepancy + 1 .. MAX_DEVICE_ID_BITS : ~OneBranch(romCode, a)
    BY <2>3 DEF Path, Agree
  <2>5. Below(romCode) = Below(Last) \union {Last} /\ Rank(romCode) = Rank(Last) + 1
    BY <1>1, <1>4, <2>1, <2>2, <2>4, NextInOrder
  <2> QED
    BY <1>4, <1>5, <2>1, <2>5
<1> QED
  BY <1>6, <1>7

(* The code found is stored, and the search goes on with the next one or   *)
(* has met all of them.                                                    *)
LEMMA PassEnds ==
  ASSUME CodesInv, ChainInv, LastInv, Path(MAX_DEVICE_ID_BITS), state = "SEARCHING",
         search = "SRCH_WRITE_DIR", noise = 0, bitNumber = MAX_DEVICE_ID_BITS,
         lastDiscrepancy' = lastZero, lastDevice' = (lastDevice \/ lastZero = 0),
         passEnds(lastDevice'), UNCHANGED <<state, romCode, sensors, silent>>
  PROVE  ChainInv' /\ LastInv' /\ PathInv' /\ OverInv'
<1> DEFINE q == romCode
<1> USE DEF CodesInv, TypeInv
<1>1. /\ q \in sensors /\ CrcOk(q) /\ Rank(q) = Len(romCodes) + 1 /\ Below(q) = Found
      /\ LastZero(q, lastZero, MAX_DEVICE_ID_BITS)
  BY PassFindsNext
<1>2. romCodes \in Seq(Code) /\ q \in Code /\ sensors \subseteq Code
      /\ Len(romCodes) \in Nat /\ Len(romCodes) < NUMBER_OF_DS18B20_SENSORS
  BY DEF ShapeInv, TypeOK, Running
<1>3. /\ romCodes' = Append(romCodes, q)
      /\ IF ~lastDevice' /\ Len(romCodes') < NUMBER_OF_DS18B20_SENSORS
         THEN SearchTransact("SRCH_RESET")
         ELSE SearchOver
  BY <1>1 DEF passEnds
<1>4. /\ Len(romCodes') = Len(romCodes) + 1 /\ romCodes'[Len(romCodes')] = q
      /\ DOMAIN romCodes' = 1 .. Len(romCodes) + 1 /\ romCodes' # <<>>
      /\ \A i \in 1 .. Len(romCodes) : i \in DOMAIN romCodes /\ romCodes'[i] = romCodes[i]
  BY <1>2, <1>3
<1>5. Found' = Found \union {q}
  <2>1. \A i \in DOMAIN romCodes : i \in DOMAIN romCodes' /\ romCodes'[i] = romCodes[i]
    BY <1>2, <1>4
  <2>2. \A i \in DOMAIN romCodes' : i \in DOMAIN romCodes \/ romCodes'[i] = q
    BY <1>2, <1>4
  <2>3. Len(romCodes') \in DOMAIN romCodes'
    BY <1>2, <1>4
  <2> QED
    BY <1>4, <2>1, <2>2, <2>3 DEF Found
<1>6. Last' = q
  BY <1>4 DEF Last
<1>7. ChainInv'
  <2>1. \A i \in DOMAIN romCodes' : romCodes'[i] \in sensors /\ Rank(romCodes'[i]) = i
    <3>1. \A i \in 1 .. Len(romCodes) : romCodes'[i] \in sensors /\ Rank(romCodes'[i]) = i
      BY <1>4 DEF ChainInv
    <3>2. \A i \in DOMAIN romCodes' : i \in 1 .. Len(romCodes) \/ i = Len(romCodes')
      BY <1>2, <1>4
    <3> QED
      BY <1>1, <1>4, <3>1, <3>2
  <2>2. \A i \in DOMAIN romCodes' : romCodes'[i] \in sensors' /\ Rank(romCodes[i])' = i
    BY <2>1 DEF Rank
  <2>3. Below(Last)' = Below(q)
    BY <1>6 DEF Below
  <2> QED
    BY <1>1, <1>5, <1>6, <2>2, <2>3 DEF ChainInv, Last
<1>8. LastInv'
  <2>1. search' = "SRCH_RESET" => ~lastDevice' /\ lastZero # 0
    BY <1>3 DEF SearchTransact, SearchOver
  <2>2. search' \in {"SRCH_RESET", "SRCH_SEQ_COMPLETE"}
    BY <1>3 DEF SearchTransact, SearchOver
  <2>3. LastZero(Last, lastDiscrepancy, MAX_DEVICE_ID_BITS)'
    BY <1>1, <1>6 DEF LastZero, ZeroBranch
  <2> QED
    BY <1>4, <1>6, <2>1, <2>2, <2>3 DEF LastInv, Running
<1>9. PathInv'
  BY <1>3 DEF PathInv, SearchTransact, SearchOver
<1>10. OverInv'
  <2>1. SUFFICES ASSUME search' \in {"SRCH_SEQ_COMPLETE", "SRCH_IDLE"}, ~failed'
                 PROVE  Found' = sensors \/ Len(romCodes') = NUMBER_OF_DS18B20_SENSORS
    BY DEF OverInv, SearchIsOver
  <2>2. lastDevice' \/ ~(Len(romCodes') < NUMBER_OF_DS18B20_SENSORS)
    BY <1>3, <2>1 DEF SearchTransact, Accepted, Refused
  <2>3. CASE lastDevice'
    <3>1. lastZero = 0
      BY <2>3 DEF LastInv, Running
    <3>2. sensors = Below(q) \union {q}
      BY <1>1, <1>2, <3>1, LastInOrder
    <3> QED
      BY <1>1, <1>5, <3>2
  <2>4. CASE ~(Len(romCodes') < NUMBER_OF_DS18B20_SENSORS)
    BY <1>2, <1>4, <2>4, BitFacts
  <2> QED
    BY <2>2, <2>3, <2>4
<1> QED
  BY <1>7, <1>8, <1>9, <1>10

(* The codes found stay the first ones while none is added.                *)
LEMMA SameChain ==
  ASSUME ChainInv, UNCHANGED <<romCodes, sensors>>
  PROVE  ChainInv'
BY DEF ChainInv, Rank, Below, Found

LEMMA StartNext ==
  ASSUME TypeInv, StartInv, [Next]_vars
  PROVE  StartInv'
<1>1. CASE startSearchRom \/ isSensorReady \/ startMeasure
  BY <1>1 DEF startSearchRom, isSensorReady, startMeasure, processSearchComplete,
              setErrorAndIdle, StartInv
<1>2. CASE handleTransactionComplete
  <2>1. CASE handleSearchTransaction
    BY <2>1 DEF handleSearchTransaction, searchReset, searchCommand, searchReadBits,
                searchWriteDirection, setErrorAndIdle, StartInv
  <2>2. CASE measureStep
    BY <2>2 DEF measureStep, Following, Transact, setErrorAndIdle, StartInv
  <2>3. CASE conversionStarted \/ readScratchpad
    BY <2>3 DEF conversionStarted, readScratchpad, setErrorAndIdle, StartInv
  <2> QED
    BY <1>2, <2>1, <2>2, <2>3 DEF handleTransactionComplete, measuring
<1>3. CASE handleConversionTimerElapsed \/ handleUartError
  BY <1>3 DEF handleConversionTimerElapsed, handleUartError, Transact, setErrorAndIdle, StartInv
<1>4. CASE UNCHANGED vars
  BY <1>4 DEF vars, searchVars, StartInv
<1> QED
  BY <1>1, <1>2, <1>3, <1>4 DEF Next
(* The history of noise and silence, and an end of the search.             *)
LEMMA StepOver ==
  ASSUME OverInv, UNCHANGED <<romCodes, sensors, silent>>, failed => failed',
         SearchIsOver' /\ ~failed' => SearchIsOver
  PROVE  OverInv'
BY DEF OverInv, Found

(* The search, without noise.                                              *)
LEMMA SearchMeetsAll ==
  ASSUME CodesInv, SearchInv, handleSearchTransaction, UNCHANGED sensors, noise' = 0
  PROVE  ChainInv' /\ LastInv' /\ PathInv' /\ OverInv'
<1> USE DEF CodesInv, TypeInv
<1>1. noise = 0 /\ state = "SEARCHING" /\ NUMBER_OF_DS18B20_SENSORS \in Nat
  <2>1. CASE searchReadBits
    BY <2>1, BitFacts DEF searchReadBits, TypeOK, handleSearchTransaction
  <2> QED
    BY <2>1, BitFacts DEF handleSearchTransaction, searchReset, searchCommand, searchWriteDirection
<1>2. ChainInv /\ LastInv /\ PathInv
  BY <1>1 DEF SearchInv
<1>3. CASE searchReset
  <2>1. /\ search = "SRCH_RESET" /\ UNCHANGED <<romCodes, searchVars>>
        /\ \/ search' = "SRCH_RESET" /\ silent'
           \/ search' = "SRCH_RESET" /\ failed'
           \/ search' = "SRCH_CMD"
           \/ search' = "SRCH_SEQ_COMPLETE" /\ failed'
    BY <1>3 DEF searchReset, SearchTransact, Accepted, Refused
  <2>2. LastInv'
    BY <1>1, <1>2, <2>1 DEF LastInv, Running, LastZero, ZeroBranch, Last, searchVars
  <2>3. PathInv' /\ OverInv'
    BY <2>1 DEF PathInv, OverInv, SearchIsOver
  <2> QED
    BY <1>2, <2>1, <2>2, <2>3, SameChain
<1>4. CASE searchCommand
  <2>1. /\ search = "SRCH_CMD" /\ bitNumber' = 1 /\ lastZero' = 0
        /\ UNCHANGED <<romCodes, romCode, lastDiscrepancy, lastDevice>>
        /\ search' = "SRCH_READ_BITS" \/ (search' = "SRCH_SEQ_COMPLETE" /\ failed')
    BY <1>4 DEF searchCommand, SearchTransact, Accepted, Refused
  <2>2. LastInv'
    BY <1>1, <1>2, <2>1 DEF LastInv, Running, LastZero, ZeroBranch, Last
  <2>3. Path(0)'
    <3>1. romCodes # <<>> => romCode = Last
      BY <1>1, <1>2, <2>1 DEF LastInv, Running
    <3>2. LastZero(romCode, lastZero, 0)'
      BY <2>1 DEF LastZero
    <3> QED
      BY <2>1, <3>1, <3>2 DEF Path, Last
  <2>4. PathInv'
    <3>1. bitNumber' - 1 = 0
      BY <2>1
    <3> QED
      BY <2>1, <2>3, <3>1 DEF PathInv
  <2>5. OverInv'
    BY <2>1 DEF OverInv, SearchIsOver
  <2> QED
    BY <1>2, <2>1, <2>2, <2>4, <2>5, SameChain
<1>5. CASE searchReadBits
  <2>1. /\ search = "SRCH_READ_BITS" /\ bitNumber \in Bit
        /\ UNCHANGED <<state, romCodes, bitNumber, lastDiscrepancy, lastDevice>>
    BY <1>5 DEF searchReadBits, ShapeInv, InPass
  <2>2. PICK id \in {0, 1}, cmp \in {0, 1} :
          /\ noise' = noise + (IF <<id, cmp>> = Sampled THEN 0 ELSE 1)
          /\ IF id = 1 /\ cmp = 1 THEN nobodyAnswers ELSE takeDirection(id, cmp)
    BY <1>5 DEF searchReadBits
  <2>3. <<id, cmp>> = Sampled
    BY <1>1, <2>2
  <2>4. LastInv'
    <3>1. search' \in {"SRCH_WRITE_DIR", "SRCH_SEQ_COMPLETE"}
      BY <2>2 DEF nobodyAnswers, takeDirection, SearchTransact, SearchOver
    <3> QED
      BY <1>1, <1>2, <2>1, <3>1 DEF LastInv, Running, LastZero, ZeroBranch, Last
  <2>5. CASE id = 1 /\ cmp = 1
    <3>1. search' = "SRCH_SEQ_COMPLETE"
      BY <2>2, <2>5 DEF nobodyAnswers, SearchOver
    <3>2. listening = {}
      <4>1. Sampled[1] = 1 /\ Sampled[2] = 1
        <5>1. Sampled = <<1, 1>>
          BY <2>3, <2>5
        <5> QED
          BY <5>1
      <4> QED
        BY <2>1, <4>1, SampledBits
    <3>3. sensors = {} /\ Found = {}
      BY <1>1, <1>2, <2>1, <3>2 DEF PassInv, InPass, ChainInv, Found
    <3>4. PathInv' /\ OverInv'
      BY <2>1, <3>1, <3>3 DEF PathInv, OverInv, Found
    <3> QED
      BY <1>2, <2>1, <2>4, <3>4, SameChain
  <2>6. CASE ~(id = 1 /\ cmp = 1)
    <3>1. takeDirection(id, cmp)
      BY <2>2, <2>6
    <3>2. search' = "SRCH_WRITE_DIR" \/ (search' = "SRCH_SEQ_COMPLETE" /\ failed')
      BY <3>1 DEF takeDirection, SearchTransact, Accepted, Refused
    <3>3. Path(bitNumber - 1)
      BY <1>1, <1>2, <2>1 DEF PathInv
    <3>4. Path(bitNumber)'
      BY <1>1, <1>2, <2>1, <2>3, <2>6, <3>1, <3>3, DirectionOnPath
    <3>5. PathInv' /\ OverInv'
      BY <3>2, <3>4 DEF PathInv, OverInv, SearchIsOver
    <3> QED
      BY <1>2, <2>1, <2>4, <3>5, SameChain
  <2> QED
    BY <2>5, <2>6
<1>6. CASE searchWriteDirection
  <2>1. /\ search = "SRCH_WRITE_DIR" /\ bitNumber \in Bit /\ Path(bitNumber)
        /\ UNCHANGED <<state, romCode, silent>>
    BY <1>1, <1>2, <1>6 DEF searchWriteDirection, ShapeInv, InPass, PathInv
  <2>2. CASE bitNumber < MAX_DEVICE_ID_BITS
    <3>1. /\ bitNumber' = bitNumber + 1 /\ UNCHANGED <<romCodes, lastDiscrepancy, lastZero, lastDevice>>
          /\ search' = "SRCH_READ_BITS" \/ (search' = "SRCH_SEQ_COMPLETE" /\ failed')
      BY <1>6, <2>2 DEF searchWriteDirection, SearchTransact, Accepted, Refused
    <3>2. LastInv'
      BY <1>1, <1>2, <2>1, <3>1 DEF LastInv, Running, LastZero, ZeroBranch, Last
    <3>3. Path(bitNumber)
      BY <2>1
    <3>4. bitNumber' - 1 = bitNumber
      BY <2>1, <3>1, BitFacts DEF Bit
    <3>5. PathInv'
      BY <2>1, <3>1, <3>3, <3>4 DEF PathInv, Path, Last, LastZero, ZeroBranch, OneBranch
    <3>6. OverInv'
      BY <3>1 DEF OverInv, SearchIsOver
    <3> QED
      BY <1>2, <3>1, <3>2, <3>5, <3>6, SameChain
  <2>3. CASE ~(bitNumber < MAX_DEVICE_ID_BITS)
    <3>1. bitNumber = MAX_DEVICE_ID_BITS
      BY <2>1, <2>3, BitFacts DEF Bit
    <3>2. /\ lastDiscrepancy' = lastZero /\ lastDevice' = (lastDevice \/ lastZero = 0)
          /\ passEnds(lastDevice')
      BY <1>6, <2>3 DEF searchWriteDirection
    <3> QED
      BY <1>1, <1>2, <2>1, <3>1, <3>2, PassEnds
  <2> QED
    BY <2>2, <2>3
<1> QED
  BY <1>3, <1>4, <1>5, <1>6 DEF handleSearchTransaction

(* Outside of the search an end of it is only reached when a call failed.  *)
LEMMA OutsideOver ==
  ASSUME TypeInv, StartInv, Next, ~(handleTransactionComplete /\ handleSearchTransaction)
  PROVE  (failed => failed') /\ (SearchIsOver' /\ ~failed' => SearchIsOver)
<1>1. CASE startSearchRom
  BY <1>1 DEF startSearchRom, Accepted, Refused, SearchIsOver
<1>2. CASE isSensorReady
  BY <1>2 DEF isSensorReady, histVars, SearchIsOver, StartInv
<1>3. CASE startMeasure
  BY <1>3 DEF startMeasure, Accepted, Refused, SearchIsOver
<1>4. CASE handleTransactionComplete
  <2>1. measuring
    BY <1>4 DEF handleTransactionComplete
  <2>2. CASE measureStep
    BY <2>1, <2>2 DEF measuring, measureStep, Following, Transact, Accepted, Refused, SearchIsOver
  <2>3. CASE conversionStarted
    BY <2>1, <2>3 DEF measuring, conversionStarted, SearchIsOver
  <2>4. CASE readScratchpad
    <3>1. (failed => failed') /\ state = "READ_SCRATCH_CPLT" /\ search' = search
      BY <2>1, <2>4 DEF measuring, readScratchpad, Refused
    <3> QED
      BY <3>1 DEF SearchIsOver
  <2> QED
    BY <2>1, <2>2, <2>3, <2>4 DEF measuring
<1>5. CASE handleConversionTimerElapsed \/ handleUartError
  BY <1>5 DEF handleConversionTimerElapsed, handleUartError, Transact, Accepted, Refused, SearchIsOver
<1> QED
  BY <1>1, <1>2, <1>3, <1>4, <1>5 DEF Next

LEMMA NextSearch == CodesInv /\ SearchInv /\ [Next]_vars => SearchInv'
<1> SUFFICES ASSUME CodesInv, SearchInv, [Next]_vars PROVE SearchInv'
  OBVIOUS
<1>1. TypeInv /\ StartInv /\ StartInv'
  BY StartNext DEF CodesInv, SearchInv
<1>2. SUFFICES ASSUME noise' = 0 PROVE ChainInv' /\ LastInv' /\ PathInv' /\ OverInv'
  BY <1>1 DEF SearchInv
<1>3. CASE handleTransactionComplete /\ handleSearchTransaction
  BY <1>2, <1>3, SearchMeetsAll DEF handleTransactionComplete
<1>4. CASE Next /\ ~(handleTransactionComplete /\ handleSearchTransaction)
  <2>1. /\ UNCHANGED <<romCodes, searchVars, sensors, noise, silent>>
        /\ state' = "SEARCHING" => search' = "SRCH_RESET" /\ state = "UNINITIALIZED"
    BY <1>1, <1>4, OutsideSearch DEF TypeInv
  <2>2. ChainInv /\ OverInv
    BY <1>2, <2>1 DEF SearchInv
  <2>3. OverInv'
    BY <1>1, <1>4, <2>1, <2>2, OutsideOver, StepOver
  <2>4. LastInv'
    BY <1>1, <2>1 DEF LastInv, StartInv, TypeInv, ShapeInv, searchVars
  <2>5. PathInv'
    BY <2>1 DEF PathInv
  <2> QED
    BY <2>1, <2>2, <2>3, <2>4, <2>5, SameChain
<1>5. CASE UNCHANGED vars
  <2>1. UNCHANGED <<state, search, romCodes, searchVars, busVars, histVars>>
    BY <1>5 DEF vars
  <2>2. ChainInv /\ LastInv /\ PathInv /\ OverInv
    BY <1>2, <2>1 DEF SearchInv, histVars
  <2>3. ChainInv' /\ OverInv'
    BY <2>1, <2>2, SameChain, StepOver DEF busVars, histVars, SearchIsOver
  <2>4. LastInv' /\ PathInv'
    BY <2>1, <2>2 DEF LastInv, PathInv, Path, Last, LastZero, ZeroBranch, OneBranch, busVars, searchVars
  <2> QED
    BY <2>3, <2>4
<1> QED
  BY <1>3, <1>4, <1>5

(* Without noise the passes meet the sensors in their order, each once,    *)
(* and the search ends with all of them or all slots full, unless a call   *)
(* failed or a reset was not answered (searchReadBits,                     *)
(* searchWriteDirection).                                                  *)
THEOREM SearchFindsAll == Spec => []SearchExact
<1>1. Init => CodesInv /\ SearchInv
  <2> SUFFICES ASSUME Init PROVE CodesInv /\ SearchInv
    OBVIOUS
  <2>1. /\ state = "UNINITIALIZED" /\ search = "SRCH_IDLE" /\ romCodes = <<>>
        /\ lastDiscrepancy = 0 /\ lastDevice = FALSE
    BY DEF Init
  <2>2. ChainInv
    BY <2>1 DEF ChainInv
  <2> QED
    BY <2>1, <2>2, InitCodes DEF SearchInv, StartInv, LastInv, PathInv, OverInv, SearchIsOver
<1>2. CodesInv /\ SearchInv /\ [Next]_vars => (CodesInv /\ SearchInv)'
  BY NextCodes, NextSearch
<1>3. CodesInv /\ SearchInv => SearchExact
  BY DEF SearchInv, ChainInv, OverInv, SearchExact
<1> QED
  BY <1>1, <1>2, <1>3, PTL DEF Spec
-----------------------------------------------------------------------------
(* How long a search can last                                              *)

Resting == {"UNINITIALIZED", "IDLE", "WAIT_CONVERSION"}

(* The driver is in a transaction exactly in the states that wait for one, *)
(* but for a search that is over, or whose reset nobody answered.          *)
TransactionInv ==
  /\ state \in Resting => ~busy
  /\ state \notin Resting \union {"SEARCHING"} => busy
  /\ state \notin {"UNINITIALIZED", "IDLE", "SEARCHING"} => search # "SRCH_SEQ_COMPLETE"
  /\ state = "SEARCHING" /\ busy => search \in Running
  /\ state = "SEARCHING" /\ ~busy => silent \/ search = "SRCH_SEQ_COMPLETE"

(* A pass is a reset, a command, and two transactions for each bit.        *)
PassLength == 2 * MAX_DEVICE_ID_BITS + 2

PassLeft ==
  CASE search = "SRCH_RESET"     -> PassLength
    [] search = "SRCH_CMD"       -> PassLength - 1
    [] search = "SRCH_READ_BITS" -> 2 * (MAX_DEVICE_ID_BITS - bitNumber) + 2
    [] search = "SRCH_WRITE_DIR" -> 2 * (MAX_DEVICE_ID_BITS - bitNumber) + 1
    [] OTHER                     -> 0

(* The transactions a search can still make: one pass for each free slot.  *)
SearchLeft ==
  IF state = "SEARCHING" /\ busy
  THEN (NUMBER_OF_DS18B20_SENSORS - Len(romCodes) - 1) * PassLength + PassLeft
  ELSE 0

SearchIsShort == SearchLeft \in 0 .. NUMBER_OF_DS18B20_SENSORS * PassLength

SearchShrinks == [][state = "SEARCHING" /\ busy => SearchLeft' < SearchLeft]_vars

LEMMA TransactionSearch ==
  ASSUME TypeInv, TransactionInv, busy, handleSearchTransaction
  PROVE  TransactionInv'
<1>1. state = "SEARCHING" /\ search \in Running
  BY DEF handleSearchTransaction, TransactionInv
<1>2. CASE searchReset
  BY <1>1, <1>2 DEF searchReset, SearchTransact, Accepted, Refused, setErrorAndIdle, TransactionInv,
                    Resting, Running
<1>3. CASE searchCommand \/ searchReadBits
  BY <1>1, <1>3 DEF searchCommand, searchReadBits, nobodyAnswers, SearchOver, takeDirection,
                    SearchTransact, Accepted, Refused, TransactionInv, Resting, Running
<1>4. CASE searchWriteDirection
  BY <1>1, <1>4 DEF searchWriteDirection, passEnds, SearchOver, SearchTransact, Accepted, Refused,
                    TransactionInv, Resting, Running
<1> QED
  BY <1>2, <1>3, <1>4 DEF handleSearchTransaction

LEMMA TransactionMeasure ==
  ASSUME TypeInv, TransactionInv, busy, measuring
  PROVE  TransactionInv'
<1>1. state \notin {"UNINITIALIZED", "IDLE", "WAIT_CONVERSION", "SEARCHING"}
  BY DEF measuring, measureStep, conversionStarted, readScratchpad, Following
<1>2. search # "SRCH_SEQ_COMPLETE" /\ search' = search
  BY <1>1 DEF TransactionInv, measuring
<1>3. CASE measureStep
  <2>1. Following[state] \notin {"UNINITIALIZED", "IDLE", "WAIT_CONVERSION", "SEARCHING"}
    BY <1>3 DEF measureStep, Following
  <2>2. Transact(Following[state])
    BY <1>3 DEF measureStep
  <2> QED
    BY <1>2, <2>1, <2>2 DEF Transact, Accepted, Refused, setErrorAndIdle, TransactionInv, Resting
<1>4. CASE conversionStarted
  BY <1>2, <1>4 DEF conversionStarted, setErrorAndIdle, TransactionInv, Resting
<1>5. CASE readScratchpad
  <2>1. \/ busy' = TRUE /\ state' = "RESET_FOR_READ"
        \/ busy' = FALSE /\ state' = "IDLE"
    BY <1>5 DEF readScratchpad, Refused, setErrorAndIdle
  <2> QED
    BY <1>2, <2>1 DEF TransactionInv, Resting
<1> QED
  BY <1>3, <1>4, <1>5 DEF measuring

LEMMA NextTransaction == TypeInv /\ TransactionInv /\ [Next]_vars => TransactionInv'
<1> SUFFICES ASSUME TypeInv, TransactionInv, [Next]_vars PROVE TransactionInv'
  OBVIOUS
<1>1. CASE startSearchRom
  BY <1>1 DEF startSearchRom, Accepted, Refused, processSearchComplete, TransactionInv, Resting, Running
<1>2. CASE isSensorReady
  <2>1. ~busy
    BY <1>2 DEF isSensorReady, TransactionInv, Resting, Running
  <2> QED
    BY <1>2, <2>1 DEF isSensorReady, processSearchComplete, TransactionInv, Resting
<1>3. CASE startMeasure
  BY <1>3 DEF startMeasure, Accepted, Refused, setErrorAndIdle, TransactionInv, Resting
<1>4. CASE handleTransactionComplete
  BY <1>4, TransactionSearch, TransactionMeasure DEF handleTransactionComplete
<1>5. CASE handleConversionTimerElapsed
  BY <1>5 DEF handleConversionTimerElapsed, Transact, Accepted, Refused, setErrorAndIdle,
              TransactionInv, Resting
<1>6. CASE handleUartError
  BY <1>6 DEF handleUartError, Refused, setErrorAndIdle, TransactionInv, Resting
<1>7. CASE UNCHANGED vars
  BY <1>7 DEF vars, histVars, TransactionInv
<1> QED
  BY <1>1, <1>2, <1>3, <1>4, <1>5, <1>6, <1>7 DEF Next

LEMMA InitTransaction == Init => TransactionInv
BY DEF Init, TransactionInv, Resting

(* The driver never waits for a transaction that is not there, nor is one  *)
(* left running under a driver that is idle or in its conversion time; the *)
(* one exception is the search whose reset was not answered (searchReset), *)
(* which is why SearchEnds excepts it.                                     *)
THEOREM NeverWaitsInVain == Spec => []TransactionInv
BY InitType, NextType, InitTransaction, NextTransaction, PTL DEF Spec
(* Room for one pass more is room for a pass more.                         *)
LEMMA OnePassMore ==
  ASSUME NEW x \in Nat, NEW y \in Nat, x < y, NEW k \in Nat
  PROVE  x * k \in Nat /\ y * k \in Nat /\ x * k + k <= y * k
<1>1. PICK d \in Nat : y = x + 1 + d
  <2>1. y - x - 1 \in Nat /\ y = x + 1 + (y - x - 1)
    OBVIOUS
  <2> QED
    BY <2>1
<1>2. x * k \in Nat /\ d * k \in Nat
  OBVIOUS
<1>3. (x + 1 + d) * k = x * k + k + d * k
  OBVIOUS
<1> QED
  BY <1>1, <1>2, <1>3

(* What is left in each state of the search, and after a step.             *)
LEMMA LeftOf ==
  ASSUME TypeInv, state = "SEARCHING", search \in Running
  PROVE  /\ PassLength \in Nat
         /\ search = "SRCH_RESET" => PassLeft = PassLength
         /\ search = "SRCH_CMD" => PassLeft = PassLength - 1
         /\ search = "SRCH_READ_BITS" => PassLeft = 2 * (MAX_DEVICE_ID_BITS - bitNumber) + 2
         /\ search = "SRCH_WRITE_DIR" => PassLeft = 2 * (MAX_DEVICE_ID_BITS - bitNumber) + 1
         /\ PassLeft \in 1 .. PassLength
         /\ NUMBER_OF_DS18B20_SENSORS - Len(romCodes) - 1 \in Nat
<1>1. PassLength \in Nat /\ PassLength = 2 * MAX_DEVICE_ID_BITS + 2
  BY BitFacts DEF PassLength
<1>2. search \in InPass => bitNumber \in Bit
  BY DEF TypeInv, ShapeInv
<1>3. /\ search = "SRCH_RESET" => PassLeft = PassLength
      /\ search = "SRCH_CMD" => PassLeft = PassLength - 1
      /\ search = "SRCH_READ_BITS" => PassLeft = 2 * (MAX_DEVICE_ID_BITS - bitNumber) + 2
      /\ search = "SRCH_WRITE_DIR" => PassLeft = 2 * (MAX_DEVICE_ID_BITS - bitNumber) + 1
  BY DEF PassLeft
<1>4. PassLeft \in 1 .. PassLength
  BY <1>1, <1>2, <1>3, BitFacts DEF Running, InPass, Bit
<1>5. Len(romCodes) \in Nat /\ Len(romCodes) < NUMBER_OF_DS18B20_SENSORS
  BY DEF TypeInv, ShapeInv
<1> QED
  BY <1>1, <1>3, <1>4, <1>5, BitFacts

LEMMA LeftBound == TypeInv /\ TransactionInv => SearchIsShort
<1> DEFINE N == NUMBER_OF_DS18B20_SENSORS
           x == N - Len(romCodes) - 1
<1> SUFFICES ASSUME TypeInv, TransactionInv PROVE SearchLeft \in 0 .. N * PassLength
  BY DEF SearchIsShort
<1>0. PassLength \in Nat /\ N \in Nat /\ N > 0
  BY BitFacts DEF PassLength
<1>1. CASE state = "SEARCHING" /\ busy
  <2>1. search \in Running
    BY <1>1 DEF TransactionInv
  <2>2. PassLeft \in 1 .. PassLength /\ x \in Nat
    BY <1>1, <2>1, LeftOf
  <2>3. x < N
    BY <2>2, BitFacts DEF TypeInv, ShapeInv
  <2>4. SearchLeft = x * PassLength + PassLeft
    BY <1>1 DEF SearchLeft
  <2> HIDE DEF x, N
  <2>5. x * PassLength \in Nat /\ N * PassLength \in Nat /\ x * PassLength + PassLength <= N * PassLength
    BY <1>0, <2>2, <2>3, OnePassMore
  <2> QED
    BY <1>0, <2>2, <2>4, <2>5
<1>2. CASE ~(state = "SEARCHING" /\ busy)
  <2>1. SearchLeft = 0
    BY <1>2 DEF SearchLeft
  <2>2. N * PassLength \in Nat
    BY <1>0
  <2> QED
    BY <2>1, <2>2
<1> QED
  BY <1>1, <1>2

(* Another transaction of the same pass is one transaction less.           *)
LEMMA SamePass ==
  ASSUME TypeInv, TypeInv', TransactionInv, TransactionInv', state = "SEARCHING", busy,
         romCodes' = romCodes, (state' = "SEARCHING" /\ busy') => PassLeft' < PassLeft
  PROVE  SearchLeft' < SearchLeft
<1> DEFINE x == NUMBER_OF_DS18B20_SENSORS - Len(romCodes) - 1
<1>1. search \in Running
  BY DEF TransactionInv
<1>2. PassLeft \in 1 .. PassLength /\ x \in Nat /\ PassLength \in Nat
  BY <1>1, LeftOf
<1>3. SearchLeft = x * PassLength + PassLeft
  BY DEF SearchLeft
<1>4. CASE state' = "SEARCHING" /\ busy'
  <2>1. SearchLeft' = x * PassLength + PassLeft'
    BY <1>4 DEF SearchLeft, PassLength
  <2>2. search' \in Running
    BY <1>4 DEF TransactionInv
  <2>3. PassLeft' \in Nat
    <3>1. search' \in InPass => bitNumber' \in Bit
      BY DEF TypeInv, ShapeInv
    <3>2. /\ search' = "SRCH_RESET" => PassLeft' = PassLength
          /\ search' = "SRCH_CMD" => PassLeft' = PassLength - 1
          /\ search' = "SRCH_READ_BITS" => PassLeft' = 2 * (MAX_DEVICE_ID_BITS - bitNumber') + 2
          /\ search' = "SRCH_WRITE_DIR" => PassLeft' = 2 * (MAX_DEVICE_ID_BITS - bitNumber') + 1
      BY DEF PassLeft, PassLength
    <3>3. PassLength \in Nat /\ PassLength - 1 \in Nat
      BY BitFacts DEF PassLength
    <3>4. CASE search' \in InPass
      <4>1. bitNumber' \in Nat /\ bitNumber' <= MAX_DEVICE_ID_BITS
        BY <3>1, <3>4, BitFacts DEF Bit
      <4> QED
        BY <3>2, <3>4, <4>1, BitFacts DEF InPass
    <3>5. CASE search' \notin InPass
      BY <2>2, <3>2, <3>3, <3>5 DEF Running, InPass
    <3> QED
      BY <3>4, <3>5
  <2> HIDE DEF x
  <2>4. x * PassLength \in Nat
    BY <1>2
  <2>5. PassLeft' < PassLeft /\ PassLeft \in Nat
    BY <1>2, <1>4
  <2>6. x * PassLength + PassLeft' < x * PassLength + PassLeft
    BY <2>3, <2>4, <2>5
  <2> QED
    BY <1>3, <2>1, <2>6, Zenon
<1>5. CASE ~(state' = "SEARCHING" /\ busy')
  <2>1. SearchLeft' = 0
    BY <1>5 DEF SearchLeft
  <2> HIDE DEF x
  <2>2. x * PassLength \in Nat
    BY <1>2
  <2> QED
    BY <1>2, <1>3, <2>1, <2>2
<1> QED
  BY <1>4, <1>5

(* The bit sent at the end of a pass is the last of it, and the next pass  *)
(* has one slot less.                                                      *)
LEMMA PassOver ==
  ASSUME TypeInv, TypeInv', TransactionInv, TransactionInv', state = "SEARCHING", busy,
         searchWriteDirection, ~(bitNumber < MAX_DEVICE_ID_BITS)
  PROVE  SearchLeft' < SearchLeft
<1> DEFINE N == NUMBER_OF_DS18B20_SENSORS
           x == N - Len(romCodes) - 1
<1>1. search = "SRCH_WRITE_DIR" /\ search \in Running
  BY DEF searchWriteDirection, Running
<1>2. PassLeft \in 1 .. PassLength /\ x \in Nat /\ PassLength \in Nat
  BY <1>1, LeftOf
<1>3. SearchLeft = x * PassLength + PassLeft /\ x * PassLength \in Nat
  BY <1>2 DEF SearchLeft
<1>4. CASE state' = "SEARCHING" /\ busy'
  <2>1. passEnds(lastDevice') /\ search' \in Running
    BY <1>4 DEF searchWriteDirection, TransactionInv
  <2>2. search' = "SRCH_RESET" /\ romCodes' = Append(romCodes, romCode)
    BY <1>4, <2>1 DEF passEnds, SearchOver, SearchTransact, Accepted, Refused, Running
  <2>3. Len(romCodes') = Len(romCodes) + 1 /\ Len(romCodes) \in Nat /\ Len(romCodes') < N
    <3>1. romCodes \in Seq(Code) /\ romCode \in Code
      BY DEF TypeInv, TypeOK, ShapeInv
    <3>2. Len(romCodes') < N
      BY <2>1 DEF TypeInv, ShapeInv
    <3> QED
      BY <2>2, <3>1, <3>2
  <2> DEFINE y == N - Len(romCodes') - 1
  <2>4. y \in Nat /\ y < x
    BY <2>3, BitFacts
  <2>5. SearchLeft' = y * PassLength + PassLength
    BY <1>4, <2>2 DEF SearchLeft, PassLeft, PassLength
  <2> HIDE DEF x, y, N
  <2>6. y * PassLength + PassLength <= x * PassLength /\ y * PassLength \in Nat
    BY <1>2, <2>4, OnePassMore
  <2> QED
    BY <1>2, <1>3, <2>5, <2>6
<1>5. CASE ~(state' = "SEARCHING" /\ busy')
  <2>1. SearchLeft' = 0
    BY <1>5 DEF SearchLeft
  <2> HIDE DEF x
  <2> QED
    BY <1>2, <1>3, <2>1
<1> QED
  BY <1>4, <1>5

(* Every handler that ends a transaction of the search brings the search   *)
(* nearer to its end, whatever the bus answers and whichever calls are     *)
(* refused: it takes at most NUMBER_OF_DS18B20_SENSORS passes of two       *)
(* transactions a bit (handleSearchTransaction; the safety half of         *)
(* SearchEnds).                                                            *)
THEOREM SearchRunsDown == Spec => SearchShrinks /\ []SearchIsShort
<1>1. TypeInv /\ TypeInv' /\ TransactionInv /\ TransactionInv' /\ [Next]_vars
        => [state = "SEARCHING" /\ busy => SearchLeft' < SearchLeft]_vars
  <2> SUFFICES ASSUME TypeInv, TypeInv', TransactionInv, TransactionInv', Next,
                      state = "SEARCHING", busy
               PROVE  SearchLeft' < SearchLeft
    BY DEF vars
  <2>0. search \in Running
    BY DEF TransactionInv
  <2>1. (handleTransactionComplete /\ handleSearchTransaction) \/ handleUartError
    BY <2>0 DEF Next, startSearchRom, isSensorReady, startMeasure, handleTransactionComplete, measuring,
                measureStep, conversionStarted, readScratchpad, Following, Running,
                handleConversionTimerElapsed
  <2>2. CASE handleUartError
    BY <2>2, SamePass DEF handleUartError, Refused
  <2>3. CASE searchReset
    <3>1. (state' = "SEARCHING" /\ busy') => search' = "SRCH_CMD"
      BY <2>3 DEF searchReset, SearchTransact, Accepted, Refused, setErrorAndIdle
    <3>2. (state' = "SEARCHING" /\ busy') => PassLeft' < PassLeft
      BY <2>3, <3>1, BitFacts DEF searchReset, PassLeft, PassLength
    <3> QED
      BY <2>3, <3>2, SamePass DEF searchReset
  <2>4. CASE searchCommand
    <3>1. (state' = "SEARCHING" /\ busy') => search' = "SRCH_READ_BITS" /\ bitNumber' = 1
      BY <2>4 DEF searchCommand, SearchTransact, Accepted, Refused
    <3>2. (state' = "SEARCHING" /\ busy') => PassLeft' < PassLeft
      BY <2>4, <3>1, BitFacts DEF searchCommand, PassLeft, PassLength
    <3> QED
      BY <2>4, <3>2, SamePass DEF searchCommand
  <2>5. CASE searchReadBits
    <3>1. (state' = "SEARCHING" /\ busy') => search' = "SRCH_WRITE_DIR" /\ bitNumber' = bitNumber
      BY <2>5 DEF searchReadBits, nobodyAnswers, SearchOver, takeDirection, SearchTransact, Accepted,
                  Refused
    <3>2. search = "SRCH_READ_BITS" /\ bitNumber \in Bit
      BY <2>5 DEF searchReadBits, TypeInv, ShapeInv, InPass
    <3>3. (state' = "SEARCHING" /\ busy') => PassLeft' < PassLeft
      BY <3>1, <3>2, BitFacts DEF PassLeft, Bit
    <3> QED
      BY <2>5, <3>3, SamePass DEF searchReadBits
  <2>6. CASE searchWriteDirection /\ bitNumber < MAX_DEVICE_ID_BITS
    <3>1. (state' = "SEARCHING" /\ busy') => search' = "SRCH_READ_BITS" /\ bitNumber' = bitNumber + 1
      BY <2>6 DEF searchWriteDirection, SearchTransact, Accepted, Refused
    <3>2. search = "SRCH_WRITE_DIR" /\ bitNumber \in Bit /\ romCodes' = romCodes
      BY <2>6 DEF searchWriteDirection, TypeInv, ShapeInv, InPass
    <3>3. (state' = "SEARCHING" /\ busy') => PassLeft' < PassLeft
      BY <3>1, <3>2, BitFacts DEF PassLeft, Bit
    <3> QED
      BY <3>2, <3>3, SamePass
  <2>7. CASE searchWriteDirection /\ ~(bitNumber < MAX_DEVICE_ID_BITS)
    BY <2>7, PassOver
  <2> QED
    BY <2>1, <2>2, <2>3, <2>4, <2>5, <2>6, <2>7 DEF handleSearchTransaction
<1> QED
  BY <1>1, LeftBound, InitType, NextType, InitTransaction, NextTransaction, PTL
     DEF Spec, SearchShrinks
=============================================================================
