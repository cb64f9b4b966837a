--------------------------- MODULE Ds18b20Proofs ---------------------------
(***************************************************************************)
(* The DS18B20 driver hands out an old temperature only if noise went      *)
(* unnoticed in the measurement started last (garbled), and implements     *)
(* SensorService, for every value of the constants: whatever HAL calls     *)
(* fail, errors occur, and interrupts do between two steps of the task.    *)
(*                                                                         *)
(* Argument.  "old" is written by startMeasure, which requires IDLE and    *)
(* starts at once to leave it, and by a scratchpad the sensor filled       *)
(* before, which takes noise nothing checks.  Any other way back to IDLE   *)
(* is a reset (the sentinel) or a scratchpad whose age is that of the      *)
(* conversion waited for; and a conversion timer that elapses in           *)
(* WAIT_CONVERSION was started in the current cycle, because an older one  *)
(* still running makes the start fail.  Noise in an earlier measurement    *)
(* does no harm: startMeasure leaves nothing of it.                        *)
(*                                                                         *)
(* The last part shows that a driver no noise has disturbed leaves no      *)
(* transfer, completion flag or timer behind (NothingLeftBehind), that a   *)
(* measurement ends, and that the CRC refuses every short burst of noise.  *)
(***************************************************************************)
EXTENDS Ds18b20, Sequences, SequenceTheorems, WellFoundedInduction, TLAPS

Fresh == {INVALID_TEMP, "current"}

(* The timer waited for, and the conversion being read, are current.       *)
TimerInv == state = "WAIT_CONVERSION" => timer = "current"
ReadInv == state \in ReadStates => waited = "current"

(* Where the task may find, or is about to declare, the driver idle.       *)
IdleInv ==
  /\ (pc \in {"ready", "receive", "transmit", "stop"} /\ state = "IDLE")
       => temp \in Fresh \/ garbled
  /\ pc = "idle" => temp \in Fresh \/ garbled
  /\ pc \in {"boot", "halted"} => state \in {"UNINITIALIZED", "IDLE"}
  /\ pc = "boot" => temp = INVALID_TEMP

IInv == TypeOK /\ TimerInv /\ ReadInv /\ IdleInv

-----------------------------------------------------------------------------
(* The HAL keeps its state well-typed.                                     *)

(* HAL_UART_DMAStop leaves a HAL state behind.                             *)
LEMMA DmaStopType ==
  ASSUME NEW h \in Hal
  PROVE  DmaStop(h) \in Hal
BY DEF DmaStop, Hal

(* The fields of a HAL call's outcome.                                     *)
LEMMA OutcomeFields ==
  ASSUME NEW ok \in BOOLEAN, NEW h
  PROVE  Outcome(ok, h).ok = ok /\ Outcome(ok, h).hal = h
BY DEF Outcome

(* HAL_UART_Init leaves a HAL state behind, whether it fails or not.       *)
LEMMA UartInitType ==
  ASSUME NEW h \in Hal, NEW b \in UartInit(h)
  PROVE  b.ok \in BOOLEAN /\ b.hal \in Hal
<1> DEFINE ready == [h EXCEPT !.held = FALSE]
<1>1. ready \in Hal
  BY DEF Hal
<1>2. b = Outcome(TRUE, ready) \/ b = Outcome(FALSE, ready)
  BY Zenon DEF UartInit, OrFault
<1> QED
  BY ZenonT(60), <1>1, <1>2, OutcomeFields

(* So does HAL_UART_Receive_DMA, whatever it returns,                      *)
LEMMA ReceiveDmaType ==
  ASSUME NEW h \in Hal, NEW r \in ReceiveDma(h)
  PROVE  r.ok \in BOOLEAN /\ r.hal \in Hal
<1> DEFINE armed == [h EXCEPT !.rx = IF h.tx = "idle" THEN "armed" ELSE "fed"]
<1>1. armed \in Hal
  BY DEF Hal
<1>2. r = Outcome(TRUE, armed) \/ r = Outcome(FALSE, h)
  BY Zenon DEF ReceiveDma, OrFault
<1> QED
  BY ZenonT(60), <1>1, <1>2, OutcomeFields

(* and HAL_UART_Transmit_DMA,                                              *)
LEMMA TransmitDmaType ==
  ASSUME NEW h \in Hal, NEW t \in TransmitDma(h)
  PROVE  t.ok \in BOOLEAN /\ t.hal \in Hal
<1> DEFINE sent == [rx |-> IF h.rx = "off" THEN "off" ELSE "fed",
                    tx |-> "sending", held |-> TRUE]
<1>1. sent \in Hal
  BY DEF Hal
<1>2. t = Outcome(TRUE, sent) \/ t = Outcome(FALSE, h)
  BY Zenon DEF TransmitDma, OrFault
<1> QED
  BY ZenonT(60), <1>1, <1>2, OutcomeFields

(* and startDmaTransmitReceive, which calls both.                          *)
LEMMA StartDmaType ==
  ASSUME NEW h \in Hal, NEW r \in startDmaTransmitReceive(h)
  PROVE  r.ok \in BOOLEAN /\ r.hal \in Hal
<1>1. PICK q \in ReceiveDma(h) :
        r \in IF ~q.ok
              THEN {q}
              ELSE {IF t.ok THEN t ELSE Outcome(FALSE, DmaStop(t.hal)) : t \in TransmitDma(q.hal)}
  BY DEF startDmaTransmitReceive
<1>2. q.ok \in BOOLEAN /\ q.hal \in Hal
  BY <1>1, ReceiveDmaType
<1>3. CASE ~q.ok
  BY <1>1, <1>2, <1>3
<1>4. CASE q.ok
  <2>1. PICK t \in TransmitDma(q.hal) :
          r = IF t.ok THEN t ELSE Outcome(FALSE, DmaStop(t.hal))
    BY <1>1, <1>4
  <2>2. t.ok \in BOOLEAN /\ t.hal \in Hal
    BY <1>2, <2>1, TransmitDmaType
  <2>3. DmaStop(t.hal) \in Hal
    BY <2>2, DmaStopType
  <2> QED
    BY <2>1, <2>2, <2>3, OutcomeFields
<1> QED
  BY <1>2, <1>3, <1>4

-----------------------------------------------------------------------------
(***************************************************************************)
(* What an interrupt handler can do, whichever it is: reset to idle,       *)
(* finish a read, move on inside a measurement, or leave _State alone.  It *)
(* never leaves IDLE: only startMeasure does.                              *)
(***************************************************************************)
TypedEffect ==
  /\ hal' \in Hal
  /\ rxFor' \in State
  /\ rxDone' \in BOOLEAN /\ txDone' \in BOOLEAN

GoesIdle ==
  /\ state' = "IDLE"
  /\ \/ temp' = INVALID_TEMP
     \/ state \in ReadStates /\ (temp' = "current" \/ (temp' = "old" /\ garbled'))
  /\ timer' \in {timer, "off"}

MovesOn ==
  /\ state \notin {"UNINITIALIZED", "IDLE"}
  /\ temp' = temp
  /\ \/ state' \in ConvertStates /\ timer' = timer
     \/ state' = "WAIT_CONVERSION" /\ timer' = "current"
     \/ state' \in ReadStates /\ timer' \in {timer, "off"} /\ waited' = "current"

StaysPut == state' = state /\ temp' = temp /\ timer' = timer /\ waited' = waited

(* A measurement that is garbled stays so, and noise that hits no          *)
(* measurement garbles none.                                               *)
NoiseEffect ==
  /\ garbled' \in BOOLEAN
  /\ garbled => garbled'
  /\ state \in {"UNINITIALIZED", "IDLE"} => garbled' = garbled

IsrEffect ==
  /\ TypedEffect
  /\ waited' \in Cycle \cup {"none"}
  /\ UNCHANGED <<found, pc>>
  /\ calm' \in BOOLEAN /\ disturbed' \in BOOLEAN
  /\ NoiseEffect
  /\ GoesIdle \/ MovesOn \/ StaysPut

(* Noise while handleTransactionComplete acts on a finished transaction.   *)
LEMMA HandlerNoise ==
  ASSUME garbled \in BOOLEAN, NEW h, handleTransactionComplete(h)
  PROVE  NoiseEffect
<1>1. CASE UNCHANGED garbled
  BY <1>1, Zenon DEF NoiseEffect
<1>2. CASE Unverified /\ state \notin {"UNINITIALIZED", "IDLE"}
  <2>1. garbled' = garbled \/ garbled' = TRUE
    BY <1>2 DEF Unverified
  <2> QED
    BY <1>2, <2>1, Zenon DEF NoiseEffect
<1>3. CASE ReadScratchpad(h) /\ state \notin {"UNINITIALIZED", "IDLE"}
  <2>1. garbled' = garbled \/ garbled' = TRUE
    BY <1>3, Zenon DEF ReadScratchpad
  <2> QED
    BY <1>3, <2>1, Zenon DEF NoiseEffect
<1>4. \/ UNCHANGED garbled
      \/ (Unverified \/ ReadScratchpad(h)) /\ state \notin {"UNINITIALIZED", "IDLE"}
  BY DEF handleTransactionComplete
<1> QED
  BY <1>1, <1>2, <1>3, <1>4

(* A transaction either is waited for in the next state or ends the        *)
(* measurement.                                                            *)
LEMMA TransactEffect ==
  ASSUME NEW s \in State, NEW h \in Hal, Transact(s, h)
  PROVE  /\ TypedEffect
         /\ \/ state' = s /\ temp' = temp
            \/ state' = "IDLE" /\ temp' = INVALID_TEMP
<1>1. PICK r \in startDmaTransmitReceive(h) :
        /\ hal' = r.hal
        /\ rxFor' = s
        /\ IF r.ok
           THEN state' = s /\ rxDone' = FALSE /\ txDone' = FALSE /\ UNCHANGED temp
           ELSE setErrorAndIdle
  BY DEF Transact
<1>2. hal' \in Hal
  BY <1>1, StartDmaType
<1> QED
  BY <1>1, <1>2 DEF TypedEffect, setErrorAndIdle

(* The same, with the baud rate changed first.                             *)
LEMMA TransactAtBaudEffect ==
  ASSUME rxFor \in State, NEW s \in State, NEW h \in Hal, TransactAtBaud(s, h)
  PROVE  /\ TypedEffect
         /\ \/ state' = s /\ temp' = temp
            \/ state' = "IDLE" /\ temp' = INVALID_TEMP
<1>1. PICK b \in UartInit(h) :
        IF b.ok THEN Transact(s, b.hal)
                ELSE setErrorAndIdle /\ hal' = b.hal /\ UNCHANGED rxFor
  BY DEF TransactAtBaud
<1>2. b.ok \in BOOLEAN /\ b.hal \in Hal
  BY <1>1, UartInitType
<1>3. CASE b.ok
  BY <1>1, <1>2, <1>3, TransactEffect
<1>4. CASE ~b.ok
  BY <1>1, <1>2, <1>4 DEF TypedEffect, setErrorAndIdle
<1> QED
  BY <1>2, <1>3, <1>4

(* What handleTransactionComplete does to the driver's state and           *)
(* temperature.                                                            *)
LEMMA HandlerEffect ==
  ASSUME IInv, NEW h \in Hal, handleTransactionComplete(h), waited' = waited
  PROVE  TypedEffect /\ (GoesIdle \/ MovesOn)
<1> USE DEF State, ConvertStates, ReadStates, Fresh, IInv, TypeOK
<1>1. ASSUME NEW s \in State,
             NoPresence(h) \/ TransactAtBaud(s, h) \/ Transact(s, h)
      PROVE  /\ TypedEffect
             /\ \/ state' = s /\ temp' = temp
                \/ state' = "IDLE" /\ temp' = INVALID_TEMP
  <2>1. CASE NoPresence(h)
    BY <2>1 DEF NoPresence, setErrorAndIdle, TypedEffect
  <2>2. CASE TransactAtBaud(s, h)
    BY <2>2, TransactAtBaudEffect
  <2>3. CASE Transact(s, h)
    BY <2>3, TransactEffect
  <2> QED
    BY <1>1, <2>1, <2>2, <2>3
<1>2. ASSUME NEW s \in ConvertStates, state \in ConvertStates, UNCHANGED timer,
             NoPresence(h) \/ TransactAtBaud(s, h) \/ Transact(s, h)
      PROVE  TypedEffect /\ (GoesIdle \/ MovesOn)
  BY <1>1, <1>2 DEF GoesIdle, MovesOn
<1>3. ASSUME NEW s \in ReadStates, state \in ReadStates, UNCHANGED timer,
             NoPresence(h) \/ TransactAtBaud(s, h) \/ Transact(s, h)
      PROVE  TypedEffect /\ (GoesIdle \/ MovesOn)
  BY <1>1, <1>3 DEF GoesIdle, MovesOn, ReadInv
<1>4. CASE state = "RESET_FOR_CONVERT"
  BY <1>2, <1>4 DEF handleTransactionComplete
<1>5. CASE state = "SKIP_ROM_FOR_CONVERT"
  BY <1>2, <1>5 DEF handleTransactionComplete
<1>6. CASE state = "CONVERT_T"
  <2>1. startConversionTempTimer(h)
    BY <1>6 DEF handleTransactionComplete
  <2> QED
    BY <1>6, <2>1 DEF startConversionTempTimer, setErrorAndIdle, TypedEffect, GoesIdle, MovesOn
<1>7. CASE state = "RESET_FOR_READ"
  BY <1>3, <1>7 DEF handleTransactionComplete
<1>8. CASE state = "SKIP_ROM_FOR_READ"
  BY <1>3, <1>8 DEF handleTransactionComplete
<1>9. CASE state = "READ_SCRATCH_CMD"
  BY <1>3, <1>9 DEF handleTransactionComplete
<1>10. CASE state = "READ_SCRATCH_CPLT"
  <2>1. ReadScratchpad(h) /\ UNCHANGED timer
    BY <1>10 DEF handleTransactionComplete
  <2> QED
    BY <1>10, <2>1 DEF ReadScratchpad, ReadInv, TypedEffect, GoesIdle
<1>11. CASE state \in {"UNINITIALIZED", "IDLE", "WAIT_CONVERSION"}
  BY <1>11 DEF handleTransactionComplete, setErrorAndIdle, TypedEffect, GoesIdle
<1> QED
  BY <1>4, <1>5, <1>6, <1>7, <1>8, <1>9, <1>10, <1>11

-----------------------------------------------------------------------------
(* Every interrupt handler has that effect.                                *)

Interrupt ==
  \/ handleUartRxDmaComplete \/ TxStreamDone \/ handleUartTxDmaComplete
  \/ handleUartError \/ handleConversionTimerElapsed \/ BusSettles

(* What any interrupt does: nothing old becomes readable that noise did    *)
(* not put there.                                                          *)
LEMMA InterruptEffect ==
  ASSUME IInv, Interrupt
  PROVE  IsrEffect
<1> USE DEF IInv, TypeOK
<1>1. CASE handleUartRxDmaComplete
  <2> DEFINE h == [hal EXCEPT !.rx = "off"]
  <2>1. h \in Hal
    BY DEF Hal
  <2>2. UNCHANGED <<found, pc, waited, calm>> /\ disturbed' \in BOOLEAN
    BY <1>1 DEF handleUartRxDmaComplete
  <2>3. CASE txDone
    <3>1. handleTransactionComplete(h)
      BY <1>1, <2>3, Zenon DEF handleUartRxDmaComplete
    <3> QED
      BY <2>1, <2>2, <3>1, HandlerEffect, HandlerNoise DEF IsrEffect
  <2>4. CASE ~txDone
    <3>1. rxDone' = TRUE /\ hal' = h /\ UNCHANGED <<state, txDone, temp, timer, rxFor, garbled>>
      BY <1>1, <2>4, Zenon DEF handleUartRxDmaComplete
    <3> QED
      BY <2>1, <2>2, <3>1 DEF IsrEffect, TypedEffect, NoiseEffect, StaysPut
  <2> QED
    BY <2>3, <2>4
<1>2. CASE TxStreamDone
  BY <1>2 DEF TxStreamDone, IsrEffect, TypedEffect, NoiseEffect, StaysPut, Hal
<1>3. CASE handleUartTxDmaComplete
  <2> DEFINE h == [hal EXCEPT !.tx = "idle", !.held = FALSE]
  <2>1. h \in Hal
    BY DEF Hal
  <2>2. UNCHANGED <<found, pc, waited, calm, disturbed>>
    BY <1>3 DEF handleUartTxDmaComplete
  <2>3. CASE rxDone
    <3>1. handleTransactionComplete(h)
      BY <1>3, <2>3, Zenon DEF handleUartTxDmaComplete
    <3> QED
      BY <2>1, <2>2, <3>1, HandlerEffect, HandlerNoise DEF IsrEffect
  <2>4. CASE ~rxDone
    <3>1. txDone' = TRUE /\ hal' = h /\ UNCHANGED <<state, rxDone, temp, timer, rxFor, garbled>>
      BY <1>3, <2>4, Zenon DEF handleUartTxDmaComplete
    <3> QED
      BY <2>1, <2>2, <3>1 DEF IsrEffect, TypedEffect, NoiseEffect, StaysPut
  <2> QED
    BY <2>3, <2>4
<1>4. CASE handleUartError
  <2>1. hal' \in Hal
    BY <1>4 DEF handleUartError, Hal
  <2> QED
    BY <1>4, <2>1
    DEF handleUartError, setErrorAndIdle, IsrEffect, TypedEffect, NoiseEffect, GoesIdle, Fresh
<1>5. CASE handleConversionTimerElapsed
  <2>1. CASE state # "WAIT_CONVERSION"
    BY <1>5, <2>1 DEF handleConversionTimerElapsed, IsrEffect, TypedEffect, NoiseEffect, StaysPut
  <2>2. CASE state = "WAIT_CONVERSION"
    <3>1. /\ timer' = "off" /\ waited' = timer
          /\ startReadScratchpadSequence(hal)
          /\ UNCHANGED <<found, pc, garbled, calm, disturbed>>
      BY <1>5, <2>2, Zenon DEF handleConversionTimerElapsed
    <3>2. waited' = "current"
      BY <2>2, <3>1 DEF TimerInv
    <3>3. PICK b \in UartInit(hal) :
            IF ~b.ok
            THEN setErrorAndIdle /\ hal' = b.hal /\ UNCHANGED rxFor
            ELSE \E r \in startDmaTransmitReceive(b.hal) :
                   /\ hal' = r.hal
                   /\ rxFor' = "RESET_FOR_READ"
                   /\ IF r.ok
                      THEN state' = "RESET_FOR_READ" /\ UNCHANGED <<rxDone, txDone, temp>>
                      ELSE setErrorAndIdle
      BY <3>1 DEF startReadScratchpadSequence
    <3>4. b.ok \in BOOLEAN /\ b.hal \in Hal
      BY <3>3, UartInitType
    <3>5. CASE ~b.ok
      <4>1. setErrorAndIdle /\ hal' = b.hal /\ UNCHANGED rxFor
        BY <3>3, <3>5
      <4> QED
        BY <3>1, <3>2, <3>4, <4>1
        DEF setErrorAndIdle, IsrEffect, TypedEffect, NoiseEffect, GoesIdle, Fresh, Cycle
    <3>6. CASE b.ok
      <4>1. PICK r \in startDmaTransmitReceive(b.hal) :
              /\ hal' = r.hal
              /\ rxFor' = "RESET_FOR_READ"
              /\ IF r.ok
                 THEN state' = "RESET_FOR_READ" /\ UNCHANGED <<rxDone, txDone, temp>>
                 ELSE setErrorAndIdle
        BY <3>3, <3>6
      <4>2. hal' \in Hal
        BY <3>4, <4>1, StartDmaType
      <4>3. TypedEffect
        BY <4>1, <4>2 DEF TypedEffect, setErrorAndIdle, State, ReadStates
      <4>4. GoesIdle \/ MovesOn
        BY <2>2, <3>1, <3>2, <4>1 DEF setErrorAndIdle, GoesIdle, MovesOn, Fresh, ReadStates
      <4> QED
        BY <3>1, <3>2, <4>3, <4>4 DEF IsrEffect, NoiseEffect, Cycle
    <3> QED
      BY <3>4, <3>5, <3>6
  <2> QED
    BY <2>1, <2>2
<1>6. CASE BusSettles
  BY <1>6 DEF BusSettles, IsrEffect, TypedEffect, NoiseEffect, StaysPut
<1> QED
  BY <1>1, <1>2, <1>3, <1>4, <1>5, <1>6 DEF Interrupt

-----------------------------------------------------------------------------
(* The invariant is inductive.                                             *)

(* The constructor establishes the invariant.                              *)
LEMMA InitIInv == Init => IInv
<1> SUFFICES ASSUME Init PROVE IInv
  OBVIOUS
<1>1. hal \in Hal
  BY DEF Init, Hal
<1>2. TypeOK
  BY <1>1 DEF Init, TypeOK, State, PC, Cycle
<1>3. TimerInv /\ ReadInv /\ IdleInv
  BY DEF Init, TimerInv, ReadInv, IdleInv, ReadStates, Fresh
<1> QED
  BY <1>2, <1>3 DEF IInv

(* Interrupts keep it,                                                     *)
LEMMA IsrKeepsIInv ==
  ASSUME IInv, IsrEffect
  PROVE  IInv'
<1> USE DEF IInv, TypeOK, IsrEffect, TypedEffect, NoiseEffect, State, ConvertStates, ReadStates,
            Fresh, Cycle
<1>1. CASE GoesIdle
  BY <1>1 DEF GoesIdle, TimerInv, ReadInv, IdleInv
<1>2. CASE MovesOn
  BY <1>2 DEF MovesOn, TimerInv, ReadInv, IdleInv
<1>3. CASE StaysPut
  BY <1>3 DEF StaysPut, TimerInv, ReadInv, IdleInv
<1> QED
  BY <1>1, <1>2, <1>3

(* the task's steps inside initialize and startMeasure keep it,            *)
LEMMA TaskKeepsIInv ==
  ASSUME IInv, Task
  PROVE  IInv'
<1> USE DEF IInv, TypeOK, TimerInv, ReadInv, IdleInv, Fresh
<1>1. CASE initialize
  BY <1>1 DEF initialize, State, PC, ReadStates, ConvertStates
<1>2. CASE taskUartInit
  <2>1. hal' \in Hal
    BY <1>2, UartInitType DEF taskUartInit
  <2>2. pc' \in {"state", "clear"}
    BY <1>2 DEF taskUartInit
  <2> QED
    BY <1>2, <2>1, <2>2 DEF taskUartInit, PC
<1>3. CASE taskStoreState
  BY <1>3 DEF taskStoreState, State, PC, ReadStates, ConvertStates
<1>4. CASE taskReceive
  <2>1. hal' \in Hal
    BY <1>4, ReceiveDmaType DEF taskReceive
  <2>2. pc = "receive" /\ pc' \in {"transmit", "clear"} /\ rxFor' \in State
    BY <1>4 DEF taskReceive, State, ConvertStates
  <2> QED
    BY <1>4, <2>1, <2>2 DEF taskReceive, PC
<1>5. CASE taskTransmit
  <2>1. hal' \in Hal
    BY <1>5, TransmitDmaType DEF taskTransmit
  <2>2. pc = "transmit" /\ pc' \in {"ready", "stop"}
    BY <1>5 DEF taskTransmit
  <2> QED
    BY <1>5, <2>1, <2>2 DEF taskTransmit, PC
<1>6. CASE taskDmaStop
  BY <1>6, DmaStopType DEF taskDmaStop, PC
<1>7. CASE taskClear
  BY <1>7 DEF taskClear, PC
<1>8. CASE taskIdle
  BY <1>8 DEF taskIdle, State, PC, ReadStates
<1> QED
  BY <1>1, <1>2, <1>3, <1>4, <1>5, <1>6, <1>7, <1>8 DEF Task

(* and the call of startMeasure keeps it.                                  *)
LEMMA StartKeepsIInv ==
  ASSUME IInv, startMeasure
  PROVE  IInv'
BY DEF startMeasure, Aged, Cycle, IInv, TypeOK, TimerInv, ReadInv, IdleInv, PC, ReadStates

(* So every step of the driver keeps it.                                   *)
LEMMA NextKeepsIInv == IInv /\ [Next]_vars => IInv'
<1> SUFFICES ASSUME IInv, [Next]_vars
             PROVE  IInv'
  OBVIOUS
<1>1. CASE Task
  BY <1>1, TaskKeepsIInv
<1>2. CASE startMeasure
  BY <1>2, StartKeepsIInv
<1>3. CASE Interrupt
  BY <1>3, InterruptEffect, IsrKeepsIInv
<1>4. CASE UNCHANGED vars
  BY <1>4 DEF vars, IInv, TypeOK, TimerInv, ReadInv, IdleInv
<1> QED
  BY <1>1, <1>2, <1>3, <1>4 DEF Next, Interrupt

(* The invariant holds in every state the driver reaches.                  *)
THEOREM Invariance == Spec => []IInv
BY InitIInv, NextKeepsIInv, PTL DEF Spec

(* Every variable keeps its type; that a temperature is the sentinel or    *)
(* the result of some conversion that was waited for is part of it.        *)
THEOREM TypeCorrect == Spec => []TypeOK
BY Invariance, PTL DEF IInv

(* getTemperature of a driver that isSensorReady reports idle returns the  *)
(* sentinel or a value converted in the measurement started last, unless   *)
(* noise went unnoticed in that very measurement.                          *)
THEOREM NeverOld == Spec => []FreshOrInvalid
<1>1. IInv => FreshOrInvalid
  BY DEF IInv, IdleInv, FreshOrInvalid, Fresh
<1> QED
  BY <1>1, Invariance, PTL

-----------------------------------------------------------------------------
(* The driver implements the service.                                      *)

(* An unused driver has nothing to read.                                   *)
LEMMA InitService == Init => Service!Init
BY DEF Init, Service!Init, Reading

(* A step after which a measurement can be read finishes it.               *)
LEMMA ReadingEnds ==
  ASSUME IInv', Reading = "measuring", pc' = "ready", state' = "IDLE",
         garbled' \in {garbled, TRUE}
  PROVE  Service!Next
<1>1. Reading' = temp' /\ temp' \in Service!Result
  BY DEF Reading, IInv, TypeOK, Cycle, Service!Result, Service!INVALID_TEMP, INVALID_TEMP
<1>2. temp' = "old" => garbled'
  BY DEF IInv, IdleInv, Fresh, INVALID_TEMP
<1>3. Service!Finish
  BY <1>1, <1>2 DEF Service!Finish
<1> QED
  BY <1>3 DEF Service!Next

(* Each step changes what can be read as SensorService allows, or not at   *)
(* all.                                                                    *)
LEMMA StepService == IInv /\ IInv' /\ [Next]_vars => [Service!Next]_<<Reading, garbled>>
<1> SUFFICES ASSUME IInv, IInv', [Next]_vars
             PROVE  [Service!Next]_<<Reading, garbled>>
  OBVIOUS
<1> USE DEF Reading
<1>1. CASE Interrupt
  <2>1. IsrEffect /\ garbled' \in {garbled, TRUE}
    <3>1. IsrEffect
      BY <1>1, InterruptEffect
    <3>2. garbled' = garbled \/ garbled' = TRUE
      BY <3>1, Zenon DEF IsrEffect, NoiseEffect, IInv, TypeOK
    <3> QED
      BY <3>1, <3>2
  <2>2. pc' = pc
    BY <2>1 DEF IsrEffect
  <2>3. CASE pc = "ready" /\ state = "IDLE"
    <3>1. garbled' = garbled
      BY <2>1, <2>3, Zenon DEF IsrEffect, NoiseEffect
    <3>2. state' = "IDLE" /\ (temp' = INVALID_TEMP \/ temp' = temp)
      BY <2>1, <2>3 DEF IsrEffect, GoesIdle, MovesOn, StaysPut, ReadStates
    <3>3. Reading = temp /\ Reading' = temp' /\ temp \in {"current", "old", INVALID_TEMP}
      BY <2>2, <2>3, <3>2 DEF IInv, TypeOK, Cycle
    <3>4. Service!Withdraw \/ Reading' = Reading
      BY <3>1, <3>2, <3>3
         DEF Service!Withdraw, Service!INVALID_TEMP, INVALID_TEMP
    <3> QED
      BY <3>1, <3>4 DEF Service!Next
  <2>4. CASE pc \in {"boot", "halted"}
    <3>1. garbled' = garbled
      BY <2>1, <2>4 DEF IsrEffect, NoiseEffect, IInv, IdleInv
    <3>2. Reading' = Reading
      BY <2>2, <2>4
    <3> QED
      BY <3>1, <3>2
  <2>5. CASE pc \notin {"boot", "halted"} /\ ~(pc = "ready" /\ state = "IDLE")
    <3>1. Reading = "measuring"
      BY <2>5
    <3>2. CASE pc = "ready" /\ state' = "IDLE"
      BY <2>1, <2>2, <3>1, <3>2, ReadingEnds
    <3>3. CASE ~(pc = "ready" /\ state' = "IDLE")
      <4>1. Reading' = "measuring"
        BY <2>2, <2>5, <3>3
      <4> QED
        BY <2>1, <3>1, <4>1 DEF Service!Next, Service!Garble
    <3> QED
      BY <3>2, <3>3
  <2> QED
    BY <2>3, <2>4, <2>5
<1>2. CASE Task
  <2>g. garbled' = garbled
    BY <1>2, Zenon
       DEF Task, initialize, taskUartInit, taskStoreState, taskReceive, taskTransmit,
           taskDmaStop, taskClear, taskIdle
  <2>1. CASE initialize
    BY <2>g, <2>1
       DEF initialize, IInv, IdleInv, Service!Next, Service!Boot, Service!INVALID_TEMP,
           INVALID_TEMP
  <2>2. CASE taskTransmit
    <3>1. Reading = "measuring" /\ pc' \in {"ready", "stop"}
      BY <2>2 DEF taskTransmit
    <3>2. CASE pc' = "ready" /\ state' = "IDLE"
      BY <2>g, <3>1, <3>2, ReadingEnds
    <3>3. CASE ~(pc' = "ready" /\ state' = "IDLE")
      BY <2>g, <3>1, <3>3
    <3> QED
      BY <3>2, <3>3
  <2>3. CASE taskIdle
    BY <2>g, <2>3, ReadingEnds DEF taskIdle
  <2>4. CASE taskUartInit \/ taskStoreState \/ taskReceive \/ taskDmaStop \/ taskClear
    BY <2>g, <2>4 DEF taskUartInit, taskStoreState, taskReceive, taskDmaStop, taskClear
  <2> QED
    BY <1>2, <2>1, <2>2, <2>3, <2>4 DEF Task
<1>3. CASE startMeasure
  <2>1. garbled' = FALSE /\ Reading' = "measuring" /\ Reading = temp
    BY <1>3 DEF startMeasure
  <2> QED
    BY <2>1
       DEF IInv, TypeOK, Cycle, Service!Next, Service!Start, Service!Result,
           Service!INVALID_TEMP, INVALID_TEMP
<1>4. CASE UNCHANGED vars
  BY <1>4 DEF vars
<1> QED
  BY <1>1, <1>2, <1>3, <1>4 DEF Next, Interrupt

(* Seen through isSensorReady and getTemperature, the driver behaves as    *)
(* SensorService says, whatever interrupts startMeasure between its steps. *)
THEOREM ImplementsService == Spec => ServiceSpec
<1>1. Spec => []IInv
  BY Invariance
<1> QED
  BY <1>1, InitService, StepService, PTL DEF Spec, ServiceSpec, Service!Spec

-----------------------------------------------------------------------------
(***************************************************************************)
(* Until it is disturbed, the driver leaves nothing behind.                *)
(*                                                                         *)
(* A transaction ends with its reception completed or stopped, so nothing  *)
(* is armed and nothing is marked as received when the driver goes idle or *)
(* waits for the timer.  Then no interrupt has anything to complete while  *)
(* startMeasure runs up to its reception, and what is armed there is its   *)
(* own.  A transmission may well outlive its transaction; txDone says      *)
(* nothing, and the invariant does not constrain it.                       *)
(***************************************************************************)
QuietStates == {"UNINITIALIZED", "IDLE", "WAIT_CONVERSION"}

(* The task is outside of startMeasure, or nothing is in flight but what   *)
(* it has armed itself.                                                    *)
TaskInv ==
  /\ pc # "ready" => hal.tx = "idle" /\ ~rxDone /\ timer = "off"
                     /\ state \in {"UNINITIALIZED", "IDLE", "RESET_FOR_CONVERT"}
  /\ pc \notin {"ready", "transmit", "stop"} => hal.rx = "off"
  /\ pc \in {"transmit", "stop"} => hal.rx \in {"off", "armed"}
  /\ pc = "ready" => hal.rx # "armed"
  /\ pc = "receive" => state = "RESET_FOR_CONVERT"

QuietInv ==
  /\ rxDone => hal.rx = "off"
  /\ state \in QuietStates => hal.rx = "off" /\ ~rxDone

LeftInv == TaskInv /\ QuietInv /\ OwnReception /\ NoOrphanTimer

UndisturbedInv == IInv /\ (~disturbed => LeftInv)

(* HAL_UART_Init disturbs no DMA stream.                                   *)
LEMMA UartInitStreams ==
  ASSUME NEW h \in Hal, NEW b \in UartInit(h)
  PROVE  b.ok \in BOOLEAN /\ b.hal \in Hal /\ b.hal.rx = h.rx /\ b.hal.tx = h.tx
<1> DEFINE ready == [h EXCEPT !.held = FALSE]
<1>1. ready.rx = h.rx /\ ready.tx = h.tx
  BY DEF Hal
<1>2. b = Outcome(TRUE, ready) \/ b = Outcome(FALSE, ready)
  BY Zenon DEF UartInit, OrFault
<1>3. b.hal = ready
  <2> HIDE DEF ready
  <2> QED
    BY <1>2, OutcomeFields
<1> QED
  BY <1>1, <1>3, UartInitType

(* With no reception armed before, the two DMA calls arm one or leave none. *)
LEMMA StartDmaReception ==
  ASSUME NEW h \in Hal, h.rx = "off", NEW r \in startDmaTransmitReceive(h)
  PROVE  r.hal.rx = IF r.ok THEN "fed" ELSE "off"
<1>1. PICK q \in ReceiveDma(h) :
        r \in IF ~q.ok
              THEN {q}
              ELSE {IF t.ok THEN t ELSE Outcome(FALSE, DmaStop(t.hal)) : t \in TransmitDma(q.hal)}
  BY DEF startDmaTransmitReceive
<1> DEFINE armed == [h EXCEPT !.rx = IF h.tx = "idle" THEN "armed" ELSE "fed"]
<1>2. q = Outcome(TRUE, armed) \/ q = Outcome(FALSE, h)
  BY Zenon DEF ReceiveDma, OrFault
<1>3. armed.rx # "off" /\ armed \in Hal
  BY DEF Hal
<1>4. CASE q = Outcome(FALSE, h)
  BY <1>1, <1>4, OutcomeFields
<1>5. CASE q = Outcome(TRUE, armed)
  <2>1. q.ok /\ q.hal = armed
    BY <1>5, OutcomeFields
  <2>2. PICK t \in TransmitDma(armed) :
          r = IF t.ok THEN t ELSE Outcome(FALSE, DmaStop(t.hal))
    BY <1>1, <2>1
  <2> DEFINE sent == [rx |-> IF armed.rx = "off" THEN "off" ELSE "fed",
                      tx |-> "sending", held |-> TRUE]
  <2>3. t = Outcome(TRUE, sent) \/ t = Outcome(FALSE, armed)
    BY Zenon DEF TransmitDma, OrFault
  <2>4. CASE t = Outcome(TRUE, sent)
    <3>1. t.ok /\ t.hal = sent
      BY <2>4, OutcomeFields
    <3>2. r.ok /\ r.hal = sent
      BY <2>2, <3>1
    <3> QED
      BY <1>3, <3>2
  <2>5. CASE t = Outcome(FALSE, armed)
    <3>1. t.ok = FALSE /\ t.hal = armed
      BY <2>5, OutcomeFields
    <3>2. r = Outcome(FALSE, DmaStop(armed))
      BY <2>2, <3>1
    <3>3. r.ok = FALSE /\ r.hal = DmaStop(armed)
      BY <3>2, OutcomeFields
    <3>4. DmaStop(armed).rx = "off"
      BY <1>3 DEF DmaStop, Hal
    <3> QED
      BY <3>3, <3>4
  <2> QED
    BY <2>3, <2>4, <2>5
<1> QED
  BY <1>2, <1>4, <1>5

(* What a handler leaves behind when the reception it handles is over: its *)
(* next transaction's reception, or none and an idle or waiting driver.    *)
CleanEffect ==
  /\ ~rxDone'
  /\ \/ hal'.rx = "fed" /\ rxFor' = state' /\ state' \notin QuietStates
     \/ hal'.rx = "off" /\ state' \in {"IDLE", "WAIT_CONVERSION"}
  /\ timer' # "off" => state' = "WAIT_CONVERSION"

(* A transaction started with no reception armed leaves the driver clean.  *)
LEMMA TransactClean ==
  ASSUME NEW s \in State \ QuietStates, NEW h \in Hal, h.rx = "off",
         Transact(s, h) \/ TransactAtBaud(s, h), timer' = "off"
  PROVE  CleanEffect
<1>1. ASSUME NEW g \in Hal, g.rx = "off", Transact(s, g) PROVE CleanEffect
  <2>1. PICK r \in startDmaTransmitReceive(g) :
          /\ hal' = r.hal
          /\ rxFor' = s
          /\ IF r.ok
             THEN state' = s /\ rxDone' = FALSE /\ txDone' = FALSE /\ UNCHANGED temp
             ELSE setErrorAndIdle
    BY <1>1 DEF Transact
  <2>2. hal'.rx = IF r.ok THEN "fed" ELSE "off"
    BY <1>1, <2>1, StartDmaReception
  <2> QED
    BY <2>1, <2>2 DEF CleanEffect, setErrorAndIdle
<1>2. CASE TransactAtBaud(s, h)
  <2>1. PICK b \in UartInit(h) :
          IF b.ok THEN Transact(s, b.hal)
                  ELSE setErrorAndIdle /\ hal' = b.hal /\ UNCHANGED rxFor
    BY <1>2 DEF TransactAtBaud
  <2>3. b.ok \in BOOLEAN /\ b.hal \in Hal /\ b.hal.rx = "off"
    BY UartInitStreams
  <2>4. CASE b.ok
    BY <1>1, <2>1, <2>3, <2>4
  <2>5. CASE ~b.ok
    BY <2>1, <2>3, <2>5 DEF CleanEffect, setErrorAndIdle
  <2> QED
    BY <2>3, <2>4, <2>5
<1> QED
  BY <1>1, <1>2

(* So does whatever handleTransactionComplete does in a running            *)
(* transaction.                                                            *)
LEMMA HandlerClean ==
  ASSUME state \in State \ QuietStates, timer = "off", NEW h \in Hal, h.rx = "off",
         handleTransactionComplete(h)
  PROVE  CleanEffect
<1> USE DEF State, ConvertStates, ReadStates, QuietStates
<1>1. ASSUME NEW s \in State \ QuietStates, timer' = timer,
             NoPresence(h) \/ TransactAtBaud(s, h) \/ Transact(s, h)
      PROVE  CleanEffect
  <2>1. CASE NoPresence(h)
    BY <1>1, <2>1 DEF NoPresence, setErrorAndIdle, CleanEffect
  <2> QED
    BY <1>1, <2>1, TransactClean
<1>2. CASE state = "RESET_FOR_CONVERT"
  BY <1>1, <1>2 DEF handleTransactionComplete
<1>3. CASE state = "SKIP_ROM_FOR_CONVERT"
  BY <1>1, <1>3 DEF handleTransactionComplete
<1>4. CASE state = "CONVERT_T"
  <2>1. startConversionTempTimer(h)
    BY <1>4 DEF handleTransactionComplete
  <2> QED
    BY <2>1 DEF startConversionTempTimer, setErrorAndIdle, CleanEffect
<1>5. CASE state = "RESET_FOR_READ"
  BY <1>1, <1>5 DEF handleTransactionComplete
<1>6. CASE state = "SKIP_ROM_FOR_READ"
  BY <1>1, <1>6 DEF handleTransactionComplete
<1>7. CASE state = "READ_SCRATCH_CMD"
  BY <1>1, <1>7 DEF handleTransactionComplete
<1>8. CASE state = "READ_SCRATCH_CPLT"
  <2>1. ReadScratchpad(h) /\ UNCHANGED timer
    BY <1>8 DEF handleTransactionComplete
  <2> QED
    BY <2>1 DEF ReadScratchpad, CleanEffect
<1> QED
  BY <1>2, <1>3, <1>4, <1>5, <1>6, <1>7, <1>8

(* A clean end of a handler, with the task outside of startMeasure, keeps  *)
(* the invariant.                                                          *)
LEMMA CleanKeeps ==
  ASSUME CleanEffect, pc = "ready", pc' = pc
  PROVE  LeftInv'
BY DEF CleanEffect, LeftInv, TaskInv, QuietInv, OwnReception, NoOrphanTimer, QuietStates

(* Each interrupt, undisturbed, keeps it.                                  *)
LEMMA InterruptClean ==
  ASSUME IInv, LeftInv, Interrupt, ~disturbed'
  PROVE  LeftInv'
<1> USE DEF IInv, TypeOK
<1>1. CASE handleUartRxDmaComplete
  <2> DEFINE h == [hal EXCEPT !.rx = "off"]
  <2>1. h \in Hal /\ h.rx = "off" /\ h.tx = hal.tx
    BY DEF Hal
  <2>2. hal.rx = "fed" /\ pc' = pc
    BY <1>1 DEF handleUartRxDmaComplete, Hal
  <2>3. pc = "ready" /\ state \in State \ QuietStates /\ timer = "off"
    BY <2>2 DEF LeftInv, TaskInv, QuietInv, NoOrphanTimer, QuietStates
  <2>4. CASE txDone
    <3>1. handleTransactionComplete(h)
      BY <1>1, <2>4, Zenon DEF handleUartRxDmaComplete
    <3> QED
      BY <2>1, <2>2, <2>3, <3>1, HandlerClean, CleanKeeps
  <2>5. CASE ~txDone
    <3>1. rxDone' = TRUE /\ hal' = h /\ UNCHANGED <<state, timer, rxFor>>
      BY <1>1, <2>5, Zenon DEF handleUartRxDmaComplete
    <3> QED
      BY <2>1, <2>2, <2>3, <3>1
         DEF LeftInv, TaskInv, QuietInv, OwnReception, NoOrphanTimer, QuietStates
  <2> QED
    BY <2>4, <2>5
<1>2. CASE TxStreamDone
  <2>1. pc = "ready"
    BY <1>2 DEF TxStreamDone, LeftInv, TaskInv
  <2>2. hal'.rx = hal.rx /\ UNCHANGED <<state, rxDone, pc, timer, rxFor>>
    BY <1>2 DEF TxStreamDone, Hal
  <2> QED
    BY <2>1, <2>2 DEF LeftInv, TaskInv, QuietInv, OwnReception, NoOrphanTimer
<1>3. CASE handleUartTxDmaComplete
  <2> DEFINE h == [hal EXCEPT !.tx = "idle", !.held = FALSE]
  <2>1. h \in Hal /\ h.rx = hal.rx /\ h.tx = "idle" /\ hal.tx = "draining" /\ pc' = pc
    BY <1>3 DEF Hal, handleUartTxDmaComplete
  <2>2. pc = "ready"
    BY <2>1 DEF LeftInv, TaskInv
  <2>3. CASE rxDone
    <3>1. handleTransactionComplete(h)
      BY <1>3, <2>3, Zenon DEF handleUartTxDmaComplete
    <3>2. state \in State \ QuietStates /\ timer = "off" /\ hal.rx = "off"
      BY <2>3 DEF LeftInv, QuietInv, NoOrphanTimer, QuietStates
    <3> QED
      BY <2>1, <2>2, <3>1, <3>2, HandlerClean, CleanKeeps
  <2>4. CASE ~rxDone
    <3>1. hal' = h /\ UNCHANGED <<state, rxDone, timer, rxFor>>
      BY <1>3, <2>4, Zenon DEF handleUartTxDmaComplete
    <3> QED
      BY <2>1, <2>2, <3>1 DEF LeftInv, TaskInv, QuietInv, OwnReception, NoOrphanTimer
  <2> QED
    BY <2>3, <2>4
<1>4. CASE handleUartError
  <2>1. hal.rx # "off" /\ hal'.rx = "off" /\ hal'.tx = hal.tx
    BY <1>4 DEF handleUartError, Hal
  <2>2. timer = "off" /\ pc # "receive"
    BY <2>1 DEF LeftInv, TaskInv, QuietInv, NoOrphanTimer, QuietStates
  <2> QED
    BY <1>4, <2>1, <2>2
       DEF handleUartError, setErrorAndIdle, LeftInv, TaskInv, QuietInv, OwnReception,
           NoOrphanTimer
<1>5. CASE handleConversionTimerElapsed
  <2>1. state = "WAIT_CONVERSION" /\ pc = "ready"
    BY <1>5 DEF handleConversionTimerElapsed, LeftInv, TaskInv, NoOrphanTimer
  <2>2. timer' = "off" /\ startReadScratchpadSequence(hal) /\ pc' = pc
    BY <1>5, <2>1, Zenon DEF handleConversionTimerElapsed
  <2>3. hal.rx = "off" /\ ~rxDone
    BY <2>1 DEF LeftInv, QuietInv, QuietStates
  <2>4. PICK b \in UartInit(hal) :
          IF ~b.ok
          THEN setErrorAndIdle /\ hal' = b.hal /\ UNCHANGED rxFor
          ELSE \E r \in startDmaTransmitReceive(b.hal) :
                 /\ hal' = r.hal
                 /\ rxFor' = "RESET_FOR_READ"
                 /\ IF r.ok
                    THEN state' = "RESET_FOR_READ" /\ UNCHANGED <<rxDone, txDone, temp>>
                    ELSE setErrorAndIdle
    BY <2>2 DEF startReadScratchpadSequence
  <2>6. b.ok \in BOOLEAN /\ b.hal \in Hal /\ b.hal.rx = "off"
    BY <2>3, UartInitStreams
  <2>7. CASE ~b.ok
    <3>1. CleanEffect
      BY <2>2, <2>4, <2>6, <2>7 DEF CleanEffect, setErrorAndIdle
    <3> QED
      BY <2>1, <2>2, <3>1, CleanKeeps
  <2>8. CASE b.ok
    <3>1. PICK r \in startDmaTransmitReceive(b.hal) :
            /\ hal' = r.hal
            /\ rxFor' = "RESET_FOR_READ"
            /\ IF r.ok
               THEN state' = "RESET_FOR_READ" /\ UNCHANGED <<rxDone, txDone, temp>>
               ELSE setErrorAndIdle
      BY <2>4, <2>8
    <3>2. hal'.rx = IF r.ok THEN "fed" ELSE "off"
      BY <2>6, <3>1, StartDmaReception
    <3>3. CleanEffect
      BY <2>2, <2>3, <3>1, <3>2 DEF CleanEffect, setErrorAndIdle, QuietStates
    <3> QED
      BY <2>1, <2>2, <3>3, CleanKeeps
  <2> QED
    BY <2>6, <2>7, <2>8
<1>6. CASE BusSettles
  BY <1>6 DEF BusSettles, LeftInv, TaskInv, QuietInv, OwnReception, NoOrphanTimer
<1> QED
  BY <1>1, <1>2, <1>3, <1>4, <1>5, <1>6 DEF Interrupt

(* So does each step of the task.                                          *)
LEMMA TaskClean ==
  ASSUME IInv, LeftInv, Task
  PROVE  LeftInv'
<1> USE DEF IInv, TypeOK, LeftInv, TaskInv, QuietInv, OwnReception, NoOrphanTimer, QuietStates
<1>1. CASE initialize
  BY <1>1 DEF initialize, IdleInv
<1>2. CASE taskUartInit
  <2>1. PICK b \in UartInit(hal) : hal' = b.hal /\ pc' = IF b.ok THEN "state" ELSE "clear"
    BY <1>2 DEF taskUartInit
  <2>3. hal'.rx = hal.rx /\ hal'.tx = hal.tx /\ pc' \in {"state", "clear"}
    BY <2>1, UartInitStreams
  <2> QED
    BY <1>2, <2>3 DEF taskUartInit
<1>3. CASE taskStoreState
  BY <1>3 DEF taskStoreState
<1>4. CASE taskReceive
  <2>1. PICK r \in ReceiveDma(hal) :
          /\ hal' = r.hal
          /\ pc' = IF r.ok THEN "transmit" ELSE "clear"
          /\ rxFor' = IF r.ok THEN "RESET_FOR_CONVERT" ELSE rxFor
    BY <1>4 DEF taskReceive
  <2>2. hal.rx = "off" /\ hal.tx = "idle"
    BY <1>4 DEF taskReceive
  <2> DEFINE armed == [hal EXCEPT !.rx = IF hal.tx = "idle" THEN "armed" ELSE "fed"]
  <2>3. r = Outcome(TRUE, armed) \/ r = Outcome(FALSE, hal)
    BY Zenon DEF ReceiveDma, OrFault
  <2>4. armed.rx = "armed" /\ armed.tx = "idle"
    BY <2>2 DEF Hal
  <2>5. CASE r = Outcome(TRUE, armed)
    <3>1. hal' = armed /\ pc' = "transmit" /\ rxFor' = "RESET_FOR_CONVERT"
      BY <2>1, <2>5, OutcomeFields
    <3> QED
      BY <1>4, <2>4, <3>1 DEF taskReceive
  <2>6. CASE r = Outcome(FALSE, hal)
    <3>1. hal' = hal /\ pc' = "clear" /\ rxFor' = rxFor
      BY <2>1, <2>6, OutcomeFields
    <3> QED
      BY <1>4, <3>1 DEF taskReceive
  <2> QED
    BY <2>3, <2>5, <2>6
<1>5. CASE taskTransmit
  <2>1. PICK t \in TransmitDma(hal) : hal' = t.hal /\ pc' = IF t.ok THEN "ready" ELSE "stop"
    BY <1>5 DEF taskTransmit
  <2> DEFINE sent == [rx |-> IF hal.rx = "off" THEN "off" ELSE "fed",
                      tx |-> "sending", held |-> TRUE]
  <2>2. t = Outcome(TRUE, sent) \/ t = Outcome(FALSE, hal)
    BY Zenon DEF TransmitDma, OrFault
  <2>3. CASE t = Outcome(TRUE, sent)
    <3>1. hal' = sent /\ pc' = "ready"
      BY <2>1, <2>3, OutcomeFields
    <3> QED
      BY <1>5, <3>1 DEF taskTransmit
  <2>4. CASE t = Outcome(FALSE, hal)
    <3>1. hal' = hal /\ pc' = "stop"
      BY <2>1, <2>4, OutcomeFields
    <3> QED
      BY <1>5, <3>1 DEF taskTransmit
  <2> QED
    BY <2>2, <2>3, <2>4
<1>6. CASE taskDmaStop
  <2>1. hal'.rx = "off" /\ hal'.tx = "idle"
    BY <1>6 DEF taskDmaStop, DmaStop, Hal
  <2> QED
    BY <1>6, <2>1 DEF taskDmaStop
<1>7. CASE taskClear
  BY <1>7 DEF taskClear
<1>8. CASE taskIdle
  BY <1>8 DEF taskIdle
<1> QED
  BY <1>1, <1>2, <1>3, <1>4, <1>5, <1>6, <1>7, <1>8 DEF Task

(* The whole invariant is inductive: once disturbed, always disturbed, and *)
(* a measurement that starts undisturbed starts with nothing in flight.    *)
LEMMA UndisturbedNext == UndisturbedInv /\ [Next]_vars => UndisturbedInv'
<1> SUFFICES ASSUME UndisturbedInv, [Next]_vars, ~disturbed' PROVE LeftInv'
  BY NextKeepsIInv DEF UndisturbedInv
<1> USE DEF UndisturbedInv
<1>1. CASE Task
  <2>1. ~disturbed
    BY <1>1 DEF Task, initialize, taskUartInit, taskStoreState, taskReceive, taskTransmit,
                taskDmaStop, taskClear, taskIdle
  <2> QED
    BY <1>1, <2>1, TaskClean
<1>2. CASE startMeasure
  <2>1. ~disturbed /\ hal.tx = "idle" /\ LeftInv
    BY <1>2 DEF startMeasure
  <2>2. timer = "off" /\ timer' = "off"
    BY <1>2, <2>1 DEF startMeasure, LeftInv, NoOrphanTimer, Aged
  <2>3. UNCHANGED <<state, rxDone, hal, rxFor>> /\ pc' = "init" /\ state = "IDLE"
    BY <1>2 DEF startMeasure
  <2> QED
    BY <2>1, <2>2, <2>3
       DEF LeftInv, TaskInv, QuietInv, OwnReception, NoOrphanTimer, QuietStates
<1>3. CASE Interrupt
  <2>1. ~disturbed
    BY <1>3 DEF Interrupt, handleUartRxDmaComplete, TxStreamDone, handleUartTxDmaComplete,
                handleUartError, handleConversionTimerElapsed, BusSettles
  <2> QED
    BY <1>3, <2>1, InterruptClean
<1>4. CASE UNCHANGED vars
  BY <1>4 DEF vars, LeftInv, TaskInv, QuietInv, OwnReception, NoOrphanTimer
<1> QED
  BY <1>1, <1>2, <1>3, <1>4 DEF Next, Interrupt

(* Whatever HAL calls fail and whatever line errors and missing answers    *)
(* come, in whichever order the completions do: until noise completes a    *)
(* reception before anything was sent, or a measurement starts over an     *)
(* abandoned transmission, what is decoded was received for its state, the *)
(* UART is not re-initialised under a reception, and TIM7 runs only while  *)
(* the driver waits for it.                                                *)
THEOREM LeavesNothingBehind == Spec => []NothingLeftBehind
<1>1. Init => UndisturbedInv
  <2>1. Init => LeftInv
    BY DEF Init, LeftInv, TaskInv, QuietInv, OwnReception, NoOrphanTimer, QuietStates
  <2> QED
    BY <2>1, InitIInv DEF UndisturbedInv
<1>2. UndisturbedInv => NothingLeftBehind
  <2> SUFFICES ASSUME UndisturbedInv, ~disturbed PROVE QuietReinit
    BY DEF UndisturbedInv, LeftInv, NothingLeftBehind
  <2> QED
    BY DEF UndisturbedInv, LeftInv, TaskInv, QuietInv, QuietReinit, QuietStates
<1> QED
  BY <1>1, <1>2, UndisturbedNext, PTL DEF Spec
-----------------------------------------------------------------------------
(***************************************************************************)
(* The driver never waits for nothing.                                     *)
(*                                                                         *)
(* A handler that finds the other flag set acts on both and clears them,   *)
(* so they are never both set; and a state that waits for a transaction is *)
(* left without a reception, or without a transmission, only by the        *)
(* handler that sets its flag.  The task is the exception: it stores the   *)
(* state before it has armed anything, so the two facts about the streams  *)
(* begin where it has made its calls.                                      *)
(***************************************************************************)
Transacting == ConvertStates \cup ReadStates

PendingInv ==
  /\ ~(rxDone /\ txDone)
  /\ hal.rx = "armed" => pc \in {"transmit", "stop"}
  /\ pc \in {"ready", "transmit"} /\ state \in Transacting => hal.rx # "off" \/ rxDone
  /\ pc = "ready" /\ state \in Transacting => hal.tx # "idle" \/ txDone

AnswerUnderWay ==
  pc = "ready" /\ state \notin {"UNINITIALIZED", "IDLE"} =>
    \/ state = "WAIT_CONVERSION" /\ timer # "off"
    \/ hal.rx = "fed" /\ (hal.tx # "idle" \/ txDone)
    \/ hal.rx = "off" /\ rxDone /\ hal.tx # "idle"

(* The two DMA calls start both streams, or arm no reception.              *)
LEMMA StartDmaBoth ==
  ASSUME NEW h \in Hal, NEW r \in startDmaTransmitReceive(h)
  PROVE  /\ r.ok => r.hal.rx = "fed" /\ r.hal.tx = "sending"
         /\ r.hal.rx = "armed" => h.rx = "armed"
<1>1. CASE h.rx # "off"
  <2>1. ReceiveDma(h) = {Outcome(FALSE, h)}
    BY <1>1 DEF ReceiveDma
  <2>2. PICK q \in ReceiveDma(h) :
          r \in IF ~q.ok
                THEN {q}
                ELSE {IF t.ok THEN t ELSE Outcome(FALSE, DmaStop(t.hal)) : t \in TransmitDma(q.hal)}
    BY DEF startDmaTransmitReceive
  <2>3. q.ok = FALSE /\ q.hal = h
    BY <2>1, <2>2, OutcomeFields
  <2> QED
    BY <2>2, <2>3
<1>2. CASE h.rx = "off"
  <2>1. r.hal.rx = IF r.ok THEN "fed" ELSE "off"
    BY <1>2, StartDmaReception
  <2>2. ASSUME r.ok PROVE r.hal.tx = "sending"
    <3>1. PICK q \in ReceiveDma(h) :
            r \in IF ~q.ok
                  THEN {q}
                  ELSE {IF t.ok THEN t ELSE Outcome(FALSE, DmaStop(t.hal)) : t \in TransmitDma(q.hal)}
      BY DEF startDmaTransmitReceive
    <3>2. q.ok
      BY <2>2, <3>1
    <3>3. PICK t \in TransmitDma(q.hal) : r = IF t.ok THEN t ELSE Outcome(FALSE, DmaStop(t.hal))
      BY <3>1, <3>2
    <3>4. t.ok /\ r = t
      BY <2>2, <3>3, OutcomeFields
    <3> DEFINE sent == [rx |-> IF q.hal.rx = "off" THEN "off" ELSE "fed",
                        tx |-> "sending", held |-> TRUE]
    <3>5. t = Outcome(TRUE, sent) \/ t = Outcome(FALSE, q.hal)
      BY <3>3, Zenon DEF TransmitDma, OrFault
    <3>6. sent.tx = "sending"
      OBVIOUS
    <3> HIDE DEF sent
    <3> QED
      BY <3>4, <3>5, <3>6, OutcomeFields
  <2> QED
    BY <1>2, <2>1, <2>2
<1> QED
  BY <1>1, <1>2

(* What a handler that acts on both flags leaves: no flag, and what the    *)
(* next state waits for.                                                   *)
PendingEffect(h) ==
  /\ ~rxDone' /\ ~txDone'
  /\ hal'.rx = "armed" => h.rx = "armed"
  /\ state' \in Transacting => hal'.rx = "fed" /\ hal'.tx = "sending"

LEMMA TransactPending ==
  ASSUME NEW s, NEW h \in Hal, NoPresence(h) \/ Transact(s, h) \/ TransactAtBaud(s, h)
  PROVE  PendingEffect(h)
<1> USE DEF Transacting, ConvertStates, ReadStates
<1>1. ASSUME NEW g \in Hal, g.rx = h.rx, Transact(s, g) PROVE PendingEffect(h)
  <2>1. PICK r \in startDmaTransmitReceive(g) :
          /\ hal' = r.hal
          /\ rxFor' = s
          /\ IF r.ok
             THEN state' = s /\ rxDone' = FALSE /\ txDone' = FALSE /\ UNCHANGED temp
             ELSE setErrorAndIdle
    BY <1>1 DEF Transact
  <2>2. /\ r.ok => r.hal.rx = "fed" /\ r.hal.tx = "sending"
        /\ r.hal.rx = "armed" => g.rx = "armed"
    BY <2>1, StartDmaBoth
  <2> QED
    BY <1>1, <2>1, <2>2 DEF PendingEffect, setErrorAndIdle
<1>2. CASE TransactAtBaud(s, h)
  <2>1. PICK b \in UartInit(h) :
          IF b.ok THEN Transact(s, b.hal)
                  ELSE setErrorAndIdle /\ hal' = b.hal /\ UNCHANGED rxFor
    BY <1>2 DEF TransactAtBaud
  <2>2. b.ok \in BOOLEAN /\ b.hal \in Hal /\ b.hal.rx = h.rx
    BY UartInitStreams
  <2> QED
    BY <1>1, <2>1, <2>2 DEF PendingEffect, setErrorAndIdle
<1>3. CASE NoPresence(h)
  BY <1>3 DEF NoPresence, setErrorAndIdle, PendingEffect
<1> QED
  BY <1>1, <1>2, <1>3

LEMMA HandlerPending ==
  ASSUME NEW h \in Hal, handleTransactionComplete(h)
  PROVE  PendingEffect(h)
<1>1. \/ \E s \in State : NoPresence(h) \/ Transact(s, h) \/ TransactAtBaud(s, h)
      \/ startConversionTempTimer(h) \/ ReadScratchpad(h)
      \/ setErrorAndIdle /\ hal' = h
  BY DEF handleTransactionComplete, State, ConvertStates, ReadStates
<1>2. CASE startConversionTempTimer(h)
  BY <1>2 DEF startConversionTempTimer, setErrorAndIdle, PendingEffect, Transacting, ConvertStates,
              ReadStates
<1>3. CASE ReadScratchpad(h)
  BY <1>3 DEF ReadScratchpad, PendingEffect, Transacting, ConvertStates, ReadStates
<1>4. CASE setErrorAndIdle /\ hal' = h
  BY <1>4 DEF setErrorAndIdle, PendingEffect, Transacting, ConvertStates, ReadStates
<1> QED
  BY <1>1, <1>2, <1>3, <1>4, TransactPending

LEMMA PendingKeeps ==
  ASSUME PendingInv, pc' = pc, NEW h, h.rx \in {hal.rx, "off"}, PendingEffect(h)
  PROVE  PendingInv'
BY DEF PendingInv, PendingEffect

(* Each interrupt keeps it,                                                *)
LEMMA InterruptPending ==
  ASSUME IInv, PendingInv, Interrupt
  PROVE  PendingInv'
<1> USE DEF IInv, TypeOK
<1>1. CASE handleUartRxDmaComplete
  <2> DEFINE h == [hal EXCEPT !.rx = "off"]
  <2>1. h \in Hal /\ h.rx = "off" /\ h.tx = hal.tx /\ pc' = pc
    BY <1>1 DEF Hal, handleUartRxDmaComplete
  <2>2. CASE txDone
    <3>1. handleTransactionComplete(h)
      BY <1>1, <2>2, Zenon DEF handleUartRxDmaComplete
    <3>2. PendingEffect(h)
      BY <2>1, <3>1, HandlerPending
    <3> HIDE DEF h
    <3> QED
      BY <2>1, <3>2, PendingKeeps
  <2>3. CASE ~txDone
    <3>1. rxDone' = TRUE /\ hal' = h /\ UNCHANGED <<state, txDone>>
      BY <1>1, <2>3, Zenon DEF handleUartRxDmaComplete
    <3> QED
      BY <2>1, <2>3, <3>1 DEF PendingInv
  <2> QED
    BY <2>2, <2>3
<1>2. CASE TxStreamDone
  <2>1. hal'.rx = hal.rx /\ hal'.tx = "draining" /\ UNCHANGED <<state, rxDone, txDone, pc>>
    BY <1>2 DEF TxStreamDone, Hal
  <2> QED
    BY <2>1 DEF PendingInv
<1>3. CASE handleUartTxDmaComplete
  <2> DEFINE h == [hal EXCEPT !.tx = "idle", !.held = FALSE]
  <2>1. h \in Hal /\ h.rx = hal.rx /\ pc' = pc
    BY <1>3 DEF Hal, handleUartTxDmaComplete
  <2>2. CASE rxDone
    <3>1. handleTransactionComplete(h)
      BY <1>3, <2>2, Zenon DEF handleUartTxDmaComplete
    <3>2. PendingEffect(h)
      BY <2>1, <3>1, HandlerPending
    <3> HIDE DEF h
    <3> QED
      BY <2>1, <3>2, PendingKeeps
  <2>3. CASE ~rxDone
    <3>1. txDone' = TRUE /\ hal' = h /\ UNCHANGED <<state, rxDone>>
      BY <1>3, <2>3, Zenon DEF handleUartTxDmaComplete
    <3> QED
      BY <2>1, <2>3, <3>1 DEF PendingInv
  <2> QED
    BY <2>2, <2>3
<1>4. CASE handleUartError
  <2>1. hal'.rx = "off" /\ state' = "IDLE" /\ ~rxDone' /\ ~txDone' /\ pc' = pc
    BY <1>4 DEF handleUartError, setErrorAndIdle, Hal
  <2> QED
    BY <2>1 DEF PendingInv, Transacting, ConvertStates, ReadStates
<1>5. CASE handleConversionTimerElapsed
  <2>1. pc' = pc
    BY <1>5 DEF handleConversionTimerElapsed
  <2>2. CASE state # "WAIT_CONVERSION"
    BY <1>5, <2>1, <2>2 DEF handleConversionTimerElapsed, PendingInv
  <2>3. CASE state = "WAIT_CONVERSION"
    <3>1. startReadScratchpadSequence(hal)
      BY <1>5, <2>3, Zenon DEF handleConversionTimerElapsed
    <3>2. PICK b \in UartInit(hal) :
            IF ~b.ok
            THEN setErrorAndIdle /\ hal' = b.hal /\ UNCHANGED rxFor
            ELSE \E r \in startDmaTransmitReceive(b.hal) :
                   /\ hal' = r.hal
                   /\ rxFor' = "RESET_FOR_READ"
                   /\ IF r.ok
                      THEN state' = "RESET_FOR_READ" /\ UNCHANGED <<rxDone, txDone, temp>>
                      ELSE setErrorAndIdle
      BY <3>1 DEF startReadScratchpadSequence
    <3>3. b.ok \in BOOLEAN /\ b.hal \in Hal /\ b.hal.rx = hal.rx
      BY UartInitStreams
    <3>4. CASE ~b.ok
      BY <2>1, <3>2, <3>3, <3>4
         DEF setErrorAndIdle, PendingInv, Transacting, ConvertStates, ReadStates
    <3>5. CASE b.ok
      <4>1. PICK r \in startDmaTransmitReceive(b.hal) :
              /\ hal' = r.hal
              /\ rxFor' = "RESET_FOR_READ"
              /\ IF r.ok
                 THEN state' = "RESET_FOR_READ" /\ UNCHANGED <<rxDone, txDone, temp>>
                 ELSE setErrorAndIdle
        BY <3>2, <3>5
      <4>2. /\ r.ok => hal'.rx = "fed" /\ hal'.tx = "sending"
            /\ hal'.rx = "armed" => hal.rx = "armed"
        BY <3>3, <4>1, StartDmaBoth
      <4> QED
        BY <2>1, <4>1, <4>2
           DEF setErrorAndIdle, PendingInv, Transacting, ConvertStates, ReadStates
    <3> QED
      BY <3>3, <3>4, <3>5
  <2> QED
    BY <2>2, <2>3
<1>6. CASE BusSettles
  BY <1>6 DEF BusSettles, PendingInv
<1> QED
  BY <1>1, <1>2, <1>3, <1>4, <1>5, <1>6 DEF Interrupt

(* and each step of the task.                                              *)
LEMMA TaskPending ==
  ASSUME IInv, PendingInv, Task \/ startMeasure
  PROVE  PendingInv'
<1> USE DEF IInv, TypeOK, PendingInv, Transacting, ConvertStates, ReadStates
<1>1. CASE initialize
  BY <1>1 DEF initialize
<1>2. CASE startMeasure
  BY <1>2 DEF startMeasure
<1>3. CASE taskUartInit
  <2>1. PICK b \in UartInit(hal) : hal' = b.hal /\ pc' = IF b.ok THEN "state" ELSE "clear"
    BY <1>3 DEF taskUartInit
  <2>2. hal'.rx = hal.rx /\ hal'.tx = hal.tx /\ pc' \in {"state", "clear"}
    BY <2>1, UartInitStreams
  <2> QED
    BY <1>3, <2>2 DEF taskUartInit
<1>4. CASE taskStoreState
  BY <1>4 DEF taskStoreState
<1>5. CASE taskReceive
  <2>1. PICK r \in ReceiveDma(hal) : hal' = r.hal /\ pc' = IF r.ok THEN "transmit" ELSE "clear"
    BY <1>5 DEF taskReceive
  <2> DEFINE armed == [hal EXCEPT !.rx = IF hal.tx = "idle" THEN "armed" ELSE "fed"]
  <2>2. r = Outcome(TRUE, armed) \/ r = Outcome(FALSE, hal)
    BY Zenon DEF ReceiveDma, OrFault
  <2>3. armed.rx # "off"
    BY DEF Hal
  <2>4. \/ pc' = "transmit" /\ hal'.rx # "off"
        \/ pc' = "clear" /\ hal' = hal
    <3> HIDE DEF armed
    <3> QED
      BY ZenonT(60), <2>1, <2>2, <2>3, OutcomeFields
  <2> QED
    BY <1>5, <2>4 DEF taskReceive
<1>6. CASE taskTransmit
  <2>1. PICK t \in TransmitDma(hal) : hal' = t.hal /\ pc' = IF t.ok THEN "ready" ELSE "stop"
    BY <1>6 DEF taskTransmit
  <2> DEFINE sent == [rx |-> IF hal.rx = "off" THEN "off" ELSE "fed",
                      tx |-> "sending", held |-> TRUE]
  <2>2. t = Outcome(TRUE, sent) \/ t = Outcome(FALSE, hal)
    BY Zenon DEF TransmitDma, OrFault
  <2>3. CASE t = Outcome(TRUE, sent)
    <3>1. hal' = sent /\ pc' = "ready"
      BY <2>1, <2>3, OutcomeFields
    <3> QED
      BY <1>6, <3>1 DEF taskTransmit
  <2>4. CASE t = Outcome(FALSE, hal)
    <3>1. hal' = hal /\ pc' = "stop"
      BY <2>1, <2>4, OutcomeFields
    <3> QED
      BY <1>6, <3>1 DEF taskTransmit
  <2> QED
    BY <2>2, <2>3, <2>4
<1>7. CASE taskDmaStop
  <2>1. hal'.rx = "off"
    BY <1>7 DEF taskDmaStop, DmaStop, Hal
  <2> QED
    BY <1>7, <2>1 DEF taskDmaStop
<1>8. CASE taskClear
  BY <1>8 DEF taskClear
<1>9. CASE taskIdle
  BY <1>9 DEF taskIdle
<1> QED
  BY <1>1, <1>2, <1>3, <1>4, <1>5, <1>6, <1>7, <1>8, <1>9 DEF Task

LEMMA NextPending == IInv /\ PendingInv /\ [Next]_vars => PendingInv'
<1>1. IInv /\ PendingInv /\ UNCHANGED vars => PendingInv'
  BY DEF vars, PendingInv
<1> QED
  BY <1>1, InterruptPending, TaskPending DEF Next, Interrupt

(* A driver that is in a measurement with its task back in its cycle waits *)
(* for something that is under way: a running timer, or a stream whose     *)
(* completion finds the other flag set, or the other stream still going.   *)
(* No error, refused call, stale flag or order of completions leaves it    *)
(* waiting for nothing; this is the safety half of MeasurementEnds, with   *)
(* no assumption on the line or the HAL (the driver has no timeout).       *)
THEOREM NeverWaitsInVain == Spec => []AnswerUnderWay
<1>1. Init => PendingInv
  BY DEF Init, PendingInv, Transacting, ConvertStates, ReadStates
<1>2. IInv /\ PendingInv => AnswerUnderWay
  BY DEF IInv, TypeOK, State, Hal, TimerInv, PendingInv, AnswerUnderWay, Transacting
<1> QED
  BY <1>1, <1>2, Invariance, NextPending, PTL DEF Spec
-----------------------------------------------------------------------------
(***************************************************************************)
(* Nor can it be kept busy for ever: what is left of a measurement is what *)
(* startMeasure has still to call, then the states still to come, then the *)
(* streams in flight, in this order of weight.                             *)
(***************************************************************************)
CallsLeft(p) ==
  CASE p = "init" -> 7
    [] p = "state" -> 6
    [] p = "receive" -> 5
    [] p = "transmit" -> 4
    [] p = "stop" -> 3
    [] p = "clear" -> 2
    [] p \in {"idle", "boot"} -> 1
    [] OTHER -> 0

StatesLeft(s) ==
  CASE s = "RESET_FOR_CONVERT" -> 8
    [] s = "SKIP_ROM_FOR_CONVERT" -> 7
    [] s = "CONVERT_T" -> 6
    [] s = "WAIT_CONVERSION" -> 5
    [] s = "RESET_FOR_READ" -> 4
    [] s = "SKIP_ROM_FOR_READ" -> 3
    [] s = "READ_SCRATCH_CMD" -> 2
    [] s = "READ_SCRATCH_CPLT" -> 1
    [] OTHER -> 0

InFlight(h) ==
  (IF h.rx = "off" THEN 0 ELSE 1)
  + (IF h.tx = "sending" THEN 2 ELSE IF h.tx = "draining" THEN 1 ELSE 0)

Disturbances == IF calm THEN 0 ELSE 1

StepsLeft == 40 * CallsLeft(pc) + 4 * StatesLeft(state) + InFlight(hal) + Disturbances

MeasurementIsShort == StepsLeft \in 0 .. 316

MeasurementShrinks == [][startMeasure \/ StepsLeft' < StepsLeft]_vars

LEMMA CallsLeftOf ==
  ASSUME NEW p
  PROVE  /\ CallsLeft(p) \in 0 .. 7
         /\ p = "init" => CallsLeft(p) = 7
         /\ p = "state" => CallsLeft(p) = 6
         /\ p = "receive" => CallsLeft(p) = 5
         /\ p = "transmit" => CallsLeft(p) = 4
         /\ p = "stop" => CallsLeft(p) = 3
         /\ p = "clear" => CallsLeft(p) = 2
         /\ p \in {"idle", "boot"} => CallsLeft(p) = 1
         /\ p \in {"ready", "halted"} => CallsLeft(p) = 0
BY DEF CallsLeft

LEMMA StatesLeftOf ==
  ASSUME NEW s
  PROVE  /\ StatesLeft(s) \in 0 .. 8
         /\ s = "RESET_FOR_CONVERT" => StatesLeft(s) = 8
         /\ s = "SKIP_ROM_FOR_CONVERT" => StatesLeft(s) = 7
         /\ s = "CONVERT_T" => StatesLeft(s) = 6
         /\ s = "WAIT_CONVERSION" => StatesLeft(s) = 5
         /\ s = "RESET_FOR_READ" => StatesLeft(s) = 4
         /\ s = "SKIP_ROM_FOR_READ" => StatesLeft(s) = 3
         /\ s = "READ_SCRATCH_CMD" => StatesLeft(s) = 2
         /\ s = "READ_SCRATCH_CPLT" => StatesLeft(s) = 1
         /\ s \in {"UNINITIALIZED", "IDLE"} => StatesLeft(s) = 0
BY DEF StatesLeft

LEMMA FlightOf ==
  ASSUME NEW h \in Hal
  PROVE  /\ InFlight(h) \in 0 .. 3
         /\ h.rx # "off" => InFlight([h EXCEPT !.rx = "off"]) = InFlight(h) - 1
         /\ h.tx = "sending" => InFlight([h EXCEPT !.tx = "draining"]) = InFlight(h) - 1
         /\ h.tx = "draining" => InFlight([h EXCEPT !.tx = "idle", !.held = FALSE]) = InFlight(h) - 1
<1>1. InFlight(h) \in 0 .. 3
  BY DEF InFlight, Hal
<1>2. ASSUME h.rx # "off" PROVE InFlight([h EXCEPT !.rx = "off"]) = InFlight(h) - 1
  BY <1>2 DEF InFlight, Hal
<1>3. ASSUME h.tx = "sending" PROVE InFlight([h EXCEPT !.tx = "draining"]) = InFlight(h) - 1
  BY <1>3 DEF InFlight, Hal
<1>4. ASSUME h.tx = "draining"
      PROVE  InFlight([h EXCEPT !.tx = "idle", !.held = FALSE]) = InFlight(h) - 1
  BY <1>4 DEF InFlight, Hal
<1> QED
  BY <1>1, <1>2, <1>3, <1>4

(* A handler that acts on both flags moves on to a later state or to IDLE. *)
LEMMA HandlerDescends ==
  ASSUME IInv, NEW h \in Hal, handleTransactionComplete(h)
  PROVE  \/ StatesLeft(state') < StatesLeft(state)
         \/ state \in {"UNINITIALIZED", "IDLE"} /\ state' = "IDLE" /\ hal' = h
<1>1. ASSUME NEW s \in State, NoPresence(h) \/ Transact(s, h) \/ TransactAtBaud(s, h)
      PROVE  state' \in {s, "IDLE"}
  <2>1. CASE NoPresence(h)
    BY <2>1 DEF NoPresence, setErrorAndIdle
  <2> QED
    BY <1>1, <2>1, TransactEffect, TransactAtBaudEffect DEF IInv, TypeOK
<1>2. "SKIP_ROM_FOR_CONVERT" \in State /\ "CONVERT_T" \in State /\ "SKIP_ROM_FOR_READ" \in State
      /\ "READ_SCRATCH_CMD" \in State /\ "READ_SCRATCH_CPLT" \in State
  BY DEF State, ConvertStates, ReadStates
<1>3. \/ state = "RESET_FOR_CONVERT" /\ state' \in {"SKIP_ROM_FOR_CONVERT", "IDLE"}
      \/ state = "SKIP_ROM_FOR_CONVERT" /\ state' \in {"CONVERT_T", "IDLE"}
      \/ state = "CONVERT_T" /\ state' \in {"WAIT_CONVERSION", "IDLE"}
      \/ state = "RESET_FOR_READ" /\ state' \in {"SKIP_ROM_FOR_READ", "IDLE"}
      \/ state = "SKIP_ROM_FOR_READ" /\ state' \in {"READ_SCRATCH_CMD", "IDLE"}
      \/ state = "READ_SCRATCH_CMD" /\ state' \in {"READ_SCRATCH_CPLT", "IDLE"}
      \/ state \in {"READ_SCRATCH_CPLT", "WAIT_CONVERSION"} /\ state' = "IDLE"
      \/ state \in {"UNINITIALIZED", "IDLE"} /\ state' = "IDLE" /\ hal' = h
  BY <1>1, <1>2
     DEF handleTransactionComplete, startConversionTempTimer, ReadScratchpad, setErrorAndIdle
<1>4. StatesLeft("IDLE") = 0 /\ StatesLeft("SKIP_ROM_FOR_CONVERT") = 7 /\ StatesLeft("CONVERT_T") = 6
      /\ StatesLeft("WAIT_CONVERSION") = 5 /\ StatesLeft("SKIP_ROM_FOR_READ") = 3
      /\ StatesLeft("READ_SCRATCH_CMD") = 2 /\ StatesLeft("READ_SCRATCH_CPLT") = 1
      /\ StatesLeft("RESET_FOR_CONVERT") = 8 /\ StatesLeft("RESET_FOR_READ") = 4
  BY StatesLeftOf
<1> QED
  BY <1>3, <1>4

LEMMA LeftRanges ==
  /\ IInv => /\ CallsLeft(pc) \in 0 .. 7 /\ StatesLeft(state) \in 0 .. 8
             /\ InFlight(hal) \in 0 .. 3 /\ Disturbances \in 0 .. 1
  /\ IInv' => /\ CallsLeft(pc') \in 0 .. 7 /\ StatesLeft(state') \in 0 .. 8
              /\ InFlight(hal') \in 0 .. 3 /\ Disturbances' \in 0 .. 1
<1>1. \A h \in Hal : InFlight(h) \in 0 .. 3
  BY FlightOf
<1>2. (IInv => hal \in Hal) /\ (IInv' => hal' \in Hal)
  BY DEF IInv, TypeOK
<1>3. Disturbances \in 0 .. 1 /\ Disturbances' \in 0 .. 1
  BY DEF Disturbances
<1>4. /\ CallsLeft(pc) \in 0 .. 7 /\ CallsLeft(pc') \in 0 .. 7
      /\ StatesLeft(state) \in 0 .. 8 /\ StatesLeft(state') \in 0 .. 8
  BY CallsLeftOf, StatesLeftOf
<1> QED
  BY <1>1, <1>2, <1>3, <1>4

(* The weights: a call outweighs all states, and a state all streams.      *)
LEMMA Weights ==
  ASSUME NEW a \in 0 .. 7, NEW b \in 0 .. 8, NEW c \in 0 .. 3, NEW d \in 0 .. 1,
         NEW e \in 0 .. 7, NEW f \in 0 .. 8, NEW g \in 0 .. 3, NEW i \in 0 .. 1
  PROVE  /\ e < a => 40 * e + 4 * f + g + i < 40 * a + 4 * b + c + d
         /\ e = a /\ f < b /\ i = d => 40 * e + 4 * f + g + i < 40 * a + 4 * b + c + d
         /\ e = a /\ f <= b /\ g < c /\ i = d => 40 * e + 4 * f + g + i < 40 * a + 4 * b + c + d
         /\ e = a /\ f = b /\ g = c /\ i < d => 40 * e + 4 * f + g + i < 40 * a + 4 * b + c + d
OBVIOUS

LEMMA MeasurementBound == IInv => MeasurementIsShort
<1>1. ASSUME NEW a \in 0 .. 7, NEW b \in 0 .. 8, NEW c \in 0 .. 3, NEW d \in 0 .. 1
      PROVE  40 * a + 4 * b + c + d \in 0 .. 316
  OBVIOUS
<1> SUFFICES ASSUME IInv PROVE MeasurementIsShort
  OBVIOUS
<1>2. /\ CallsLeft(pc) \in 0 .. 7 /\ StatesLeft(state) \in 0 .. 8
      /\ InFlight(hal) \in 0 .. 3 /\ Disturbances \in 0 .. 1
  BY LeftRanges
<1> QED
  BY <1>1, <1>2 DEF MeasurementIsShort, StepsLeft

(* A step of the task leaves a call less to make, whatever interrupts have *)
(* done to the rest.                                                       *)
LEMMA CallDescends ==
  ASSUME IInv, IInv', CallsLeft(pc') < CallsLeft(pc)
  PROVE  StepsLeft' < StepsLeft
<1>1. StepsLeft' = 40 * CallsLeft(pc') + 4 * StatesLeft(state') + InFlight(hal') + Disturbances'
  BY DEF StepsLeft
<1>2. StepsLeft = 40 * CallsLeft(pc) + 4 * StatesLeft(state) + InFlight(hal) + Disturbances
  BY DEF StepsLeft
<1>3. 40 * CallsLeft(pc') + 4 * StatesLeft(state') + InFlight(hal') + Disturbances'
        < 40 * CallsLeft(pc) + 4 * StatesLeft(state) + InFlight(hal) + Disturbances
  BY LeftRanges, Weights
<1> QED
  BY <1>1, <1>2, <1>3, Zenon

(* An interrupt changes what is left below that.                           *)
LEMMA InterruptDescendsIf ==
  ASSUME IInv, IInv', pc' = pc,
         \/ StatesLeft(state') < StatesLeft(state) /\ calm' = calm
         \/ StatesLeft(state') <= StatesLeft(state) /\ InFlight(hal') < InFlight(hal) /\ calm' = calm
         \/ UNCHANGED <<state, hal>> /\ ~calm /\ calm'
  PROVE  StepsLeft' < StepsLeft
<1>1. StepsLeft' = 40 * CallsLeft(pc') + 4 * StatesLeft(state') + InFlight(hal') + Disturbances'
  BY DEF StepsLeft
<1>2. StepsLeft = 40 * CallsLeft(pc) + 4 * StatesLeft(state) + InFlight(hal) + Disturbances
  BY DEF StepsLeft
<1>3. \/ StatesLeft(state') < StatesLeft(state) /\ Disturbances' = Disturbances
      \/ /\ StatesLeft(state') <= StatesLeft(state) /\ InFlight(hal') < InFlight(hal)
         /\ Disturbances' = Disturbances
      \/ /\ StatesLeft(state') = StatesLeft(state) /\ InFlight(hal') = InFlight(hal)
         /\ Disturbances' < Disturbances
  BY DEF Disturbances
<1>4. CallsLeft(pc') = CallsLeft(pc)
  OBVIOUS
<1> DEFINE a == CallsLeft(pc)
           b == StatesLeft(state)
           c == InFlight(hal)
           d == Disturbances
           f == StatesLeft(state')
           g == InFlight(hal')
           i == Disturbances'
<1>5. 40 * a + 4 * f + g + i < 40 * a + 4 * b + c + d
  <2>1. /\ a \in 0 .. 7 /\ b \in 0 .. 8 /\ c \in 0 .. 3 /\ d \in 0 .. 1
        /\ f \in 0 .. 8 /\ g \in 0 .. 3 /\ i \in 0 .. 1
    BY LeftRanges
  <2>2. (f < b /\ i = d) \/ (f <= b /\ g < c /\ i = d) \/ (f = b /\ g = c /\ i < d)
    BY <1>3
  <2> HIDE DEF a, b, c, d, f, g, i
  <2> QED
    BY <2>1, <2>2
<1> QED
  BY <1>1, <1>2, <1>4, <1>5, Zenon

LEMMA InterruptDescends ==
  ASSUME IInv, IInv', Interrupt
  PROVE  UNCHANGED vars \/ StepsLeft' < StepsLeft
<1>0. hal \in Hal /\ calm \in BOOLEAN
  BY DEF IInv, TypeOK
<1>1. CASE handleUartRxDmaComplete
  <2> DEFINE h == [hal EXCEPT !.rx = "off"]
  <2>1. h \in Hal /\ InFlight(h) < InFlight(hal) /\ pc' = pc /\ calm' = calm
    <3>1. hal.rx # "off" /\ pc' = pc /\ calm' = calm
      BY <1>1 DEF handleUartRxDmaComplete
    <3>2. h \in Hal
      BY <1>0 DEF Hal
    <3>3. InFlight(h) = InFlight(hal) - 1 /\ InFlight(hal) \in 0 .. 3
      BY <1>0, <3>1, FlightOf, LeftRanges
    <3> HIDE DEF h
    <3> QED
      BY <3>1, <3>2, <3>3
  <2>2. handleTransactionComplete(h) \/ (hal' = h /\ state' = state)
    BY <1>1, Zenon DEF handleUartRxDmaComplete
  <2> HIDE DEF h
  <2>3. \/ StatesLeft(state') < StatesLeft(state)
        \/ StatesLeft(state') <= StatesLeft(state) /\ hal' = h
    <3>1. StatesLeft(state) \in 0 .. 8 /\ (state' = "IDLE" => StatesLeft(state') = 0)
      BY StatesLeftOf
    <3> QED
      BY <2>1, <2>2, <3>1, HandlerDescends
  <2>4. \/ StatesLeft(state') < StatesLeft(state) /\ calm' = calm
        \/ StatesLeft(state') <= StatesLeft(state) /\ InFlight(hal') < InFlight(hal) /\ calm' = calm
    BY <2>1, <2>3
  <2> QED
    BY <2>1, <2>4, InterruptDescendsIf
<1>2. CASE TxStreamDone
  <2>1. InFlight(hal') < InFlight(hal)
    <3>1. InFlight(hal') = InFlight(hal) - 1
      BY <1>0, <1>2, FlightOf DEF TxStreamDone
    <3> QED
      BY <3>1, LeftRanges
  <2>2. StatesLeft(state') <= StatesLeft(state)
    BY <1>2, StatesLeftOf DEF TxStreamDone
  <2> QED
    BY <1>2, <2>1, <2>2, InterruptDescendsIf DEF TxStreamDone
<1>3. CASE handleUartTxDmaComplete
  <2> DEFINE h == [hal EXCEPT !.tx = "idle", !.held = FALSE]
  <2>1. h \in Hal /\ InFlight(h) < InFlight(hal) /\ pc' = pc /\ calm' = calm
    <3>1. hal.tx = "draining" /\ pc' = pc /\ calm' = calm
      BY <1>3 DEF handleUartTxDmaComplete
    <3>2. h \in Hal
      BY <1>0 DEF Hal
    <3>3. InFlight(h) = InFlight(hal) - 1 /\ InFlight(hal) \in 0 .. 3
      BY <1>0, <3>1, FlightOf, LeftRanges
    <3> HIDE DEF h
    <3> QED
      BY <3>1, <3>2, <3>3
  <2>2. handleTransactionComplete(h) \/ (hal' = h /\ state' = state)
    BY <1>3, Zenon DEF handleUartTxDmaComplete
  <2> HIDE DEF h
  <2>3. \/ StatesLeft(state') < StatesLeft(state)
        \/ StatesLeft(state') <= StatesLeft(state) /\ hal' = h
    <3>1. StatesLeft(state) \in 0 .. 8 /\ (state' = "IDLE" => StatesLeft(state') = 0)
      BY StatesLeftOf
    <3> QED
      BY <2>1, <2>2, <3>1, HandlerDescends
  <2>4. \/ StatesLeft(state') < StatesLeft(state) /\ calm' = calm
        \/ StatesLeft(state') <= StatesLeft(state) /\ InFlight(hal') < InFlight(hal) /\ calm' = calm
    BY <2>1, <2>3
  <2> QED
    BY <2>1, <2>4, InterruptDescendsIf
<1>4. CASE handleUartError
  <2>1. InFlight(hal') < InFlight(hal)
    <3>1. InFlight(hal') = InFlight(hal) - 1
      BY <1>0, <1>4, FlightOf DEF handleUartError
    <3> QED
      BY <3>1, LeftRanges
  <2>2. state' = "IDLE" /\ pc' = pc /\ calm' = calm
    BY <1>4 DEF handleUartError, setErrorAndIdle
  <2>3. StatesLeft(state') <= StatesLeft(state)
    BY <2>2, StatesLeftOf
  <2> QED
    BY <2>1, <2>2, <2>3, InterruptDescendsIf
<1>5. CASE handleConversionTimerElapsed
  <2>1. CASE state # "WAIT_CONVERSION"
    BY <1>5, <2>1 DEF handleConversionTimerElapsed, vars
  <2>2. CASE state = "WAIT_CONVERSION"
    <3>1. state' \in {"IDLE", "RESET_FOR_READ"} /\ pc' = pc /\ calm' = calm
      BY <1>5, <2>2
         DEF handleConversionTimerElapsed, startReadScratchpadSequence, setErrorAndIdle
    <3>2. StatesLeft(state') < StatesLeft(state)
      BY <2>2, <3>1, StatesLeftOf
    <3> QED
      BY <3>1, <3>2, InterruptDescendsIf
  <2> QED
    BY <2>1, <2>2
<1>6. CASE BusSettles
  BY <1>6, InterruptDescendsIf DEF BusSettles
<1> QED
  BY <1>1, <1>2, <1>3, <1>4, <1>5, <1>6 DEF Interrupt

(* Between two starts of a measurement the task and the interrupts make a  *)
(* bounded number of steps, whatever the line and the HAL do and in        *)
(* whichever order: with NeverWaitsInVain, why every measurement ends.     *)
THEOREM MeasurementsRunDown == Spec => MeasurementShrinks /\ []MeasurementIsShort
<1>1. IInv /\ IInv' /\ [Next]_vars => [startMeasure \/ StepsLeft' < StepsLeft]_vars
  <2> SUFFICES ASSUME IInv, IInv', Next, ~startMeasure
               PROVE  UNCHANGED vars \/ StepsLeft' < StepsLeft
    OBVIOUS
  <2>1. CASE Interrupt
    BY <2>1, InterruptDescends
  <2>2. CASE Task
    <3>1. \/ pc = "boot" /\ pc' \in {"ready", "halted"}
          \/ pc = "init" /\ pc' \in {"state", "clear"}
          \/ pc = "state" /\ pc' = "receive"
          \/ pc = "receive" /\ pc' \in {"transmit", "clear"}
          \/ pc = "transmit" /\ pc' \in {"ready", "stop"}
          \/ pc = "stop" /\ pc' = "clear"
          \/ pc = "clear" /\ pc' = "idle"
          \/ pc = "idle" /\ pc' = "ready"
      BY <2>2 DEF Task, initialize, taskUartInit, taskStoreState, taskReceive, taskTransmit,
                  taskDmaStop, taskClear, taskIdle
    <3>2. CallsLeft(pc') < CallsLeft(pc)
      BY <3>1, CallsLeftOf
    <3> QED
      BY <3>2, CallDescends
  <2> QED
    BY <2>1, <2>2 DEF Next, Interrupt
<1> QED
  BY <1>1, MeasurementBound, Invariance, PTL DEF Spec, MeasurementShrinks-----------------------------------------------------------------------------
(* The CRC of the scratchpad, for every scratchpad and every burst.        *)
(*                                                                         *)
(* Argument.  The register is a function of the bits shifted in, defined   *)
(* along the stream; what it computes is shown with a least counterexample *)
(* instead of an induction.  A step of the register loses nothing: from    *)
(* the bits above k after it follow the bits above k + 1 before it and     *)
(* what was shifted out.  So two registers that were the same before a     *)
(* burst of at most eight bits, and are the same after it, have shifted in *)
(* the same bits.                                                          *)

C == INSTANCE Conversions WITH
       Scratchpads <- {}, Calibrations <- {}, MaxText <- 0, MaxDigits <- 0,
       HTTP_MAX_RESPONSE_LEN <- 0, LAN8742_MAX_DEV_ADDR <- 0, call <- [of |-> "nothing"]

(* What the register holds.                                                *)
Byte == 0 .. 255

(* The order of the natural numbers.                                       *)
Less == {p \in Nat \X Nat : p[1] < p[2]}

(* It is well-founded, by the library.                                     *)
LEMMA LessIsLess == IsWellFoundedOn(Less, Nat)
<1>1. OpToRel(<, Nat) = Less
  BY Zenon DEF OpToRel, Less
<1> QED
  BY <1>1, NatLessThanWellFounded, Zenon

(* So a set of natural numbers that is not empty has a least element.      *)
LEMMA Least ==
  ASSUME NEW S \in SUBSET Nat, S # {}
  PROVE  \E m \in S : \A k \in S : m <= k
<1>1. PICK x \in S : \A y \in S : ~ (<<y, x>> \in Less)
  BY LessIsLess, WFMin
<1>2. ASSUME NEW k \in S PROVE x <= k
  <2>1. <<k, x>> \in Nat \X Nat /\ ~(<<k, x>> \in Less)
    BY <1>1
  <2>2. ~(k < x)
    BY <2>1 DEF Less
  <2> QED BY <2>2
<1> QED
  BY <1>1, <1>2

(* The powers of two that the bits of a byte are worth.                    *)
LEMMA Powers == 2^0 = 1 /\ 2^1 = 2 /\ 2^2 = 4 /\ 2^3 = 8 /\ 2^4 = 16 /\ 2^5 = 32 /\ 2^6 = 64 /\ 2^7 = 128 /\ 2^8 = 256
  OBVIOUS

(* What CRC_POLYNOMIAL turns over below the highest bit.                   *)
Poly(s) == C!Toggle(C!Toggle(s, 8), 4)

(* One step of the register, in numbers.                                   *)
LEMMA StepIs ==
  ASSUME NEW c \in Byte, NEW b \in {0, 1}
  PROVE  /\ c \div 2 \in 0 .. 127 /\ Poly(c \div 2) \in 0 .. 127
         /\ C!CrcStep(c, b) = IF (c + b) % 2 = 1 THEN 128 + Poly(c \div 2) ELSE c \div 2
<1>1. c \div 2 \in 0 .. 127
  BY DEF Byte
<1>2. ASSUME NEW s \in 0 .. 127 PROVE C!XorPolynomial(s) = 128 + Poly(s) /\ Poly(s) \in 0 .. 127
  BY DEF C!XorPolynomial, C!Toggle, Poly
<1> QED
  BY <1>1, <1>2 DEF C!CrcStep

(* The same number, but for what is below n.                               *)
Over(x, y, n) == x \div n = y \div n

(* CRC_POLYNOMIAL keeps different registers different.                     *)
LEMMA PolyInjective ==
  ASSUME NEW s \in 0 .. 127, NEW u \in 0 .. 127, Poly(s) = Poly(u)
  PROVE  s = u
BY DEF Poly, C!Toggle

(* It keeps them different above every bit.                                *)
LEMMA PolyHigh ==
  ASSUME NEW s \in 0 .. 127, NEW u \in 0 .. 127, NEW n \in {2, 4, 8, 16, 32, 64, 128},
         Over(Poly(s), Poly(u), n)
  PROVE  Over(s, u, n)
<1>2. Poly(s) \div 2 = Poly(u) \div 2 => s \div 2 = u \div 2
  BY SMTT(60) DEF Poly, C!Toggle
<1>3. Poly(s) \div 4 = Poly(u) \div 4 => s \div 4 = u \div 4
  BY SMTT(60) DEF Poly, C!Toggle
<1>4. Poly(s) \div 8 = Poly(u) \div 8 => s \div 8 = u \div 8
  BY SMTT(60) DEF Poly, C!Toggle
<1>5. Poly(s) \div 16 = Poly(u) \div 16 => s \div 16 = u \div 16
  BY SMTT(60) DEF Poly, C!Toggle
<1>6. Poly(s) \div 32 = Poly(u) \div 32 => s \div 32 = u \div 32
  BY SMTT(60) DEF Poly, C!Toggle
<1>7. Poly(s) \div 64 = Poly(u) \div 64 => s \div 64 = u \div 64
  BY SMTT(60) DEF Poly, C!Toggle
<1>8. s \div 128 = u \div 128
  OBVIOUS
<1> QED
  BY <1>2, <1>3, <1>4, <1>5, <1>6, <1>7, <1>8 DEF Over

(* The register before the first bit, and after every bit.                 *)
Registers(bits, r) ==
  /\ r \in [0 .. Len(bits) -> Byte]
  /\ r[0] = 0
  /\ \A n \in 1 .. Len(bits) : r[n] = C!CrcStep(r[n - 1], bits[n])

(* The register stays a byte.                                              *)
LEMMA StepByte ==
  ASSUME NEW c \in Byte, NEW b \in {0, 1}
  PROVE  C!CrcStep(c, b) \in Byte
<1>1. /\ c \div 2 \in 0 .. 127 /\ Poly(c \div 2) \in 0 .. 127
      /\ C!CrcStep(c, b) = IF (c + b) % 2 = 1 THEN 128 + Poly(c \div 2) ELSE c \div 2
  BY StepIs
<1>2. C!CrcStep(c, b) = 128 + Poly(c \div 2) \/ C!CrcStep(c, b) = c \div 2
  BY <1>1
<1> QED
  BY <1>1, <1>2 DEF Byte

(* A stream of bits has registers.                                         *)
LEMMA RegistersExist ==
  ASSUME NEW bits \in Seq({0, 1})
  PROVE  \E r : Registers(bits, r)
<1> DEFINE Partial(n) == {r \in [0 .. n -> Byte] :
                           r[0] = 0 /\ \A i \in 1 .. n : r[i] = C!CrcStep(r[i - 1], bits[i])}
           S == {n \in 0 .. Len(bits) : Partial(n) = {}}
<1>1. Len(bits) \in Nat /\ \A i \in 1 .. Len(bits) : bits[i] \in {0, 1}
  OBVIOUS
<1>2. Partial(0) # {}
  <2>1. [i \in 0 .. 0 |-> 0] \in Partial(0)
    BY DEF Byte
  <2> QED BY <2>1
<1>3. ASSUME NEW n \in 0 .. Len(bits), n # 0, Partial(n - 1) # {} PROVE Partial(n) # {}
  <2>1. PICK r \in [0 .. n - 1 -> Byte] :
          r[0] = 0 /\ \A i \in 1 .. n - 1 : r[i] = C!CrcStep(r[i - 1], bits[i])
    BY <1>3
  <2> DEFINE q == [i \in 0 .. n |-> IF i = n THEN C!CrcStep(r[n - 1], bits[n]) ELSE r[i]]
  <2>2. n \in 1 .. Len(bits) /\ n - 1 \in 0 .. n - 1
    BY <1>1, <1>3
  <2>3. C!CrcStep(r[n - 1], bits[n]) \in Byte
    BY <1>1, <2>1, <2>2, StepByte
  <2>4. q \in [0 .. n -> Byte]
    BY <1>1, <2>1, <2>2, <2>3
  <2>5. q[0] = 0
    BY <2>1, <2>2
  <2>6. ASSUME NEW i \in 1 .. n PROVE q[i] = C!CrcStep(q[i - 1], bits[i])
    <3>1. CASE i = n
      BY <2>2, <3>1
    <3>2. CASE i # n
      BY <2>1, <2>2, <3>2
    <3> QED BY <3>1, <3>2
  <2>7. q \in Partial(n)
    BY <2>4, <2>5, <2>6
  <2> QED BY <2>7
<1>4. S = {}
  <2> SUFFICES ASSUME S # {} PROVE FALSE
    OBVIOUS
  <2>1. S \in SUBSET Nat
    BY <1>1
  <2>2. PICK m \in S : \A k \in S : m <= k
    <3> HIDE DEF S
    <3> QED BY <2>1, Least
  <2>3. m # 0 /\ m \in 0 .. Len(bits) /\ Partial(m) = {}
    BY <1>2, <2>2
  <2>4. m - 1 \in 0 .. Len(bits) /\ ~(m <= m - 1)
    BY <1>1, <2>3
  <2>5. Partial(m - 1) # {}
    BY <2>2, <2>4
  <2> QED BY <1>3, <2>3, <2>5
<1>5. Len(bits) \in 0 .. Len(bits)
  BY <1>1
<1>6. Partial(Len(bits)) # {}
  BY <1>4, <1>5
<1> QED
  BY <1>6 DEF Registers

(* calculateCrc's function is those registers.                             *)
LEMMA RegistersAgree ==
  ASSUME NEW bits \in Seq({0, 1}), NEW f,
         f = [n \in 0 .. Len(bits) |-> IF n = 0 THEN 0 ELSE C!CrcStep(f[n - 1], bits[n])]
  PROVE  Registers(bits, f)
<1>1. Len(bits) \in Nat /\ \A i \in 1 .. Len(bits) : bits[i] \in {0, 1}
  OBVIOUS
<1>2. f[0] = 0 /\ \A n \in 1 .. Len(bits) : f[n] = C!CrcStep(f[n - 1], bits[n])
  BY <1>1
<1> DEFINE S == {n \in 0 .. Len(bits) : f[n] \notin Byte}
<1>3. S = {}
  <2> SUFFICES ASSUME S # {} PROVE FALSE
    OBVIOUS
  <2>1. S \in SUBSET Nat
    BY <1>1
  <2>2. PICK m \in S : \A k \in S : m <= k
    <3> HIDE DEF S
    <3> QED BY <2>1, Least
  <2>3. m # 0 /\ m \in 1 .. Len(bits) /\ f[m] \notin Byte
    BY SMTT(30), <1>1, <1>2, <2>2 DEF Byte
  <2>4. m - 1 \in 0 .. Len(bits) /\ ~(m <= m - 1)
    BY <1>1, <2>3
  <2>5. f[m - 1] \in Byte
    BY <2>2, <2>4
  <2>6. f[m] = C!CrcStep(f[m - 1], bits[m]) /\ bits[m] \in {0, 1}
    BY <1>1, <1>2, <2>3
  <2> QED BY <2>3, <2>5, <2>6, StepByte
<1>4. f \in [0 .. Len(bits) -> Byte]
  <2>1. \A n \in 0 .. Len(bits) : f[n] \in Byte
    BY <1>3
  <2>2. f = [n \in 0 .. Len(bits) |-> f[n]]
    OBVIOUS
  <2> QED BY <2>1, <2>2
<1> QED
  BY <1>2, <1>4 DEF Registers

(* calculateCrc returns the last of them.                                  *)
LEMMA CrcIs ==
  ASSUME NEW bits \in Seq({0, 1})
  PROVE  \E r : Registers(bits, r) /\ C!calculateCrc(bits) = r[Len(bits)]
<1> DEFINE f == CHOOSE g : g = [n \in 0 .. Len(bits) |->
                               IF n = 0 THEN 0 ELSE C!CrcStep(g[n - 1], bits[n])]
<1>1. PICK r : Registers(bits, r)
  BY RegistersExist
<1>2. r = [n \in 0 .. Len(bits) |-> IF n = 0 THEN 0 ELSE C!CrcStep(r[n - 1], bits[n])]
  <2>1. Len(bits) \in Nat
    OBVIOUS
  <2>2. r = [n \in 0 .. Len(bits) |-> r[n]]
    BY <1>1 DEF Registers
  <2>3. \A n \in 0 .. Len(bits) : r[n] = IF n = 0 THEN 0 ELSE C!CrcStep(r[n - 1], bits[n])
    BY <1>1, <2>1 DEF Registers
  <2> QED BY <2>2, <2>3
<1>3. f = [n \in 0 .. Len(bits) |-> IF n = 0 THEN 0 ELSE C!CrcStep(f[n - 1], bits[n])]
  BY <1>2
<1>4. C!calculateCrc(bits) = f[Len(bits)]
  BY DEF C!calculateCrc
<1> HIDE DEF f
<1> QED
  BY <1>3, <1>4, RegistersAgree

(* The same number but for the lowest k bits; what a step shifts out and   *)
(* in.                                                                     *)
Agree(x, y, k) == x \div 2^k = y \div 2^k
Parity(c, a) == (c + a) % 2

(* Of two registers that agree above bit k, the ones before agreed above   *)
(* bit k + 1, and the bits shifted out and in had the same parity.         *)
LEMMA StepBack ==
  ASSUME NEW c \in Byte, NEW d \in Byte, NEW a \in {0, 1}, NEW b \in {0, 1}, NEW k \in 0 .. 7,
         Agree(C!CrcStep(c, a), C!CrcStep(d, b), k)
  PROVE  Agree(c, d, k + 1) /\ Parity(c, a) = Parity(d, b)
<1>s. PICK s \in 0 .. 127 : s = c \div 2
  BY DEF Byte
<1>u. PICK u \in 0 .. 127 : u = d \div 2
  BY DEF Byte
<1>p. PICK ps \in 0 .. 127 : ps = Poly(s)
  BY <1>s, StepIs
<1>q. PICK pu \in 0 .. 127 : pu = Poly(u)
  BY <1>u, StepIs
<1>x. PICK x : x = C!CrcStep(c, a)
  OBVIOUS
<1>y. PICK y : y = C!CrcStep(d, b)
  OBVIOUS
<1>o. PICK one \in {0, 1} : one = Parity(c, a)
  BY DEF Byte, Parity
<1>t. PICK two \in {0, 1} : two = Parity(d, b)
  BY DEF Byte, Parity
<1>1. /\ x = IF one = 1 THEN 128 + ps ELSE s
      /\ y = IF two = 1 THEN 128 + pu ELSE u
  BY ZenonT(60), <1>s, <1>u, <1>p, <1>q, <1>x, <1>y, <1>o, <1>t, StepIs DEF Parity
<1>5. /\ c \div 4 = s \div 2 /\ c \div 8 = s \div 4 /\ c \div 16 = s \div 8 /\ c \div 32 = s \div 16
      /\ c \div 64 = s \div 32 /\ c \div 128 = s \div 64 /\ c \div 256 = s \div 128
  BY <1>s DEF Byte
<1>6. /\ d \div 4 = u \div 2 /\ d \div 8 = u \div 4 /\ d \div 16 = u \div 8 /\ d \div 32 = u \div 16
      /\ d \div 64 = u \div 32 /\ d \div 128 = u \div 64 /\ d \div 256 = u \div 128
  BY <1>u DEF Byte
<1>7. x \div 2^k = y \div 2^k
  BY <1>x, <1>y DEF Agree
<1>8. one = two => Parity(c, a) = Parity(d, b)
  BY <1>o, <1>t
<1>9. c \div 2 = s /\ d \div 2 = u
  BY <1>s, <1>u
<1>2. ASSUME NEW n \in {2, 4, 8, 16, 32, 64, 128}, Over(ps, pu, n) PROVE Over(s, u, n)
  BY ZenonT(60), <1>s, <1>u, <1>p, <1>q, <1>2, PolyHigh
<1>3. ASSUME ps = pu PROVE s = u
  BY <1>s, <1>u, <1>p, <1>q, <1>3, PolyInjective
<1>10. ASSUME NEW n \in {2, 4, 8, 16, 32, 64, 128}, x \div n = y \div n
      PROVE  s \div n = u \div n /\ one = two
  <2>1. one = two
    BY <1>1, <1>10
  <2>2. s \div n = u \div n
    <3>1. CASE one = 1
      <4>1. (128 + ps) \div n = (128 + pu) \div n
        BY <1>1, <1>10, <2>1, <3>1
      <4>2. ps \div n = pu \div n
        BY SMTT(30), <1>1, <4>1
      <4>3. Over(ps, pu, n)
        BY <4>2 DEF Over
      <4>4. Over(s, u, n)
        BY <1>2, <4>3
      <4> QED BY <4>4 DEF Over
    <3>2. CASE one # 1
      BY <1>1, <1>10, <2>1, <3>2
    <3> QED BY <3>1, <3>2
  <2> QED BY <2>1, <2>2
<1>11. ASSUME x = y PROVE s = u /\ one = two
  <2>1. one = two
    BY <1>1, <1>11
  <2> QED BY <1>1, <1>3, <1>11, <2>1
<1>12. CASE k = 0
  <2>1. x = y
    BY <1>1, <1>7, <1>12, Powers DEF Agree
  <2> QED BY <1>8, <1>9, <1>11, <1>12, <2>1, Powers DEF Agree
<1>13. CASE k = 1
  BY <1>5, <1>6, <1>7, <1>8, <1>10, <1>13, Powers DEF Agree
<1>14. CASE k = 2
  BY <1>5, <1>6, <1>7, <1>8, <1>10, <1>14, Powers DEF Agree
<1>15. CASE k = 3
  BY <1>5, <1>6, <1>7, <1>8, <1>10, <1>15, Powers DEF Agree
<1>16. CASE k = 4
  BY <1>5, <1>6, <1>7, <1>8, <1>10, <1>16, Powers DEF Agree
<1>17. CASE k = 5
  BY <1>5, <1>6, <1>7, <1>8, <1>10, <1>17, Powers DEF Agree
<1>18. CASE k = 6
  BY <1>5, <1>6, <1>7, <1>8, <1>10, <1>18, Powers DEF Agree
<1>19. CASE k = 7
  BY <1>5, <1>6, <1>7, <1>8, <1>10, <1>19, Powers DEF Agree
<1> QED
  BY <1>12, <1>13, <1>14, <1>15, <1>16, <1>17, <1>18, <1>19

(* After the same register, the parity tells the bit that was shifted in.  *)
LEMMA ParityTells ==
  ASSUME NEW c \in Byte, NEW x \in {0, 1}, NEW y \in {0, 1}, Parity(c, x) = Parity(c, y)
  PROVE  x = y
BY DEF Byte, Parity

(* Numbers that agree in all bits are the same.                            *)
LEMMA AgreeAll ==
  ASSUME NEW x \in Byte, NEW y \in Byte, Agree(x, y, 0)
  PROVE  x = y
BY Powers DEF Agree, Byte

(* A run of the register over a stream; two of them, and their bits.       *)
Runs(a, r) ==
  /\ Len(a) \in Nat /\ r \in [0 .. Len(a) -> Byte]
  /\ \A n \in 1 .. Len(a) : a[n] \in {0, 1} /\ r[n] = C!CrcStep(r[n - 1], a[n])

Two(a, b, r, q) == Runs(a, r) /\ Runs(b, q) /\ Len(a) = Len(b)
Same(a, b, first, last) == \A i \in first .. last : a[i] = b[i]

(* The same bits, after the same register, lead to the same register.      *)
LEMMA SameForward ==
  ASSUME NEW a, NEW b, NEW r, NEW q, Two(a, b, r, q),
         NEW n \in 0 .. Len(a), r[0] = q[0], Same(a, b, 1, n)
  PROVE  r[n] = q[n]
<1> DEFINE S == {i \in 0 .. n : r[i] # q[i]}
<1>1. Len(a) \in Nat /\ n \in Nat
  BY DEF Two, Runs
<1>2. S = {}
  <2> SUFFICES ASSUME S # {} PROVE FALSE
    OBVIOUS
  <2>1. S \in SUBSET Nat
    BY <1>1
  <2>2. PICK m \in S : \A k \in S : m <= k
    <3> HIDE DEF S
    <3> QED BY <2>1, Least
  <2>3. m \in 1 .. n /\ r[m] # q[m]
    BY <1>1, <2>2
  <2>4. m - 1 \in 0 .. n /\ ~(m <= m - 1)
    BY <1>1, <2>3
  <2>5. r[m - 1] = q[m - 1]
    BY <2>2, <2>4
  <2>6. m \in 1 .. Len(a) /\ m \in 1 .. Len(b)
    BY <1>1, <2>3 DEF Two
  <2>7. r[m] = C!CrcStep(r[m - 1], a[m]) /\ q[m] = C!CrcStep(q[m - 1], b[m]) /\ a[m] = b[m]
    BY <2>3, <2>6 DEF Two, Runs, Same
  <2> QED BY <2>3, <2>5, <2>7
<1> QED
  BY <1>1, <1>2

(* The same register, after the same bits, comes from the same register.   *)
LEMMA SameBackward ==
  ASSUME NEW a, NEW b, NEW r, NEW q, Two(a, b, r, q),
         NEW n \in 0 .. Len(a), r[Len(a)] = q[Len(a)], Same(a, b, n + 1, Len(a))
  PROVE  r[n] = q[n]
<1> DEFINE L == Len(a)
           S == {i \in 0 .. L - n : r[L - i] # q[L - i]}
<1>1. L \in Nat /\ n \in Nat /\ n <= L
  BY DEF Two, Runs
<1>2. S = {}
  <2> SUFFICES ASSUME S # {} PROVE FALSE
    OBVIOUS
  <2>1. S \in SUBSET Nat
    BY <1>1
  <2>2. PICK m \in S : \A k \in S : m <= k
    <3> HIDE DEF S
    <3> QED BY <2>1, Least
  <2>3. m \in 1 .. L - n /\ r[L - m] # q[L - m]
    BY <1>1, <2>2
  <2>4. m - 1 \in 0 .. L - n /\ ~(m <= m - 1)
    BY <1>1, <2>3
  <2>5. r[L - (m - 1)] = q[L - (m - 1)]
    BY <2>2, <2>4
  <2> DEFINE j == L - m + 1
  <2>6. j \in 1 .. L /\ j \in n + 1 .. L /\ j = L - (m - 1) /\ j - 1 = L - m /\ j - 1 \in 0 .. L
    BY <1>1, <2>3
  <2>7. /\ r[j] = C!CrcStep(r[j - 1], a[j]) /\ q[j] = C!CrcStep(q[j - 1], b[j])
        /\ a[j] = b[j] /\ a[j] \in {0, 1} /\ r[j - 1] \in Byte /\ q[j - 1] \in Byte
    BY <2>6 DEF Two, Runs, Same
  <2>8. r[j] = q[j] /\ r[j - 1] # q[j - 1]
    BY <2>3, <2>5, <2>6
  <2>c. PICK c \in Byte : c = r[j - 1]
    BY <2>7
  <2>d. PICK d \in Byte : d = q[j - 1]
    BY <2>7
  <2>x. PICK x \in {0, 1} : x = a[j]
    BY <2>7
  <2>9. Agree(C!CrcStep(c, x), C!CrcStep(d, x), 0)
    BY <2>c, <2>d, <2>x, <2>7, <2>8 DEF Agree
  <2>10. Agree(c, d, 0 + 1) /\ Parity(c, x) = Parity(d, x)
    BY <2>9, StepBack
  <2>11. c = d
    BY <2>10, Powers DEF Byte, Agree, Parity
  <2> QED BY <2>c, <2>d, <2>8, <2>11
<1>3. L - n \in 0 .. L - n /\ L - (L - n) = n
  BY <1>1
<1>4. r[L - (L - n)] = q[L - (L - n)]
  BY <1>2, <1>3
<1> QED
  BY <1>3, <1>4

(* Up to eight bits after registers that agree cannot make them agree      *)
(* again in the bits above those that are left.                            *)
LEMMA BurstShows ==
  ASSUME NEW a, NEW b, NEW r, NEW q, Two(a, b, r, q),
         NEW n \in 0 .. Len(a), NEW j \in 0 .. 8, n + j <= Len(a), r[n] = q[n],
         Agree(r[n + j], q[n + j], 8 - j)
  PROVE  Same(a, b, n + 1, n + j)
<1> DEFINE E(i) == Agree(r[n + j - i], q[n + j - i], 8 - j + i)
           P(i) == Parity(r[i - 1], a[i]) = Parity(q[i - 1], b[i])
           S == {i \in 0 .. j : ~E(i)}
           T == {i \in 1 .. j : a[n + i] # b[n + i] \/ r[n + i] # q[n + i]}
<1>1. Len(a) \in Nat /\ n \in Nat /\ j \in Nat /\ j <= 8
  BY DEF Two, Runs
<1>2. \A i \in n + 1 .. n + j :
        /\ r[i] = C!CrcStep(r[i - 1], a[i]) /\ q[i] = C!CrcStep(q[i - 1], b[i])
        /\ a[i] \in {0, 1} /\ b[i] \in {0, 1} /\ r[i - 1] \in Byte /\ q[i - 1] \in Byte
  <2> SUFFICES ASSUME NEW i \in n + 1 .. n + j
               PROVE  /\ r[i] = C!CrcStep(r[i - 1], a[i]) /\ q[i] = C!CrcStep(q[i - 1], b[i])
                      /\ a[i] \in {0, 1} /\ b[i] \in {0, 1} /\ r[i - 1] \in Byte /\ q[i - 1] \in Byte
    OBVIOUS
  <2>1. i \in 1 .. Len(a) /\ i - 1 \in 0 .. Len(a)
    BY <1>1
  <2>2. r \in [0 .. Len(a) -> Byte] /\ q \in [0 .. Len(a) -> Byte]
    BY DEF Two, Runs
  <2>3. r[i] = C!CrcStep(r[i - 1], a[i]) /\ a[i] \in {0, 1}
    BY <2>1 DEF Two, Runs
  <2>4. q[i] = C!CrcStep(q[i - 1], b[i]) /\ b[i] \in {0, 1}
    BY <2>1 DEF Two, Runs
  <2>5. r[i - 1] \in Byte /\ q[i - 1] \in Byte
    BY <2>1, <2>2
  <2> QED BY <2>3, <2>4, <2>5
<1>3. ASSUME NEW i \in 1 .. j, E(i - 1) PROVE E(i) /\ P(n + j - i + 1)
  <2> DEFINE p == n + j - i + 1
  <2>1. p \in n + 1 .. n + j /\ p = n + j - (i - 1) /\ p - 1 = n + j - i
    BY <1>1
  <2>k. PICK k \in 0 .. 7 : k = 8 - j + (i - 1) /\ k + 1 = 8 - j + i
    BY <1>1
  <2>c. PICK c \in Byte : c = r[p - 1]
    BY <1>2, <2>1
  <2>d. PICK d \in Byte : d = q[p - 1]
    BY <1>2, <2>1
  <2>x. PICK x \in {0, 1} : x = a[p]
    BY <1>2, <2>1
  <2>y. PICK y \in {0, 1} : y = b[p]
    BY <1>2, <2>1
  <2>2. Agree(r[p], q[p], k)
    BY <1>3, <2>1, <2>k
  <2>3. r[p] = C!CrcStep(c, x) /\ q[p] = C!CrcStep(d, y)
    BY <1>2, <2>1, <2>c, <2>d, <2>x, <2>y
  <2>4. Agree(C!CrcStep(c, x), C!CrcStep(d, y), k)
    BY <2>2, <2>3
  <2>5. Agree(c, d, k + 1) /\ Parity(c, x) = Parity(d, y)
    BY <2>4, StepBack
  <2>6. E(i)
    BY <2>1, <2>5, <2>c, <2>d, <2>k
  <2>7. P(p)
    BY <2>5, <2>c, <2>d, <2>x, <2>y
  <2> QED BY <2>6, <2>7
<1>4. \A i \in 0 .. j : E(i)
  <2> SUFFICES ASSUME S # {} PROVE FALSE
    OBVIOUS
  <2>1. S \in SUBSET Nat
    BY <1>1
  <2>2. PICK m \in S : \A k \in S : m <= k
    <3> HIDE DEF S
    <3> QED BY <2>1, Least
  <2>3. E(0)
    BY <1>1
  <2>4. m \in 1 .. j /\ ~E(m)
    <3> HIDE DEF E
    <3> QED BY <1>1, <2>2, <2>3
  <2>5. m - 1 \in 0 .. j /\ ~(m <= m - 1)
    BY <1>1, <2>4
  <2>6. E(m - 1)
    <3> HIDE DEF E
    <3> QED BY <2>2, <2>5
  <2> HIDE DEF E, S, P
  <2> QED BY <1>3, <2>4, <2>6
<1>5. \A i \in n + 1 .. n + j : P(i)
  <2> SUFFICES ASSUME NEW i \in n + 1 .. n + j PROVE P(i)
    OBVIOUS
  <2> DEFINE k == n + j - i + 1
  <2>1. k \in 1 .. j /\ k - 1 \in 0 .. j /\ n + j - k + 1 = i
    BY <1>1
  <2> HIDE DEF k, E, P
  <2>2. P(n + j - k + 1)
    BY <1>3, <1>4, <2>1
  <2> QED BY <2>1, <2>2
<1>6. ASSUME NEW i \in n + 1 .. n + j, r[i - 1] = q[i - 1] PROVE a[i] = b[i] /\ r[i] = q[i]
  <2>1. Parity(r[i - 1], a[i]) = Parity(r[i - 1], b[i])
    BY <1>5, <1>6
  <2>x. PICK x \in {0, 1} : x = a[i]
    BY <1>2
  <2>y. PICK y \in {0, 1} : y = b[i]
    BY <1>2
  <2>c. PICK c \in Byte : c = r[i - 1]
    BY <1>2
  <2>2. Parity(c, x) = Parity(c, y)
    BY <2>1, <2>c, <2>x, <2>y, Zenon
  <2>3. x = y
    BY <2>2, <2>c, <2>x, <2>y, ParityTells
  <2>4. a[i] = b[i]
    BY <2>3, <2>x, <2>y
  <2> QED BY <1>2, <1>6, <2>4
<1>7. T = {}
  <2> SUFFICES ASSUME T # {} PROVE FALSE
    OBVIOUS
  <2>1. T \in SUBSET Nat
    BY <1>1
  <2>2. PICK m \in T : \A k \in T : m <= k
    <3> HIDE DEF T
    <3> QED BY <2>1, Least
  <2>3. m \in 1 .. j /\ (a[n + m] # b[n + m] \/ r[n + m] # q[n + m])
    BY <2>2
  <2>4. r[n + m - 1] = q[n + m - 1]
    <3>1. CASE m = 1
      BY <1>1, <3>1
    <3>2. CASE m # 1
      <4>1. m - 1 \in 1 .. j /\ ~(m <= m - 1) /\ n + (m - 1) = n + m - 1
        BY <1>1, <2>3, <3>2
      <4>2. r[n + (m - 1)] = q[n + (m - 1)]
        BY <2>2, <4>1
      <4> QED BY <4>1, <4>2
    <3> QED BY <3>1, <3>2
  <2>5. PICK i \in n + 1 .. n + j : i = n + m /\ i - 1 = n + m - 1
    <3>1. n + m \in n + 1 .. n + j
      BY <1>1, <2>3
    <3> QED BY <3>1
  <2>6. r[i - 1] = q[i - 1]
    BY <2>4, <2>5, Zenon
  <2>7. a[i] = b[i] /\ r[i] = q[i]
    BY <1>6, <2>5, <2>6, Zenon
  <2> QED BY <2>3, <2>5, <2>7, Zenon
<1>8. ASSUME NEW i \in n + 1 .. n + j PROVE a[i] = b[i]
  <2>1. PICK m \in 1 .. j : i = n + m
    <3>1. i - n \in 1 .. j /\ i = n + (i - n)
      BY <1>1
    <3> QED BY <3>1
  <2>2. a[n + m] = b[n + m]
    BY <1>7, Zenon
  <2> QED BY <2>1, <2>2, Zenon
<1> QED
  BY <1>8 DEF Same

(* The i-th bit of a byte, the least significant first.                    *)
BitOf(x, i) == (x \div 2^(i - 1)) % 2

(* Bits lists them.                                                        *)
LEMMA BitIs ==
  ASSUME NEW x, NEW i \in 1 .. 8
  PROVE  C!Bits(x)[i] = BitOf(x, i)
BY DEF C!Bits, BitOf

(* A byte, from its highest bit down.                                      *)
LEMMA Halves ==
  ASSUME NEW x \in Byte
  PROVE  /\ x \div 256 = 0
         /\ x \div 128 = BitOf(x, 8)
         /\ x \div 64 = 2 * (x \div 128) + BitOf(x, 7)
         /\ x \div 32 = 2 * (x \div 64) + BitOf(x, 6)
         /\ x \div 16 = 2 * (x \div 32) + BitOf(x, 5)
         /\ x \div 8 = 2 * (x \div 16) + BitOf(x, 4)
         /\ x \div 4 = 2 * (x \div 8) + BitOf(x, 3)
         /\ x \div 2 = 2 * (x \div 4) + BitOf(x, 2)
         /\ x = 2 * (x \div 2) + BitOf(x, 1)
<1>1. /\ BitOf(x, 8) = (x \div 128) % 2 /\ BitOf(x, 7) = (x \div 64) % 2
      /\ BitOf(x, 6) = (x \div 32) % 2 /\ BitOf(x, 5) = (x \div 16) % 2
      /\ BitOf(x, 4) = (x \div 8) % 2 /\ BitOf(x, 3) = (x \div 4) % 2
      /\ BitOf(x, 2) = (x \div 2) % 2 /\ BitOf(x, 1) = x % 2
  <2>1. /\ 2^(8 - 1) = 128 /\ 2^(7 - 1) = 64 /\ 2^(6 - 1) = 32 /\ 2^(5 - 1) = 16
        /\ 2^(4 - 1) = 8 /\ 2^(3 - 1) = 4 /\ 2^(2 - 1) = 2 /\ 2^(1 - 1) = 1
    OBVIOUS
  <2>2. x \div 1 = x
    BY DEF Byte
  <2> QED BY <2>1, <2>2 DEF BitOf
<1>2. x \in 0 .. 255
  BY DEF Byte
<1>3. x \div 256 = 0 /\ x \div 128 = (x \div 128) % 2
  BY <1>2
<1>4. x \div 64 = 2 * (x \div 128) + ((x \div 64) % 2)
  BY <1>2
<1>5. x \div 32 = 2 * (x \div 64) + ((x \div 32) % 2)
  BY <1>2
<1>6. x \div 16 = 2 * (x \div 32) + ((x \div 16) % 2)
  BY <1>2
<1>7. x \div 8 = 2 * (x \div 16) + ((x \div 8) % 2)
  BY <1>2
<1>8. x \div 4 = 2 * (x \div 8) + ((x \div 4) % 2)
  BY <1>2
<1>9. x \div 2 = 2 * (x \div 4) + ((x \div 2) % 2)
  BY <1>2
<1>10. x = 2 * (x \div 2) + (x % 2)
  BY <1>2
<1> QED
  BY <1>1, <1>3, <1>4, <1>5, <1>6, <1>7, <1>8, <1>9, <1>10, Zenon

(* Two bytes agree above the bits that are not compared.                   *)
LEMMA TopBits ==
  ASSUME NEW x \in Byte, NEW y \in Byte, NEW j \in 0 .. 8,
         \A i \in 9 - j .. 8 : C!Bits(x)[i] = C!Bits(y)[i]
  PROVE  Agree(x, y, 8 - j)
<1>1. \A i \in 1 .. 8 : i >= 9 - j => BitOf(x, i) = BitOf(y, i)
  BY BitIs
<1>2. /\ 8 >= 9 - j => BitOf(x, 8) = BitOf(y, 8)
      /\ 7 >= 9 - j => BitOf(x, 7) = BitOf(y, 7)
      /\ 6 >= 9 - j => BitOf(x, 6) = BitOf(y, 6)
      /\ 5 >= 9 - j => BitOf(x, 5) = BitOf(y, 5)
      /\ 4 >= 9 - j => BitOf(x, 4) = BitOf(y, 4)
      /\ 3 >= 9 - j => BitOf(x, 3) = BitOf(y, 3)
      /\ 2 >= 9 - j => BitOf(x, 2) = BitOf(y, 2)
      /\ 1 >= 9 - j => BitOf(x, 1) = BitOf(y, 1)
  BY <1>1
<1>3. CASE j = 0
  BY <1>3, Halves, Powers DEF Agree
<1>4. CASE j = 1
  BY <1>2, <1>4, Halves, Powers DEF Agree
<1>5. CASE j = 2
  BY <1>2, <1>5, Halves, Powers DEF Agree
<1>6. CASE j = 3
  BY <1>2, <1>6, Halves, Powers DEF Agree
<1>7. CASE j = 4
  BY <1>2, <1>7, Halves, Powers DEF Agree
<1>8. CASE j = 5
  BY <1>2, <1>8, Halves, Powers DEF Agree
<1>9. CASE j = 6
  BY <1>2, <1>9, Halves, Powers DEF Agree
<1>10. CASE j = 7
  BY <1>2, <1>10, Halves, Powers DEF Agree
<1>11. CASE j = 8
  <2>1. x = y
    BY <1>2, <1>11, Halves
  <2> QED BY <2>1 DEF Agree
<1> QED
  BY <1>3, <1>4, <1>5, <1>6, <1>7, <1>8, <1>9, <1>10, <1>11

(* A scratchpad, the stream its CRC is computed over, and the register.    *)
Carries(bits, a, r) ==
  /\ Runs(a, r) /\ r[0] = 0 /\ Len(a) = 64
  /\ \A i \in 1 .. 64 : a[i] = bits[i]
  /\ \A i \in 1 .. 8 : C!Bits(r[64])[i] = bits[64 + i]

LEMMA Accepted ==
  ASSUME NEW bits \in [1 .. 72 -> {0, 1}], C!crcAccepts(bits)
  PROVE  \E a, r : Carries(bits, a, r)
<1>a. PICK a : a = SubSeq(bits, 1, 64)
  OBVIOUS
<1>c. PICK crc : crc = SubSeq(bits, 65, 72)
  OBVIOUS
<1>1. a \in Seq({0, 1}) /\ Len(a) = 64 /\ \A i \in 1 .. 64 : a[i] = bits[i]
  <2>1. \A i \in 1 .. 64 : bits[i] \in {0, 1}
    OBVIOUS
  <2>2. /\ SubSeq(bits, 1, 64) \in Seq({0, 1})
        /\ Len(SubSeq(bits, 1, 64)) = IF 1 <= 64 THEN 64 - 1 + 1 ELSE 0
        /\ \A i \in 1 .. 64 - 1 + 1 : SubSeq(bits, 1, 64)[i] = bits[1 + i - 1]
    BY <2>1, SubSeqProperties
  <2> QED BY <1>a, <2>2
<1>2. \A i \in 1 .. 8 : crc[i] = bits[64 + i]
  <2>1. \A i \in 65 .. 72 : bits[i] \in {0, 1}
    OBVIOUS
  <2>2. \A i \in 1 .. 72 - 65 + 1 : SubSeq(bits, 65, 72)[i] = bits[65 + i - 1]
    BY <2>1, SubSeqProperties
  <2> QED BY <1>c, <2>2
<1>3. PICK r : Registers(a, r) /\ C!calculateCrc(a) = r[Len(a)]
  BY <1>1, CrcIs
<1>4. C!Bits(r[64]) = crc
  BY <1>a, <1>c, <1>1, <1>3 DEF C!crcAccepts
<1>5. \A n \in 1 .. 64 : a[n] \in {0, 1}
  <2>1. \A n \in 1 .. 64 : bits[n] \in {0, 1}
    OBVIOUS
  <2>2. \A n \in 1 .. 64 : a[n] = bits[n]
    BY <1>1
  <2> QED BY <2>1, <2>2
<1>6. Runs(a, r) /\ r[0] = 0
  BY <1>1, <1>3, <1>5 DEF Registers, Runs
<1>7. Carries(bits, a, r)
  BY <1>1, <1>2, <1>4, <1>6 DEF Carries
<1> QED
  BY <1>7

(* Up to eight bits in a row, of two scratchpads the CRC accepts.          *)
LEMMA BurstSame ==
  ASSUME NEW s, NEW t, NEW a, NEW b, NEW r, NEW q, Carries(s, a, r), Carries(t, b, q),
         NEW from \in 1 .. 72, \A i \in 1 .. 72 : t[i] # s[i] => i \in from .. from + 7
  PROVE  Same(s, t, 1, 72)
<1>0. Two(a, b, r, q) /\ r[0] = q[0]
  BY DEF Carries, Two
<1>1. Runs(a, r) /\ Runs(b, q) /\ Len(a) = 64 /\ Len(b) = 64
  BY DEF Carries
<1>2. \A i \in 1 .. 64 : a[i] = s[i] /\ b[i] = t[i]
  BY DEF Carries
<1>3. \A i \in 1 .. 8 : C!Bits(r[64])[i] = s[64 + i] /\ C!Bits(q[64])[i] = t[64 + i]
  BY DEF Carries
<1>4. r[64] \in Byte /\ q[64] \in Byte
  BY <1>1 DEF Runs
<1>5. ASSUME \A i \in 1 .. 64 : a[i] = b[i] PROVE Same(s, t, 1, 72)
  <2>1. r[64] = q[64]
    <3>1. 64 \in 0 .. Len(a) /\ Same(a, b, 1, 64)
      BY <1>1, <1>5 DEF Same
    <3> QED BY <1>0, <3>1, SameForward
  <2>2. \A i \in 1 .. 8 : t[64 + i] = s[64 + i]
    BY <1>3, <2>1
  <2>3. ASSUME NEW i \in 1 .. 72 PROVE s[i] = t[i]
    <3>1. CASE i \in 1 .. 64
      BY <1>2, <1>5, <3>1
    <3>2. CASE i \notin 1 .. 64
      <4>1. i - 64 \in 1 .. 8 /\ 64 + (i - 64) = i
        BY <3>2
      <4>2. t[64 + (i - 64)] = s[64 + (i - 64)]
        BY <2>2, <4>1
      <4> QED BY <4>1, <4>2
    <3> QED BY <3>1, <3>2
  <2> QED BY <2>3 DEF Same
<1>6. \A i \in 1 .. 64 : i \notin from .. from + 7 => a[i] = b[i]
  BY <1>2
<1>7. CASE from > 64
  <2>1. \A i \in 1 .. 64 : a[i] = b[i]
    BY <1>6, <1>7
  <2> QED BY <1>5, <2>1
<1>8. CASE from <= 64
  <2>n. PICK n \in 0 .. 63 : n = from - 1
    BY <1>8
  <2>j. PICK j \in 0 .. 8 : j = IF from <= 57 THEN 8 ELSE 65 - from
    BY <1>8
  <2>1. n + j <= Len(a) /\ n \in 0 .. Len(a)
    BY <1>1, <1>8, <2>n, <2>j
  <2>2. r[n] = q[n]
    <3>1. Same(a, b, 1, n)
      BY <1>6, <2>n DEF Same
    <3> QED BY <1>0, <2>1, <3>1, SameForward
  <2>3. Agree(r[n + j], q[n + j], 8 - j)
    <3>1. CASE from <= 57
      <4>1. \A i \in 1 .. 8 : C!Bits(r[64])[i] = C!Bits(q[64])[i]
        <5>1. \A i \in 1 .. 8 : t[64 + i] = s[64 + i]
          BY <3>1
        <5> QED BY <1>3, <5>1
      <4>2. Agree(r[64], q[64], 0)
        <5>1. 8 \in 0 .. 8 /\ 9 - 8 = 1 /\ 8 - 8 = 0
          OBVIOUS
        <5> QED BY <1>4, <4>1, <5>1, TopBits
      <4>3. r[Len(a)] = q[Len(a)]
        BY <1>1, <1>4, <4>2, AgreeAll
      <4>4. PICK m \in 0 .. Len(a) : m = from + 7 /\ m = n + j /\ 8 - j = 0
        BY <1>1, <2>n, <2>j, <3>1
      <4>5. Same(a, b, m + 1, Len(a))
        BY <1>1, <1>6, <4>4 DEF Same
      <4>6. r[m] = q[m]
        BY <1>0, <4>3, <4>4, <4>5, SameBackward
      <4> QED BY <4>4, <4>6 DEF Agree
    <3>2. CASE from > 57
      <4>1. n + j = 64 /\ j = 65 - from /\ j \in 0 .. 8
        BY <1>8, <2>n, <2>j, <3>2
      <4>2. ASSUME NEW i \in 9 - j .. 8 PROVE C!Bits(r[64])[i] = C!Bits(q[64])[i]
        <5>1. i \in 1 .. 8 /\ 64 + i \in 1 .. 72 /\ 64 + i \notin from .. from + 7
          BY <4>1
        <5>2. t[64 + i] = s[64 + i]
          BY <5>1
        <5> QED BY <1>3, <5>1, <5>2
      <4>3. Agree(r[64], q[64], 8 - j)
        BY <1>4, <2>j, <4>2, TopBits
      <4> QED BY <4>1, <4>3
    <3> QED BY <3>1, <3>2
  <2>4. Same(a, b, n + 1, n + j)
    BY <1>0, <2>1, <2>2, <2>3, <2>j, BurstShows
  <2>5. ASSUME NEW i \in 1 .. 64 PROVE a[i] = b[i]
    <3>1. i \in from .. from + 7 => i \in n + 1 .. n + j
      BY <1>8, <2>n, <2>j
    <3> QED BY <1>6, <2>4, <3>1 DEF Same
  <2> QED BY <1>5, <2>5
<1> QED
  BY <1>7, <1>8

(* A scratchpad of which the noise turned over some bits within eight in a  *)
(* row, anywhere in its nine bytes, is refused: whatever the sensor sent,   *)
(* the CRC of what was read is not the one that was read.                   *)
THEOREM BurstDetected ==
  ASSUME NEW sent \in [1 .. 72 -> {0, 1}], C!crcAccepts(sent),
         NEW read \in [1 .. 72 -> {0, 1}], read # sent,
         NEW from \in 1 .. 72, \A i \in 1 .. 72 : read[i] # sent[i] => i \in from .. from + 7
  PROVE  ~C!crcAccepts(read)
<1> SUFFICES ASSUME C!crcAccepts(read) PROVE FALSE
  OBVIOUS
<1>1. PICK a, r : Carries(sent, a, r)
  BY Accepted
<1>2. PICK b, q : Carries(read, b, q)
  BY Accepted
<1>3. Same(sent, read, 1, 72)
  BY <1>1, <1>2, BurstSame
<1>4. read = sent
  BY <1>3 DEF Same
<1> QED
  BY <1>4
=============================================================================
