------------------------------ MODULE Ds18b20 ------------------------------
(***************************************************************************)
(* The DS18B20 driver: a 1-Wire master built from one UART (echo on its    *)
(* own receiver), two DMA streams and TIM7.  The sensors task starts a     *)
(* measurement; from then on the state machine is driven by interrupts.    *)
(*                                                                         *)
(* The four interrupts of the driver (DMA2 stream 2 and 7, USART6, TIM7)   *)
(* have one NVIC priority, so a handler runs to its end before the next    *)
(* one starts: a handler is ONE action.  The task is preempted by them     *)
(* between any two calls, so startMeasure is a sequence of actions.        *)
(***************************************************************************)
EXTENDS Naturals

CONSTANTS
  NUMBER_OF_DS18B20_SENSORS, \* app_config.hpp; 1 in the build without ROM search
  HalFaults   \* may a HAL call fail although nothing is outstanding?

ASSUME DriverAssumption ==
  /\ NUMBER_OF_DS18B20_SENSORS \in Nat \ {0}
  /\ HalFaults \in BOOLEAN

VARIABLES
  state,     \* _State
  rxDone,    \* _UartRxDmaDone
  txDone,    \* _UartTxDmaDone
  found,     \* _NumSensorsFound
  temp,      \* _LastTempCelsius[0]: the sentinel, or how old the value is
  pc,        \* where the sensors task is
  hal,       \* UART and DMA: rx reception, tx transmission, held = gState BUSY_TX
  timer,     \* TIM7: off, or the cycle in which it was started
  rxFor,     \* history: the _State in which the reception was armed
  waited,    \* history: the cycle whose conversion time has elapsed
  garbled,   \* history: noise changed a byte of this measurement unnoticed
  calm,      \* environment: the bus and the HAL have stopped misbehaving
  disturbed  \* history: noise completed a reception before anything was sent, or
             \* a measurement started over an abandoned transmission

vars == <<state, rxDone, txDone, found, temp, pc, hal, timer, rxFor, waited, garbled, calm, disturbed>>

(***************************************************************************)
(* A temperature, a running timer and an elapsed conversion belong to the  *)
(* measurement started last ("current") or to an earlier one ("old").      *)
(***************************************************************************)
INVALID_TEMP == "INVALID_TEMP"
Cycle == {"current", "old"}
Aged(c) == IF c = "current" THEN "old" ELSE c

ConvertStates == {"RESET_FOR_CONVERT", "SKIP_ROM_FOR_CONVERT", "CONVERT_T"}
ReadStates == {"RESET_FOR_READ", "SKIP_ROM_FOR_READ", "READ_SCRATCH_CMD", "READ_SCRATCH_CPLT"}
State == {"UNINITIALIZED", "IDLE", "WAIT_CONVERSION"} \cup ConvertStates \cup ReadStates

PC == {"boot", "halted", "ready", "init", "state", "receive", "transmit", "stop", "clear", "idle"}

Hal == [rx : {"off", "armed", "fed"}, tx : {"idle", "sending", "draining"}, held : BOOLEAN]

TypeOK ==
  /\ state \in State
  /\ rxDone \in BOOLEAN
  /\ txDone \in BOOLEAN
  /\ found \in {0, NUMBER_OF_DS18B20_SENSORS}
  /\ temp \in Cycle \cup {INVALID_TEMP}
  /\ pc \in PC
  /\ hal \in Hal
  /\ timer \in Cycle \cup {"off"}
  /\ rxFor \in State
  /\ waited \in Cycle \cup {"none"}
  /\ garbled \in BOOLEAN
  /\ calm \in BOOLEAN
  /\ disturbed \in BOOLEAN

Init ==
  /\ state = "UNINITIALIZED"
  /\ rxDone = FALSE /\ txDone = FALSE
  /\ found = 0
  /\ temp = INVALID_TEMP
  /\ pc = "boot"
  /\ hal = [rx |-> "off", tx |-> "idle", held |-> FALSE]
  /\ timer = "off"
  /\ rxFor = "UNINITIALIZED"
  /\ waited = "none"
  /\ garbled = FALSE
  /\ calm = FALSE
  /\ disturbed = FALSE

-----------------------------------------------------------------------------
(***************************************************************************)
(* The HAL as this driver uses it.  A call returns one of a set of         *)
(* outcomes [ok, hal].  tx is "sending" while the DMA stream feeds the     *)
(* UART and "draining" from then to the transmission-complete interrupt.   *)
(* HAL_UART_Init makes the handle READY again but stops no DMA stream, so  *)
(* afterwards a sending stream still refuses a new transfer while a        *)
(* draining one is superseded; HAL_UART_DMAStop stops only what the handle *)
(* still holds and the stream still sends.                                 *)
(***************************************************************************)
Outcome(ok, h) == [ok |-> ok, hal |-> h]
Faulty == HalFaults /\ ~calm
OrFault(h) == IF Faulty THEN {Outcome(FALSE, h)} ELSE {}

UartInit(h) ==
  LET ready == [h EXCEPT !.held = FALSE]
  IN  {Outcome(TRUE, ready)} \cup OrFault(ready)

ReceiveDma(h) ==
  IF h.rx # "off"
  THEN {Outcome(FALSE, h)}
  ELSE {Outcome(TRUE, [h EXCEPT !.rx = IF h.tx = "idle" THEN "armed" ELSE "fed"])}
         \cup OrFault(h)

TransmitDma(h) ==
  IF h.held \/ h.tx = "sending"
  THEN {Outcome(FALSE, h)}
  ELSE {Outcome(TRUE, [rx |-> IF h.rx = "off" THEN "off" ELSE "fed",
                       tx |-> "sending", held |-> TRUE])}
         \cup OrFault(h)

DmaStop(h) ==
  IF h.held /\ h.tx = "sending"
  THEN [rx |-> "off", tx |-> "idle", held |-> FALSE]
  ELSE [h EXCEPT !.rx = "off"]

-----------------------------------------------------------------------------
(***************************************************************************)
(* Steps of the driver that an interrupt handler makes without being       *)
(* interrupted.                                                            *)
(***************************************************************************)
setErrorKeepsTemp ==  \* mutant: the last value survives an error
  /\ rxDone' = FALSE /\ txDone' = FALSE
  /\ state' = "IDLE"
  /\ UNCHANGED temp

setErrorAndIdle ==
  /\ rxDone' = FALSE /\ txDone' = FALSE
  /\ temp' = INVALID_TEMP
  /\ state' = "IDLE"

startWithoutStop(h) ==  \* mutant: a refused transmit leaves the reception armed
  UNION { IF r.ok THEN TransmitDma(r.hal) ELSE {r} : r \in ReceiveDma(h) }

(* Outcomes of startDmaTransmitReceive: receive first, then transmit, and  *)
(* DMAStop when only the transmit is refused.                              *)
startDmaTransmitReceive(h) ==
  UNION { IF ~r.ok
          THEN {r}
          ELSE {IF t.ok THEN t ELSE Outcome(FALSE, DmaStop(t.hal)) : t \in TransmitDma(r.hal)}
        : r \in ReceiveDma(h) }

(* The new _State is stored before the transfer starts; a refused transfer *)
(* then resets the driver.                                                 *)
Transact(s, h) ==
  \E r \in startDmaTransmitReceive(h) :
    /\ hal' = r.hal
    /\ rxFor' = s
    /\ IF r.ok
       THEN state' = s /\ rxDone' = FALSE /\ txDone' = FALSE /\ UNCHANGED temp
       ELSE setErrorAndIdle

TransactSameBaud(s, h) == Transact(s, h)  \* mutant: the rate is not switched

(* setUartBaudrate, then the transaction at the new rate.                  *)
TransactAtBaud(s, h) ==
  \E b \in UartInit(h) :
    IF b.ok THEN Transact(s, b.hal)
            ELSE setErrorAndIdle /\ hal' = b.hal /\ UNCHANGED rxFor

(* A reset pulse echoed unchanged (0xF0): nobody answered.                 *)
NoPresence(h) ==
  /\ ~calm
  /\ setErrorAndIdle
  /\ hal' = h
  /\ UNCHANGED rxFor

startReadAtOnce(h) ==  \* mutant: reads without waiting for the conversion
  TransactAtBaud("RESET_FOR_READ", h) /\ UNCHANGED timer

startConversionTempTimer(h) ==
  /\ hal' = h
  /\ UNCHANGED rxFor
  /\ \/ /\ timer = "off"
        /\ timer' = "current"
        /\ state' = "WAIT_CONVERSION" /\ rxDone' = FALSE /\ txDone' = FALSE
        /\ UNCHANGED temp
     \/ /\ timer # "off" \/ Faulty
        /\ setErrorAndIdle
        /\ UNCHANGED timer

ReadKeepsOnCrcError(h) ==  \* mutant: a CRC error leaves the last value
  /\ hal' = h
  /\ state' = "IDLE" /\ rxDone' = FALSE /\ txDone' = FALSE
  /\ temp' = waited \/ UNCHANGED temp
  /\ UNCHANGED <<rxFor, garbled>>

(***************************************************************************)
(* What the sensor heard and sent.  The handlers compare no echo with what *)
(* they sent and take any byte but 0xF0 for a presence pulse: noise, or a  *)
(* transaction another one's completions have ended, may leave the sensor  *)
(* without its command, and the driver goes on.                            *)
(***************************************************************************)
Unreliable == ~calm \/ disturbed
Unverified == garbled' \in IF Unreliable THEN {garbled, TRUE} ELSE {garbled}

(* The scratchpad holds the conversion waited for, if the sensor was told  *)
(* to convert and to send it, and nothing happened to it on the way.       *)
(* Otherwise its CRC fails; or it fits all the same: that of a sensor that *)
(* missed CONVERT_T does, and its value is an old one (or, after power-on, *)
(* none at all).                                                           *)
ReadScratchpad(h) ==
  /\ hal' = h
  /\ state' = "IDLE" /\ rxDone' = FALSE /\ txDone' = FALSE
  /\ \/ temp' = waited /\ UNCHANGED garbled
     \/ (Unreliable \/ garbled) /\ temp' = INVALID_TEMP /\ UNCHANGED garbled
     \/ (Unreliable \/ garbled) /\ temp' = "old" /\ garbled' = TRUE
  /\ UNCHANGED rxFor

(* Both flags were seen and cleared: act on the finished transaction.      *)
handleTransactionComplete(h) ==
  \/ /\ state = "RESET_FOR_CONVERT"
     /\ NoPresence(h) \/ TransactAtBaud("SKIP_ROM_FOR_CONVERT", h)
     /\ UNCHANGED timer /\ Unverified
  \/ /\ state = "SKIP_ROM_FOR_CONVERT"
     /\ Transact("CONVERT_T", h)
     /\ UNCHANGED timer /\ Unverified
  \/ /\ state = "CONVERT_T"
     /\ startConversionTempTimer(h) /\ Unverified
  \/ /\ state = "RESET_FOR_READ"
     /\ NoPresence(h) \/ TransactAtBaud("SKIP_ROM_FOR_READ", h)
     /\ UNCHANGED timer /\ Unverified
  \/ /\ state = "SKIP_ROM_FOR_READ"
     /\ Transact("READ_SCRATCH_CMD", h)
     /\ UNCHANGED timer /\ Unverified
  \/ /\ state = "READ_SCRATCH_CMD"
     /\ Transact("READ_SCRATCH_CPLT", h)
     /\ UNCHANGED timer /\ Unverified
  \/ /\ state = "READ_SCRATCH_CPLT"
     /\ ReadScratchpad(h)
     /\ UNCHANGED timer
  \/ /\ state \in {"UNINITIALIZED", "IDLE", "WAIT_CONVERSION"}
     /\ setErrorAndIdle
     /\ hal' = h
     /\ UNCHANGED <<rxFor, timer, garbled>>

-----------------------------------------------------------------------------
(* Interrupts *)

handleUartRxDmaComplete ==
  /\ hal.rx = "fed" \/ (hal.rx = "armed" /\ ~calm)
  /\ calm => hal.tx # "sending"
  /\ LET h == [hal EXCEPT !.rx = "off"]
     IN  IF txDone
         THEN handleTransactionComplete(h)
         ELSE /\ rxDone' = TRUE
              /\ hal' = h
              /\ UNCHANGED <<state, txDone, temp, timer, rxFor, garbled>>
  /\ disturbed' = (disturbed \/ hal.rx = "armed")
  /\ UNCHANGED <<found, pc, waited, calm>>

(* The transmit stream has handed its last byte to the UART: the HAL waits *)
(* for transmission complete, the driver is not called.                    *)
TxStreamDone ==
  /\ hal.tx = "sending"
  /\ hal' = [hal EXCEPT !.tx = "draining"]
  /\ UNCHANGED <<state, rxDone, txDone, found, temp, pc, timer, rxFor, waited, garbled, calm, disturbed>>

handleUartTxDmaComplete ==
  /\ hal.tx = "draining"
  /\ LET h == [hal EXCEPT !.tx = "idle", !.held = FALSE]
     IN  IF rxDone
         THEN handleTransactionComplete(h)
         ELSE /\ txDone' = TRUE
              /\ hal' = h
              /\ UNCHANGED <<state, rxDone, temp, timer, rxFor, garbled>>
  /\ UNCHANGED <<found, pc, waited, calm, disturbed>>

errorOnlyLogged ==  \* mutant: the error callback does not reset the driver
  /\ ~calm
  /\ hal.rx # "off"
  /\ hal' = [hal EXCEPT !.rx = "off"]
  /\ UNCHANGED <<state, rxDone, txDone, found, temp, pc, timer, rxFor, waited, garbled, calm, disturbed>>

(* Framing, noise or overrun error: the HAL aborts the reception alone, a  *)
(* transmission in flight goes on.                                         *)
handleUartError ==
  /\ ~calm
  /\ hal.rx # "off"
  /\ hal' = [hal EXCEPT !.rx = "off"]
  /\ setErrorAndIdle
  /\ UNCHANGED <<found, pc, timer, rxFor, waited, garbled, calm, disturbed>>

(* startReadScratchpadSequence                                             *)
startReadScratchpadSequence(h) ==
  \E b \in UartInit(h) :
    IF ~b.ok
    THEN setErrorAndIdle /\ hal' = b.hal /\ UNCHANGED rxFor
    ELSE \E r \in startDmaTransmitReceive(b.hal) :
           /\ hal' = r.hal
           /\ rxFor' = "RESET_FOR_READ"
           /\ IF r.ok
              THEN state' = "RESET_FOR_READ" /\ UNCHANGED <<rxDone, txDone, temp>>
              ELSE setErrorAndIdle

handleConversionTimerElapsed ==
  /\ timer # "off"
  /\ IF state # "WAIT_CONVERSION"
     THEN UNCHANGED <<state, rxDone, txDone, temp, hal, timer, rxFor, waited>>
     ELSE /\ timer' = "off"
          /\ waited' = timer
          /\ startReadScratchpadSequence(hal)
  /\ UNCHANGED <<found, pc, garbled, calm, disturbed>>

-----------------------------------------------------------------------------
(* The sensors task *)

(* initialize: a failed set-up call ends in Error_Handler.                 *)
initialize ==
  /\ pc = "boot"
  /\ state = "UNINITIALIZED"
  /\ \/ /\ pc' = "ready"
        /\ state' = "IDLE"
        /\ found' = NUMBER_OF_DS18B20_SENSORS
     \/ /\ Faulty
        /\ pc' = "halted"
        /\ UNCHANGED <<state, found>>
  /\ UNCHANGED <<rxDone, txDone, temp, hal, timer, rxFor, waited, garbled, calm, disturbed>>

(* startMeasure passes its guard: whatever was measured before is now old. *)
startMeasure ==
  /\ pc = "ready"
  /\ state = "IDLE"
  /\ found > 0
  /\ pc' = "init"
  /\ temp' = Aged(temp)
  /\ timer' = Aged(timer)
  /\ waited' = Aged(waited)
  /\ garbled' = FALSE
  /\ disturbed' = (disturbed \/ hal.tx # "idle")
  /\ UNCHANGED <<state, rxDone, txDone, found, hal, rxFor, calm>>

taskUartInit ==
  /\ pc = "init"
  /\ \E b \in UartInit(hal) :
       /\ hal' = b.hal
       /\ pc' = IF b.ok THEN "state" ELSE "clear"
  /\ UNCHANGED <<state, rxDone, txDone, found, temp, timer, rxFor, waited, garbled, calm, disturbed>>

taskStoreState ==
  /\ pc = "state"
  /\ state' = "RESET_FOR_CONVERT"
  /\ pc' = "receive"
  /\ UNCHANGED <<rxDone, txDone, found, temp, hal, timer, rxFor, waited, garbled, calm, disturbed>>

taskReceive ==
  /\ pc = "receive"
  /\ \E r \in ReceiveDma(hal) :
       /\ hal' = r.hal
       /\ pc' = IF r.ok THEN "transmit" ELSE "clear"
       /\ rxFor' = IF r.ok THEN "RESET_FOR_CONVERT" ELSE rxFor
  /\ UNCHANGED <<state, rxDone, txDone, found, temp, timer, waited, garbled, calm, disturbed>>

taskTransmit ==
  /\ pc = "transmit"
  /\ \E t \in TransmitDma(hal) :
       /\ hal' = t.hal
       /\ pc' = IF t.ok THEN "ready" ELSE "stop"
  /\ UNCHANGED <<state, rxDone, txDone, found, temp, timer, rxFor, waited, garbled, calm, disturbed>>

taskDmaStop ==
  /\ pc = "stop"
  /\ hal' = DmaStop(hal)
  /\ pc' = "clear"
  /\ UNCHANGED <<state, rxDone, txDone, found, temp, timer, rxFor, waited, garbled, calm, disturbed>>

(* setErrorAndIdle in the task: flags and temperature first, _State last.  *)
taskClear ==
  /\ pc = "clear"
  /\ rxDone' = FALSE /\ txDone' = FALSE
  /\ temp' = INVALID_TEMP
  /\ pc' = "idle"
  /\ UNCHANGED <<state, found, hal, timer, rxFor, waited, garbled, calm, disturbed>>

taskIdle ==
  /\ pc = "idle"
  /\ state' = "IDLE"
  /\ pc' = "ready"
  /\ UNCHANGED <<rxDone, txDone, found, temp, hal, timer, rxFor, waited, garbled, calm, disturbed>>

-----------------------------------------------------------------------------
(* Environment: from now on no line error, no HAL fault, no CRC error, no  *)
(* missing presence pulse, no byte changed.                                *)
BusSettles ==
  /\ ~calm
  /\ calm' = TRUE
  /\ UNCHANGED <<state, rxDone, txDone, found, temp, pc, hal, timer, rxFor, waited, garbled, disturbed>>

Task ==
  \/ initialize
  \/ taskUartInit \/ taskStoreState \/ taskReceive \/ taskTransmit
  \/ taskDmaStop \/ taskClear \/ taskIdle

Next ==
  \/ Task
  \/ startMeasure
  \/ handleUartRxDmaComplete
  \/ TxStreamDone
  \/ handleUartTxDmaComplete
  \/ handleUartError
  \/ handleConversionTimerElapsed
  \/ BusSettles

Spec == Init /\ [][Next]_vars

(***************************************************************************)
(* Fairness: the task is scheduled (and calls startMeasure every cycle     *)
(* that finds the sensor idle), DMA streams and timer are hardware that    *)
(* finishes what it was told to do.  Errors are never forced.              *)
(***************************************************************************)
Fairness ==
  /\ WF_vars(Task)
  /\ WF_vars(startMeasure)
  /\ WF_vars(handleUartRxDmaComplete)
  /\ WF_vars(TxStreamDone)
  /\ WF_vars(handleUartTxDmaComplete)
  /\ WF_vars(handleConversionTimerElapsed)

FairSpec == Spec /\ Fairness

-----------------------------------------------------------------------------
(***************************************************************************)
(* Properties that hold whatever the HAL and the timing do                 *)
(***************************************************************************)

(* A task that finds the sensor ready reads the sentinel or a value whose  *)
(* 800 ms conversion belongs to the measurement it started last, however   *)
(* the interrupts fell between the steps of startMeasure, whatever calls   *)
(* fail and whatever errors are noticed (getTemperature, isSensorReady,    *)
(* setErrorAndIdle).  Only noise nobody noticed in this very measurement   *)
(* makes a value of an earlier one readable; noise in others does not.     *)
FreshOrInvalid ==
  (pc = "ready" /\ state = "IDLE" /\ ~garbled) => temp \in {INVALID_TEMP, "current"}

Reading ==
  CASE pc \in {"boot", "halted"} -> "off"
    [] pc = "ready" /\ state = "IDLE" -> temp
    [] OTHER -> "measuring"

Service == INSTANCE SensorService WITH reading <- Reading

(* The driver implements the service the sensors task relies on: every     *)
(* step is a start, an end, a withdrawal of the value, noise in a running  *)
(* measurement, or invisible.                                              *)
ServiceSpec == Service!Spec

(* Every measurement ends: no error, refused call or stale completion flag *)
(* leaves the driver in a transaction for ever (it has no timeout).        *)
MeasurementEnds == (Reading = "measuring") ~> (Reading # "measuring")

(***************************************************************************)
(* Properties that hold until the driver was disturbed                     *)
(***************************************************************************)

(* What a handler decodes was received for the _State it is decoded in: an *)
(* armed or finished reception always belongs to the current transaction.  *)
OwnReception == (hal.rx # "off" \/ rxDone) => rxFor = state

(* HAL_UART_Init is never called by the task or the timer interrupt while  *)
(* a reception is armed (the HAL would forget the transfer it is running). *)
QuietReinit == (pc = "init" \/ state = "WAIT_CONVERSION") => hal.rx = "off"

(* TIM7 runs only while the driver waits for it. Left running in another   *)
(* state it is never stopped again, and every later conversion fails.      *)
NoOrphanTimer == timer # "off" => state = "WAIT_CONVERSION"

(* Errors and refused calls alone leave no transfer, completion flag or    *)
(* timer behind that a later transaction would meet.                       *)
NothingLeftBehind == ~disturbed => OwnReception /\ QuietReinit /\ NoOrphanTimer

(* The driver heals: once the bus behaves, whatever flags and transfers    *)
(* the errors left behind, a fresh temperature is eventually read.         *)
Recovery == calm ~> (disturbed \/ Reading \in {"current", "off"})
=============================================================================
