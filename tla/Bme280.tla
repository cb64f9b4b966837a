------------------------------- MODULE Bme280 -------------------------------
(***************************************************************************)
(* The BME280 driver: the sensors task sends SPI frames by DMA and spins   *)
(* on _TransferState until an interrupt ends the frame and releases the    *)
(* chip select.  One calibration and configuration attempt is made at      *)
(* start-up; from then on every cycle reads one measurement frame.         *)
(*                                                                         *)
(* The task is preempted by the interrupts between any two of csSelect,    *)
(* the store to _TransferState, the HAL call and the polls; an interrupt   *)
(* handler is one action.                                                  *)
(***************************************************************************)
EXTENDS Naturals, Sequences

CONSTANTS
  HalFaults,    \* may HAL_SPI_Init or the start of a transfer fail?
  SpinReloads   \* does the build read _TransferState again on every poll?
                \* TRUE for -O0; the member is not volatile, so with -Os the
                \* compiler may read it once, or drop the loop

ASSUME BmeAssumption == HalFaults \in BOOLEAN /\ SpinReloads \in BOOLEAN

VARIABLES
  sensorState,  \* _SensorState
  transfer,     \* _TransferState
  selected,     \* chip select asserted (pin low)
  spi,          \* HAL handle: reset, ready, or busy with a frame
  pc,           \* where the sensors task is
  frame,        \* the frame being sent
  good,         \* history: frames whose last transfer completed
  failed,       \* history: some transfer ended in the error callback
  values        \* what the last conversion was computed from

vars == <<sensorState, transfer, selected, spi, pc, frame, good, failed, values>>

(* readCalibration sends three frames, configureSensor three more.         *)
Setup == <<"CALIB1", "CALIB2", "CALIB3", "CTRL_HUM", "CONFIG", "CTRL_MEAS">>
SetupFrames == {Setup[i] : i \in DOMAIN Setup}
Frames == SetupFrames \cup {"MEASURE"}

TypeOK ==
  /\ sensorState \in {"UNINITIALIZED", "CALIBRATION_NEED", "INITIALIZED"}
  /\ transfer \in {"IDLE", "TRANSFER_IN_PROGRESS", "TRANSFER_ENDED", "UNEXPECTED_ERROR"}
  /\ selected \in BOOLEAN
  /\ spi \in {"reset", "ready"} \cup Frames
  /\ pc \in {"boot", "select", "mark", "start", "spin", "cycle"}
  /\ frame \in Frames
  /\ good \subseteq Frames
  /\ failed \in BOOLEAN
  /\ values \in {"zero", "trusted", "garbage"}

Init ==
  /\ sensorState = "UNINITIALIZED"
  /\ transfer = "IDLE"
  /\ selected = FALSE
  /\ spi = "reset"
  /\ pc = "boot"
  /\ frame = "CALIB1"
  /\ good = {}
  /\ failed = FALSE
  /\ values = "zero"

-----------------------------------------------------------------------------
(* onTaskStartUp: initialize, whose result is ignored, then                *)
(* readCalibrationAndConfigure. A failed set-up leaves the HAL handle in   *)
(* reset, so the first transfer will be refused.                           *)
initialize ==
  /\ pc = "boot"
  /\ \/ sensorState' = "CALIBRATION_NEED" /\ spi' = "ready"
     \/ HalFaults /\ UNCHANGED <<sensorState, spi>>
  /\ pc' = "select"
  /\ frame' = Setup[1]
  /\ UNCHANGED <<transfer, selected, good, failed, values>>

(* One cycle of the task: nothing to do unless the driver is initialised.  *)
readMeasurements ==
  /\ pc = "cycle"
  /\ IF sensorState = "INITIALIZED"
     THEN pc' = "select" /\ frame' = "MEASURE"
     ELSE UNCHANGED <<pc, frame>>
  /\ UNCHANGED <<sensorState, transfer, selected, spi, good, failed, values>>

-----------------------------------------------------------------------------
(* sendFrameBlocking *)

csSelect ==
  /\ pc = "select"
  /\ selected' = TRUE
  /\ pc' = "mark"
  /\ UNCHANGED <<sensorState, transfer, spi, frame, good, failed, values>>

markInProgress ==
  /\ pc = "mark"
  /\ transfer' = "TRANSFER_IN_PROGRESS"
  /\ pc' = "start"
  /\ UNCHANGED <<sensorState, selected, spi, frame, good, failed, values>>

transferStarts ==
  /\ pc = "start"
  /\ spi = "ready"
  /\ spi' = frame
  /\ pc' = "spin"
  /\ UNCHANGED <<sensorState, transfer, selected, frame, good, failed, values>>

refusalStaysSelected ==  \* mutant: no csDeselect when the start fails
  /\ pc = "start"
  /\ spi # "ready" \/ HalFaults
  /\ pc' = "cycle"
  /\ UNCHANGED <<sensorState, transfer, selected, spi, frame, good, failed, values>>

refusalAccepted ==  \* mutant: a refused start is reported as a frame sent
  /\ pc = "start"
  /\ spi # "ready" \/ HalFaults
  /\ selected' = FALSE
  /\ \/ \E i \in 1 .. Len(Setup) - 1 :
          frame = Setup[i] /\ frame' = Setup[i + 1] /\ pc' = "select" /\ UNCHANGED sensorState
     \/ /\ frame \in {"CTRL_MEAS", "MEASURE"}
        /\ sensorState' = "INITIALIZED"
        /\ pc' = "cycle"
        /\ UNCHANGED frame
  /\ UNCHANGED <<transfer, spi, good, failed, values>>

(* The HAL refuses: the frame, and with it the set-up or the cycle, is     *)
(* given up; values measured before are kept.                              *)
transferRefused ==
  /\ pc = "start"
  /\ spi # "ready" \/ HalFaults
  /\ selected' = FALSE
  /\ pc' = "cycle"
  /\ UNCHANGED <<sensorState, transfer, spi, frame, good, failed, values>>

(* What the caller does with a frame reported as sent: the next frame of   *)
(* the set-up, the end of the set-up, or the conversions of a measurement. *)
FrameSent ==
  \/ \E i \in 1 .. Len(Setup) - 1 :
       /\ frame = Setup[i]
       /\ frame' = Setup[i + 1]
       /\ pc' = "select"
       /\ UNCHANGED <<sensorState, values>>
  \/ /\ frame = Setup[Len(Setup)]
     /\ sensorState' = "INITIALIZED"
     /\ pc' = "cycle"
     /\ UNCHANGED <<frame, values>>
  \/ /\ frame = "MEASURE"
     /\ values' = IF good = Frames THEN "trusted" ELSE "garbage"
     /\ pc' = "cycle"
     /\ UNCHANGED <<sensorState, frame>>

(* A poll that finds the transfer over, completed or failed alike; or, in  *)
(* a build that does not reload, a loop that was dropped.                  *)
spinEnds ==
  /\ pc = "spin"
  /\ transfer # "TRANSFER_IN_PROGRESS" \/ ~SpinReloads
  /\ FrameSent
  /\ UNCHANGED <<transfer, selected, spi, good, failed>>

-----------------------------------------------------------------------------
(* Interrupts *)

onDmaComplete ==
  /\ spi \in Frames
  /\ spi' = "ready"
  /\ good' = good \cup {spi}
  /\ IF transfer = "TRANSFER_IN_PROGRESS"
     THEN transfer' = "TRANSFER_ENDED" /\ selected' = FALSE
     ELSE UNCHANGED <<transfer, selected>>
  /\ UNCHANGED <<sensorState, pc, frame, failed, values>>

errorNotMarked ==  \* mutant: the error callback only releases the chip select
  /\ spi \in Frames
  /\ spi' = "ready"
  /\ good' = good \ {spi}
  /\ failed' = TRUE
  /\ selected' = FALSE
  /\ UNCHANGED <<sensorState, transfer, pc, frame, values>>

onDmaError ==
  /\ spi \in Frames
  /\ spi' = "ready"
  /\ good' = good \ {spi}
  /\ failed' = TRUE
  /\ transfer' = "UNEXPECTED_ERROR"
  /\ selected' = FALSE
  /\ UNCHANGED <<sensorState, pc, frame, values>>

-----------------------------------------------------------------------------
Task ==
  \/ initialize \/ readMeasurements
  \/ csSelect \/ markInProgress \/ transferStarts \/ transferRefused \/ spinEnds

Interrupt == onDmaComplete \/ onDmaError

Next == Task \/ Interrupt

Spec == Init /\ [][Next]_vars

(* The task polls and the SPI peripheral ends what it started.             *)
FairSpec == Spec /\ WF_vars(Task) /\ WF_vars(Interrupt)

-----------------------------------------------------------------------------
(* One chip-select pulse per frame: the sensor is selected while a         *)
(* transfer runs, and released before the next frame begins and while the  *)
(* task sleeps, whichever of task and interrupt has to release it.         *)
CsFraming ==
  /\ spi \in Frames => selected
  /\ pc \in {"boot", "select", "cycle"} => ~selected

(* The task never spins on a transfer nobody will end: the wait is         *)
(* unbounded (DMA_TIMEOUT_TICKS is unused), so a missed wake-up is a hang. *)
SpinWillEnd == (pc = "spin" /\ transfer = "TRANSFER_IN_PROGRESS") => spi = frame

(* Task and interrupt hand every transfer, its chip select and its end     *)
(* over to each other without a gap.                                       *)
HandOver == CsFraming /\ SpinWillEnd

(* Refused starts alone never let the driver pass for calibrated, nor a    *)
(* measurement be computed from a frame that did not arrive. A transfer    *)
(* that ended in the error callback does ("Mark transfer as failed"):      *)
(* sendFrameBlocking does not look at the mark and reports it as sent.     *)
TrustedUnlessFailed ==
  ~failed => /\ sensorState = "INITIALIZED" => SetupFrames \subseteq good
             /\ values # "garbage"

(* Whatever fails, the task comes back to its cycle again and again.       *)
TaskNeverHangs == []<>(pc = "cycle")

(* Refuted in a build that does not reload _TransferState: "wait for       *)
(* complete or error callback to update state" (transferSpinLock).         *)
SpinWaits ==
  [][(pc = "spin" /\ pc' # "spin") => transfer # "TRANSFER_IN_PROGRESS"]_pc
=============================================================================
