---------------------------- MODULE Bme280Proofs ----------------------------
(***************************************************************************)
(* In a build whose spin reads _TransferState again, task and interrupts   *)
(* of the BME280 driver hand chip select and transfer over without a gap   *)
(* (HandOver), and what is published was computed from frames that arrived *)
(* unless a transfer ended in the error callback (TrustedUnlessFailed).    *)
(*                                                                         *)
(* Argument.  A transfer runs only while the task spins on it              *)
(* (TransferInv), because the spin does not end before the callback has    *)
(* stored something else, and the callback that stores it releases the     *)
(* chip select.  So a frame reported as sent has completed, or has failed; *)
(* without a failure the frames before the one being sent have all arrived *)
(* (SetupInv), and the driver counts as initialised only after the last.   *)
(* The last part takes the trimming values that share a byte apart, for    *)
(* every pair of them.                                                     *)
(***************************************************************************)
EXTENDS Bme280, Integers, TLAPS

TransferInv ==
  /\ spi \in Frames => pc = "spin" /\ frame = spi /\ transfer = "TRANSFER_IN_PROGRESS"
  /\ pc = "spin" => (selected <=> transfer = "TRANSFER_IN_PROGRESS")
  /\ pc \in {"mark", "start"} => selected
  /\ pc = "start" => transfer = "TRANSFER_IN_PROGRESS"

SetupInv ==
  /\ pc \in {"mark", "start", "spin", "select"} /\ frame = "MEASURE"
       => sensorState = "INITIALIZED"
  /\ pc = "boot" => sensorState = "UNINITIALIZED" /\ frame = "CALIB1"

(* Without a failed transfer, the frames of the set-up before this one, and *)
(* this one when the spin is over, have arrived.                            *)
ArrivedInv ==
  ~failed =>
    /\ pc \in {"select", "mark", "start", "spin"}
         => \A i, j \in 1 .. 6 : frame = Setup[i] /\ j < i => Setup[j] \in good
    /\ pc = "spin" /\ transfer # "TRANSFER_IN_PROGRESS" => frame \in good

IInv ==
  TypeOK /\ TransferInv /\ HandOver /\ SetupInv /\ ArrivedInv /\ TrustedUnlessFailed

-----------------------------------------------------------------------------
(* The set-up is six frames, and a measurement is none of them.            *)
LEMMA SetupFacts ==
  /\ Len(Setup) = 6 /\ DOMAIN Setup = 1 .. 6
  /\ SetupFrames = {Setup[i] : i \in 1 .. 6}
  /\ \A i \in 1 .. 6 : Setup[i] \in SetupFrames /\ Setup[i] # "MEASURE"
  /\ \A i, j \in 1 .. 6 : Setup[i] = Setup[j] => i = j
  /\ Setup[1] = "CALIB1"
<1>1. Len(Setup) = 6 /\ DOMAIN Setup = 1 .. 6
  BY DEF Setup
<1>2. SetupFrames = {Setup[i] : i \in 1 .. 6}
  BY <1>1, Zenon DEF SetupFrames
<1>3. \A i \in 1 .. 6 : Setup[i] # "MEASURE"
  BY DEF Setup
<1>4. \A i, j \in 1 .. 6 : Setup[i] = Setup[j] => i = j
  BY DEF Setup
<1>5. \A i \in 1 .. 6 : Setup[i] \in SetupFrames
  BY <1>2
<1>6. Setup[1] = "CALIB1"
  BY DEF Setup
<1> QED
  BY <1>1, <1>2, <1>3, <1>4, <1>5, <1>6

(* The frames are the six and the measurement, and no HAL state is one.    *)
LEMMA FramesFacts ==
  /\ Frames = SetupFrames \cup {"MEASURE"}
  /\ "reset" \notin Frames /\ "ready" \notin Frames /\ "MEASURE" \in Frames
  /\ "CALIB1" \in Frames /\ \A i \in 1 .. 6 : Setup[i] \in Frames
<1>1. Frames = SetupFrames \cup {"MEASURE"}
  BY DEF Frames
<1>2. \A i \in 1 .. 6 : Setup[i] # "reset" /\ Setup[i] # "ready"
  BY DEF Setup
<1> QED
  BY <1>1, <1>2, SetupFacts

(* The invariant holds in the initial state.                               *)
LEMMA Initially == Init => IInv
<1> SUFFICES ASSUME Init PROVE IInv
  OBVIOUS
<1>1. TypeOK
  BY FramesFacts DEF Init, TypeOK
<1> QED
  BY <1>1, FramesFacts
     DEF Init, IInv, TransferInv, HandOver, CsFraming, SpinWillEnd, SetupInv, ArrivedInv,
         TrustedUnlessFailed

(* What follows a frame that was reported as sent: it has arrived, unless  *)
(* some transfer failed.                                                   *)
LEMMA SpinEndsKeeps ==
  ASSUME SpinReloads, IInv, spinEnds
  PROVE  IInv'
<1> USE SetupFacts, FramesFacts
<1>1. pc = "spin" /\ transfer # "TRANSFER_IN_PROGRESS" /\ spi \notin Frames /\ ~selected
  BY DEF spinEnds, IInv, TransferInv, TypeOK
<1>2. ~failed => frame \in good /\ \A i, j \in 1 .. 6 : frame = Setup[i] /\ j < i => Setup[j] \in good
  BY <1>1 DEF IInv, ArrivedInv
<1>3. UNCHANGED <<transfer, selected, spi, good, failed>>
  BY DEF spinEnds
<1>4. ASSUME NEW i \in 1 .. 5, frame = Setup[i], frame' = Setup[i + 1], pc' = "select",
             UNCHANGED <<sensorState, values>>
      PROVE  IInv'
  <2>1. i + 1 \in 1 .. 6 /\ i \in 1 .. 6
    OBVIOUS
  <2>2. TypeOK'
    BY <1>3, <1>4, <2>1 DEF IInv, TypeOK
  <2>3. ~failed' => \A k, j \in 1 .. 6 : frame' = Setup[k] /\ j < k => Setup[j] \in good'
    <3> SUFFICES ASSUME ~failed', NEW k \in 1 .. 6, NEW j \in 1 .. 6, frame' = Setup[k], j < k
                 PROVE  Setup[j] \in good'
      OBVIOUS
    <3>1. k = i + 1
      BY <1>4, <2>1
    <3>2. j = i \/ j < i
      BY <3>1
    <3> QED
      BY <1>2, <1>3, <1>4, <2>1, <3>2
  <2>4. TransferInv' /\ HandOver'
    BY <1>1, <1>3, <1>4 DEF TransferInv, HandOver, CsFraming, SpinWillEnd
  <2>5. SetupInv'
    BY <1>4, <2>1 DEF SetupInv
  <2>6. ArrivedInv'
    BY <1>4, <2>3 DEF ArrivedInv
  <2>7. TrustedUnlessFailed'
    BY <1>3, <1>4 DEF IInv, TrustedUnlessFailed
  <2> QED
    BY <2>2, <2>4, <2>5, <2>6, <2>7 DEF IInv
<1>5. ASSUME pc' = "cycle", UNCHANGED frame,
             sensorState' \in {"UNINITIALIZED", "CALIBRATION_NEED", "INITIALIZED"},
             values' \in {"zero", "trusted", "garbage"}, TrustedUnlessFailed'
      PROVE  IInv'
  <2>1. TypeOK'
    BY <1>3, <1>5 DEF IInv, TypeOK
  <2>2. TransferInv' /\ HandOver' /\ SetupInv' /\ ArrivedInv'
    BY <1>1, <1>3, <1>5
       DEF TransferInv, HandOver, CsFraming, SpinWillEnd, SetupInv, ArrivedInv
  <2> QED
    BY <1>5, <2>1, <2>2 DEF IInv
<1>6. ~failed /\ frame = Setup[6] => SetupFrames \subseteq good
  <2> SUFFICES ASSUME ~failed, frame = Setup[6], NEW j \in 1 .. 6 PROVE Setup[j] \in good
    OBVIOUS
  <2>1. j = 6 \/ j < 6
    OBVIOUS
  <2> QED
    BY <1>2, <2>1
<1>7. CASE /\ frame = Setup[6] /\ sensorState' = "INITIALIZED" /\ pc' = "cycle"
           /\ UNCHANGED <<frame, values>>
  <2>1. TrustedUnlessFailed'
    BY <1>3, <1>6, <1>7 DEF IInv, TrustedUnlessFailed
  <2> QED
    BY <1>5, <1>7, <2>1 DEF IInv, TypeOK
<1>8. CASE /\ frame = "MEASURE" /\ values' = IF good = Frames THEN "trusted" ELSE "garbage"
           /\ pc' = "cycle" /\ UNCHANGED <<sensorState, frame>>
  <2>1. ~failed => good = Frames
    <3>1. sensorState = "INITIALIZED"
      BY <1>1, <1>8 DEF IInv, SetupInv
    <3>2. ~failed => SetupFrames \subseteq good /\ "MEASURE" \in good
      BY <1>2, <1>8, <3>1 DEF IInv, TrustedUnlessFailed
    <3>3. good \subseteq Frames
      BY DEF IInv, TypeOK
    <3> QED
      BY <3>2, <3>3
  <2>2. TrustedUnlessFailed'
    BY <1>3, <1>8, <2>1 DEF IInv, TrustedUnlessFailed
  <2> QED
    BY <1>5, <1>8, <2>2 DEF IInv, TypeOK
<1> QED
  BY <1>4, <1>7, <1>8 DEF spinEnds, FrameSent

(* The two callbacks: the one that ends the transfer the task waits for    *)
(* marks it and releases the chip select.                                  *)
LEMMA InterruptKeeps ==
  ASSUME IInv, Interrupt
  PROVE  IInv'
<1> USE FramesFacts
<1>1. /\ spi \in Frames /\ spi' = "ready" /\ UNCHANGED <<sensorState, pc, frame, values>>
      /\ pc = "spin" /\ frame = spi /\ transfer = "TRANSFER_IN_PROGRESS"
  BY DEF Interrupt, onDmaComplete, onDmaError, IInv, TransferInv
<1>2. selected' = FALSE
  BY <1>1 DEF Interrupt, onDmaComplete, onDmaError
<1>3. \/ good' = good \cup {frame} /\ transfer' = "TRANSFER_ENDED" /\ failed' = failed
      \/ good' = good \ {frame} /\ transfer' = "UNEXPECTED_ERROR" /\ failed' = TRUE
  BY <1>1 DEF Interrupt, onDmaComplete, onDmaError
<1>4. TypeOK'
  BY <1>1, <1>2, <1>3 DEF IInv, TypeOK
<1>5. TransferInv' /\ HandOver' /\ SetupInv'
  BY <1>1, <1>2, <1>3 DEF IInv, TransferInv, HandOver, CsFraming, SpinWillEnd, SetupInv
<1>6. ArrivedInv' /\ TrustedUnlessFailed'
  BY <1>1, <1>3 DEF IInv, ArrivedInv, TrustedUnlessFailed
<1> QED
  BY <1>4, <1>5, <1>6 DEF IInv

(* Every step keeps the invariant in a build that reloads.                 *)
LEMMA Invariance == SpinReloads /\ IInv /\ [Next]_vars => IInv'
<1> SUFFICES ASSUME SpinReloads, IInv, [Next]_vars PROVE IInv'
  OBVIOUS
<1> USE SetupFacts, FramesFacts
    DEF IInv, TypeOK, TransferInv, HandOver, CsFraming, SpinWillEnd, SetupInv, ArrivedInv,
        TrustedUnlessFailed
<1>1. CASE initialize
  <2>1. /\ frame' = "CALIB1" /\ pc' = "select" /\ spi' \in {"reset", "ready"}
        /\ sensorState' \in {"UNINITIALIZED", "CALIBRATION_NEED"}
        /\ UNCHANGED <<transfer, selected, good, failed, values>>
    BY <1>1 DEF initialize
  <2>2. \A i, j \in 1 .. 6 : frame' = Setup[i] => ~(j < i)
    BY <2>1
  <2>3. TypeOK' /\ TransferInv' /\ HandOver' /\ SetupInv' /\ TrustedUnlessFailed'
    BY <1>1, <2>1 DEF initialize
  <2>4. ArrivedInv'
    BY <2>1, <2>2
  <2> QED
    BY <2>3, <2>4
<1>2. CASE readMeasurements
  <2>1. TypeOK' /\ TransferInv' /\ HandOver' /\ SetupInv' /\ TrustedUnlessFailed'
    BY <1>2 DEF readMeasurements
  <2>2. ArrivedInv'
    BY <1>2 DEF readMeasurements
  <2> QED
    BY <2>1, <2>2
<1>3. CASE csSelect
  BY <1>3 DEF csSelect
<1>4. CASE markInProgress
  BY <1>4 DEF markInProgress
<1>5. CASE transferStarts
  BY <1>5 DEF transferStarts
<1>6. CASE transferRefused
  BY <1>6 DEF transferRefused
<1>7. CASE spinEnds
  BY <1>7, SpinEndsKeeps
<1>8. CASE Interrupt
  BY <1>8, InterruptKeeps
<1>9. CASE UNCHANGED vars
  BY <1>9 DEF vars
<1> QED
  BY <1>1, <1>2, <1>3, <1>4, <1>5, <1>6, <1>7, <1>8, <1>9 DEF Next, Task

(* In a build that reloads _TransferState, chip select frames every        *)
(* transfer, whichever of task and interrupt releases it, and the task     *)
(* never spins on a transfer that nobody will end.                         *)
THEOREM TransfersHandedOver == ASSUME SpinReloads PROVE Spec => []HandOver
<1>1. IInv => HandOver
  BY DEF IInv
<1>2. IInv /\ [Next]_vars => IInv'
  BY Invariance
<1> QED
  BY <1>1, <1>2, Initially, PTL DEF Spec

(* In such a build, refused set-ups and transfers alone never let the      *)
(* driver pass for calibrated, nor values come from a frame that did not   *)
(* arrive.                                                                 *)
THEOREM ValuesTrusted == ASSUME SpinReloads PROVE Spec => []TrustedUnlessFailed
<1>1. IInv => TrustedUnlessFailed
  BY DEF IInv
<1>2. IInv /\ [Next]_vars => IInv'
  BY Invariance
<1> QED
  BY <1>1, <1>2, Initially, PTL DEF Spec
-----------------------------------------------------------------------------
(* The trimming values that share a byte, for all that the sensor can hold. *)

C == INSTANCE Conversions WITH
       Scratchpads <- {}, Calibrations <- {}, MaxText <- 0, MaxDigits <- 0,
       HTTP_MAX_RESPONSE_LEN <- 0, LAN8742_MAX_DEV_ADDR <- 0, call <- [of |-> "nothing"]

(* A trimming value, cut to twelve bits; sign extension undoes the cut.    *)
Trim == -2048 .. 2047
Word == 0 .. 4095
Cut(v) == v % 4096

LEMMA SignExtends ==
  ASSUME NEW v \in Trim
  PROVE  Cut(v) \in Word /\ C!signExtend12(Cut(v)) = v
<1>1. 2^15 = 32768 /\ 2^16 = 65536
  OBVIOUS
<1>2. CASE v >= 0
  <2>1. v % 4096 = v
    BY <1>2 DEF Trim
  <2>2. (v + 32768) % 65536 = v + 32768
    BY <1>2 DEF Trim
  <2> QED BY <1>1, <1>2, <2>1, <2>2 DEF Trim, Word, Cut, C!signExtend12, C!int16
<1>3. CASE v < 0
  <2>1. v % 4096 = v + 4096
    BY <1>3 DEF Trim
  <2>2. (v + 4096 + 61440 + 32768) % 65536 = v + 32768
    BY <1>3 DEF Trim
  <2> QED BY <1>1, <1>3, <2>1, <2>2 DEF Trim, Word, Cut, C!signExtend12, C!int16
<1> QED
  BY <1>2, <1>3 DEF Trim

(* Two of them in three bytes, put together and taken apart again.         *)
Bytes(a, b) == <<a \div 16, ((b % 16) * 16) + (a % 16), b \div 16>>

LEMMA Nibbles ==
  ASSUME NEW a \in Word, NEW b \in Word
  PROVE  C!digH4(Bytes(a, b)) = C!signExtend12(a) /\ C!digH5(Bytes(a, b)) = C!signExtend12(b)
<1>1. a % 16 \in 0 .. 15 /\ b % 16 \in 0 .. 15
  BY DEF Word
<1>2. a = ((a \div 16) * 16) + (a % 16) /\ b = ((b \div 16) * 16) + (b % 16)
  BY DEF Word
<1>3. /\ (((b % 16) * 16) + (a % 16)) % 16 = a % 16
      /\ (((b % 16) * 16) + (a % 16)) \div 16 = b % 16
  BY <1>1
<1>4. /\ (Bytes(a, b)[1] * 16) + (Bytes(a, b)[2] % 16) = a
      /\ (Bytes(a, b)[3] * 16) + (Bytes(a, b)[2] \div 16) = b
  BY <1>2, <1>3 DEF Bytes
<1> QED
  BY <1>4 DEF C!digH4, C!digH5

(* Both trimming values come out of the three bytes as the sensor holds    *)
(* them, whichever of the 2^24 pairs that is: no nibble of the shared byte *)
(* is taken for the other's, and negative values keep their sign.          *)
THEOREM CalibrationIsExact ==
  ASSUME NEW h4 \in Trim, NEW h5 \in Trim
  PROVE  C!digH4(C!Packed(h4, h5)) = h4 /\ C!digH5(C!Packed(h4, h5)) = h5
<1>1. Cut(h4) \in Word /\ C!signExtend12(Cut(h4)) = h4
  BY SignExtends
<1>2. Cut(h5) \in Word /\ C!signExtend12(Cut(h5)) = h5
  BY SignExtends
<1>3. C!Packed(h4, h5) = Bytes(Cut(h4), Cut(h5))
  BY DEF C!Packed, Bytes, Cut
<1> QED
  BY <1>1, <1>2, <1>3, Nibbles
=============================================================================
