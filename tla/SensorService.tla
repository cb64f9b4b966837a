--------------------------- MODULE SensorService ---------------------------
(***************************************************************************)
(* What the DS18B20 driver promises the sensors task, which polls          *)
(* isSensorReady, reads getTemperature and calls startMeasure: a reading   *)
(* that can be taken is the result of the measurement started last, or the *)
(* sentinel.  Between start and end there is nothing to read.              *)
(*                                                                         *)
(* The driver does not verify what it sent.  Noise that nothing it checks  *)
(* refuses makes the measurement garbled, and only a garbled measurement   *)
(* may end with an old temperature: one it did not measure.                *)
(***************************************************************************)

VARIABLES
  reading,  \* "off", "measuring", or what getTemperature would return
  garbled   \* has such noise hit the measurement started last?

INVALID_TEMP == "INVALID_TEMP"
Result == {"current", "old", INVALID_TEMP}

Init == reading = "off" /\ garbled = FALSE

(* Set-up leaves the sentinel to be read.                                  *)
Boot == reading = "off" /\ reading' = INVALID_TEMP /\ UNCHANGED garbled

Start == reading \in Result /\ reading' = "measuring" /\ garbled' = FALSE

Garble == reading = "measuring" /\ garbled' = TRUE /\ UNCHANGED reading

(* The noise may be in the very bytes the measurement ends with.           *)
Finish ==
  /\ reading = "measuring"
  /\ reading' \in Result
  /\ garbled' \in {garbled, TRUE}
  /\ reading' = "old" => garbled'

(* An error with no measurement running withdraws the last value.          *)
Withdraw == reading \in {"current", "old"} /\ reading' = INVALID_TEMP /\ UNCHANGED garbled

Next == Boot \/ Start \/ Garble \/ Finish \/ Withdraw

Spec == Init /\ [][Next]_<<reading, garbled>>
=============================================================================
