---------------------------- MODULE ConversionsMC ----------------------------
(***************************************************************************)
(* The scratchpads of the DS18B20's data sheet: the power-on value, 85     *)
(* degrees, and 25.0625 degrees below zero.  Trimming values of two        *)
(* sensors; T1 to T3 of the first are those of the BME280's data sheet.    *)
(***************************************************************************)
EXTENDS Conversions

MCScratchpads == {<<80, 5, 75, 70, 127, 255, 12, 16, 28>>,
                  <<111, 254, 75, 70, 127, 255, 1, 16, 97>>}

MCCalibrations == {
  [T1 |-> 27504, T2 |-> 26435, T3 |-> -1000,
   H1 |-> 75, H2 |-> 362, H3 |-> 0, H4 |-> 315, H5 |-> 50, H6 |-> 30],
  [T1 |-> 28485, T2 |-> 26735, T3 |-> 50,
   H1 |-> 75, H2 |-> 353, H3 |-> 0, H4 |-> 340, H5 |-> 0, H6 |-> 30]}
=============================================================================
