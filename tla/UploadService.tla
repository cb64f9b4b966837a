---------------------------- MODULE UploadService ----------------------------
(***************************************************************************)
(* What the HTTP client promises the network task: a blocking request that *)
(* ends, and ends with OK only when the server has answered THIS request   *)
(* with a complete, valid header.                                          *)
(***************************************************************************)

VARIABLES
  result,  \* of the last request: "NONE" before the first, "PENDING" during one
  heard    \* has the server answered the request made last?

Init == result = "NONE" /\ heard = FALSE

Post == result # "PENDING" /\ result' = "PENDING" /\ heard' = FALSE

Answer == result = "PENDING" /\ heard' = TRUE /\ UNCHANGED result

Succeed == result = "PENDING" /\ heard /\ result' = "OK" /\ UNCHANGED heard

Fail == result = "PENDING" /\ result' = "FAILED" /\ UNCHANGED heard

Next == Post \/ Answer \/ Succeed \/ Fail

Spec == Init /\ [][Next]_<<result, heard>>
=============================================================================
