----------------------------- MODULE LatestValue -----------------------------
(***************************************************************************)
(* What an inter-task channel promises its two tasks: a register that is   *)
(* overwritten by the writer and emptied by the reader.  Numbers written   *)
(* grow, and a read returns the number written last.  Only numbers the     *)
(* reader was too slow for are lost.                                       *)
(***************************************************************************)
EXTENDS Integers

VARIABLES
  published,  \* the number written last, or Nothing
  taken       \* the number read last, or Nothing

Nothing == -1

Init == published = Nothing /\ taken = Nothing

Publish ==
  /\ published' \in Nat
  /\ published' > published
  /\ UNCHANGED taken

Take ==
  /\ taken < published
  /\ taken' = published
  /\ UNCHANGED published

Next == Publish \/ Take

Spec == Init /\ [][Next]_<<published, taken>>
=============================================================================
