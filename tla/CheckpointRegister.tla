------------------------- MODULE CheckpointRegister -------------------------
(***************************************************************************)
(* What a checkpoint directory is to the caller: a register that holds the *)
(* newest committed generation.  Publishing moves it forward, confirming   *)
(* makes the present value permanent, and a failure can take back only     *)
(* what was published and not confirmed.                                   *)
(***************************************************************************)
EXTENDS Integers

VARIABLES value, confirmed

vars == <<value, confirmed>>

Init == value = 0 /\ confirmed = 0

Publish == value' \in Nat /\ value' > value /\ UNCHANGED confirmed

Confirm == confirmed' = value /\ UNCHANGED value

TakeBack == value' < value /\ value' >= confirmed /\ UNCHANGED confirmed

Next == Publish \/ Confirm \/ TakeBack

Spec == Init /\ [][Next]_vars
=============================================================================
