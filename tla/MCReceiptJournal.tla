-------------------------- MODULE MCReceiptJournal --------------------------
(* Instances of ReceiptJournal for TLC. *)
EXTENDS ReceiptJournal, TLC

CONSTANTS c1, c2, r1, r2, qpu

\* Two requests for the same target: only the journal can tell them apart.
MCTargetOf == (r1 :> qpu) @@ (r2 :> qpu)
=============================================================================
