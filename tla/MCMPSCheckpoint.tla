-------------------------- MODULE MCMPSCheckpoint --------------------------
(* Instances of MPSCheckpoint for TLC. *)
EXTENDS MPSCheckpoint

CONSTANTS r0, r1
=============================================================================
