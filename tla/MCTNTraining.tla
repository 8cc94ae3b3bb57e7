---------------------------- MODULE MCTNTraining ----------------------------
(* Instances of TNTraining for TLC. *)
EXTENDS TNTraining

CONSTANTS r0, r1

MCRanks == {r0, r1}
=============================================================================
