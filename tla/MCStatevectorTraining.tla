------------------------ MODULE MCStatevectorTraining ------------------------
(* Instances of StatevectorTraining for TLC. *)
EXTENDS StatevectorTraining

CONSTANTS r0, r1, ansatz, other

MCRanks == {r0, r1}
MCCircuits == {ansatz, other}
MCTargets == {3, 4}
=============================================================================
