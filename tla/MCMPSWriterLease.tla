-------------------------- MODULE MCMPSWriterLease --------------------------
(* Instances of MPSWriterLease for TLC. *)
EXTENDS MPSWriterLease

CONSTANTS j1, j2, j3

\* Every job runs the same experiment; j1 and j3 share a host.
MCHostOf == [j \in Jobs |-> IF j = j2 THEN j2 ELSE j3]
MCContract == [j \in Jobs |-> 1]
=============================================================================
