------------------------ MODULE MCDynamicTNCheckpoint ------------------------
(* Instances of DynamicTNCheckpoint for TLC. *)
EXTENDS DynamicTNCheckpoint, TLC

CONSTANTS r0, r1, s1, s2, l1, o1, o2

\* The second saver is further along the segment.
MCIndex == (s1 :> 1) @@ (s2 :> 2)
=============================================================================
