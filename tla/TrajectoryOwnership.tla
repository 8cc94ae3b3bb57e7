-------------------------- MODULE TrajectoryOwnership --------------------------
(***************************************************************************)
(* flagquantum/runtime/trajectories/ownership.py and the rules of          *)
(* trajectories/checkpoint.py by which a rank finds its own work: pure     *)
(* operators, used by NoisyStatevector.                                    *)
(***************************************************************************)
EXTENDS Integers, FiniteSets, FiniteSetsExt

CONSTANT Count    \* the requested number of trajectories

ASSUME CountAssumption == Count \in Nat \ {0}

\* Global trajectory identifiers.
Ids == 0..(Count - 1)

\* Deviation: contiguous blocks, each with the first identifier of the next.
Owned_Blocks(rank, size) ==
    {i \in Ids : /\ i >= (rank * Count) \div size
                 /\ i <= ((rank + 1) * Count) \div size}

\* Deviation: the range includes its end.
Owned_Inclusive(rank, size) == {rank + k * size : k \in 0..Count} \cap 0..Count

\* owned_trajectory_ids: range(rank, count, world_size).
Owned(rank, size) == {rank + k * size : k \in 0..Count} \cap Ids

\* A checkpoint: the completed identifiers, how often each identifier's sample
\* was added to the moments, and the identifiers that failed.
Checkpoints == [done : SUBSET Ids, moments : [Ids -> Nat], failed : SUBSET Ids]

\* TrajectoryCheckpoint.pending_ids; every failure the runners record is
\* retryable, so only retry_failed tells failures apart.
Pending(checkpoint, owned, retry) ==
    owned \ (checkpoint.done \cup (IF retry THEN {} ELSE checkpoint.failed))

\* The number of samples in the moments: TensorWelford.count.
Samples(moments) == MapThenSumSet(LAMBDA i : moments[i], Ids)

\* TrajectoryCheckpoint.__post_init__: what it refuses to construct or load.
Valid(checkpoint) ==
    /\ Samples(checkpoint.moments) = Cardinality(checkpoint.done)
    /\ checkpoint.done \cap checkpoint.failed = {}
    /\ checkpoint.done \cup checkpoint.failed \subseteq Ids

Empty == [done |-> {}, moments |-> [i \in Ids |-> 0], failed |-> {}]

\* TensorWelford.update with the sample of every member of ids.
Added(moments, ids) == [i \in Ids |-> IF i \in ids THEN moments[i] + 1 ELSE moments[i]]
=============================================================================
