-------------------------- MODULE MPSCheckpointProofs --------------------------
(***************************************************************************)
(* Proofs about MPSCheckpoint, for any number of ranks, steps, attempts    *)
(* and power losses.                                                       *)
(***************************************************************************)
EXTENDS MPSCheckpoint, FiniteSetTheorems, WellFoundedInduction, TLAPS

Labels == Collectives \cup Local \cup Ended
Saving == {"saveShard", "saveSide", "syncShard", "gather"}
Committing == {"publish", "syncManifest", "barrier"}
Pruning == {"prune", "unlinkShard", "unlinkSide", "pruned"}
Active == {"train"} \cup Saving \cup Committing \cup Pruning

At(r, labels) == pc[r] \in labels

\* Nobody trains beyond the target, and a generation is never step 0.
Stepping ==
    \A r \in Ranks : /\ At(r, {"train"}) => step[r] < Steps
                     /\ At(r, Saving \cup Committing \cup Pruning) => step[r] \in Gens
                     /\ At(r, Active) => attempt \in Attempts
                     /\ At(r, {"restore"}) => attempt \in Attempts /\ manifest # NoManifest

\* Ranks past the restore are at one step and have loaded one attempt's shards.
Together ==
    \A r, p \in Ranks : At(r, Active) /\ At(p, Active) =>
                            step[r] = step[p] /\ loaded[r] = loaded[p]

\* A rank that has saved its shard has this attempt's; rank 0 gathered those.
SavedOwn ==
    /\ \A r \in Ranks : At(r, {"saveSide", "syncShard", "gather"}) => shard[<<r, step[r]>>] = attempt
    /\ At(Leader, {"publish"}) => \A r \in Ranks : records[r] = attempt

IInv == TypeOK /\ Stepping /\ Together /\ SavedOwn /\ OneAttemptPerGeneration
-----------------------------------------------------------------------------
LEMMA Options ==
    /\ Leader \in Ranks /\ Steps \in Nat /\ Steps > 0 /\ Interval \in Nat \ {0}
    /\ MaxAttempts \in Nat /\ MaxLosses \in Nat /\ NoManifest \notin Manifests
BY RanksAssumption, OptionsAssumption, ManifestAssumption

LEMMA ManifestRecord ==
    \A m \in Manifests : m.step \in Gens /\ m.sha \in [Ranks -> Attempts]
BY DEF Manifests

LEMMA NextStopLabel ==
    ASSUME NEW s \in 0..Steps
    PROVE  NextStop(s) \in {"train", "done"} /\ (NextStop(s) = "train" => s < Steps)
BY Options DEF NextStop

LEMMA InvInit == Init => IInv
<1> SUFFICES ASSUME Init PROVE IInv
  OBVIOUS
<1>1. TypeOK
  BY Options DEF Init, TypeOK, Ended
<1>2. Stepping /\ Together /\ SavedOwn /\ OneAttemptPerGeneration
  BY Options DEF Init, Stepping, Together, SavedOwn, OneAttemptPerGeneration, At, Active,
                 Saving, Committing, Pruning
<1> QED
  BY <1>1, <1>2 DEF IInv

LEMMA StartStep ==
    ASSUME IInv, NEW resume \in BOOLEAN, NEW overwrite \in AllowOverwrite, Start(resume, overwrite)
    PROVE  IInv'
<1>1. /\ \A r \in Ranks : /\ pc'[r] = IF resume THEN "restore" ELSE "train"
                          /\ step'[r] = 0 /\ loaded'[r] = 0
      /\ attempt' = attempt + 1 /\ attempt < MaxAttempts /\ attempt \in 0..MaxAttempts
      /\ overwrite \in BOOLEAN
      /\ resume => manifest # NoManifest
      /\ manifest' = manifest /\ dManifest' = dManifest
  BY OptionsAssumption DEF Start, AllGoto, storage, durable, PolicyAllows, IInv, TypeOK
<1>2. attempt' \in Attempts
  BY <1>1, Options DEF Attempts
<1>3. TypeOK'
  <2>1. pc' \in [Ranks -> Collectives \cup Local \cup Ended]
    BY DEF Start, AllGoto, Collectives
  <2>2. step' \in [Ranks -> 0..Steps] /\ loaded' \in [Ranks -> 0..MaxAttempts]
        /\ records' \in [Ranks -> 0..MaxAttempts] /\ doomed' \in [Ranks -> SUBSET Gens]
    BY Options DEF Start
  <2>3. attempt' \in 0..MaxAttempts
    BY <1>2 DEF Attempts
  <2> QED
    BY <2>1, <2>2, <2>3 DEF Start, storage, durable, IInv, TypeOK
<1>4. Stepping'
  BY <1>1, <1>2, Options DEF Stepping, At, Saving, Committing, Pruning
<1>5. Together'
  BY <1>1 DEF Together
<1>6. SavedOwn'
  BY <1>1, Options DEF SavedOwn, At
<1>7. OneAttemptPerGeneration'
  BY <1>1 DEF IInv, OneAttemptPerGeneration
<1> QED
  BY <1>3, <1>4, <1>5, <1>6, <1>7 DEF IInv

LEMMA RestoreStep == ASSUME IInv, Restore PROVE IInv'
<1>1. \A r \in Ranks : pc[r] = "restore"
  BY DEF Restore, All
<1>2. manifest \in Manifests /\ attempt \in Attempts
  BY <1>1, Options DEF IInv, TypeOK, Stepping, At
<1>3. UNCHANGED <<shard, side, manifest, durable, attempt, records, doomed, acked, losses>>
  BY DEF Restore, storage
<1>4. CASE \A r \in Ranks : Preflight(r) /\ SidecarMatches(r)
  <2>1. \A r \in Ranks : /\ loaded'[r] = manifest.sha[r] /\ step'[r] = manifest.step
                         /\ pc'[r] = NextStop(manifest.step)
    BY <1>4 DEF Restore, AllGoto, Preflight
  <2>2. /\ manifest.step \in 0..Steps
        /\ NextStop(manifest.step) \in {"train", "done"}
        /\ NextStop(manifest.step) = "train" => manifest.step < Steps
    BY <1>2, ManifestRecord, NextStopLabel DEF Gens
  <2>3. TypeOK'
    <3>1. pc' \in [Ranks -> Collectives \cup Local \cup Ended]
      BY <1>4, <2>2 DEF Restore, AllGoto, Collectives, Ended
    <3>2. step' \in [Ranks -> 0..Steps]
      BY <1>4, <2>2 DEF Restore
    <3>3. loaded' \in [Ranks -> 0..MaxAttempts]
      <4>1. loaded' = [r \in Ranks |-> shard[<<r, manifest.step>>]]
        BY <1>4 DEF Restore
      <4>2. \A r \in Ranks : loaded'[r] \in 0..MaxAttempts
        BY <1>2, <2>1, ManifestRecord DEF Attempts
      <4> QED
        BY <4>1, <4>2
    <3> QED
      BY <1>3, <3>1, <3>2, <3>3 DEF durable, IInv, TypeOK
  <2>4. Stepping'
    BY <1>2, <1>3, <2>1, <2>2 DEF Stepping, At, Saving, Committing, Pruning
  <2>5. Together'
    <3>1. \A r, p \in Ranks : manifest.sha[r] = manifest.sha[p]
      BY <1>2, Options DEF IInv, OneAttemptPerGeneration
    <3> QED
      BY <2>1, <3>1 DEF Together
  <2>6. SavedOwn'
    BY <2>1, <2>2, Options DEF SavedOwn, At
  <2>7. OneAttemptPerGeneration'
    BY <1>3 DEF durable, IInv, OneAttemptPerGeneration
  <2> QED
    BY <2>3, <2>4, <2>5, <2>6, <2>7 DEF IInv
<1>5. CASE ~(\A r \in Ranks : Preflight(r) /\ SidecarMatches(r))
  <2>1. pc' = [r \in Ranks |-> "down"] /\ UNCHANGED <<loaded, step>>
    BY <1>5 DEF Restore, AllGoto
  <2>2. TypeOK'
    BY <1>3, <2>1 DEF durable, IInv, TypeOK, Ended
  <2>3. Stepping' /\ Together' /\ SavedOwn'
    BY <2>1, Options DEF Stepping, Together, SavedOwn, At, Active, Saving, Committing, Pruning
  <2>4. OneAttemptPerGeneration'
    BY <1>3 DEF durable, IInv, OneAttemptPerGeneration
  <2> QED
    BY <2>2, <2>3, <2>4 DEF IInv
<1> QED
  BY <1>4, <1>5

LEMMA TrainStepStep == ASSUME IInv, TrainStep PROVE IInv'
<1>1. \A r \in Ranks : pc[r] = "train" /\ step[r] < Steps /\ attempt \in Attempts
  BY DEF TrainStep, All, IInv, Stepping, At, Active
<1>2. \A r \in Ranks : step'[r] = step[r] + 1 /\ step'[r] \in Gens
  <2>1. \A r \in Ranks : step'[r] = step[r] + 1 /\ step[r] \in 0..Steps
    BY DEF TrainStep, IInv, TypeOK
  <2> QED
    BY <1>1, <2>1, Options DEF Gens
<1>3. UNCHANGED <<shard, side, manifest, durable, attempt, loaded, records, doomed, acked, losses>>
  BY DEF TrainStep, storage
<1>4. \A r \in Ranks : /\ pc'[r] \in {"saveShard", "train", "done"}
                       /\ pc'[r] = "train" => step'[r] < Steps
  <2> SUFFICES ASSUME NEW r \in Ranks
               PROVE  /\ pc'[r] \in {"saveShard", "train", "done"}
                      /\ pc'[r] = "train" => step'[r] < Steps
    OBVIOUS
  <2>1. pc'[r] = "saveShard" \/ pc'[r] = NextStop(step'[r])
    BY DEF TrainStep
  <2>2. step'[r] \in 0..Steps
    BY <1>2 DEF Gens
  <2> QED
    BY <2>1, <2>2, NextStopLabel
<1>5. TypeOK'
  <2>1. step' \in [Ranks -> 0..Steps]
    BY <1>2 DEF TrainStep, Gens
  <2>2. pc' \in [Ranks -> Collectives \cup Local \cup Ended]
    BY <1>4 DEF TrainStep, Collectives, Local, Ended
  <2> QED
    BY <1>3, <2>1, <2>2 DEF durable, IInv, TypeOK
<1>6. Stepping'
  BY <1>1, <1>2, <1>3, <1>4 DEF Stepping, At, Saving, Committing, Pruning
<1>7. Together'
  BY <1>1, <1>2, <1>3 DEF IInv, Together, At, Active
<1>8. SavedOwn'
  BY <1>4, Options DEF SavedOwn, At
<1>9. OneAttemptPerGeneration'
  BY <1>3 DEF durable, IInv, OneAttemptPerGeneration
<1> QED
  BY <1>5, <1>6, <1>7, <1>8, <1>9 DEF IInv

\* A rank that moves on or ends, on its own and without joining the training.
LEMMA RankMoves ==
    ASSUME IInv, NEW r \in Ranks, NEW label \in Labels, Goto(r, label),
           label \notin {"train", "restore"},
           label \in Active => pc[r] \in Active \ {"train"},
           UNCHANGED <<attempt, step, loaded, manifest>>
    PROVE  pc' \in [Ranks -> Labels] /\ Stepping' /\ Together'
<1>1. pc' \in [Ranks -> Labels]
  BY DEF Goto, IInv, TypeOK, Labels
<1>2. \A q \in Ranks : pc'[q] = IF q = r THEN label ELSE pc[q]
  BY DEF Goto, IInv, TypeOK
<1>3. \A q \in Ranks : pc'[q] \in Active => pc[q] \in Active
  BY <1>2
<1>4. Stepping'
  <2>1. \A q \in Ranks : /\ pc'[q] \in Saving \cup Committing \cup Pruning =>
                                pc[q] \in Saving \cup Committing \cup Pruning
                         /\ pc'[q] \in {"train", "restore"} => pc'[q] = pc[q]
    BY <1>2 DEF Active
  <2> QED
    BY <1>3, <2>1 DEF IInv, Stepping, At
<1>5. Together'
  BY <1>3 DEF IInv, Together, At
<1> QED
  BY <1>1, <1>4, <1>5

LEMMA SaveShardStep == ASSUME IInv, NEW r \in Ranks, SaveShard(r) PROVE IInv'
<1>1. /\ UNCHANGED <<side, manifest, dShard, dSide, dManifest, attempt, step, loaded, records,
                     doomed, acked, losses>>
      /\ shard' = [shard EXCEPT ![<<r, step[r]>>] = attempt]
      /\ Goto(r, "saveSide") /\ pc[r] = "saveShard"
  BY DEF SaveShard, durable, File
<1>2. pc' \in [Ranks -> Labels] /\ Stepping' /\ Together'
  BY <1>1, RankMoves DEF Labels, Local, Active, Saving
<1>3. TypeOK'
  BY <1>1, <1>2 DEF IInv, TypeOK, Labels
<1>4. SavedOwn'
  <2>1. \A q \in Ranks : pc'[q] = IF q = r THEN "saveSide" ELSE pc[q]
    BY <1>1 DEF Goto, IInv, TypeOK
  <2>2. <<r, step[r]>> \in Ranks \X Gens
    BY <1>1 DEF IInv, Stepping, At, Saving
  <2>3. shard'[<<r, step[r]>>] = attempt
    BY <1>1, <2>2 DEF IInv, TypeOK
  <2>4. \A q \in Ranks : q # r => shard'[<<q, step[q]>>] = shard[<<q, step[q]>>]
    <3> SUFFICES ASSUME NEW q \in Ranks, q # r
                 PROVE  shard'[<<q, step[q]>>] = shard[<<q, step[q]>>]
      OBVIOUS
    <3>1. <<q, step[q]>> # <<r, step[r]>>
      OBVIOUS
    <3> QED
      BY <1>1, <3>1 DEF IInv, TypeOK
  <2> QED
    BY <1>1, <2>1, <2>3, <2>4, Options DEF IInv, SavedOwn, At
<1>5. OneAttemptPerGeneration'
  BY <1>1 DEF IInv, OneAttemptPerGeneration
<1> QED
  BY <1>2, <1>3, <1>4, <1>5 DEF IInv

LEMMA SaveSideStep == ASSUME IInv, NEW r \in Ranks, SaveSide(r) PROVE IInv'
<1>1. /\ UNCHANGED <<shard, manifest, dShard, dSide, dManifest, attempt, step, loaded, records,
                     doomed, acked, losses>>
      /\ side' = [side EXCEPT ![<<r, step[r]>>] = attempt]
      /\ Goto(r, "syncShard") /\ pc[r] = "saveSide"
  BY DEF SaveSide, durable, File
<1>2. pc' \in [Ranks -> Labels] /\ Stepping' /\ Together'
  BY <1>1, RankMoves DEF Labels, Local, Active, Saving
<1>3. TypeOK'
  BY <1>1, <1>2 DEF IInv, TypeOK, Labels
<1>4. SavedOwn'
  <2>1. \A q \in Ranks : pc'[q] = IF q = r THEN "syncShard" ELSE pc[q]
    BY <1>1 DEF Goto, IInv, TypeOK
  <2> QED
    BY <1>1, <2>1, Options DEF IInv, SavedOwn, At
<1>5. OneAttemptPerGeneration'
  BY <1>1 DEF IInv, OneAttemptPerGeneration
<1> QED
  BY <1>2, <1>3, <1>4, <1>5 DEF IInv

\* A directory fsync makes files durable that are there: the types stay.
LEMMA FsyncTypes ==
    ASSUME IInv, NEW r \in Ranks, FsyncDirectory(r), UNCHANGED <<shard, side, manifest>>
    PROVE  /\ dShard' \in [Ranks \X Gens -> 0..MaxAttempts]
           /\ dSide' \in [Ranks \X Gens -> 0..MaxAttempts]
           /\ dManifest' \in {manifest, dManifest}
           /\ OneAttemptPerGeneration'
<1>1. dShard' \in [Ranks \X Gens -> 0..MaxAttempts] /\ dSide' \in [Ranks \X Gens -> 0..MaxAttempts]
  <2>1. \A f \in Ranks \X Gens : /\ shard[f] \in 0..MaxAttempts /\ dShard[f] \in 0..MaxAttempts
                                 /\ side[f] \in 0..MaxAttempts /\ dSide[f] \in 0..MaxAttempts
    BY DEF IInv, TypeOK
  <2> QED
    BY <2>1 DEF FsyncDirectory
<1>2. dManifest' \in {manifest, dManifest}
  BY DEF FsyncDirectory
<1>3. OneAttemptPerGeneration'
  BY <1>2 DEF IInv, OneAttemptPerGeneration
<1> QED
  BY <1>1, <1>2, <1>3

LEMMA SyncShardStep == ASSUME IInv, NEW r \in Ranks, SyncShard(r) PROVE IInv'
<1>1. /\ UNCHANGED <<shard, side, manifest, attempt, step, loaded, records, doomed, acked, losses>>
      /\ FsyncDirectory(r)
      /\ Goto(r, "gather") /\ pc[r] = "syncShard"
  BY DEF SyncShard
<1>2. pc' \in [Ranks -> Labels] /\ Stepping' /\ Together'
  BY <1>1, RankMoves DEF Labels, Collectives, Active, Saving
<1>3. TypeOK' /\ OneAttemptPerGeneration'
  BY <1>1, <1>2, FsyncTypes DEF IInv, TypeOK, Labels
<1>4. SavedOwn'
  <2>1. \A q \in Ranks : pc'[q] = IF q = r THEN "gather" ELSE pc[q]
    BY <1>1 DEF Goto, IInv, TypeOK
  <2> QED
    BY <1>1, <2>1, Options DEF IInv, SavedOwn, At
<1> QED
  BY <1>2, <1>3, <1>4 DEF IInv

LEMMA CommitGatherStep == ASSUME IInv, CommitGather PROVE IInv'
<1>1. /\ UNCHANGED <<shard, side, manifest, dShard, dSide, dManifest, attempt, step, loaded,
                     doomed, acked, losses>>
      /\ \A r \in Ranks : pc[r] = "gather"
      /\ records' = [r \in Ranks |-> shard[<<r, step[r]>>]]
  BY DEF CommitGather, storage, durable, All, File
<1>2. \A r \in Ranks : records'[r] = attempt
  BY <1>1 DEF IInv, SavedOwn, At
<1>3. \/ pc' = [r \in Ranks |-> IF r = Leader THEN "publish" ELSE "barrier"]
      \/ pc' = [r \in Ranks |-> "down"]
  BY DEF CommitGather, AllGoto
<1>4. TypeOK'
  <2>1. records' \in [Ranks -> 0..MaxAttempts]
    <3>1. records' = [r \in Ranks |-> records'[r]] /\ attempt \in 0..MaxAttempts
      BY <1>1 DEF IInv, TypeOK
    <3> QED
      BY <1>2, <3>1
  <2>2. pc' \in [Ranks -> Collectives \cup Local \cup Ended]
    BY <1>3 DEF Collectives, Local, Ended
  <2> QED
    BY <1>1, <2>1, <2>2 DEF IInv, TypeOK
<1>5. \A r \in Ranks : pc'[r] \in {"publish", "barrier", "down"}
  BY <1>3
<1>6. Stepping' /\ Together'
  <2>1. \A r \in Ranks : pc[r] \in Active /\ pc[r] \in Saving
    BY <1>1 DEF Active, Saving
  <2>2. Stepping'
    BY <1>1, <1>5, <2>1 DEF IInv, Stepping, At
  <2>3. Together'
    BY <1>1, <2>1 DEF IInv, Together, At
  <2> QED
    BY <2>2, <2>3
<1>7. SavedOwn'
  BY <1>1, <1>2, <1>5, Options DEF SavedOwn, At
<1>8. OneAttemptPerGeneration'
  BY <1>1 DEF IInv, OneAttemptPerGeneration
<1> QED
  BY <1>4, <1>6, <1>7, <1>8 DEF IInv

\* A published manifest is one: of a generation, with this attempt's digests.
LEMMA PublishedManifest ==
    ASSUME IInv, Publish
    PROVE  manifest' \in Manifests /\ \A r \in Ranks : records[r] = attempt
<1>1. pc[Leader] = "publish" /\ manifest' = [step |-> step[Leader], sha |-> records]
  BY DEF Publish
<1>2. \A r \in Ranks : records[r] = attempt
  BY <1>1 DEF IInv, SavedOwn, At
<1>3. step[Leader] \in Gens /\ attempt \in Attempts
  BY <1>1, Options DEF IInv, Stepping, At, Committing, Active
<1>4. records \in [Ranks -> Attempts]
  <2>1. records = [r \in Ranks |-> records[r]]
    BY DEF IInv, TypeOK
  <2> QED
    BY <1>2, <1>3, <2>1
<1>5. manifest' \in Manifests
  BY <1>1, <1>3, <1>4 DEF Manifests
<1> QED
  BY <1>2, <1>5

LEMMA PublishStep == ASSUME IInv, Publish PROVE IInv'
<1>1. /\ UNCHANGED <<shard, side, dShard, dSide, dManifest, attempt, step, loaded, records,
                     doomed, acked, losses>>
      /\ pc[Leader] = "publish" /\ Goto(Leader, "syncManifest")
      /\ manifest' = [step |-> step[Leader], sha |-> records]
  BY DEF Publish, durable
<1>2. \A r \in Ranks : records[r] = attempt
  BY PublishedManifest
<1>3. manifest' \in Manifests
  BY PublishedManifest
<1>4. \A q \in Ranks : pc'[q] = IF q = Leader THEN "syncManifest" ELSE pc[q]
  BY <1>1 DEF Goto, IInv, TypeOK
<1>5. TypeOK'
  <2>1. pc' \in [Ranks -> Collectives \cup Local \cup Ended]
    BY <1>1, Options DEF Goto, IInv, TypeOK, Local
  <2> QED
    BY <1>1, <1>3, <2>1 DEF IInv, TypeOK
<1>6. Stepping'
  <2>1. manifest' # NoManifest
    BY <1>3, Options
  <2> QED
    BY <1>1, <1>4, <2>1, Options DEF IInv, Stepping, At, Active, Committing
<1>7. Together'
  <2>1. \A q \in Ranks : pc'[q] \in Active => pc[q] \in Active
    BY <1>1, <1>4 DEF Active, Committing
  <2> QED
    BY <1>1, <2>1 DEF IInv, Together, At
<1>8. SavedOwn'
  BY <1>1, <1>4, Options DEF IInv, SavedOwn, At
<1>9. OneAttemptPerGeneration'
  <2>1. manifest'.sha = records
    BY <1>1
  <2> QED
    BY <1>1, <1>2, <2>1 DEF IInv, OneAttemptPerGeneration
<1> QED
  BY <1>5, <1>6, <1>7, <1>8, <1>9 DEF IInv

LEMMA SyncManifestStep == ASSUME IInv, SyncManifest PROVE IInv'
<1>1. /\ UNCHANGED <<shard, side, manifest, attempt, step, loaded, records, doomed, acked, losses>>
      /\ FsyncDirectory(Leader)
      /\ Goto(Leader, "barrier") /\ pc[Leader] = "syncManifest"
  BY DEF SyncManifest
<1>2. pc' \in [Ranks -> Labels] /\ Stepping' /\ Together'
  BY <1>1, RankMoves, Options DEF Labels, Collectives, Active, Committing
<1>3. TypeOK' /\ OneAttemptPerGeneration'
  BY <1>1, <1>2, FsyncTypes, Options DEF IInv, TypeOK, Labels
<1>4. SavedOwn'
  <2>1. \A q \in Ranks : pc'[q] = IF q = Leader THEN "barrier" ELSE pc[q]
    BY <1>1 DEF Goto, IInv, TypeOK
  <2> QED
    BY <1>1, <2>1, Options DEF IInv, SavedOwn, At
<1> QED
  BY <1>2, <1>3, <1>4 DEF IInv

LEMMA CommitBarrierStep == ASSUME IInv, CommitBarrier PROVE IInv'
<1>1. /\ UNCHANGED <<shard, side, manifest, dShard, dSide, dManifest, attempt, step, loaded,
                     records, doomed, losses>>
      /\ \A r \in Ranks : pc[r] = "barrier" /\ pc'[r] = "prune"
      /\ pc' = [r \in Ranks |-> "prune"]
      /\ acked' = step[Leader]
  BY DEF CommitBarrier, storage, durable, All, AllGoto
<1>2. TypeOK'
  <2>1. step[Leader] \in 0..Steps
    BY Options DEF IInv, TypeOK
  <2>2. pc' \in [Ranks -> Collectives \cup Local \cup Ended]
    BY <1>1 DEF Local
  <2> QED
    BY <1>1, <2>1, <2>2 DEF IInv, TypeOK
<1>3. Stepping' /\ Together' /\ SavedOwn'
  BY <1>1, Options DEF IInv, Stepping, Together, SavedOwn, At, Active, Committing
<1>4. OneAttemptPerGeneration'
  BY <1>1 DEF IInv, OneAttemptPerGeneration
<1> QED
  BY <1>2, <1>3, <1>4 DEF IInv

\* What an own move of a rank leaves to show when it does not save or publish.
LEMMA QuietMove ==
    ASSUME IInv, NEW r \in Ranks, NEW label \in Labels, Goto(r, label),
           label \notin {"train", "restore", "saveSide", "syncShard", "gather", "publish"},
           label \in Active => pc[r] \in Active \ {"train"},
           UNCHANGED <<manifest, dManifest, attempt, step, loaded, records, acked>>,
           \A q \in Ranks : pc[q] \in {"saveSide", "syncShard", "gather"} /\ q # r =>
                                shard'[<<q, step[q]>>] = shard[<<q, step[q]>>],
           shard' \in [Ranks \X Gens -> 0..MaxAttempts],
           side' \in [Ranks \X Gens -> 0..MaxAttempts],
           dShard' \in [Ranks \X Gens -> 0..MaxAttempts],
           dSide' \in [Ranks \X Gens -> 0..MaxAttempts],
           doomed' \in [Ranks -> SUBSET Gens], losses' \in 0..MaxLosses
    PROVE  IInv'
<1>1. pc' \in [Ranks -> Labels] /\ Stepping' /\ Together'
  BY RankMoves
<1>2. TypeOK'
  BY <1>1 DEF IInv, TypeOK, Labels
<1>3. SavedOwn'
  <2>1. \A q \in Ranks : pc'[q] = IF q = r THEN label ELSE pc[q]
    BY DEF Goto, IInv, TypeOK
  <2> QED
    BY <2>1, Options DEF IInv, SavedOwn, At
<1>4. OneAttemptPerGeneration'
  BY DEF IInv, OneAttemptPerGeneration
<1> QED
  BY <1>1, <1>2, <1>3, <1>4 DEF IInv

LEMMA PruneStep == ASSUME IInv, NEW r \in Ranks, Prune(r) PROVE IInv'
<1>1. /\ UNCHANGED <<shard, side, manifest, dShard, dSide, dManifest, attempt, step, loaded,
                     records, acked, losses>>
      /\ Goto(r, "unlinkShard") /\ pc[r] = "prune"
  BY DEF Prune, storage, durable
<1>2. doomed' \in [Ranks -> SUBSET Gens]
  <2>1. Saved(r) \subseteq Gens
    BY DEF Saved
  <2> QED
    BY <2>1 DEF Prune, IInv, TypeOK
<1>3. /\ shard' \in [Ranks \X Gens -> 0..MaxAttempts] /\ side' \in [Ranks \X Gens -> 0..MaxAttempts]
      /\ dShard' \in [Ranks \X Gens -> 0..MaxAttempts] /\ dSide' \in [Ranks \X Gens -> 0..MaxAttempts]
      /\ losses' \in 0..MaxLosses
  BY <1>1 DEF IInv, TypeOK
<1>4. "unlinkShard" \in Labels /\ pc[r] \in Active \ {"train"}
  BY <1>1 DEF Labels, Local, Active, Pruning
<1> QED
  BY <1>1, <1>2, <1>3, <1>4, QuietMove

LEMMA UnlinkShardStep ==
    ASSUME IInv, NEW r \in Ranks, NEW s \in Gens, UnlinkShard(r, s) PROVE IInv'
<1>1. /\ UNCHANGED <<side, manifest, dShard, dSide, dManifest, attempt, step, loaded, records,
                     doomed, acked, losses>>
      /\ Goto(r, "unlinkSide") /\ pc[r] = "unlinkShard"
      /\ shard' = [shard EXCEPT ![<<r, s>>] = 0]
  BY DEF UnlinkShard, durable
<1>2. \A q \in Ranks : pc[q] \in {"saveSide", "syncShard", "gather"} /\ q # r =>
                           shard'[<<q, step[q]>>] = shard[<<q, step[q]>>]
  BY <1>1 DEF IInv, TypeOK, Stepping, At, Saving
<1>3. /\ shard' \in [Ranks \X Gens -> 0..MaxAttempts] /\ side' \in [Ranks \X Gens -> 0..MaxAttempts]
      /\ dShard' \in [Ranks \X Gens -> 0..MaxAttempts] /\ dSide' \in [Ranks \X Gens -> 0..MaxAttempts]
      /\ doomed' \in [Ranks -> SUBSET Gens] /\ losses' \in 0..MaxLosses
  BY <1>1, Options DEF IInv, TypeOK
<1>4. "unlinkSide" \in Labels /\ pc[r] \in Active \ {"train"}
  BY <1>1 DEF Labels, Local, Active, Pruning
<1> QED
  BY <1>1, <1>2, <1>3, <1>4, QuietMove

LEMMA UnlinkSideStep ==
    ASSUME IInv, NEW r \in Ranks, NEW s \in Gens, UnlinkSide(r, s) PROVE IInv'
<1>1. /\ UNCHANGED <<shard, manifest, dShard, dSide, dManifest, attempt, step, loaded, records,
                     acked, losses>>
      /\ Goto(r, "unlinkShard") /\ pc[r] = "unlinkSide"
      /\ side' = [side EXCEPT ![<<r, s>>] = 0]
      /\ doomed' = [doomed EXCEPT ![r] = @ \ {s}]
  BY DEF UnlinkSide, durable
<1>2. /\ shard' \in [Ranks \X Gens -> 0..MaxAttempts] /\ side' \in [Ranks \X Gens -> 0..MaxAttempts]
      /\ dShard' \in [Ranks \X Gens -> 0..MaxAttempts] /\ dSide' \in [Ranks \X Gens -> 0..MaxAttempts]
      /\ losses' \in 0..MaxLosses
  BY <1>1, Options DEF IInv, TypeOK
<1>3. doomed' \in [Ranks -> SUBSET Gens]
  BY <1>1 DEF IInv, TypeOK
<1>4. "unlinkShard" \in Labels /\ pc[r] \in Active \ {"train"}
  BY <1>1 DEF Labels, Local, Active, Pruning
<1> QED
  BY <1>1, <1>2, <1>3, <1>4, QuietMove

\* The steps by which one rank only moves on: PruneEnds, Crash, CollectiveTimeout.
LEMMA MoveStep ==
    ASSUME IInv, NEW r \in Ranks, PruneEnds(r) \/ Crash(r) \/ CollectiveTimeout(r)
    PROVE  IInv'
<1>1. /\ UNCHANGED <<shard, side, manifest, dShard, dSide, dManifest, attempt, step, loaded,
                     records, doomed, acked, losses>>
      /\ Goto(r, "down") \/ (Goto(r, "pruned") /\ pc[r] = "unlinkShard")
  BY DEF PruneEnds, Crash, CollectiveTimeout, storage, durable
<1>2. /\ shard' \in [Ranks \X Gens -> 0..MaxAttempts] /\ side' \in [Ranks \X Gens -> 0..MaxAttempts]
      /\ dShard' \in [Ranks \X Gens -> 0..MaxAttempts] /\ dSide' \in [Ranks \X Gens -> 0..MaxAttempts]
      /\ doomed' \in [Ranks -> SUBSET Gens] /\ losses' \in 0..MaxLosses
  BY <1>1 DEF IInv, TypeOK
<1>3. CASE Goto(r, "down")
  <2>1. "down" \in Labels /\ "down" \notin Active
    BY DEF Labels, Ended, Active, Saving, Committing, Pruning
  <2> QED
    BY <1>1, <1>2, <1>3, <2>1, QuietMove
<1>4. CASE Goto(r, "pruned") /\ pc[r] = "unlinkShard"
  <2>1. "pruned" \in Labels /\ pc[r] \in Active \ {"train"}
    BY <1>4 DEF Labels, Collectives, Active, Pruning
  <2> QED
    BY <1>1, <1>2, <1>4, <2>1, QuietMove
<1> QED
  BY <1>1, <1>3, <1>4

LEMMA PruneGatherStep == ASSUME IInv, PruneGather PROVE IInv'
<1>1. /\ UNCHANGED <<shard, side, manifest, dShard, dSide, dManifest, attempt, step, loaded,
                     records, doomed, acked, losses>>
      /\ \A r \in Ranks : pc[r] = "pruned" /\ pc'[r] = NextStop(step[r])
      /\ pc' = [r \in Ranks |-> NextStop(step[r])]
  BY DEF PruneGather, storage, durable, All
<1>2. \A r \in Ranks : /\ pc'[r] \in {"train", "done"}
                       /\ pc'[r] = "train" => step[r] < Steps
  BY <1>1, NextStopLabel DEF IInv, TypeOK
<1>3. TypeOK'
  <2>1. pc' \in [Ranks -> Collectives \cup Local \cup Ended]
    BY <1>1, <1>2 DEF Collectives, Ended
  <2> QED
    BY <1>1, <2>1 DEF IInv, TypeOK
<1>4. \A r \in Ranks : pc[r] \in Active
  BY <1>1 DEF Active, Pruning
<1>5. Stepping'
  BY <1>1, <1>2, <1>4 DEF IInv, Stepping, At, Saving, Committing, Pruning
<1>6. Together'
  BY <1>1, <1>4 DEF IInv, Together, At
<1>7. SavedOwn'
  BY <1>2, Options DEF SavedOwn, At
<1>8. OneAttemptPerGeneration'
  BY <1>1 DEF IInv, OneAttemptPerGeneration
<1> QED
  BY <1>3, <1>5, <1>6, <1>7, <1>8 DEF IInv

LEMMA PowerLossStep == ASSUME IInv, PowerLoss PROVE IInv'
<1>1. /\ UNCHANGED <<attempt, step, loaded, records, doomed, acked>>
      /\ pc' = [r \in Ranks |-> "down"]
      /\ manifest' \in {manifest, dManifest} /\ dManifest' = manifest'
      /\ losses' = losses + 1 /\ losses < MaxLosses
  BY DEF PowerLoss, AllGoto
<1>2. shard' \in [Ranks \X Gens -> 0..MaxAttempts]
  <2>1. PICK lost \in SUBSET (Ranks \X Gens) :
            shard' = [f \in Ranks \X Gens |-> IF f \in lost THEN dShard[f] ELSE shard[f]]
    BY DEF PowerLoss
  <2>2. \A f \in Ranks \X Gens : shard[f] \in 0..MaxAttempts /\ dShard[f] \in 0..MaxAttempts
    BY DEF IInv, TypeOK
  <2> QED
    BY <2>1, <2>2
<1>3. side' \in [Ranks \X Gens -> 0..MaxAttempts]
  <2>1. PICK lost \in SUBSET (Ranks \X Gens) :
            side' = [f \in Ranks \X Gens |-> IF f \in lost THEN dSide[f] ELSE side[f]]
    BY DEF PowerLoss
  <2>2. \A f \in Ranks \X Gens : side[f] \in 0..MaxAttempts /\ dSide[f] \in 0..MaxAttempts
    BY DEF IInv, TypeOK
  <2> QED
    BY <2>1, <2>2
<1>4. dShard' = shard' /\ dSide' = side'
  BY DEF PowerLoss
<1>5. TypeOK'
  <2>1. pc' \in [Ranks -> Collectives \cup Local \cup Ended]
    BY <1>1 DEF Ended
  <2>2. losses' \in 0..MaxLosses
    BY <1>1, Options DEF IInv, TypeOK
  <2> QED
    BY <1>1, <1>2, <1>3, <1>4, <2>1, <2>2 DEF IInv, TypeOK
<1>6. Stepping' /\ Together' /\ SavedOwn'
  BY <1>1, Options DEF Stepping, Together, SavedOwn, At, Active, Saving, Committing, Pruning
<1>7. OneAttemptPerGeneration'
  BY <1>1 DEF IInv, OneAttemptPerGeneration
<1> QED
  BY <1>5, <1>6, <1>7 DEF IInv

LEMMA StutterStep == ASSUME IInv, UNCHANGED vars PROVE IInv'
BY DEF vars, storage, durable, IInv, TypeOK, Stepping, Together, SavedOwn,
       OneAttemptPerGeneration, At

LEMMA InvStep == ASSUME IInv, [Next]_vars PROVE IInv'
<1>1. CASE \E resume \in BOOLEAN, overwrite \in AllowOverwrite : Start(resume, overwrite)
  BY <1>1, StartStep
<1>2. CASE Joint
  BY <1>2, RestoreStep, TrainStepStep, CommitGatherStep, PublishStep, SyncManifestStep,
     CommitBarrierStep, PruneGatherStep DEF Joint
<1>3. ASSUME NEW r \in Ranks, RankStep(r) \/ Crash(r) \/ CollectiveTimeout(r)
      PROVE  IInv'
  BY <1>3, SaveShardStep, SaveSideStep, SyncShardStep, PruneStep, UnlinkShardStep,
     UnlinkSideStep, MoveStep DEF RankStep
<1>4. CASE PowerLoss
  BY <1>4, PowerLossStep
<1>5. CASE Stopped \/ UNCHANGED vars
  BY <1>5, StutterStep DEF Stopped
<1> QED
  BY <1>1, <1>2, <1>3, <1>4, <1>5 DEF Next

\* Every reachable state satisfies the inductive invariant.
THEOREM Invariant == Spec => []IInv
<1>1. Init => IInv
  BY InvInit
<1>2. IInv /\ [Next]_vars => IInv'
  BY InvStep
<1> QED
  BY <1>1, <1>2, PTL DEF Spec

\* The types of the files, ranks and bookkeeping of the checkpoint directory.
THEOREM TypeCorrect == Spec => []TypeOK
<1>1. IInv => TypeOK
  BY DEF IInv
<1> QED
  BY <1>1, Invariant, PTL

\* A published manifest names shards of a single attempt, whatever overwrites,
\* aborted saves and power losses came before.
THEOREM OneAttempt == Spec => []OneAttemptPerGeneration
<1>1. IInv => OneAttemptPerGeneration
  BY DEF IInv
<1> QED
  BY <1>1, Invariant, PTL

\* Ranks that train after a resume hold one attempt's shards at one step.
THEOREM NoMixed == Spec => []NoMixedResume
<1>1. IInv => NoMixedResume
  BY DEF IInv, Together, NoMixedResume, At, Active
<1> QED
  BY <1>1, Invariant, PTL
-----------------------------------------------------------------------------
(* Retention *)

\* What a pruning rank has not yet decided to delete is few enough.
Thinning ==
    \A r \in Ranks : Keep > 0 =>
        /\ At(r, {"unlinkShard", "unlinkSide"}) => Cardinality(Saved(r) \ doomed[r]) <= Keep
        /\ At(r, {"pruned"}) => Cardinality(Saved(r)) <= Keep

LEMMA Minimum ==
    ASSUME NEW S \in SUBSET Nat, S # {}
    PROVE  \E least \in S : \A n \in S : least <= n
<1> DEFINE Less == {p \in Nat \X Nat : p[1] < p[2]}
<1>1. IsWellFoundedOn(Less, Nat)
  BY NatLessThanWellFounded DEF OpToRel
<1> HIDE DEF Less
<1>2. PICK least \in S : \A n \in S : ~(<<n, least>> \in Less)
  BY <1>1, WFMin
<1>3. \A n \in S : ~(n < least)
  <2> SUFFICES ASSUME NEW n \in S, n < least PROVE FALSE
    OBVIOUS
  <2>1. <<n, least>> \in Nat \X Nat
    OBVIOUS
  <2>2. <<n, least>> \in Less
    BY <2>1 DEF Less
  <2> QED
    BY <1>2, <2>2
<1> QED
  BY <1>3

\* The steps with fewer than Keep saved steps above them are at most Keep.
LEMMA NewestFew ==
    ASSUME NEW S \in SUBSET Gens, NEW c \in Gens, Keep > 0,
           NEW T, T = {s \in S : /\ s <= c
                                 /\ Cardinality({t \in S : s < t /\ t <= c}) < Keep}
    PROVE  Cardinality(T) <= Keep
<1>1. IsFiniteSet(Gens) /\ Gens \in SUBSET Nat
  BY FS_Interval, Options DEF Gens
<1>2. IsFiniteSet(T) /\ T \in SUBSET Nat /\ IsFiniteSet(S)
  BY <1>1, FS_Subset
<1>3. CASE T = {}
  <2>1. Cardinality({}) = 0
    BY FS_EmptySet
  <2>2. 0 <= Keep
    BY OptionsAssumption
  <2> QED
    BY <1>3, <2>1, <2>2, Zenon
<1>4. CASE T # {}
  <2>1. PICK least \in T : \A n \in T : least <= n
    BY <1>2, <1>4, Minimum
  <2> DEFINE above == {t \in S : least < t /\ t <= c}
  <2>2. T \ {least} \subseteq above
    <3> SUFFICES ASSUME NEW n \in T, n # least PROVE n \in above
      OBVIOUS
    <3>1. n \in S /\ n <= c /\ n \in Nat /\ least \in Nat
      BY <1>1
    <3>2. least < n
      BY <2>1, <3>1
    <3> QED
      BY <3>1, <3>2
  <2>3. IsFiniteSet(above)
    BY <1>2, FS_Subset
  <2>4. Cardinality(T \ {least}) <= Cardinality(above)
    BY <2>2, <2>3, FS_Subset
  <2>5. Cardinality(above) < Keep
    BY <2>1
  <2>6. Cardinality(T \ {least}) = Cardinality(T) - 1
    BY <1>2, <2>1, FS_RemoveElement
  <2>7. Cardinality(T) \in Nat /\ Cardinality(above) \in Nat
    BY <1>2, <2>3, FS_CardinalityType
  <2> HIDE DEF above
  <2> QED
    BY <2>4, <2>5, <2>6, <2>7, OptionsAssumption
<1> QED
  BY <1>3, <1>4

\* What Prune leaves a rank with.
LEMMA RetainedFew ==
    ASSUME NEW r \in Ranks, NEW c \in Gens, Keep > 0
    PROVE  Cardinality(Saved(r) \ (Saved(r) \ Retained(r, c))) <= Keep
<1> DEFINE S == Saved(r)
           T == {s \in S : s <= c /\ Cardinality({t \in S : s < t /\ t <= c}) < Keep}
<1>1. S \in SUBSET Gens /\ c \in Nat /\ Gens \in SUBSET Nat
  BY Options DEF Saved, Gens
<1>2. Cardinality(T) <= Keep
  BY <1>1, NewestFew
<1>3. c \in S => c \in T
  <2>1. {t \in S : c < t /\ t <= c} = {}
    <3>1. \A t \in S : t \in Nat /\ c \in Nat
      BY <1>1
    <3>2. \A t \in S : ~(c < t /\ t <= c)
      BY <3>1
    <3> QED
      BY <3>2, Zenon
  <2>2. Cardinality({}) < Keep
    BY FS_EmptySet
  <2> QED
    BY <1>1, <2>1, <2>2
<1>4. Retained(r, c) = {c} \cup T
  BY DEF Retained
<1>5. S \ (S \ Retained(r, c)) = T
  BY <1>3, <1>4
<1> QED
  BY <1>2, <1>5

LEMMA SavedKept ==
    ASSUME NEW r \in Ranks, \A s \in Gens : shard'[<<r, s>>] = shard[<<r, s>>]
    PROVE  Saved(r)' = Saved(r)
BY DEF Saved

LEMMA ThinningStep == ASSUME IInv, Thinning, [Next]_vars PROVE Thinning'
<1> SUFFICES ASSUME NEW q \in Ranks, Keep > 0, pc'[q] \in {"unlinkShard", "unlinkSide", "pruned"}
             PROVE  /\ pc'[q] \in {"unlinkShard", "unlinkSide"} =>
                           Cardinality(Saved(q)' \ doomed'[q]) <= Keep
                    /\ pc'[q] = "pruned" => Cardinality(Saved(q)') <= Keep
  BY DEF Thinning, At
<1>0. /\ pc \in [Ranks -> Labels] /\ doomed \in [Ranks -> SUBSET Gens]
      /\ shard \in [Ranks \X Gens -> 0..MaxAttempts]
  BY DEF IInv, TypeOK, Labels
<1>1. CASE /\ pc'[q] = pc[q] /\ doomed'[q] = doomed[q]
           /\ \A s \in Gens : shard'[<<q, s>>] = shard[<<q, s>>]
  BY <1>1, SavedKept DEF Thinning, At
<1>2. CASE Prune(q)
  <2>1. doomed'[q] = Saved(q) \ Retained(q, step[q])
    BY <1>0, <1>2 DEF Prune
  <2>2. Saved(q)' = Saved(q)
    BY <1>2, SavedKept DEF Prune, storage
  <2>3. step[q] \in Gens
    BY <1>2 DEF Prune, IInv, Stepping, At, Pruning
  <2>4. Cardinality(Saved(q)' \ doomed'[q]) <= Keep
    BY <2>1, <2>2, <2>3, RetainedFew
  <2>5. pc'[q] = "unlinkShard"
    BY <1>0, <1>2 DEF Prune, Goto
  <2> QED
    BY <2>4, <2>5
<1>3. ASSUME NEW s \in Gens, UnlinkShard(q, s)
      PROVE  pc'[q] = "unlinkSide" /\ Cardinality(Saved(q)' \ doomed'[q]) <= Keep
  <2>1. /\ pc[q] = "unlinkShard" /\ pc'[q] = "unlinkSide" /\ doomed' = doomed /\ s \in doomed[q]
        /\ \A t \in Gens : t # s => shard'[<<q, t>>] = shard[<<q, t>>]
    BY <1>0, <1>3 DEF UnlinkShard, Goto
  <2>2. Saved(q)' \ doomed'[q] = Saved(q) \ doomed[q]
    BY <2>1 DEF Saved
  <2> QED
    BY <2>1, <2>2 DEF Thinning, At
<1>4. ASSUME NEW s \in Gens, UnlinkSide(q, s)
      PROVE  pc'[q] = "unlinkShard" /\ Cardinality(Saved(q)' \ doomed'[q]) <= Keep
  <2>1. /\ pc[q] = "unlinkSide" /\ pc'[q] = "unlinkShard" /\ shard' = shard
        /\ doomed'[q] = doomed[q] \ {s} /\ shard[<<q, s>>] = 0
    BY <1>0, <1>4 DEF UnlinkSide, Goto
  <2>2. Saved(q)' \ doomed'[q] = Saved(q) \ doomed[q]
    BY <2>1 DEF Saved
  <2> QED
    BY <2>1, <2>2 DEF Thinning, At
<1>5. CASE PruneEnds(q)
  <2>1. pc[q] = "unlinkShard" /\ pc'[q] = "pruned" /\ doomed[q] = {} /\ shard' = shard
    BY <1>0, <1>5 DEF PruneEnds, Goto, storage
  <2>2. Saved(q)' = Saved(q) \ doomed[q]
    BY <2>1, SavedKept
  <2> QED
    BY <2>1, <2>2 DEF Thinning, At
<1>6. ASSUME NEW r \in Ranks, RankStep(r) \/ Crash(r) \/ CollectiveTimeout(r), r # q
      PROVE  /\ pc'[q] = pc[q] /\ doomed'[q] = doomed[q]
             /\ \A s \in Gens : shard'[<<q, s>>] = shard[<<q, s>>]
  <2>1. pc'[q] = pc[q]
    BY <1>0, <1>6 DEF RankStep, SaveShard, SaveSide, SyncShard, Prune, PruneEnds, UnlinkShard,
                      UnlinkSide, Crash, CollectiveTimeout, Goto
  <2>2. doomed'[q] = doomed[q]
    BY <1>0, <1>6 DEF RankStep, SaveShard, SaveSide, SyncShard, Prune, PruneEnds, UnlinkShard,
                      UnlinkSide, Crash, CollectiveTimeout
  <2>3. \/ shard' = shard
        \/ \E s \in Gens : shard' = [shard EXCEPT ![<<r, s>>] = 0]
        \/ shard' = [shard EXCEPT ![<<r, step[r]>>] = attempt]
    BY <1>6 DEF RankStep, SaveShard, SaveSide, SyncShard, Prune, PruneEnds, UnlinkShard,
                UnlinkSide, Crash, CollectiveTimeout, storage, File
  <2>4. \A s \in Gens : \A t : <<q, s>> # <<r, t>>
    BY <1>6
  <2>5. \A s \in Gens : <<q, s>> \in Ranks \X Gens
    OBVIOUS
  <2> QED
    BY <1>0, <2>1, <2>2, <2>3, <2>4, <2>5
<1>7. CASE \E resume \in BOOLEAN, overwrite \in AllowOverwrite : Start(resume, overwrite)
  <2>1. pc'[q] \in {"restore", "train"}
    BY <1>7 DEF Start, AllGoto
  <2> QED
    BY <2>1
<1>8. CASE Restore \/ TrainStep \/ CommitGather \/ CommitBarrier \/ PruneGather \/ PowerLoss
  <2>1. pc'[q] \notin {"unlinkShard", "unlinkSide", "pruned"}
    <3>1. CASE Restore \/ TrainStep \/ PruneGather
      BY <3>1 DEF Restore, TrainStep, PruneGather, AllGoto, NextStop
    <3>2. CASE CommitGather \/ CommitBarrier \/ PowerLoss
      BY <3>2 DEF CommitGather, CommitBarrier, PowerLoss, AllGoto
    <3> QED
      BY <1>8, <3>1, <3>2
  <2> QED
    BY <2>1
<1>9. CASE Publish \/ SyncManifest
  <2>1. /\ shard' = shard /\ doomed' = doomed
        /\ \A p \in Ranks : pc'[p] = pc[p] \/ pc'[p] \in {"syncManifest", "barrier"}
    BY <1>0, <1>9, Options DEF Publish, SyncManifest, Goto
  <2> QED
    BY <1>1, <2>1
<1>10. CASE Stopped \/ UNCHANGED vars
  BY <1>1, <1>10 DEF Stopped, vars, storage
<1>11. ASSUME NEW r \in Ranks, RankStep(r) \/ Crash(r) \/ CollectiveTimeout(r), r = q
       PROVE  /\ pc'[q] \in {"unlinkShard", "unlinkSide"} =>
                     Cardinality(Saved(q)' \ doomed'[q]) <= Keep
              /\ pc'[q] = "pruned" => Cardinality(Saved(q)') <= Keep
  <2>1. CASE SaveShard(q) \/ SaveSide(q) \/ SyncShard(q) \/ Crash(q) \/ CollectiveTimeout(q)
    BY <1>0, <2>1 DEF SaveShard, SaveSide, SyncShard, Crash, CollectiveTimeout, Goto
  <2> QED
    BY <1>2, <1>3, <1>4, <1>5, <1>11, <2>1 DEF RankStep
<1> QED
  BY <1>1, <1>6, <1>7, <1>8, <1>9, <1>10, <1>11 DEF Next, Joint

\* After pruning, a rank has at most Keep shards on disk, whatever aborted
\* attempts and power losses left behind.
THEOREM RetentionBounds == Spec => []RetentionBoundsShards
<1>1. Init => Thinning
  BY DEF Init, Thinning, At
<1>2. IInv /\ Thinning /\ [Next]_vars => Thinning'
  BY ThinningStep
<1>3. Thinning => RetentionBoundsShards
  BY DEF Thinning, RetentionBoundsShards, At
<1> QED
  BY <1>1, <1>2, <1>3, Invariant, PTL DEF Spec
=============================================================================
