-------------------------- MODULE MPSDurabilityProofs --------------------------
(***************************************************************************)
(* More about MPSCheckpoint: what a job without                            *)
(* allow_checkpoint_overwrite never loses, for any number of ranks, steps, *)
(* attempts and power losses.  A job that overwrites counts its steps from *)
(* 0 again under the old manifest and replaces the files it names.         *)
(***************************************************************************)
EXTENDS MPSCheckpointProofs

NoOverwrite == TRUE \notin AllowOverwrite

\* The generation a reader finds; 0 when there is none.
Newest == IF manifest = NoManifest THEN 0 ELSE manifest.step

\* The leader publishes while its peers wait for it or are gone.
Phase ==
    /\ \A r \in Ranks : At(r, {"publish", "syncManifest"}) => r = Leader
    /\ At(Leader, {"publish", "syncManifest"}) =>
           \A r \in Ranks : r = Leader \/ At(r, {"barrier"} \cup Ended)

\* After the rename the manifest names the leader's step, after the fsync it
\* does so durably; pruning ranks, and the leader at the barrier, rely on that.
Committed ==
    /\ At(Leader, {"syncManifest"}) => manifest # NoManifest /\ manifest.step = step[Leader]
    /\ \A r \in Ranks :
           At(r, Pruning) \/ (r = Leader /\ At(r, {"barrier"})) =>
               manifest # NoManifest /\ dManifest = manifest /\ manifest.step = step[r]

\* A job only ever writes files of generations newer than the committed one.
Ahead ==
    \A r \in Ranks : /\ At(r, {"train"}) => Newest <= step[r]
                     /\ At(r, Saving \cup {"publish"}) => Newest < step[r]

\* A file this attempt wrote, as a reader and as a power loss would leave it.
SavedDurably(r, s) == /\ shard[<<r, s>>] = attempt /\ dShard[<<r, s>>] = attempt
                      /\ side[<<r, s>>] = attempt /\ dSide[<<r, s>>] = attempt

\* All ranks' files are durable before the manifest that names them is there.
Ready ==
    /\ \A r \in Ranks : /\ At(r, {"syncShard"}) => side[<<r, step[r]>>] = attempt
                        /\ At(r, {"gather"}) => SavedDurably(r, step[r])
    /\ At(Leader, {"publish"}) => \A r \in Ranks : SavedDurably(r, step[Leader])

\* A rank never deletes the committed generation.
Spared == \A r \in Ranks : At(r, {"unlinkShard", "unlinkSide"}) => step[r] \notin doomed[r]

\* The durable manifest is the present one or an older one.
Order == dManifest # NoManifest => manifest # NoManifest /\ dManifest.step <= manifest.step

Kept == acked # 0 => dManifest # NoManifest /\ acked <= dManifest.step

AllIntact ==
    \A m \in Manifests, r \in Ranks : m = manifest \/ m = dManifest =>
        /\ shard[<<r, m.step>>] = m.sha[r] /\ dShard[<<r, m.step>>] = m.sha[r]
        /\ side[<<r, m.step>>] = m.sha[r] /\ dSide[<<r, m.step>>] = m.sha[r]

DInv == /\ Phase /\ Committed /\ Ahead /\ Ready /\ Spared
        /\ Order /\ Kept /\ AllIntact
-----------------------------------------------------------------------------
LEMMA Types ==
    ASSUME IInv
    PROVE  /\ pc \in [Ranks -> Labels] /\ \A r \in Ranks : step[r] \in Nat
           /\ manifest \in Manifests \cup {NoManifest} /\ dManifest \in Manifests \cup {NoManifest}
           /\ manifest # NoManifest => manifest.step \in Nat /\ manifest.step > 0
           /\ dManifest # NoManifest => dManifest.step \in Nat
           /\ Newest \in Nat /\ acked \in Nat /\ Leader \in Ranks
<1>1. \A m \in Manifests : m.step \in Nat /\ m.step > 0
  BY ManifestRecord, Options DEF Gens
<1>2. /\ manifest \in Manifests \cup {NoManifest} /\ dManifest \in Manifests \cup {NoManifest}
      /\ pc \in [Ranks -> Labels]
  BY DEF IInv, TypeOK, Labels
<1>3. \A r \in Ranks : step[r] \in Nat
  BY Options DEF IInv, TypeOK
<1>4. acked \in Nat /\ Leader \in Ranks
  BY Options DEF IInv, TypeOK
<1> QED
  BY <1>1, <1>2, <1>3, <1>4 DEF Newest

\* Nothing below the manifests' files changes unless it becomes durable or is
\* undone to what was durable.
LEMMA IntactKept ==
    ASSUME AllIntact, manifest' \in {manifest, dManifest}, dManifest' \in {manifest, dManifest},
           \A m \in Manifests, r \in Ranks : m = manifest \/ m = dManifest =>
               LET f == <<r, m.step>>
               IN  /\ shard'[f] \in {shard[f], dShard[f]} /\ dShard'[f] \in {shard[f], dShard[f]}
                   /\ side'[f] \in {side[f], dSide[f]} /\ dSide'[f] \in {side[f], dSide[f]}
    PROVE  AllIntact'
BY DEF AllIntact

\* One rank moves on and publishes nothing.
LEMMA LocalMove ==
    ASSUME IInv, Phase, Committed, Ahead, Order, Kept,
           NEW r \in Ranks, NEW label \in Labels, Goto(r, label),
           UNCHANGED <<step, acked, manifest>>, dManifest' \in {manifest, dManifest},
           label \notin {"train", "publish", "syncManifest"},
           label \in Saving => pc[r] \in Saving,
           label \in Pruning => pc[r] \in Pruning,
           label = "barrier" => pc[r] = "syncManifest" /\ dManifest' = manifest,
           label \in Ended \/ pc[r] \notin {"barrier"} \cup Ended
    PROVE  Phase' /\ Committed' /\ Ahead' /\ Order' /\ Kept'
<1>1. \A q \in Ranks : pc'[q] = IF q = r THEN label ELSE pc[q]
  BY DEF Goto, IInv, TypeOK
<1>2. Phase'
  <2>1. \A q \in Ranks : pc'[q] \in {"publish", "syncManifest"} => q # r /\ pc[q] = pc'[q]
    BY <1>1
  <2>2. ASSUME pc'[Leader] \in {"publish", "syncManifest"}, NEW q \in Ranks, q # Leader
        PROVE  pc'[q] \in {"barrier"} \cup Ended
    <3>1. Leader # r /\ pc[Leader] \in {"publish", "syncManifest"}
      BY <2>1, <2>2, Options
    <3>2. \A p \in Ranks : p = Leader \/ pc[p] \in {"barrier"} \cup Ended
      BY <3>1 DEF Phase, At
    <3> QED
      BY <1>1, <2>2, <3>1, <3>2
  <2> QED
    BY <2>1, <2>2 DEF Phase, At
<1>3. Committed'
  <2>1. manifest # NoManifest /\ dManifest = manifest => dManifest' = manifest
    OBVIOUS
  <2>2. pc'[Leader] = "syncManifest" => pc[Leader] = "syncManifest"
    BY <1>1, Options
  <2>3. \A q \in Ranks : pc'[q] \in Pruning => pc[q] \in Pruning
    BY <1>1
  <2>4. pc'[Leader] = "barrier" => \/ pc[Leader] = "barrier"
                                   \/ pc[Leader] = "syncManifest" /\ dManifest' = manifest
    BY <1>1, Options
  <2> QED
    BY <2>1, <2>2, <2>3, <2>4, Options DEF Committed, At
<1>4. Ahead'
  <2>1. Newest' = Newest
    BY DEF Newest
  <2>2. \A q \in Ranks : /\ pc'[q] = "train" => pc[q] = "train"
                         /\ pc'[q] \in Saving \cup {"publish"} => pc[q] \in Saving \cup {"publish"}
    BY <1>1
  <2> QED
    BY <2>1, <2>2 DEF Ahead, At
<1>5. Order'
  BY Types DEF Order
<1>6. Kept'
  <2> SUFFICES ASSUME acked' # 0 PROVE dManifest' # NoManifest /\ acked' <= dManifest'.step
    BY DEF Kept
  <2>1. /\ dManifest # NoManifest /\ acked <= dManifest.step
        /\ manifest # NoManifest /\ dManifest.step <= manifest.step
    BY DEF Kept, Order
  <2> QED
    BY <2>1, Types
<1> QED
  BY <1>2, <1>3, <1>4, <1>5, <1>6

\* While a rank still writes or deletes, nobody publishes.
LEMMA NobodyPublishes ==
    ASSUME IInv, Phase, NEW r \in Ranks, NEW label, Goto(r, label), label # "publish",
           pc[r] \notin {"barrier"} \cup Ended
    PROVE  pc'[Leader] # "publish"
<1> SUFFICES ASSUME pc'[Leader] = "publish" PROVE FALSE
  OBVIOUS
<1>1. r # Leader /\ pc[Leader] = "publish"
  BY Options DEF Goto, IInv, TypeOK
<1> QED
  BY <1>1 DEF Phase, At

\* The files being written or deleted are not those a manifest names.
LEMMA OthersFile ==
    ASSUME NEW r \in Ranks, NEW s \in Gens, NEW m \in Manifests, m.step # s, NEW q \in Ranks
    PROVE  <<q, m.step>> # <<r, s>> /\ <<q, m.step>> \in Ranks \X Gens
BY ManifestRecord
-----------------------------------------------------------------------------
LEMMA DurableInit == Init => DInv
<1> SUFFICES ASSUME Init PROVE DInv
  OBVIOUS
<1>1. /\ manifest = NoManifest /\ dManifest = NoManifest /\ acked = 0
      /\ \A r \in Ranks : pc[r] = "down"
  BY DEF Init
<1>2. Phase /\ Committed /\ Ahead /\ Ready /\ Spared
  BY <1>1, Options DEF Phase, Committed, Ahead, Ready, Spared, At, Saving, Pruning
<1>3. Order /\ Kept /\ AllIntact
  BY <1>1, Options DEF Order, Kept, AllIntact
<1> QED
  BY <1>2, <1>3 DEF DInv

\* Steps of all ranks at once that touch no file.
LEMMA JointKeeps ==
    ASSUME DInv, UNCHANGED storage
    PROVE  Order' /\ AllIntact' /\ (UNCHANGED acked => Kept') /\ Newest' = Newest
<1>1. UNCHANGED <<shard, side, manifest, dShard, dSide, dManifest>>
  BY DEF storage, durable
<1> QED
  BY <1>1 DEF DInv, Order, Kept, AllIntact, Newest

LEMMA DStart ==
    ASSUME NoOverwrite, IInv, DInv, NEW resume \in BOOLEAN, NEW overwrite \in AllowOverwrite,
           Start(resume, overwrite)
    PROVE  DInv'
<1>1. /\ \A r \in Ranks : pc'[r] = (IF resume THEN "restore" ELSE "train") /\ step'[r] = 0
      /\ ~resume => manifest = NoManifest
      /\ UNCHANGED storage /\ UNCHANGED acked
  BY DEF Start, AllGoto, PolicyAllows, NoOverwrite
<1>2. Order' /\ AllIntact' /\ Kept' /\ Newest' = Newest
  BY <1>1, JointKeeps
<1>3. Phase' /\ Committed' /\ Ready' /\ Spared'
  BY <1>1, Options DEF Phase, Committed, Ready, Spared, At, Pruning
<1>4. Ahead'
  <2>1. ~resume => Newest' = 0
    BY <1>1, <1>2 DEF Newest
  <2> QED
    BY <1>1, <2>1 DEF Ahead, At, Saving
<1> QED
  BY <1>2, <1>3, <1>4 DEF DInv

LEMMA DRestore == ASSUME IInv, DInv, Restore PROVE DInv'
<1>1. UNCHANGED storage /\ UNCHANGED acked /\ \A r \in Ranks : pc[r] = "restore"
  BY DEF Restore, All
<1>2. Order' /\ AllIntact' /\ Kept' /\ Newest' = Newest
  BY <1>1, JointKeeps
<1>3. /\ \A r \in Ranks : pc'[r] \in {"train", "done", "down"}
      /\ \A r \in Ranks : pc'[r] = "train" => step'[r] = manifest.step
  BY DEF Restore, AllGoto, NextStop
<1>4. Phase' /\ Committed' /\ Ready' /\ Spared'
  BY <1>3, Options DEF Phase, Committed, Ready, Spared, At, Pruning
<1>5. Ahead'
  <2>1. manifest # NoManifest
    BY <1>1, Options DEF IInv, Stepping, At
  <2>2. Newest' = manifest.step /\ manifest.step \in Nat
    BY <1>2, <2>1, Types DEF Newest
  <2> QED
    BY <1>3, <2>2 DEF Ahead, At, Saving
<1> QED
  BY <1>2, <1>4, <1>5 DEF DInv

LEMMA DTrainStep == ASSUME IInv, DInv, TrainStep PROVE DInv'
<1>1. /\ UNCHANGED storage /\ UNCHANGED acked
      /\ \A r \in Ranks : pc[r] = "train" /\ step'[r] = step[r] + 1
  BY DEF TrainStep, All
<1>2. Order' /\ AllIntact' /\ Kept' /\ Newest' = Newest
  BY <1>1, JointKeeps
<1>3. \A r \in Ranks : pc'[r] \in {"train", "done", "saveShard"}
  <2>1. \A r \in Ranks : pc'[r] = "saveShard" \/ pc'[r] = NextStop(step'[r])
    BY DEF TrainStep
  <2> QED
    BY <2>1 DEF NextStop
<1>4. Phase' /\ Committed' /\ Ready' /\ Spared'
  BY <1>3, Options DEF Phase, Committed, Ready, Spared, At, Pruning
<1>5. Ahead'
  <2>1. \A r \in Ranks : Newest' <= step[r] /\ step[r] \in Nat /\ Newest' \in Nat
    BY <1>1, <1>2, Types DEF DInv, Ahead, At
  <2>2. \A r \in Ranks : Newest' < step'[r]
    BY <1>1, <2>1
  <2>3. \A r \in Ranks : Newest' <= step'[r]
    BY <1>1, <2>1
  <2> QED
    BY <2>2, <2>3 DEF Ahead, At
<1> QED
  BY <1>2, <1>4, <1>5 DEF DInv
-----------------------------------------------------------------------------
(* Saving *)

LEMMA SavesNewer ==
    ASSUME IInv, DInv, NEW r \in Ranks, pc[r] \in Saving,
           NEW m \in Manifests, m = manifest \/ m = dManifest
    PROVE  m.step # step[r]
<1>1. Newest < step[r]
  BY DEF DInv, Ahead, At
<1>2. manifest # NoManifest
  BY Options DEF DInv, Order
<1>3. m.step <= Newest
  BY <1>2, Types, Options DEF DInv, Order, Newest
<1>4. m.step \in Nat /\ step[r] \in Nat /\ Newest \in Nat
  BY <1>2, Types, Options
<1> QED
  BY <1>1, <1>3, <1>4

LEMMA DSaveShard == ASSUME IInv, DInv, NEW r \in Ranks, SaveShard(r) PROVE DInv'
<1>1. /\ UNCHANGED <<side, manifest, dShard, dSide, dManifest, attempt, step, doomed, acked>>
      /\ shard' = [shard EXCEPT ![<<r, step[r]>>] = attempt]
      /\ Goto(r, "saveSide") /\ pc[r] = "saveShard"
  BY DEF SaveShard, durable, File
<1>2. \A q \in Ranks : pc'[q] = IF q = r THEN "saveSide" ELSE pc[q]
  BY <1>1 DEF Goto, IInv, TypeOK
<1>3. Phase' /\ Committed' /\ Ahead' /\ Order' /\ Kept'
  <2>1. /\ "saveSide" \in Labels /\ "saveSide" \notin Pruning
        /\ pc[r] \in Saving /\ pc[r] \notin {"barrier"} \cup Ended
    BY <1>1 DEF Labels, Local, Pruning, Saving, Ended
  <2> QED
    BY <1>1, <2>1, LocalMove DEF DInv
<1>4. \A f \in Ranks \X Gens : f # <<r, step[r]>> => shard'[f] = shard[f]
  BY <1>1 DEF IInv, TypeOK
<1>5. Ready'
  <2>1. pc'[Leader] # "publish"
    <3>1. pc[r] \notin {"barrier"} \cup Ended
      BY <1>1 DEF Ended
    <3> QED
      BY <1>1, <3>1, NobodyPublishes DEF DInv
  <2>2. \A q \in Ranks : pc'[q] \in {"syncShard", "gather"} => q # r /\ pc[q] = pc'[q]
    BY <1>2
  <2>3. \A q \in Ranks : pc[q] = "gather" => step[q] \in Gens
    BY DEF IInv, Stepping, At, Saving
  <2>4. \A q \in Ranks : pc'[q] = "gather" => shard'[<<q, step[q]>>] = shard[<<q, step[q]>>]
    BY <1>4, <2>2, <2>3
  <2> QED
    BY <1>1, <2>1, <2>2, <2>4 DEF DInv, Ready, At, SavedDurably
<1>6. Spared'
  BY <1>1, <1>2 DEF DInv, Spared, At
<1>7. AllIntact'
  <2>1. step[r] \in Gens /\ pc[r] \in Saving
    BY <1>1 DEF IInv, Stepping, At, Saving
  <2>2. \A m \in Manifests, q \in Ranks : m = manifest \/ m = dManifest =>
            shard'[<<q, m.step>>] = shard[<<q, m.step>>]
    BY <1>4, <2>1, SavesNewer, OthersFile
  <2> QED
    BY <1>1, <2>2, IntactKept DEF DInv
<1> QED
  BY <1>3, <1>5, <1>6, <1>7 DEF DInv

LEMMA DSaveSide == ASSUME IInv, DInv, NEW r \in Ranks, SaveSide(r) PROVE DInv'
<1>1. /\ UNCHANGED <<shard, manifest, dShard, dSide, dManifest, attempt, step, doomed, acked>>
      /\ side' = [side EXCEPT ![<<r, step[r]>>] = attempt]
      /\ Goto(r, "syncShard") /\ pc[r] = "saveSide"
  BY DEF SaveSide, durable, File
<1>2. \A q \in Ranks : pc'[q] = IF q = r THEN "syncShard" ELSE pc[q]
  BY <1>1 DEF Goto, IInv, TypeOK
<1>3. Phase' /\ Committed' /\ Ahead' /\ Order' /\ Kept'
  <2>1. /\ "syncShard" \in Labels /\ "syncShard" \notin Pruning
        /\ pc[r] \in Saving /\ pc[r] \notin {"barrier"} \cup Ended
    BY <1>1 DEF Labels, Local, Pruning, Saving, Ended
  <2> QED
    BY <1>1, <2>1, LocalMove DEF DInv
<1>4. \A f \in Ranks \X Gens : f # <<r, step[r]>> => side'[f] = side[f]
  BY <1>1 DEF IInv, TypeOK
<1>5. step[r] \in Gens /\ pc[r] \in Saving
  BY <1>1 DEF IInv, Stepping, At, Saving
<1>6. Ready'
  <2>1. pc'[Leader] # "publish"
    <3>1. pc[r] \notin {"barrier"} \cup Ended
      BY <1>1 DEF Ended
    <3> QED
      BY <1>1, <3>1, NobodyPublishes DEF DInv
  <2>2. \A q \in Ranks : pc'[q] \in {"syncShard", "gather"} /\ q # r => pc[q] = pc'[q]
    BY <1>2
  <2>3. \A q \in Ranks : pc[q] \in {"syncShard", "gather"} => step[q] \in Gens
    BY DEF IInv, Stepping, At, Saving
  <2>4. \A q \in Ranks : pc'[q] \in {"syncShard", "gather"} /\ q # r =>
            side'[<<q, step[q]>>] = side[<<q, step[q]>>]
    BY <1>4, <2>2, <2>3
  <2>5. side'[<<r, step[r]>>] = attempt
    BY <1>1, <1>5 DEF IInv, TypeOK
  <2> QED
    BY <1>1, <1>2, <2>1, <2>2, <2>4, <2>5 DEF DInv, Ready, At, SavedDurably
<1>7. Spared'
  BY <1>1, <1>2 DEF DInv, Spared, At
<1>8. AllIntact'
  <2>1. \A m \in Manifests, q \in Ranks : m = manifest \/ m = dManifest =>
            side'[<<q, m.step>>] = side[<<q, m.step>>]
    BY <1>4, <1>5, SavesNewer, OthersFile
  <2> QED
    BY <1>1, <2>1, IntactKept DEF DInv
<1> QED
  BY <1>3, <1>6, <1>7, <1>8 DEF DInv

\* A directory fsync: the caller's files become durable as they are.
LEMMA Fsynced ==
    ASSUME NEW r \in Ranks, FsyncDirectory(r), NEW q \in Ranks, NEW s \in Gens
    PROVE  LET f == <<q, s>>
           IN  /\ dShard'[f] = IF q = r THEN shard[f] ELSE dShard[f]
               /\ dSide'[f] = IF q = r THEN side[f] ELSE dSide[f]
BY DEF FsyncDirectory

LEMMA FsyncIntact ==
    ASSUME DInv, NEW r \in Ranks, FsyncDirectory(r), UNCHANGED <<shard, side, manifest>>
    PROVE  AllIntact'
<1>1. dManifest' \in {manifest, dManifest}
  BY DEF FsyncDirectory
<1>2. \A m \in Manifests, q \in Ranks :
          /\ dShard'[<<q, m.step>>] \in {shard[<<q, m.step>>], dShard[<<q, m.step>>]}
          /\ dSide'[<<q, m.step>>] \in {side[<<q, m.step>>], dSide[<<q, m.step>>]}
  BY Fsynced, ManifestRecord
<1> QED
  BY <1>1, <1>2, IntactKept DEF DInv

LEMMA DSyncShard == ASSUME IInv, DInv, NEW r \in Ranks, SyncShard(r) PROVE DInv'
<1>1. /\ UNCHANGED <<shard, side, manifest, attempt, step, doomed, acked>>
      /\ FsyncDirectory(r)
      /\ Goto(r, "gather") /\ pc[r] = "syncShard"
  BY DEF SyncShard
<1>2. \A q \in Ranks : pc'[q] = IF q = r THEN "gather" ELSE pc[q]
  BY <1>1 DEF Goto, IInv, TypeOK
<1>3. Phase' /\ Committed' /\ Ahead' /\ Order' /\ Kept'
  <2>1. /\ "gather" \in Labels /\ "gather" \notin Pruning
        /\ pc[r] \in Saving /\ pc[r] \notin {"barrier"} \cup Ended
    BY <1>1 DEF Labels, Collectives, Pruning, Saving, Ended
  <2>2. dManifest' \in {manifest, dManifest}
    BY <1>1 DEF FsyncDirectory
  <2> QED
    BY <1>1, <2>1, <2>2, LocalMove DEF DInv
<1>4. Ready'
  <2>1. pc'[Leader] # "publish"
    <3>1. pc[r] \notin {"barrier"} \cup Ended
      BY <1>1 DEF Ended
    <3> QED
      BY <1>1, <3>1, NobodyPublishes DEF DInv
  <2>2. \A q \in Ranks : pc'[q] \in {"syncShard", "gather"} /\ q # r => pc[q] = pc'[q]
    BY <1>2
  <2>3. \A q \in Ranks : pc[q] \in {"syncShard", "gather"} => step[q] \in Gens
    BY DEF IInv, Stepping, At, Saving
  <2>4. \A q \in Ranks : pc[q] = "gather" /\ q # r => SavedDurably(q, step[q])'
    BY <1>1, <2>3, Fsynced DEF DInv, Ready, At, SavedDurably
  <2>5. SavedDurably(r, step[r])'
    <3>1. shard[<<r, step[r]>>] = attempt /\ side[<<r, step[r]>>] = attempt /\ step[r] \in Gens
      BY <1>1, <2>3 DEF DInv, Ready, IInv, SavedOwn, At
    <3> QED
      BY <1>1, <3>1, Fsynced DEF SavedDurably
  <2> QED
    BY <1>1, <1>2, <2>1, <2>2, <2>4, <2>5 DEF DInv, Ready, At
<1>5. Spared'
  BY <1>1, <1>2 DEF DInv, Spared, At
<1>6. AllIntact'
  BY <1>1, FsyncIntact
<1> QED
  BY <1>3, <1>4, <1>5, <1>6 DEF DInv
-----------------------------------------------------------------------------
(* Publishing *)

LEMMA DCommitGather == ASSUME IInv, DInv, CommitGather PROVE DInv'
<1>1. /\ UNCHANGED storage /\ UNCHANGED <<attempt, step, acked>>
      /\ \A r \in Ranks : pc[r] = "gather"
  BY DEF CommitGather, All
<1>2. Order' /\ AllIntact' /\ Kept' /\ Newest' = Newest
  BY <1>1, JointKeeps
<1>3. CASE \A r \in Ranks : step[r] = step[Leader]
  <2>1. \A r \in Ranks : pc'[r] = IF r = Leader THEN "publish" ELSE "barrier"
    BY <1>3 DEF CommitGather
  <2>2. Phase' /\ Committed' /\ Spared'
    BY <2>1, Options DEF Phase, Committed, Spared, At, Pruning
  <2>3. Ahead'
    BY <1>1, <1>2, <2>1 DEF DInv, Ahead, At, Saving
  <2>4. Ready'
    <3>1. \A r \in Ranks : SavedDurably(r, step[Leader])
      BY <1>1, <1>3 DEF DInv, Ready, At
    <3>2. \A r \in Ranks : SavedDurably(r, step[Leader])'
      BY <1>1, <3>1 DEF SavedDurably, storage, durable
    <3> QED
      BY <2>1, <3>2 DEF Ready, At
  <2> QED
    BY <1>2, <2>2, <2>3, <2>4 DEF DInv
<1>4. CASE ~(\A r \in Ranks : step[r] = step[Leader])
  <2>1. \A r \in Ranks : pc'[r] = "down"
    BY <1>4 DEF CommitGather, AllGoto
  <2>2. Phase' /\ Committed' /\ Ahead' /\ Ready' /\ Spared'
    BY <2>1, Options DEF Phase, Committed, Ahead, Ready, Spared, At, Saving, Pruning
  <2> QED
    BY <1>2, <2>2 DEF DInv
<1> QED
  BY <1>3, <1>4

LEMMA DPublish == ASSUME IInv, DInv, Publish PROVE DInv'
<1>1. /\ UNCHANGED <<shard, side, dShard, dSide, dManifest, attempt, step, doomed, acked>>
      /\ pc[Leader] = "publish" /\ Goto(Leader, "syncManifest")
      /\ manifest'.step = step[Leader] /\ manifest'.sha = records
  BY DEF Publish, durable
<1>2. \A q \in Ranks : pc'[q] = IF q = Leader THEN "syncManifest" ELSE pc[q]
  BY <1>1 DEF Goto, IInv, TypeOK
<1>3. \A q \in Ranks : q # Leader => pc[q] \in {"barrier"} \cup Ended
  BY <1>1 DEF DInv, Phase, At
<1>4. manifest' \in Manifests /\ manifest' # NoManifest
  BY PublishedManifest, Options
<1>5. Newest < step[Leader] /\ step[Leader] \in Nat /\ Newest \in Nat
  BY <1>1, Types DEF DInv, Ahead, At
<1>6. Phase'
  BY <1>2, <1>3 DEF Phase, At, Ended
<1>7. Committed'
  BY <1>1, <1>2, <1>3, <1>4, Options DEF Committed, At, Pruning, Ended
<1>8. Ahead' /\ Ready' /\ Spared'
  BY <1>2, <1>3, Options DEF Ahead, Ready, Spared, At, Saving, Ended
<1>9. Order'
  <2>1. dManifest # NoManifest => dManifest.step <= Newest /\ dManifest.step \in Nat
    BY Types DEF DInv, Order, Newest
  <2> QED
    BY <1>1, <1>4, <1>5, <2>1 DEF Order
<1>10. Kept'
  BY <1>1 DEF DInv, Kept
<1>11. AllIntact'
  <2> SUFFICES ASSUME NEW m \in Manifests, NEW r \in Ranks, m = manifest' \/ m = dManifest'
               PROVE  /\ shard'[<<r, m.step>>] = m.sha[r] /\ dShard'[<<r, m.step>>] = m.sha[r]
                      /\ side'[<<r, m.step>>] = m.sha[r] /\ dSide'[<<r, m.step>>] = m.sha[r]
    BY DEF AllIntact
  <2>1. CASE m = manifest'
    <3>1. records[r] = attempt
      BY <1>1 DEF IInv, SavedOwn, At
    <3>2. SavedDurably(r, step[Leader])
      BY <1>1 DEF DInv, Ready, At
    <3> QED
      BY <1>1, <2>1, <3>1, <3>2 DEF SavedDurably
  <2>2. CASE m = dManifest'
    BY <1>1, <2>2 DEF DInv, AllIntact
  <2> QED
    BY <2>1, <2>2
<1> QED
  BY <1>6, <1>7, <1>8, <1>9, <1>10, <1>11 DEF DInv

LEMMA DSyncManifest == ASSUME IInv, DInv, SyncManifest PROVE DInv'
<1>1. /\ UNCHANGED <<shard, side, manifest, attempt, step, doomed, acked>>
      /\ FsyncDirectory(Leader)
      /\ Goto(Leader, "barrier") /\ pc[Leader] = "syncManifest"
  BY DEF SyncManifest
<1>2. \A q \in Ranks : pc'[q] = IF q = Leader THEN "barrier" ELSE pc[q]
  BY <1>1 DEF Goto, IInv, TypeOK
<1>3. \A q \in Ranks : q # Leader => pc[q] \in {"barrier"} \cup Ended
  BY <1>1 DEF DInv, Phase, At
<1>4. Phase' /\ Committed' /\ Ahead' /\ Order' /\ Kept'
  <2>1. /\ "barrier" \in Labels /\ "barrier" \notin Pruning /\ "barrier" \notin Saving
        /\ pc[Leader] \notin {"barrier"} \cup Ended
    BY <1>1 DEF Labels, Collectives, Pruning, Saving, Ended
  <2>2. dManifest' = manifest
    BY <1>1 DEF FsyncDirectory
  <2> QED
    BY <1>1, <2>1, <2>2, LocalMove, Options DEF DInv
<1>5. Ready' /\ Spared'
  BY <1>2, <1>3, Options DEF Ready, Spared, At, Ended
<1>6. AllIntact'
  BY <1>1, FsyncIntact, Options
<1> QED
  BY <1>4, <1>5, <1>6 DEF DInv

LEMMA DCommitBarrier == ASSUME IInv, DInv, CommitBarrier PROVE DInv'
<1>1. /\ UNCHANGED storage /\ UNCHANGED step /\ acked' = step[Leader]
      /\ \A r \in Ranks : pc[r] = "barrier" /\ pc'[r] = "prune"
  BY DEF CommitBarrier, All, AllGoto
<1>2. Order' /\ AllIntact'
  BY <1>1, JointKeeps
<1>3. /\ manifest # NoManifest /\ dManifest = manifest
      /\ \A r \in Ranks : manifest.step = step[r]
  <2>1. manifest # NoManifest /\ dManifest = manifest /\ manifest.step = step[Leader]
    BY <1>1, Options DEF DInv, Committed, At
  <2>2. \A r \in Ranks : step[r] = step[Leader]
    BY <1>1, Options DEF IInv, Together, At, Active, Committing
  <2> QED
    BY <2>1, <2>2
<1>4. UNCHANGED <<manifest, dManifest>>
  BY <1>1 DEF storage, durable
<1>5. Phase' /\ Committed' /\ Ahead' /\ Ready' /\ Spared'
  BY <1>1, <1>3, <1>4, Options DEF Phase, Committed, Ahead, Ready, Spared, At, Saving
<1>6. Kept'
  BY <1>1, <1>3, <1>4, Types DEF Kept
<1> QED
  BY <1>2, <1>5, <1>6 DEF DInv
-----------------------------------------------------------------------------
(* Pruning *)

LEMMA DPrune == ASSUME IInv, DInv, NEW r \in Ranks, Prune(r) PROVE DInv'
<1>1. /\ UNCHANGED storage /\ UNCHANGED <<attempt, step, acked>>
      /\ Goto(r, "unlinkShard") /\ pc[r] = "prune"
      /\ UNCHANGED <<shard, side, manifest, dShard, dSide, dManifest>>
  BY DEF Prune, storage, durable
<1>2. \A q \in Ranks : pc'[q] = IF q = r THEN "unlinkShard" ELSE pc[q]
  BY <1>1 DEF Goto, IInv, TypeOK
<1>3. Phase' /\ Committed' /\ Ahead' /\ Order' /\ Kept'
  <2>1. /\ "unlinkShard" \in Labels /\ "unlinkShard" \notin Saving
        /\ pc[r] \in Pruning /\ pc[r] \notin {"barrier"} \cup Ended
    BY <1>1 DEF Labels, Local, Pruning, Saving, Ended
  <2> QED
    BY <1>1, <2>1, LocalMove DEF DInv
<1>4. Ready'
  BY <1>1, <1>2, Options DEF DInv, Ready, At, SavedDurably
<1>5. Spared'
  <2>1. step[r] \notin doomed'[r]
    BY DEF Prune, Retained, IInv, TypeOK
  <2>2. \A q \in Ranks : q # r => doomed'[q] = doomed[q]
    BY DEF Prune, IInv, TypeOK
  <2> QED
    BY <1>1, <1>2, <2>1, <2>2 DEF DInv, Spared, At
<1>6. AllIntact'
  BY <1>1, JointKeeps
<1> QED
  BY <1>3, <1>4, <1>5, <1>6 DEF DInv

LEMMA DeletesOthers ==
    ASSUME IInv, DInv, NEW r \in Ranks, pc[r] \in {"unlinkShard", "unlinkSide"},
           NEW s \in doomed[r], NEW m \in Manifests, m = manifest \/ m = dManifest
    PROVE  m.step # s
<1>1. dManifest = manifest /\ manifest.step = step[r]
  BY DEF DInv, Committed, At, Pruning
<1>2. step[r] \notin doomed[r]
  BY DEF DInv, Spared, At
<1> QED
  BY <1>1, <1>2

LEMMA DUnlinkShard ==
    ASSUME IInv, DInv, NEW r \in Ranks, NEW s \in Gens, UnlinkShard(r, s) PROVE DInv'
<1>1. /\ UNCHANGED <<side, manifest, dShard, dSide, dManifest, attempt, step, doomed, acked>>
      /\ shard' = [shard EXCEPT ![<<r, s>>] = 0]
      /\ Goto(r, "unlinkSide") /\ pc[r] = "unlinkShard" /\ s \in doomed[r]
  BY DEF UnlinkShard, durable
<1>2. \A q \in Ranks : pc'[q] = IF q = r THEN "unlinkSide" ELSE pc[q]
  BY <1>1 DEF Goto, IInv, TypeOK
<1>3. Phase' /\ Committed' /\ Ahead' /\ Order' /\ Kept'
  <2>1. /\ "unlinkSide" \in Labels /\ "unlinkSide" \notin Saving
        /\ pc[r] \in Pruning /\ pc[r] \notin {"barrier"} \cup Ended
    BY <1>1 DEF Labels, Local, Pruning, Saving, Ended
  <2> QED
    BY <1>1, <2>1, LocalMove DEF DInv
<1>4. \A f \in Ranks \X Gens : f # <<r, s>> => shard'[f] = shard[f]
  BY <1>1 DEF IInv, TypeOK
<1>5. Ready'
  <2>1. pc'[Leader] # "publish"
    <3>1. pc[r] \notin {"barrier"} \cup Ended
      BY <1>1 DEF Ended
    <3> QED
      BY <1>1, <3>1, NobodyPublishes DEF DInv
  <2>2. \A q \in Ranks : pc'[q] \in {"syncShard", "gather"} => q # r /\ pc[q] = pc'[q]
    BY <1>2
  <2>3. \A q \in Ranks : pc[q] = "gather" => step[q] \in Gens
    BY DEF IInv, Stepping, At, Saving
  <2>4. \A q \in Ranks : pc'[q] = "gather" => shard'[<<q, step[q]>>] = shard[<<q, step[q]>>]
    BY <1>4, <2>2, <2>3
  <2> QED
    BY <1>1, <2>1, <2>2, <2>4 DEF DInv, Ready, At, SavedDurably
<1>6. Spared'
  BY <1>1, <1>2 DEF DInv, Spared, At
<1>7. AllIntact'
  <2>1. \A m \in Manifests, q \in Ranks : m = manifest \/ m = dManifest =>
            shard'[<<q, m.step>>] = shard[<<q, m.step>>]
    BY <1>1, <1>4, DeletesOthers, OthersFile
  <2> QED
    BY <1>1, <2>1, IntactKept DEF DInv
<1> QED
  BY <1>3, <1>5, <1>6, <1>7 DEF DInv

LEMMA DUnlinkSide ==
    ASSUME IInv, DInv, NEW r \in Ranks, NEW s \in Gens, UnlinkSide(r, s) PROVE DInv'
<1>1. /\ UNCHANGED <<shard, manifest, dShard, dSide, dManifest, attempt, step, acked>>
      /\ side' = [side EXCEPT ![<<r, s>>] = 0]
      /\ doomed' = [doomed EXCEPT ![r] = @ \ {s}]
      /\ Goto(r, "unlinkShard") /\ pc[r] = "unlinkSide" /\ s \in doomed[r]
  BY DEF UnlinkSide, durable
<1>2. \A q \in Ranks : pc'[q] = IF q = r THEN "unlinkShard" ELSE pc[q]
  BY <1>1 DEF Goto, IInv, TypeOK
<1>3. Phase' /\ Committed' /\ Ahead' /\ Order' /\ Kept'
  <2>1. /\ "unlinkShard" \in Labels /\ "unlinkShard" \notin Saving
        /\ pc[r] \in Pruning /\ pc[r] \notin {"barrier"} \cup Ended
    BY <1>1 DEF Labels, Local, Pruning, Saving, Ended
  <2> QED
    BY <1>1, <2>1, LocalMove DEF DInv
<1>4. \A f \in Ranks \X Gens : f # <<r, s>> => side'[f] = side[f]
  BY <1>1 DEF IInv, TypeOK
<1>5. Ready'
  <2>1. pc'[Leader] # "publish"
    <3>1. pc[r] \notin {"barrier"} \cup Ended
      BY <1>1 DEF Ended
    <3> QED
      BY <1>1, <3>1, NobodyPublishes DEF DInv
  <2>2. \A q \in Ranks : pc'[q] \in {"syncShard", "gather"} => q # r /\ pc[q] = pc'[q]
    BY <1>2
  <2>3. \A q \in Ranks : pc[q] \in {"syncShard", "gather"} => step[q] \in Gens
    BY DEF IInv, Stepping, At, Saving
  <2>4. \A q \in Ranks : pc'[q] \in {"syncShard", "gather"} =>
            side'[<<q, step[q]>>] = side[<<q, step[q]>>]
    BY <1>4, <2>2, <2>3
  <2> QED
    BY <1>1, <2>1, <2>2, <2>4 DEF DInv, Ready, At, SavedDurably
<1>6. Spared'
  <2>1. \A q \in Ranks : doomed'[q] \subseteq doomed[q]
    BY <1>1 DEF IInv, TypeOK
  <2> QED
    BY <1>1, <1>2, <2>1 DEF DInv, Spared, At
<1>7. AllIntact'
  <2>1. \A m \in Manifests, q \in Ranks : m = manifest \/ m = dManifest =>
            side'[<<q, m.step>>] = side[<<q, m.step>>]
    BY <1>1, <1>4, DeletesOthers, OthersFile
  <2> QED
    BY <1>1, <2>1, IntactKept DEF DInv
<1> QED
  BY <1>3, <1>5, <1>6, <1>7 DEF DInv

LEMMA DMove ==
    ASSUME IInv, DInv, NEW r \in Ranks, PruneEnds(r) \/ Crash(r) \/ CollectiveTimeout(r)
    PROVE  DInv'
<1>1. /\ UNCHANGED storage /\ UNCHANGED <<attempt, step, doomed, acked>>
      /\ UNCHANGED <<shard, side, manifest, dShard, dSide, dManifest>>
  BY DEF PruneEnds, Crash, CollectiveTimeout, storage, durable
<1>2. PICK label \in {"down", "pruned"} :
          Goto(r, label) /\ (label = "pruned" => pc[r] = "unlinkShard")
  BY DEF PruneEnds, Crash, CollectiveTimeout
<1>3. \A q \in Ranks : pc'[q] = IF q = r THEN label ELSE pc[q]
  BY <1>2 DEF Goto, IInv, TypeOK
<1>4. Phase' /\ Committed' /\ Ahead' /\ Order' /\ Kept'
  <2>1. /\ label \in Labels /\ label \notin Saving
        /\ label \in Pruning => pc[r] \in Pruning
        /\ label \in Ended \/ pc[r] \notin {"barrier"} \cup Ended
    BY <1>2 DEF Labels, Collectives, Pruning, Saving, Ended
  <2> QED
    BY <1>1, <1>2, <2>1, LocalMove DEF DInv
<1>5. Ready' /\ Spared'
  BY <1>1, <1>2, <1>3, Options DEF DInv, Ready, Spared, At, SavedDurably
<1>6. AllIntact'
  BY <1>1, JointKeeps
<1> QED
  BY <1>4, <1>5, <1>6 DEF DInv

LEMMA DPruneGather == ASSUME IInv, DInv, PruneGather PROVE DInv'
<1>1. /\ UNCHANGED storage /\ UNCHANGED <<step, acked>>
      /\ \A r \in Ranks : pc[r] = "pruned" /\ pc'[r] \in {"train", "done"}
  BY DEF PruneGather, All, NextStop
<1>2. Order' /\ AllIntact' /\ Kept' /\ Newest' = Newest
  BY <1>1, JointKeeps
<1>3. Phase' /\ Committed' /\ Ready' /\ Spared'
  BY <1>1, Options DEF Phase, Committed, Ready, Spared, At, Pruning
<1>4. Ahead'
  <2>1. \A r \in Ranks : Newest = step[r]
    BY <1>1 DEF DInv, Committed, At, Pruning, Newest
  <2>2. \A r \in Ranks : Newest <= step[r]
    BY <2>1, Types
  <2> QED
    BY <1>1, <1>2, <2>2 DEF Ahead, At, Saving
<1> QED
  BY <1>2, <1>3, <1>4 DEF DInv

LEMMA DPowerLoss == ASSUME IInv, DInv, PowerLoss PROVE DInv'
<1>1. /\ UNCHANGED acked /\ manifest' \in {manifest, dManifest} /\ dManifest' = manifest'
      /\ \A r \in Ranks : pc'[r] = "down"
  BY DEF PowerLoss, AllGoto
<1>2. Phase' /\ Committed' /\ Ahead' /\ Ready' /\ Spared'
  BY <1>1, Options DEF Phase, Committed, Ahead, Ready, Spared, At, Saving, Pruning
<1>3. Order'
  <2>1. manifest' # NoManifest => manifest'.step \in Nat
    BY <1>1, Types
  <2> QED
    BY <1>1, <2>1 DEF Order
<1>4. Kept'
  BY <1>1, Types DEF DInv, Kept, Order
<1>5. AllIntact'
  <2>1. PICK lost \in SUBSET (Ranks \X Gens) :
            shard' = [f \in Ranks \X Gens |-> IF f \in lost THEN dShard[f] ELSE shard[f]]
    BY DEF PowerLoss
  <2>2. PICK gone \in SUBSET (Ranks \X Gens) :
            side' = [f \in Ranks \X Gens |-> IF f \in gone THEN dSide[f] ELSE side[f]]
    BY DEF PowerLoss
  <2>3. dShard' = shard' /\ dSide' = side'
    BY DEF PowerLoss
  <2>4. \A f \in Ranks \X Gens : shard'[f] \in {shard[f], dShard[f]} /\ side'[f] \in {side[f], dSide[f]}
    BY <2>1, <2>2
  <2>5. \A m \in Manifests, r \in Ranks : <<r, m.step>> \in Ranks \X Gens
    BY ManifestRecord
  <2> QED
    BY <1>1, <2>3, <2>4, <2>5, IntactKept DEF DInv
<1> QED
  BY <1>2, <1>3, <1>4, <1>5 DEF DInv

LEMMA DStutter == ASSUME DInv, UNCHANGED vars PROVE DInv'
BY DEF vars, storage, durable, DInv, Phase, Committed, Ahead, Newest, Ready, SavedDurably,
       Spared, Order, Kept, AllIntact, At

LEMMA DurableStep == ASSUME NoOverwrite, IInv, DInv, [Next]_vars PROVE DInv'
<1>1. CASE \E resume \in BOOLEAN, overwrite \in AllowOverwrite : Start(resume, overwrite)
  BY <1>1, DStart
<1>2. CASE Joint
  BY <1>2, DRestore, DTrainStep, DCommitGather, DPublish, DSyncManifest, DCommitBarrier,
     DPruneGather DEF Joint
<1>3. ASSUME NEW r \in Ranks, RankStep(r) \/ Crash(r) \/ CollectiveTimeout(r)
      PROVE  DInv'
  BY <1>3, DSaveShard, DSaveSide, DSyncShard, DPrune, DUnlinkShard, DUnlinkSide, DMove
     DEF RankStep
<1>4. CASE PowerLoss
  BY <1>4, DPowerLoss
<1>5. CASE Stopped \/ UNCHANGED vars
  BY <1>5, DStutter DEF Stopped
<1> QED
  BY <1>1, <1>2, <1>3, <1>4, <1>5 DEF Next

\* Without overwriting, every reachable state satisfies the durability invariant.
THEOREM Durability == ASSUME NoOverwrite PROVE Spec => []DInv
<1>1. Init => DInv
  BY DurableInit
<1>2. IInv /\ DInv /\ [Next]_vars => DInv'
  BY DurableStep
<1> QED
  BY <1>1, <1>2, Invariant, PTL DEF Spec

\* Whichever manifest a reader may find, now or after a power loss, names only
\* intact and durable shards and sidecars.
THEOREM IntactAlways == ASSUME NoOverwrite PROVE Spec => []CommittedGenerationIntact
<1>1. IInv /\ DInv => CommittedGenerationIntact
  BY Types DEF DInv, AllIntact, CommittedGenerationIntact, Intact
<1> QED
  BY <1>1, Invariant, Durability, PTL

\* What a commit barrier confirmed is found by every later start, whatever
\* crashes, power losses, restarts and pruning come between.
THEOREM ConfirmedSurvives == ASSUME NoOverwrite PROVE Spec => []ConfirmedGenerationSurvives
<1>1. IInv /\ DInv => ConfirmedGenerationSurvives
  <2> SUFFICES ASSUME IInv, DInv, acked # 0
               PROVE  /\ manifest # NoManifest /\ manifest.step >= acked
                      /\ dManifest # NoManifest /\ dManifest.step >= acked
    BY DEF ConfirmedGenerationSurvives
  <2>1. dManifest # NoManifest /\ acked <= dManifest.step
    BY DEF DInv, Kept
  <2>2. manifest # NoManifest /\ dManifest.step <= manifest.step
    BY <2>1 DEF DInv, Order
  <2> QED
    BY <2>1, <2>2, Types
<1> QED
  BY <1>1, Invariant, Durability, PTL
-----------------------------------------------------------------------------
(* The directory implements the register *)

Value == IF manifest = NoManifest THEN 0 ELSE manifest.step

LEMMA RegisterStep ==
    ASSUME IInv, DInv, [Next]_vars
    PROVE  [Register!Next]_<<Value, acked>>
<1>1. Value = Newest
  BY DEF Value, Newest
<1>2. CASE UNCHANGED <<manifest, acked>>
  BY <1>2 DEF Value
<1>3. CASE Publish
  <2>1. Newest < step[Leader] /\ step[Leader] \in Nat /\ Newest \in Nat
    BY <1>3, Types DEF Publish, DInv, Ahead, At
  <2>2. manifest' # NoManifest /\ manifest'.step = step[Leader] /\ acked' = acked
    BY <1>3, PublishedManifest, Options DEF Publish
  <2>3. Value' = step[Leader]
    BY <2>2 DEF Value
  <2> QED
    BY <1>1, <2>1, <2>2, <2>3 DEF Register!Next, Register!Publish, Value
<1>4. CASE CommitBarrier
  <2>1. UNCHANGED manifest /\ acked' = step[Leader] /\ pc[Leader] = "barrier"
    BY <1>4, Options DEF CommitBarrier, storage, All
  <2>2. manifest # NoManifest /\ manifest.step = step[Leader]
    BY <2>1, Options DEF DInv, Committed, At
  <2> QED
    BY <2>1, <2>2 DEF Register!Next, Register!Confirm, Value
<1>5. CASE PowerLoss
  <2>1. manifest' \in {manifest, dManifest} /\ UNCHANGED acked
    BY <1>5 DEF PowerLoss
  <2>2. CASE manifest' = manifest
    BY <1>2, <2>1, <2>2
  <2>3. CASE manifest' = dManifest /\ dManifest = NoManifest
    <3>1. acked = 0 /\ Value' = 0 /\ Value \in Nat
      BY <1>1, <2>3, Types DEF DInv, Kept, Value
    <3> QED
      BY <2>1, <3>1 DEF Register!Next, Register!TakeBack, Value
  <2>4. CASE manifest' = dManifest /\ dManifest # NoManifest
    <3>1. manifest # NoManifest /\ Value' = dManifest.step /\ Value = manifest.step
      BY <2>4 DEF DInv, Order, Value
    <3>2. dManifest.step <= manifest.step /\ dManifest.step \in Nat /\ manifest.step \in Nat
      BY <2>4, <3>1, Types DEF DInv, Order
    <3>3. acked <= dManifest.step /\ acked \in Nat
      BY <2>4, Types DEF DInv, Kept
    <3>4. Value' = Value \/ (Value' < Value /\ Value' >= acked)
      BY <3>1, <3>2, <3>3
    <3> QED
      BY <2>1, <3>4 DEF Register!Next, Register!TakeBack, Value
  <2> QED
    BY <2>1, <2>2, <2>3, <2>4
<1>6. CASE \E resume \in BOOLEAN, overwrite \in AllowOverwrite : Start(resume, overwrite)
  BY <1>2, <1>6 DEF Start, storage
<1>7. CASE Restore \/ TrainStep \/ CommitGather \/ SyncManifest \/ PruneGather
  BY <1>2, <1>7 DEF Restore, TrainStep, CommitGather, SyncManifest, PruneGather, storage
<1>8. ASSUME NEW r \in Ranks, RankStep(r) \/ Crash(r) \/ CollectiveTimeout(r)
      PROVE  UNCHANGED <<manifest, acked>>
  BY <1>8 DEF RankStep, SaveShard, SaveSide, SyncShard, Prune, PruneEnds, UnlinkShard,
              UnlinkSide, Crash, CollectiveTimeout, storage
<1>9. CASE Stopped \/ UNCHANGED vars
  BY <1>2, <1>9 DEF Stopped, vars, storage
<1> QED
  BY <1>2, <1>3, <1>4, <1>5, <1>6, <1>7, <1>8, <1>9 DEF Next, Joint

\* Committing, pruning, dying and resuming implement a register that only
\* moves forward and never loses what was confirmed.
THEOREM RegisterImplemented == ASSUME NoOverwrite PROVE Spec => ImplementsRegister
<1>1. Init => Register!Init
  BY DEF Init, Register!Init
<1>2. IInv /\ DInv /\ [Next]_vars => [Register!Next]_<<Value, acked>>
  BY RegisterStep
<1>3. [Register!Next]_<<Value, acked>> => [Register!Next]_(Register!vars)
  BY DEF Register!vars, Value
<1> QED
  BY <1>1, <1>2, <1>3, Invariant, Durability, PTL DEF Spec, ImplementsRegister, Register!Spec
=============================================================================
