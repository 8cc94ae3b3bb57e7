---------------------------- MODULE MPSCheckpoint ----------------------------
(***************************************************************************)
(* flagquantum/runtime/executors/mps/checkpointing.py as it is driven by   *)
(* train_distributed_mps (training_engine.py): the files by which a job of *)
(* several ranks commits checkpoint generations, prunes old ones and       *)
(* resumes.                                                                *)
(*                                                                         *)
(* Every rank writes its own shard and checksum sidecar, all ranks gather  *)
(* the shards' digests, rank 0 publishes COMMITTED.json, and after a       *)
(* barrier every rank prunes.  Ranks run on their own between collectives; *)
(* a collective is one joint step of all ranks.  A rank may die between    *)
(* any two file operations; its peers then run on to the next collective   *)
(* and time out there, and the caller starts another attempt.  A power     *)
(* loss may undo directory operations that no fsync has made durable.      *)
(*                                                                         *)
(* One attempt runs at a time: the writer lease is modelled in             *)
(* MPSWriterLease.  A file's content is the number of the attempt that     *)
(* wrote it, and equals its SHA-256; 0 stands for a missing file.          *)
(***************************************************************************)
EXTENDS Integers, FiniteSets

CONSTANTS
    Ranks,           \* the process group
    Leader,          \* rank 0, which publishes the manifest
    Steps,           \* the caller's target number of training steps
    Interval,        \* checkpoint_interval
    Keep,            \* checkpoint_retention_generations; 0 stands for None
    AllowOverwrite,  \* the values of allow_checkpoint_overwrite callers use
    NoManifest,      \* COMMITTED.json does not exist
    MaxAttempts,     \* bound: how often the caller starts the job
    MaxLosses        \* bound: how often the power fails

ASSUME RanksAssumption == Leader \in Ranks /\ IsFiniteSet(Ranks)
ASSUME OptionsAssumption ==
    /\ Steps \in Nat \ {0} /\ Interval \in Nat \ {0} /\ Keep \in Nat
    /\ AllowOverwrite \subseteq BOOLEAN
    /\ MaxAttempts \in Nat /\ MaxLosses \in Nat

Gens == 1..Steps
Attempts == 1..MaxAttempts
Manifests == [step : Gens, sha : [Ranks -> Attempts]]

ASSUME ManifestAssumption == NoManifest \notin Manifests

VARIABLES
    shard,        \* [rank, step] -> content of rank-r-step-s.pt
    side,         \* [rank, step] -> content of rank-r-step-s.pt.sha256
    manifest,     \* content of COMMITTED.json
    dShard,       \* the same files as a power loss could leave them: the
    dSide,        \*   contents the last directory fsync made durable
    dManifest,
    attempt,      \* the number of the current attempt
    pc,           \* where each rank is
    step,         \* completed_steps of each rank
    loaded,       \* the content each rank resumed from; 0 when it started fresh
    records,      \* the digests gathered for the generation being committed
    doomed,       \* the steps a pruning rank has still to delete
    acked,        \* history: the newest generation a commit barrier confirmed
    losses        \* how often the power has failed

durable == <<dShard, dSide, dManifest>>
storage == <<shard, side, manifest, durable>>
vars == <<storage, attempt, pc, step, loaded, records, doomed, acked, losses>>

Collectives == {"restore", "train", "gather", "barrier", "pruned"}
Local == {"saveShard", "saveSide", "syncShard", "publish", "syncManifest",
          "prune", "unlinkShard", "unlinkSide"}
Ended == {"down", "done"}

Init ==
    /\ shard = [f \in Ranks \X Gens |-> 0]
    /\ side = [f \in Ranks \X Gens |-> 0]
    /\ manifest = NoManifest
    /\ dShard = shard
    /\ dSide = side
    /\ dManifest = NoManifest
    /\ attempt = 0
    /\ pc = [r \in Ranks |-> "down"]
    /\ step = [r \in Ranks |-> 0]
    /\ loaded = [r \in Ranks |-> 0]
    /\ records = [r \in Ranks |-> 0]
    /\ doomed = [r \in Ranks |-> {}]
    /\ acked = 0
    /\ losses = 0

All(label) == \A r \in Ranks : pc[r] = label
AllGoto(label) == pc' = [r \in Ranks |-> label]
Goto(r, label) == pc' = [pc EXCEPT ![r] = label]

\* The rank's generation, the file it writes for it.
File(r) == <<r, step[r]>>
\* Deviation: the loop runs one step too far.
NextStop_OffByOne(s) == IF s > Steps THEN "done" ELSE "train"

NextStop(s) == IF s = Steps THEN "done" ELSE "train"
-----------------------------------------------------------------------------
(* Starting: policy, restore *)

\* Deviation: a fresh start never looks at the manifest.
PolicyAllows_Unchecked(resume, overwrite) == resume => manifest # NoManifest

\* _checkpoint_start_policy_error: a refused start leaves everything alone.
PolicyAllows(resume, overwrite) ==
    IF resume THEN manifest # NoManifest
              ELSE manifest = NoManifest \/ overwrite

Start(resume, overwrite) ==
    /\ \A r \in Ranks : pc[r] \in Ended
    /\ attempt < MaxAttempts
    /\ PolicyAllows(resume, overwrite)
    /\ attempt' = attempt + 1
    /\ AllGoto(IF resume THEN "restore" ELSE "train")
    /\ step' = [r \in Ranks |-> 0]
    /\ loaded' = [r \in Ranks |-> 0]
    /\ records' = [r \in Ranks |-> 0]
    /\ doomed' = [r \in Ranks |-> {}]
    /\ UNCHANGED <<storage, acked, losses>>

\* Deviation: the preflight only asks whether the shard is there.
Preflight_NoDigest(r) == shard[<<r, manifest.step>>] # 0

\* The collective preflight of the generation COMMITTED.json names.
Preflight(r) == shard[<<r, manifest.step>>] # 0 /\ shard[<<r, manifest.step>>] = manifest.sha[r]

\* The shard's own checksum file, before it is deserialised.
SidecarMatches(r) == side[<<r, manifest.step>>] = shard[<<r, manifest.step>>]

\* _restore_training_checkpoint: nobody writes meanwhile.  An issue of the
\* preflight reaches all ranks; one of the load keeps its rank from the
\* collective its peers then wait in.  Either way the attempt is over.
Restore ==
    /\ All("restore")
    /\ IF \A r \in Ranks : Preflight(r) /\ SidecarMatches(r)
       THEN /\ loaded' = [r \in Ranks |-> shard[<<r, manifest.step>>]]
            /\ step' = [r \in Ranks |-> manifest.step]
            /\ AllGoto(NextStop(manifest.step))
       ELSE AllGoto("down") /\ UNCHANGED <<loaded, step>>
    /\ UNCHANGED <<storage, attempt, records, doomed, acked, losses>>
-----------------------------------------------------------------------------
(* One training step, and the checkpoint after it *)

TrainStep ==
    /\ All("train")
    /\ step' = [r \in Ranks |-> step[r] + 1]
    /\ pc' = [r \in Ranks |-> IF step'[r] % Interval = 0 THEN "saveShard"
                                                          ELSE NextStop(step'[r])]
    /\ UNCHANGED <<storage, attempt, loaded, records, doomed, acked, losses>>

\* Deviation: a shard that is already there for this step is kept.
SaveShard_KeepsExisting(r) ==
    /\ pc[r] = "saveShard"
    /\ shard' = [shard EXCEPT ![File(r)] = IF @ = 0 THEN attempt ELSE @]
    /\ Goto(r, "saveSide")
    /\ UNCHANGED <<side, manifest, durable, attempt, step, loaded, records, doomed, acked,
                   losses>>

\* os.replace of the fsynced temporary file: visible now, durable later.
SaveShard(r) ==
    /\ pc[r] = "saveShard"
    /\ shard' = [shard EXCEPT ![File(r)] = attempt]
    /\ Goto(r, "saveSide")
    /\ UNCHANGED <<side, manifest, durable, attempt, step, loaded, records, doomed, acked,
                   losses>>

SaveSide(r) ==
    /\ pc[r] = "saveSide"
    /\ side' = [side EXCEPT ![File(r)] = attempt]
    /\ Goto(r, "syncShard")
    /\ UNCHANGED <<shard, manifest, durable, attempt, step, loaded, records, doomed, acked,
                   losses>>

\* fsync of the directory by rank r: its own renames and unlinks are durable.
FsyncDirectory(r) ==
    /\ dShard' = [f \in Ranks \X Gens |-> IF f[1] = r THEN shard[f] ELSE dShard[f]]
    /\ dSide' = [f \in Ranks \X Gens |-> IF f[1] = r THEN side[f] ELSE dSide[f]]
    /\ dManifest' = IF r = Leader THEN manifest ELSE dManifest

\* Deviation: the directory is not fsynced after the renames.
SyncShard_NoFsync(r) ==
    /\ pc[r] = "syncShard"
    /\ Goto(r, "gather")
    /\ UNCHANGED <<storage, attempt, step, loaded, records, doomed, acked, losses>>

SyncShard(r) ==
    /\ pc[r] = "syncShard"
    /\ FsyncDirectory(r)
    /\ Goto(r, "gather")
    /\ UNCHANGED <<shard, side, manifest, attempt, step, loaded, records, doomed, acked, losses>>

\* all_gather_json of every rank's record; the membership and step checks.
CommitGather ==
    /\ All("gather")
    /\ records' = [r \in Ranks |-> shard[File(r)]]
    /\ IF \A r \in Ranks : step[r] = step[Leader]
       THEN pc' = [r \in Ranks |-> IF r = Leader THEN "publish" ELSE "barrier"]
       ELSE AllGoto("down")
    /\ UNCHANGED <<storage, attempt, step, loaded, doomed, acked, losses>>

Publish ==
    /\ pc[Leader] = "publish"
    /\ manifest' = [step |-> step[Leader], sha |-> records]
    /\ Goto(Leader, "syncManifest")
    /\ UNCHANGED <<shard, side, durable, attempt, step, loaded, records, doomed, acked,
                   losses>>

\* Deviation: the directory is not fsynced after the manifest's rename.
SyncManifest_NoFsync ==
    /\ pc[Leader] = "syncManifest"
    /\ Goto(Leader, "barrier")
    /\ UNCHANGED <<storage, attempt, step, loaded, records, doomed, acked, losses>>

SyncManifest ==
    /\ pc[Leader] = "syncManifest"
    /\ FsyncDirectory(Leader)
    /\ Goto(Leader, "barrier")
    /\ UNCHANGED <<shard, side, manifest, attempt, step, loaded, records, doomed, acked, losses>>

CommitBarrier ==
    /\ All("barrier")
    /\ AllGoto("prune")
    /\ acked' = step[Leader]
    /\ UNCHANGED <<storage, attempt, step, loaded, records, doomed, losses>>
-----------------------------------------------------------------------------
(* Retention *)

Saved(r) == {s \in Gens : shard[<<r, s>>] # 0}

\* Deviation: one generation too many is kept.
Retained_OffByOne(r, committed) ==
    {committed} \cup
    {s \in Saved(r) : /\ s <= committed
                      /\ Cardinality({t \in Saved(r) : s < t /\ t <= committed}) <= Keep}

\* The newest Keep steps up to the committed one, and the committed one itself.
Retained(r, committed) ==
    {committed} \cup
    {s \in Saved(r) : /\ s <= committed
                      /\ Cardinality({t \in Saved(r) : s < t /\ t <= committed}) < Keep}

\* Deviation: a rank with nothing to delete returns before the gather.
Prune_EarlyReturn(r) ==
    /\ pc[r] = "prune"
    /\ LET old == IF Keep = 0 THEN {} ELSE Saved(r) \ Retained(r, step[r])
       IN  /\ doomed' = [doomed EXCEPT ![r] = old]
           /\ Goto(r, IF old = {} THEN NextStop(step[r]) ELSE "unlinkShard")
    /\ UNCHANGED <<storage, attempt, step, loaded, records, acked, losses>>

Prune(r) ==
    /\ pc[r] = "prune"
    /\ doomed' = [doomed EXCEPT ![r] = IF Keep = 0 THEN {}
                                       ELSE Saved(r) \ Retained(r, step[r])]
    /\ Goto(r, "unlinkShard")
    /\ UNCHANGED <<storage, attempt, step, loaded, records, acked, losses>>

UnlinkShard(r, s) ==
    /\ pc[r] = "unlinkShard"
    /\ s \in doomed[r]
    /\ shard' = [shard EXCEPT ![<<r, s>>] = 0]
    /\ Goto(r, "unlinkSide")
    /\ UNCHANGED <<side, manifest, durable, attempt, step, loaded, records, doomed, acked,
                   losses>>

\* The sidecar of the shard just unlinked, the one doomed step without a shard.
UnlinkSide(r, s) ==
    /\ pc[r] = "unlinkSide"
    /\ s \in doomed[r] /\ shard[<<r, s>>] = 0
    /\ side' = [side EXCEPT ![<<r, s>>] = 0]
    /\ doomed' = [doomed EXCEPT ![r] = @ \ {s}]
    /\ Goto(r, "unlinkShard")
    /\ UNCHANGED <<shard, manifest, durable, attempt, step, loaded, records, acked, losses>>

PruneEnds(r) ==
    /\ pc[r] = "unlinkShard"
    /\ doomed[r] = {}
    /\ Goto(r, "pruned")
    /\ UNCHANGED <<storage, attempt, step, loaded, records, doomed, acked, losses>>

PruneGather ==
    /\ All("pruned")
    /\ pc' = [r \in Ranks |-> NextStop(step[r])]
    /\ UNCHANGED <<storage, attempt, step, loaded, records, doomed, acked, losses>>
-----------------------------------------------------------------------------
(* Failures *)

\* An exception or the death of one rank, at any point.
Crash(r) ==
    /\ pc[r] \notin Ended
    /\ Goto(r, "down")
    /\ UNCHANGED <<storage, attempt, step, loaded, records, doomed, acked, losses>>

\* A collective some peer will never join: its timeout takes the rank down.
CollectiveTimeout(r) ==
    /\ pc[r] \in Collectives
    /\ \E p \in Ranks : pc[p] = "down"
    /\ Goto(r, "down")
    /\ UNCHANGED <<storage, attempt, step, loaded, records, doomed, acked, losses>>

\* The machines stop; any of the changes not yet durable may be undone.
PowerLoss ==
    /\ losses < MaxLosses
    /\ losses' = losses + 1
    /\ AllGoto("down")
    /\ \E lost \in SUBSET {f \in Ranks \X Gens : dShard[f] # shard[f]} :
           shard' = [f \in Ranks \X Gens |-> IF f \in lost THEN dShard[f] ELSE shard[f]]
    /\ \E lost \in SUBSET {f \in Ranks \X Gens : dSide[f] # side[f]} :
           side' = [f \in Ranks \X Gens |-> IF f \in lost THEN dSide[f] ELSE side[f]]
    /\ manifest' \in {manifest, dManifest}
    /\ dShard' = shard'
    /\ dSide' = side'
    /\ dManifest' = manifest'
    /\ UNCHANGED <<attempt, step, loaded, records, doomed, acked>>

\* The caller has used up its attempts.
Stopped ==
    /\ attempt = MaxAttempts
    /\ \A r \in Ranks : pc[r] \in Ended
    /\ UNCHANGED vars

RankStep(r) ==
    \/ SaveShard(r) \/ SaveSide(r) \/ SyncShard(r)
    \/ Prune(r) \/ PruneEnds(r)
    \/ \E s \in Gens : UnlinkShard(r, s) \/ UnlinkSide(r, s)

Joint ==
    \/ Restore \/ TrainStep \/ CommitGather \/ Publish \/ SyncManifest
    \/ CommitBarrier \/ PruneGather

Next ==
    \/ \E resume \in BOOLEAN, overwrite \in AllowOverwrite : Start(resume, overwrite)
    \/ Joint
    \/ \E r \in Ranks : RankStep(r) \/ Crash(r) \/ CollectiveTimeout(r)
    \/ PowerLoss
    \/ Stopped

Spec == Init /\ [][Next]_vars

\* Ranks keep running between collectives, collectives complete or time out.
FairSpec ==
    /\ Spec
    /\ WF_vars(Joint)
    /\ \A r \in Ranks : WF_vars(RankStep(r)) /\ WF_vars(CollectiveTimeout(r))
-----------------------------------------------------------------------------
(* Properties *)

TypeOK ==
    /\ shard \in [Ranks \X Gens -> 0..MaxAttempts]
    /\ side \in [Ranks \X Gens -> 0..MaxAttempts]
    /\ manifest \in Manifests \cup {NoManifest}
    /\ dShard \in [Ranks \X Gens -> 0..MaxAttempts]
    /\ dSide \in [Ranks \X Gens -> 0..MaxAttempts]
    /\ dManifest \in Manifests \cup {NoManifest}
    /\ attempt \in 0..MaxAttempts
    /\ pc \in [Ranks -> Collectives \cup Local \cup Ended]
    /\ step \in [Ranks -> 0..Steps]
    /\ loaded \in [Ranks -> 0..MaxAttempts]
    /\ records \in [Ranks -> 0..MaxAttempts]
    /\ doomed \in [Ranks -> SUBSET Gens]
    /\ acked \in 0..Steps
    /\ losses \in 0..MaxLosses

\* Every shard and sidecar manifest m names is there, intact and durable.
Intact(m) ==
    \A r \in Ranks :
        LET files == {shard[<<r, m.step>>], dShard[<<r, m.step>>], side[<<r, m.step>>], dSide[<<r, m.step>>]}
        IN  files = {m.sha[r]}

\* Whichever manifest a reader may find, now or after a power loss, names only
\* intact and durable shards: saving, publishing, pruning and dying never
\* leave a directory that says "committed" and cannot be resumed.
CommittedGenerationIntact ==
    \A m \in {manifest, dManifest} : m # NoManifest => Intact(m)

\* The generation a manifest names was written whole by one attempt: shards of
\* different attempts or of an aborted save are never committed together.
OneAttemptPerGeneration ==
    \A m \in {manifest, dManifest} :
        m # NoManifest => \A r, p \in Ranks : m.sha[r] = m.sha[p]

\* Ranks that resumed hold shards of one attempt and are at one step, also
\* when an overwriting attempt died half-way through saving.
NoMixedResume ==
    (\A r \in Ranks : pc[r] = "train") =>
        \A r, p \in Ranks : loaded[r] = loaded[p] /\ step[r] = step[p]

\* What a commit barrier confirmed to all ranks survives every crash, power
\* loss, restart and pruning that follows: a later start finds it or a newer one.
ConfirmedGenerationSurvives ==
    acked # 0 => /\ manifest # NoManifest /\ manifest.step >= acked
                 /\ dManifest # NoManifest /\ dManifest.step >= acked

\* After pruning a rank has at most Keep shards on disk, whatever aborted
\* attempts and power losses left behind.
RetentionBoundsShards ==
    \A r \in Ranks : (pc[r] = "pruned" /\ Keep > 0) => Cardinality(Saved(r)) <= Keep

\* No attempt hangs: when one rank dies its peers end too, and without a
\* failure all ranks meet in the same collectives until they are done.
AttemptEnds == (\E r \in Ranks : pc[r] \notin Ended) ~> (\A r \in Ranks : pc[r] \in Ended)

(* What the directory promises: CheckpointRegister *)
Register == INSTANCE CheckpointRegister WITH
    value     <- IF manifest = NoManifest THEN 0 ELSE manifest.step,
    confirmed <- acked

\* Committing, pruning, dying and resuming implement a register that only
\* moves forward and never loses what was confirmed.
ImplementsRegister == Register!Spec
=============================================================================
