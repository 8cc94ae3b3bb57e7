# A TLA+ verification of FlagQuantum's durable state

FlagQuantum is a Python library for quantum programming: circuits and a compiler,
simulators that run on one or many ranks of `torch.distributed`, training loops, and
clients of remote quantum providers. Most of it is sequential numerical code. The part
where an unlucky order of events loses work or money is small: the protocols that put
state on disk while several processes run and any of them may die. This directory models
those protocols, model-checks them on small instances and proves their main safety
properties for every size.

All paths below are relative to `src/flagquantum/`.

## 1. Inventory

| Component | State | Operations | Hard part |
|---|---|---|---|
| Remote submission receipts, `remote/_job_receipts.py` | receipt file, request journal, the provider's jobs | `resume_or_submit` with `_reserve`, `_complete` | racing callers, crash after the provider accepted, lost answers, altered files |
| MPS checkpoint generations, `runtime/executors/mps/checkpointing.py` | one shard and one sidecar per rank and step, `COMMITTED.json` | start, restore, save, commit, prune | rank deaths between file operations, power loss, hanging collectives, retention |
| MPS writer lease, same file | `ACTIVE_WRITER.json` with heartbeat | acquire, break, refresh, release | check-then-act on file names, slow holders, several jobs |
| Dynamic TN checkpoint, `runtime/executors/tensor_network/dynamic_checkpoint.py` | one file per rank, `manifest.json`, `COMMITTED`, `.checkpoint.lock` | save, load, inspect, clear the lock | loads take no lock, files replaced in place, operators racing |
| Statevector training, `runtime/executors/statevector/training.py` | one parameter share and a checksum per rank | resume with vote, train, save, barrier | no manifest: files of different steps; local clocks deciding before collectives |
| TN training, `.../tensor_network/training.py` | one copy of all parameters and a checksum per rank | resume, train, save | ranks resume without comparing steps; checksum rewritten in place |
| Noisy statevector trajectories, `.../statevector/noisy.py` with `runtime/trajectories/` | one file per rank: completed and failed identifiers, moments | resume, batch, save, adaptive round, reduce | resumption must not repeat or lose a trajectory; ranks must make the same number of rounds |
| Remote job handles, `remote/jobs.py` | none between provider calls | status, result, wait, cancel, save, restore | deadline against a late answer, cancelling with other attempts active |
| Kaiwu jobs, `remote/kaiwu/` | receipt file, SDK checkpoint directory | submit, query, save, restore | publish by link with a rollback; submit before anything is saved |
| Quafu collections, `remote/_quafu_collection.py` | many tasks of one submission | aggregate status and results | partial failure |
| Realtime device calls, `remote/realtime/` | function table, channels, session | call, stop, close | one of several closes raising, replies of handlers that fail |
| Twin artifacts, `twin/_atomic.py`, `twin/persistence.py` | write-once files | save, load | torn files at the final name |
| Experiment archives, `runtime/experiment.py` | one archive file | save, open | none beyond one synced temporary |
| MPS and TN transports | none (messages in flight) | paired sends, subgroup collectives | deadlock by mismatched schedules |
| Compiler, core, simulation, algorithms, QEC, services, deployment | immutable values or none | pure functions | numerics; nothing interleaves |

How they interact. `fq.submit(..., receipt=path)` calls `resume_or_submit`, which calls
the provider through `submit` and writes through `RemoteJob.save`; other processes meet it
only through the two files. `train_distributed_mps` drives the MPS checkpoint functions in
a fixed order (policy, lease, restore; then per step heartbeat, train, save, commit,
prune; finally release); ranks meet in collectives, jobs meet through the directory. The
TN checkpoint functions are called by every rank of a process group; groups meet through
the directory, and a person clears the lock a dead writer has left. The statevector and
tensor-network training loops and the noisy statevector runner save and load files of their
own, one per rank; their ranks meet in collectives, their attempts through the files.

What makes each modelled component correct:

- **Receipts**: one path never costs two provider jobs; a returned job was created for
  this request; a completed journal is true and final; nobody waits for anybody.
- **MPS generations**: what the manifest names is whole, of one attempt, and durable; a
  generation that all ranks confirmed is never lost; ranks resume from the same attempt;
  storage is bounded; no rank hangs.
- **MPS lease**: one job trains at a time and touches only its own lease; nobody's
  generations are overwritten by a job that was not allowed to.
- **TN checkpoint**: one job's rank 0 past the lock at a time; a load that returns agrees across ranks; what
  finished saves leave is loadable; clearing removes the audited lock only.
- **Statevector training**: ranks that train hold one state, whatever files they found; a
  refusal is justified and common; a save that a rank has passed is durable on all.
- **TN training**: a checkpoint that would be trusted is a state of one training run.
- **Noisy trajectories**: a result counts every trajectory it lists exactly once, accounts
  for all of them and is on disk when it is returned; ranks wait in the same collectives.

The full list of hazards, each at its line and with the property that watches it or the
reason why none does yet, is in `PROJECT.json`.

## 2. Modules

| Module | Models | Read with |
|---|---|---|
| `ReceiptJournal` | `_job_receipts.py` | `SubmitOnce` (its abstract specification), `ReceiptJournalProofs`, `MCReceiptJournal` |
| `MPSCheckpoint` | checkpoint generations | `CheckpointRegister` (abstract), `MPSCheckpointProofs`, `MPSDurabilityProofs`, `MCMPSCheckpoint` |
| `MPSWriterLease` | lease and start policy | `MPSWriterLeaseProofs`, `MCMPSWriterLease` |
| `DynamicTNCheckpoint` | `dynamic_checkpoint.py` | `DynamicTNCheckpointProofs`, `MCDynamicTNCheckpoint` |
| `StatevectorTraining` | `statevector/training.py` | `StatevectorTrainingProofs`, `MCStatevectorTraining` |
| `TNTraining` | `tensor_network/training.py` | `MCTNTraining` |
| `NoisyStatevector` | `statevector/noisy.py` | `TrajectoryOwnership` (who runs what, what a checkpoint may hold), `NoisyStatevectorProofs`, `NoisyScheduleProofs`, `MCNoisyStatevector` |

Conventions. `pc` holds the next operation of each caller, rank or job; an action is one
file operation, or one collective, together with all the code up to the next one. File
contents are reduced to who wrote them: a caller's job number, an attempt, a saving job.
A SHA-256 digest is the content itself. Definitions named `X_Something`, each under a
comment "Deviation:", are plausible mistakes in the code that `X` translates; no
specification uses them. They document which mistake each property would catch
(`mutants` in `PROJECT.json`).

**ReceiptJournal.** `journal` and `receipt` are the two files' contents, `jobs` the
provider's memory. Actions follow `resume_or_submit` line by line: `ProbeJournal`,
`ReadJournal`, `CheckReceipt` and `Restore` for a path already used; `ProbeReceipt`,
`Reserve` (the `O_EXCL` creation), `WriteReservation`, `Submit`, `CreateReceipt`,
`WriteReceipt` and `Complete` for a new one. `Submit` may be refused, may create the job and
return it, or may create it and lose the answer. `Crash` stops a caller anywhere. `Tamper`
is the user, who may damage or remove one of the two files while no call runs; someone who
removes both has started a new experiment, and the code cannot know.

**MPSCheckpoint.** `shard`, `side` and `manifest` are what a reader sees, `dShard`, `dSide`
and `dManifest` what the last directory fsync made durable; a `PowerLoss` puts back any
subset of the changes in between. `Start` is the policy check of a new attempt, `Restore`
the preflight and verified load, `TrainStep` one pass of the training loop,
`SaveShard`/`SaveSide`/`SyncShard` the save of a rank, `CommitGather`/`Publish`/`SyncManifest`/
`CommitBarrier` the commit, `Prune`/`UnlinkShard`/`UnlinkSide`/`PruneEnds`/`PruneGather` the
retention. Between collectives ranks interleave freely and each may `Crash`; survivors run
on to their next collective and leave by `CollectiveTimeout`.

**MPSWriterLease.** One process (rank 0) per job, and a clock. `CheckPolicy` happens
before `Acquire`; breaking a lease is `Inspect` then `Break` then `Create`, refreshing is
`Beat` (read and compare) then `Rewrite`. A commit here is one step; its files are
`MPSCheckpoint`'s subject.

**DynamicTNCheckpoint.** A job is a process group that saves or loads once. Saving is
`Lock`, `WriteLock`, `LockStatus` (broadcast), `Uncommit`, `Ready` (barrier), `Replace` per
rank, `Replaced` (barrier), `Hash` per file, `Publish`, `Commit`, `Committed` (barrier), `Release`,
`Released` (barrier). Loading is `ReadManifest`, `ReadCommit`, `Present` (all-reduce),
`Check`, `Intact` (all-reduce), `ReadPayload`, `Agree` (all-reduce). Operators do `Audit`,
`Open`, `Stat`, `Unlink`.

**StatevectorTraining.** `file` and `sum` are `rank-r.pt` and its checksum, `disk` both as
the last directory fsync left them, `view` the shares of the parameters a rank holds. A
resuming rank does `Load` (every check of `_load_checkpoint`), then all do `Vote` (the
all-reduce of errors), each `CheckTarget` (the refusal it decides alone), then all `Agree`
(steps gathered and compared, shares broadcast by their owners). The loop is `LoopHead`,
`CancelVote`, `TrainStep`, and after every `Interval` steps `ReplacePayload`,
`ReplaceChecksum`, `SyncDirectory` and `Barrier`. `Leave` is a rank that dies or raises by
its own clock (training timeout, watchdog, operation deadline). The circuit and the step
determine a share, since the contract a checkpoint carries includes the circuit's content
hash and that encodes the initial parameter values.

**TNTraining.** The same loop without the vote, the comparison, the broadcast and the
barrier: a rank `Read`s its file or raises alone, `TrainStep` is a joint step of ranks which
need not believe they are at the same one (nothing in its collectives carries the step),
`WriteChecksum` may leave part of a file. A parameter is the number of updates it has had.

**NoisyStatevector.** A rank owns the identifiers congruent to its number, runs those its
checkpoint leaves pending (`Restored`, `Pending`) in batches (`RunBatch`), saves every
`Interval` batches and at the end (`Save`, `LeaveLoop`), and meets the others in `Reduce`
and `Gather`. A failing batch raises (`BatchRaises`) or is retried one by one and its
failures are listed. Moments are, per identifier, how often its sample was added. A round of
an adaptive run and the final reduction are the same three all-reduces, so `Reduce` lets ranks meet in
it that called it for different reasons, as the library does; whether the error has
fallen below the target is any Boolean, the same on all ranks in a round.

## 3. Runs

| Run | Instance | Shows |
|---|---|---|
| `receipt_journal` | 2 callers, 2 requests with one target, 1 tampering | all receipt properties, every call ends, refinement of `SubmitOnce` |
| `mps_checkpoint` | 2 ranks, 3 steps, 3 attempts (fresh or resumed), `Keep` = 1, 1 power loss | integrity, no loss of confirmed generations, retention, refinement of `CheckpointRegister` |
| `mps_overwrite` | 2 ranks, 2 steps, 3 attempts that may overwrite, 1 power loss, fairness | no mixed resume, no mixed commit, every attempt ends |
| `mps_writer_lease` | 3 jobs on 2 hosts, 1 breaker, 1 slow job on its host | exclusion, ownership, resumed commits extend the history |
| `mps_lease_race` | 3 jobs, 2 breakers | *violation*: two jobs train |
| `mps_lease_policy` | 2 fresh jobs, no breaker | *violation*: a fresh start overwrites |
| `tn_checkpoint` | 2 savers, 1 loader, 2 ranks each, 1 operator | one lock owner, loads agree, finished saves loadable, exact clearing |
| `tn_atomic_save` | as `tn_checkpoint` | *violation*: a dying save costs the previous checkpoint |
| `sv_training` | 2 ranks, 2 circuits, saves after steps 2 and 4, targets 3 and 4, 3 attempts, 1 power loss, fairness | one state, common and justified refusals, durable generations, every attempt ends |
| `tn_training` | 2 ranks, 3 steps, a save after each, 2 attempts | *violation*: ranks resumed at different steps save a mixed checkpoint as valid |
| `noisy_statevector` | 2 ranks, 4 trajectories one by one, a save every second batch, 3 attempts with 7 sets of options, fairness | each counted once, all accounted for, counts that match, saved before returned, matching collectives, every attempt ends |
| `noisy_statevector_resume` | the same with a save after every batch, adaptive and resuming, 2 attempts | *violation*: one rank waits in a round, the other in the final reduction |

The five violations are findings: the code does what the trace shows, and a docstring or
message of the repository says otherwise. `PROJECT.json` quotes both.

**Bounds.** Two callers are enough for any race on one `O_EXCL` file, a third only repeats
the loser; two requests tell "same" from "changed". Two ranks give every partial failure
(leader dead, peer dead). Three attempts allow an aborted one, one that finds its leftovers
and one that finds the second's; three steps with `Keep` = 1 let pruning meet shards of
older and of newer, aborted generations. In `sv_training` an interval of two and targets of
three and four give steps that end on a save and between saves, files at, below and beyond
the next attempt's target, and a second circuit files of somebody else's run. In
`noisy_statevector` two batches per rank and a save every second one leave batches lost in a
crash, files of equal and of unequal progress, and trajectories that fail, are retried, and
fail again in the third attempt. One power loss per behaviour suffices to lose what
is not durable at any point; that further losses compose is not checked. `MaxTime` = 3 with
`Stale` = 2 lets a lease go stale and its breaker's own lease age too. One checkpoint
per step (`Interval` = 1) makes all generations adjacent; larger intervals skip the save
actions only. `TypeOK` of the TN module and `AtomicSave` need no more than one job after
another; `LoadsAgree` needs a load overlapping two saves, which the instance has.
No symmetry is declared: leaders, breakers and indexes tell the values apart, and liveness
is checked in four of the runs. `noisy_statevector` resumes without adaptive stopping and
stops adaptively without resuming; the two together are `noisy_statevector_resume`'s
counterexample.

**Fairness.** `receipt_journal` assumes that a running call takes its next step, or dies;
no lock is ever waited for, so this is only "a process that can run does".
`mps_overwrite` assumes it for each rank between collectives, that a collective all
ranks have reached completes, and that one a dead peer will never reach times out, which is
`torch.distributed`'s process-group timeout. `sv_training` and `noisy_statevector` assume the
same of their ranks; in `sv_training` a rank may also end a wait by the operation's deadline
(`_operation_deadline`). Nothing else is assumed: no fairness for
crashes, starts, ticks or users.

**Deadlock** is checked in the receipt and MPS runs, which end in explicit `Stopped` steps
or can always be called again. In the others every job runs once or the number of attempts is
bounded, so the system rightly stops; that nobody is left waiting when it does is what
`AttemptEnds` says there.

## 4. Proofs

| Theorem | Property | Assumptions |
|---|---|---|
| `ReceiptJournalProofs!TypeCorrect` | `TypeOK` | |
| `ReceiptJournalProofs!SubmitsAtMostOnce` | `AtMostOneSubmission` | |
| `ReceiptJournalProofs!ReservedBeforeSubmission` | `JobsAreReserved` | |
| `ReceiptJournalProofs!ReturnsItsOwnJob` | `ReturnedJobIsRequested` | |
| `ReceiptJournalProofs!JournalVouches` | `CompletedJournalVouches` | |
| `ReceiptJournalProofs!RecordIsFinal` | `CompletedJournalIsFinal` (an action property) | |
| `ReceiptJournalProofs!PromiseKept` | `KeepsPromise` (the refinement of `SubmitOnce`) | |
| `MPSCheckpointProofs!TypeCorrect` | `TypeOK` | |
| `MPSCheckpointProofs!OneAttempt` | `OneAttemptPerGeneration` | |
| `MPSCheckpointProofs!NoMixed` | `NoMixedResume` | |
| `MPSCheckpointProofs!RetentionBounds` | `RetentionBoundsShards` | |
| `MPSDurabilityProofs!IntactAlways` | `CommittedGenerationIntact` | `NoOverwrite` |
| `MPSDurabilityProofs!ConfirmedSurvives` | `ConfirmedGenerationSurvives` | `NoOverwrite` |
| `MPSDurabilityProofs!RegisterImplemented` | `ImplementsRegister` (the refinement) | `NoOverwrite` |
| `MPSWriterLeaseProofs!TypeCorrect` | `TypeOK` | |
| `MPSWriterLeaseProofs!HolderOwns` | `HolderOwnsLease` | `OneBreaker`, `SlowAreLocal` |
| `MPSWriterLeaseProofs!Exclusive` | `LeaseExclusive` | `OneBreaker`, `SlowAreLocal` |
| `MPSWriterLeaseProofs!ResumedExtend` | `ResumedCommitsExtend` | `OneBreaker`, `SlowAreLocal` |
| `DynamicTNCheckpointProofs!TypeCorrect` | `TypeOK` | |
| `DynamicTNCheckpointProofs!OneWriterAtATime` | `OneWriter` | `OneOperator` |
| `DynamicTNCheckpointProofs!ClearsAudited` | `ClearsAuditedLock` | `OneOperator` |
| `DynamicTNCheckpointProofs!LoadsGiveOneFrontier` | `LoadsAgree` | `OneOperator` |
| `DynamicTNCheckpointProofs!FinishedSavesAreLoadable` | `FinishedSavesLoadable` | `OneOperator` |
| `StatevectorTrainingProofs!TypeCorrect` | `TypeOK` | |
| `StatevectorTrainingProofs!OneState` | `TrainsOneState` | |
| `StatevectorTrainingProofs!RefusesTogether` | `RefusedTogether` | |
| `StatevectorTrainingProofs!GenerationsConfirmed` | `GenerationConfirmed` | |
| `StatevectorTrainingProofs!RefusesOnlyTheBroken` | `RefusesOnlyBroken` | |
| `NoisyStatevectorProofs!TypeCorrect` | `TypeOK` | |
| `NoisyStatevectorProofs!EachCountedOnce` | `CountsEachOnce` | |
| `NoisyStatevectorProofs!ResultsAreSaved` | `ResultIsSaved` | |
| `NoisyStatevectorProofs!NothingForgotten` | `ProgressSurvives` (an action property) | |
| `NoisyStatevectorProofs!AllAccountedFor` | `AccountsForAll` | |
| `NoisyStatevectorProofs!SavesAlwaysValid` | `SavesAreValid` | |
| `NoisyStatevectorProofs!CountsAlwaysMatch` | `CountsMatch` | |
| `NoisyScheduleProofs!SameCollective` | `CollectivesMatch` | `FreshWhenAdaptive` |

They hold for any number of callers, requests, jobs, ranks, steps and trajectories. All use the
named assumptions on the constants that the modules state and TLC evaluates.

*Receipts.* `AtMostOneSubmission` is not inductive: nothing in it stops a second caller
that is just about to submit. `OInv` adds that at most one caller is past the reservation
(`OneOwner`), that it is so only while no job exists or the job is its own (`NoJobYet`),
and that a job leaves a trace on disk (`JobsAreReserved`). `RInv` then follows the truth:
the owner holds the job it created for its own request (`HoldsOwnJob`), what the journal
vouches for is true (`JournalTrue`), and what a resuming caller has read was true when it
read it and jobs never change (`ReadersSawTruth`). `PInv` is what the refinement needs beyond
that: an owner's journal is not completed yet (`OwnersUnrecorded`), once the user has touched
the files nobody can become an owner again (`NoOwnerOfLost`) and no journal vouches for what
is left (`LostForGood`), and a caller that restores does so from the journal that is still
there (`ReadersAreCurrent`). With it every action maps to `Ask`, `Claim`, `Create`,
`Record`, `Restore`, `Lose` or a stutter of `SubmitOnce`.

*MPS generations.* `IInv` (`MPSCheckpointProofs`) holds whether or not callers overwrite:
ranks past the restore are at one step (`Together`) and a rank that has saved its shard has
this attempt's (`SavedOwn`), so the digests gathered are of one attempt. Retention rests on
`NewestFew`: of the saved steps that have fewer than `Keep` others above them there are at
most `Keep`, because all but the least lie above the least. `DInv` (`MPSDurabilityProofs`) is
what a job relies on that never overwrites (`NoOverwrite`: `allow_checkpoint_overwrite` is
not used): a rank writes files of generations newer than the committed one only (`Ahead`)
and deletes none that is committed (`Spared`); rank 0 publishes while its peers wait or are
gone (`Phase`), when all their files are already durable (`Ready`); pruning starts when the
manifest is durable too (`Committed`); and the durable manifest is never newer than the
visible one (`Order`) nor older than what was confirmed (`Kept`). Overwriting breaks
`Ahead`: a fresh start counts steps from 0 again under the old manifest.

*Lease.* The invariant is that a holder owns the file (`HolderOwnsLease`), that a punctual
or local holder cannot be judged stale (`HeldIsFresh`), that a lease's owner is a job that
has taken it (`OwnerHeld`), that a refresh in progress read its own lease (`SeenIsOwn`) and
that a breaker about to unlink has nobody's live lease before it (`BrokenIsDead`). The last
is the part that two breakers falsify, which is why the theorems assume `OneBreaker` and
the run `mps_lease_race` drops it. `SlowAreLocal` says that a job which may be late with
its heartbeat runs on the breaker's host, where the PID check protects it.

*TN lock.* `LInv`: a rank 0 past the lock owns the file (`HeldIsOwned`), a lock's owner has
started (`OwnerStarted`), and an operator about to stat or unlink has opened the audited
lock of a job whose rank 0 has gone (`ClearedIsGone`). Two operators break the last one:
both have opened the dead lock, one clears it, a new save locks, and the other's unlink
takes the new lock.

*TN loads.* A load reads without the lock, so nothing keeps `COMMITTED`, manifest and files
of one save together. What does is that a file once replaced never comes back
(`WrittenOnce`) and that a save hashes only after all its ranks have replaced theirs
(`Overwrites`): of two complete manifests at least one names no file that is still there,
so two ranks that both find their digests right have read the same manifest (`Verdicts`).
`CInv` describes a run in which no rank has died and says where each save's files, digests
and manifest are at each of its steps; when all saves have ended, the last owner of the lock
left the directory whole. Both need the lock to exclude, hence `OneOperator`.

*Statevector training.* `TrainsOneState` needs that what a rank has loaded is the share its
step says (`LoadedOwn`) and that training ranks are at one step (`InStep`), which the
comparison in `Agree` establishes and joint steps keep. `GenerationConfirmed` needs what a
save has written so far (`SaveWritten`) and that ranks between two saves are between the
same two, which rests on the arithmetic of `%` (`NextMod`, `NoMultipleBetween`).
`RefusesOnlyBroken` has in its premise the files as they are now, while a rank decides by
what it read: `FInv` adds that no rank trains, and so none writes, while another is still
resuming (`ResumesTogether`), so that what each reports is still true of its files
(`LoadedFiles`).

*Noisy trajectories.* `CountsEachOnce` speaks of the result only. `IInv` adds that each
rank's lists and file hold its own identifiers, each sampled once (`OwnProgress`,
`OwnFiles`), that ranks which reduced together still hold what they reduced
(`ReducedTogether`), and that a rank reduces only what it has saved (`SavedBeforeReduce`). That
no trajectory has two owners (`OwnedDisjoint`) is an argument about multiples of the number
of ranks. `ProgressSurvives` follows from `NotBehindFile`: a resumed rank's list contains
its file's. `AccountsForAll` needs `VInv`: a rank's two lists are disjoint and its own
(`SplitLists`), what is on neither is still pending (`Accounted`), and a run that nothing
stops leaves the loop with nothing pending (`LoopExhausts`); that every identifier has an owner
(`EveryIdOwned`) is division with remainder. `SavesAreValid` compares a sum with a
cardinality. The sum is a fold, a recursive function on subsets; `SamplesAreCounted` shows
that counting satisfies its equation and, from a smallest set on which they differ, that
every solution counts. `CountsMatch` reuses it on each rank's sums.

*Rounds.* `CollectivesMatch` is false of resumed adaptive runs (the run
`noisy_statevector_resume`). `FreshWhenAdaptive` says that the caller never asks for both,
and then the up-front refusal of uneven schedules suffices. After
so many rounds a rank has left the rest of its row of identifiers (`Left`), which each batch
shortens by exactly `Batch` (`FirstOfRow`), so all ranks run out in the same round; `SInv`
says that of two live ranks none is a round ahead and none leaves the loop early alone
(`Abreast`).

Every safety invariant and action property of a passing run is a theorem, under the
assumptions of the table, and so are both refinements. Only model-checked: liveness (`EveryCallEnds`, `AttemptEnds`), which needs
fairness and `ENABLED`, and the five runs that expect a violation, which show what happens
without the theorems' assumptions or what the code does not promise. `TNTraining` has such
a run only.

## 5. Assumptions and omissions

- After a power loss each name has its last durable or its newest content; a
  directory fsync makes durable the names its caller has changed. Power loss is in
  `MPSCheckpoint` and `StatevectorTraining` only. The trajectory checkpoints are replaced
  without any fsync; what a power loss leaves of them is not modelled.
- SHA-256 has no collisions; two jobs' payloads differ.
- The free-space preflight and the shared-root probe of the MPS code are not modelled: they
  only refuse to start or continue, which is a crash of the ranks in the model.
- `MPSCheckpoint` runs one attempt at a time, which is what the lease provides under the
  assumptions of its theorems; that a dead rank 0's peers may still be writing when the
  lease is broken is outside both modules.
- A job of `MPSWriterLease` is started once, so its name can stand for its PID; PID reuse
  is left out.
- Training is deterministic: a circuit and a step determine a share. A power loss stops all
  ranks. All attempts of TN training start from the same initial values.
- `_ShardedTrainingSweep`'s `fault_rank` and `inject_collective_timeout`, which exist for
  tests, are left out, as is the case of a single rank, which skips the collectives.
- A noisy job has a process group and a checkpoint path; without them the code runs the same
  steps less the collectives or the saves. Every recorded failure is retryable, as in the
  code's only construction of one.
- An operator clears a TN lock only when its audit names a PID and that process is gone.
  Peers of that process may live on and replace their files under the next save's lock; the
  exclusion that is checked and proved is that of rank 0, and no property of a run with
  deaths rests on more. One operator clears locks; the window between `Stat` and `Unlink`
  is harmless then and needs a second operator to go wrong (section 4).
- Rank 0 of a TN save hashes the rank files one by one, in any order here; a file's size,
  which the manifest also holds, goes with its digest.
- When the ranks of a noisy job wait in different collectives, a backend may raise, combine
  unrelated buffers or wait until its timeout. In `NoisyStatevector` they time out, and
  each rank ends with an error; the only run that gets there is the one that shows the
  mismatch, and it stops at it.
- Numerics, formatting, argument validation and anything that raises before state changes
  are left out.

## 6. Plan

Built so far, in this order: receipts, MPS generations, lease, TN checkpoint, statevector
and TN training, noisy statevector trajectories. Next:

1. `NoisyMPS`, on `TrajectoryOwnership`: the MPS runner's own collectives, and the offline
   merge of shard artifacts (`trajectories/distributed.py`), which must refuse overlaps.
2. `TwinWriteOnce` and `KaiwuReceipt`: publication without replacement, rollback.
3. `RealtimeChannel`, `JobWait`: call and close, deadline against a late answer.
4. Power loss in `ReceiptJournal` and `DynamicTNCheckpoint`; the lease composed with ranks
   that outlive their rank 0.

Proofs to come: for the modules above, with each one's invariant; that the TN lock
and `OneOperator` give an abstract checkpoint register too; a specification that
`NoisyStatevector` implements (each identifier gets one verdict, once).

Not modelled. Compiler, core, simulation, kernels, algorithms, QEC and the MPS and TN tensor
code are sequential numerics over tensors and circuits: they keep no state that another
process meets, and a model checker tells nothing apart in them. The command-line tools,
benchmarks and examples drive the modelled code and report. Provider adapters translate
requests to services whose state is outside the repository.
