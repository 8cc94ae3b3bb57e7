---------------------------- MODULE NoisyStatevector ----------------------------
(***************************************************************************)
(* _run_lowered_noisy_statevector of flagquantum/runtime/executors/        *)
(* statevector/noisy.py in collective mode: every rank of a process group  *)
(* samples the trajectories it owns in batches, saves its progress in a    *)
(* checkpoint file of its own, and the ranks reduce their moments, once at *)
(* the end and, when the run may stop adaptively, after every batch.       *)
(*                                                                         *)
(* A rank runs alone between collectives; a collective is one joint step.  *)
(* A batch may fail, a rank may die anywhere, and the caller may start the *)
(* job again, fresh or resuming.  A sample is the identifier of its        *)
(* trajectory, which alone determines its random stream.                   *)
(***************************************************************************)
EXTENDS TrajectoryOwnership

CONSTANTS
    World,           \* number of ranks
    Batch,           \* trajectory_batch_size
    Interval,        \* checkpoint_interval
    MinTrajectories, \* min_trajectories
    MaxLimit,        \* the largest max_batches_per_run of Options
    Options,         \* the options the caller starts attempts with
    NoFile,          \* the rank has no checkpoint file
    NoResult,        \* the rank has returned nothing
    MaxAttempts      \* bound: how often the caller starts the job

\* limit is max_batches_per_run; 0 stands for None.
AllOptions == [resume : BOOLEAN, adaptive : BOOLEAN, continueOnError : BOOLEAN,
               retryFailed : BOOLEAN, limit : 0..MaxLimit]

ASSUME ScheduleAssumption ==
    /\ World \in 1..Count /\ Batch \in Nat \ {0} /\ Interval \in Nat \ {0}
    /\ MinTrajectories \in 1..Count /\ MaxLimit \in Nat /\ MaxAttempts \in Nat
ASSUME OptionsAssumption == Options \subseteq AllOptions /\ Options # {}
ASSUME NoFileAssumption == NoFile \notin Checkpoints

Ranks == 0..(World - 1)
Results == [ids : SUBSET Ids, moments : [Ranks -> [Ids -> Nat]], failed : SUBSET Ids]

ASSUME NoResultAssumption == NoResult \notin Results

VARIABLES
    file,       \* rank -> its checkpoint file
    attempt,    \* the number of the current attempt
    opt,        \* the options of the current attempt
    pc,         \* where each rank is
    progress,   \* rank -> completed_ids, accumulator and failures
    pending,    \* rank -> the trajectories it has still to run
    executed,   \* rank -> batches_executed
    unsaved,    \* rank -> batches_since_checkpoint
    reduced,    \* rank -> the moments its final reduction added up
    result      \* rank -> what it returned in this attempt

memory == <<progress, pending, executed, unsaved>>
vars == <<file, attempt, opt, pc, memory, reduced, result>>

\* "round" and "reduce" are the same three all-reduces (_collective_statistics):
\* after a batch of an adaptive run, and for the final result.  "gather" is the
\* all-reduce of event counts and the gather of identifiers that follow.
Waiting == {"round", "reduce", "gather"}
Ended == {"down", "refused", "done"}
Running == {"batch", "break"}

NoMoments == [r \in Ranks |-> Empty.moments]

Init ==
    /\ file = [r \in Ranks |-> NoFile]
    /\ attempt = 0
    /\ opt = CHOOSE o \in Options : TRUE
    /\ pc = [r \in Ranks |-> "down"]
    /\ progress = [r \in Ranks |-> Empty]
    /\ pending = [r \in Ranks |-> {}]
    /\ executed = [r \in Ranks |-> 0]
    /\ unsaved = [r \in Ranks |-> 0]
    /\ reduced = [r \in Ranks |-> NoMoments]
    /\ result = [r \in Ranks |-> NoResult]

Goto(r, label) == pc' = [pc EXCEPT ![r] = label]
-----------------------------------------------------------------------------
(* Starting *)

\* Deviation: the checkpoint is checked but not used.
Restored_Ignored(r, o) == Empty

\* What a rank starts from: its checkpoint when it resumes.
Restored(r, o) == IF o.resume THEN file[r] ELSE Empty

\* The up-front refusal of adaptive schedules with uneven rounds.
ScheduleAllowed(o) == o.adaptive => Count % (World * Batch) = 0

\* A rank whose checkpoint is missing raises before its first collective.
Start(o) ==
    /\ \A r \in Ranks : pc[r] \in Ended
    /\ attempt < MaxAttempts
    /\ ScheduleAllowed(o)
    /\ attempt' = attempt + 1
    /\ opt' = o
    /\ pc' = [r \in Ranks |-> IF o.resume /\ file[r] = NoFile THEN "down" ELSE "batch"]
    /\ progress' = [r \in Ranks |-> IF o.resume /\ file[r] = NoFile THEN Empty
                                                                   ELSE Restored(r, o)]
    /\ pending' = [r \in Ranks |-> Pending(progress'[r], Owned(r, World), o.retryFailed)]
    /\ executed' = [r \in Ranks |-> 0]
    /\ unsaved' = [r \in Ranks |-> 0]
    /\ reduced' = [r \in Ranks |-> NoMoments]
    /\ result' = [r \in Ranks |-> NoResult]
    /\ UNCHANGED file
-----------------------------------------------------------------------------
(* One rank's batches *)

\* The first Batch identifiers of the pending ones, which are in order.
NextBatch(r) == {i \in pending[r] : Cardinality({j \in pending[r] : j <= i}) <= Batch}

LimitReached(r) == opt.limit > 0 /\ executed[r] >= opt.limit

\* save_progress, then on to label: a checkpoint that its own constructor
\* refuses is not written and ends the rank's attempt.
Save(r, checkpoint, label) ==
    IF Valid(checkpoint)
    THEN file' = [file EXCEPT ![r] = checkpoint] /\ Goto(r, label)
    ELSE UNCHANGED file /\ Goto(r, "refused")

\* Deviation: a failure of an earlier attempt outlives the success of its retry.
AfterBatch_KeepsFailures(r, good, bad) ==
    [done |-> progress[r].done \cup good,
     moments |-> Added(progress[r].moments, good),
     failed |-> progress[r].failed \cup bad]

\* The lists after a batch in which good succeeded and bad failed.
AfterBatch(r, good, bad) ==
    [done |-> progress[r].done \cup good,
     moments |-> Added(progress[r].moments, good),
     failed |-> (progress[r].failed \cup bad) \ good]

\* Deviation: what failed stays pending and is retried until it succeeds.
RunBatch_RetriesForever(r) ==
    /\ pc[r] = "batch" /\ pending[r] # {} /\ ~LimitReached(r)
    /\ \E bad \in SUBSET NextBatch(r) :
        /\ bad # {} => opt.continueOnError
        /\ progress' = [progress EXCEPT ![r] = AfterBatch(r, NextBatch(r) \ bad, bad)]
        /\ pending' = [pending EXCEPT ![r] = @ \ (NextBatch(r) \ bad)]
    /\ Save(r, progress'[r], IF opt.adaptive THEN "round" ELSE "batch")
    /\ UNCHANGED <<attempt, opt, executed, unsaved, reduced, result>>

\* A vectorised batch, retried one trajectory at a time when it fails.
RunBatch(r) ==
    /\ pc[r] = "batch" /\ pending[r] # {} /\ ~LimitReached(r)
    /\ \E bad \in SUBSET NextBatch(r) :
        /\ bad # {} => opt.continueOnError
        /\ progress' = [progress EXCEPT ![r] = AfterBatch(r, NextBatch(r) \ bad, bad)]
    /\ pending' = [pending EXCEPT ![r] = @ \ NextBatch(r)]
    /\ executed' = [executed EXCEPT ![r] = @ + 1]
    /\ LET next == IF opt.adaptive THEN "round" ELSE "batch" IN
       IF unsaved[r] + 1 >= Interval
       THEN Save(r, progress'[r], next) /\ unsaved' = [unsaved EXCEPT ![r] = 0]
       ELSE Goto(r, next) /\ unsaved' = [unsaved EXCEPT ![r] = @ + 1] /\ UNCHANGED file
    /\ UNCHANGED <<attempt, opt, reduced, result>>

\* Without continue_on_error a failing batch saves what is done and raises.
BatchRaises(r) ==
    /\ pc[r] = "batch" /\ pending[r] # {} /\ ~LimitReached(r)
    /\ ~opt.continueOnError
    /\ Save(r, progress[r], "down")
    /\ UNCHANGED <<attempt, opt, memory, reduced, result>>

\* Deviation: the loop's end does not save.
LeaveLoop_Unsaved(r) ==
    /\ \/ pc[r] = "break"
       \/ pc[r] = "batch" /\ (pending[r] = {} \/ LimitReached(r))
    /\ Goto(r, "reduce")
    /\ UNCHANGED <<file, attempt, opt, memory, reduced, result>>

\* The loop's end: the final save_progress, then the final reduction.
LeaveLoop(r) ==
    /\ \/ pc[r] = "break"
       \/ pc[r] = "batch" /\ (pending[r] = {} \/ LimitReached(r))
    /\ Save(r, progress[r], "reduce")
    /\ UNCHANGED <<attempt, opt, memory, reduced, result>>
-----------------------------------------------------------------------------
(* Collectives *)

GlobalCount == MapThenSumSet(LAMBDA r : Samples(progress[r].moments), Ranks)

\* Where a rank goes from its all-reduces: no sample at all is an error.
Concluded(label, converged) ==
    IF GlobalCount = 0 THEN "down"
    ELSE IF label = "reduce" THEN "gather"
    ELSE IF converged THEN "break" ELSE "batch"

\* Deviation: each rank judges convergence by its own moments.
Reduce_LocalVerdict ==
    /\ \A r \in Ranks : pc[r] \in {"round", "reduce"}
    /\ reduced' = [r \in Ranks |-> IF pc[r] = "reduce"
                                   THEN [q \in Ranks |-> progress[q].moments]
                                   ELSE reduced[r]]
    /\ \E converged \in [Ranks -> BOOLEAN] :
        pc' = [r \in Ranks |-> Concluded(pc[r], converged[r])]
    /\ UNCHANGED <<file, attempt, opt, memory, result>>

\* Deviation: the sums are not all-reduced, each rank keeps its own.
Reduce_OwnSums ==
    /\ \A r \in Ranks : pc[r] \in {"round", "reduce"}
    /\ reduced' = [r \in Ranks |-> IF pc[r] = "reduce"
                                   THEN [NoMoments EXCEPT ![r] = progress[r].moments]
                                   ELSE reduced[r]]
    /\ \E converged \in BOOLEAN :
        /\ converged => GlobalCount >= MinTrajectories
        /\ pc' = [r \in Ranks |-> Concluded(pc[r], converged)]
    /\ UNCHANGED <<file, attempt, opt, memory, result>>

\* _collective_statistics, of a round or of the final reduction: the processes
\* cannot tell which their peers called it for.  Every rank in a round draws the
\* same conclusion from the same sums.
Reduce ==
    /\ \A r \in Ranks : pc[r] \in {"round", "reduce"}
    /\ reduced' = [r \in Ranks |-> IF pc[r] = "reduce"
                                   THEN [q \in Ranks |-> progress[q].moments]
                                   ELSE reduced[r]]
    /\ \E converged \in BOOLEAN :
        /\ converged => GlobalCount >= MinTrajectories
        /\ pc' = [r \in Ranks |-> Concluded(pc[r], converged)]
    /\ UNCHANGED <<file, attempt, opt, memory, result>>

CompletedIds == UNION {progress[q].done : q \in Ranks}

\* Deviation: the result reports the rank's own failures only.
Gathered_OwnFailures(r) ==
    [ids |-> CompletedIds, moments |-> reduced[r], failed |-> progress[r].failed]

Gathered(r) ==
    [ids |-> CompletedIds, moments |-> reduced[r],
     failed |-> UNION {progress[q].failed : q \in Ranks}]

\* Its comparison of the listed identifiers with the counted samples.
CountsAgree(r) ==
    MapThenSumSet(LAMBDA q : Cardinality(progress[q].done), Ranks)
        = MapThenSumSet(LAMBDA q : Samples(reduced[r][q]), Ranks)

\* The rest of _collective_reduce_result.
Gather ==
    /\ \A r \in Ranks : pc[r] = "gather"
    /\ result' = [r \in Ranks |-> IF CountsAgree(r) THEN Gathered(r) ELSE NoResult]
    /\ pc' = [r \in Ranks |-> IF CountsAgree(r) THEN "done" ELSE "down"]
    /\ UNCHANGED <<file, attempt, opt, memory, reduced>>
-----------------------------------------------------------------------------
(* Failures *)

Crash(r) ==
    /\ pc[r] \notin Ended
    /\ Goto(r, "down")
    /\ UNCHANGED <<file, attempt, opt, memory, reduced, result>>

\* The collective a rank waits in cannot complete: a peer has left the attempt,
\* or all wait and not for the same operations.  Waiting may then end in an error
\* of the backend or in sums of unrelated buffers instead of the timeout: every
\* such outcome is this rank's end here.
Hopeless ==
    \/ \E q \in Ranks : pc[q] \in Ended
    \/ /\ \A q \in Ranks : pc[q] \in Waiting
       /\ \E q, s \in Ranks : pc[q] = "gather" /\ pc[s] # "gather"

CollectiveTimeout(r) ==
    /\ pc[r] \in Waiting
    /\ Hopeless
    /\ Goto(r, "down")
    /\ UNCHANGED <<file, attempt, opt, memory, reduced, result>>

Step(r) == RunBatch(r) \/ BatchRaises(r) \/ LeaveLoop(r) \/ CollectiveTimeout(r)

Next ==
    \/ \E o \in Options : Start(o)
    \/ \E r \in Ranks : Step(r) \/ Crash(r)
    \/ Reduce
    \/ Gather

Spec == Init /\ [][Next]_vars

\* Ranks keep computing and collectives that can complete do; a hopeless one
\* ends by the process group's timeout.
Fairness ==
    /\ \A r \in Ranks : WF_vars(Step(r))
    /\ WF_vars(Reduce)
    /\ WF_vars(Gather)

FairSpec == Spec /\ Fairness
-----------------------------------------------------------------------------
(* Properties *)

TypeOK ==
    /\ file \in [Ranks -> Checkpoints \cup {NoFile}]
    /\ attempt \in 0..MaxAttempts
    /\ opt \in Options
    /\ pc \in [Ranks -> Waiting \cup Ended \cup Running]
    /\ progress \in [Ranks -> Checkpoints]
    /\ pending \in [Ranks -> SUBSET Ids]
    /\ executed \in [Ranks -> Nat]
    /\ unsaved \in [Ranks -> Nat]
    /\ reduced \in [Ranks -> [Ranks -> [Ids -> Nat]]]
    /\ result \in [Ranks -> Results \cup {NoResult}]

\* Whatever was interrupted, resumed, retried or saved late: in a returned
\* result every listed trajectory was added to the reduced moments exactly once,
\* by exactly one rank, and no other was (noisy.py, _collective_reduce_result).
CountsEachOnce ==
    \A r \in Ranks : result[r] # NoResult =>
        /\ \A i \in result[r].ids :
            \E q \in Ranks : /\ result[r].moments[q][i] = 1
                             /\ \A s \in Ranks \ {q} : result[r].moments[s][i] = 0
        /\ \A i \in Ids \ result[r].ids : \A q \in Ranks : result[r].moments[q][i] = 0

\* A run that could neither stop early nor ran into its batch limit accounts for
\* every requested trajectory, as completed or as failed and never as both.
AccountsForAll ==
    \A r \in Ranks : result[r] # NoResult =>
        /\ result[r].ids \cap result[r].failed = {}
        /\ ~opt.adaptive /\ opt.limit = 0 => result[r].ids \cup result[r].failed = Ids

\* save_progress never builds a checkpoint its constructor refuses, over any
\* sequence of attempts: no rank ends with that ValueError.
SavesAreValid == \A r \in Ranks : pc[r] # "refused"

\* When all ranks wait, they wait in the same collective: a rank never makes one
\* collective call more than its peers (noisy.py:288, refusing such schedules).
CollectivesMatch ==
    (\A r \in Ranks : pc[r] \in Waiting) => \A r, q \in Ranks : pc[r] = pc[q]

\* The comparison of counted samples with listed identifiers is a guard that never
\* fires: after any resumes and retries every rank's sums agree with all the
\* lists, and the ranks return together (noisy.py:555).
CountsMatch ==
    (\A r \in Ranks : pc[r] = "gather") => \A r \in Ranks : CountsAgree(r)

\* A rank that resumed never replaces its file by one with less done.
ProgressSurvives ==
    [][\A r \in Ranks : opt'.resume /\ file[r] # NoFile =>
                            file[r].done \subseteq file'[r].done]_vars

\* When a result is returned, the files hold everything in it: resuming a
\* finished job runs nothing again that it listed.
ResultIsSaved ==
    \A r \in Ranks : result[r] # NoResult =>
        result[r].ids = UNION {file[q].done : q \in {s \in Ranks : file[s] # NoFile}}

\* Every attempt ends on every rank.
AttemptEnds == [](attempt > 0 => <>(\A r \in Ranks : pc[r] \in Ended))
=============================================================================
