-------------------------- MODULE StatevectorTraining --------------------------
(***************************************************************************)
(* _ShardedTrainingSweep of flagquantum/runtime/executors/statevector/     *)
(* training.py: each rank owns a share of the parameters and their         *)
(* optimizer state, saves that share in rank-r.pt with a checksum file     *)
(* beside it, and loads it when the caller resumes.  There is no manifest: *)
(* the ranks vote on what they loaded and compare their steps.             *)
(*                                                                         *)
(* A rank runs alone between collectives; a collective, or several with    *)
(* nothing visible to anyone between them, is one joint step.  A circuit   *)
(* stands for all that the checkpoint's contract names, the initial        *)
(* parameter values among it (content_hash encodes them), so that circuit  *)
(* and step determine a share: training is deterministic.                  *)
(***************************************************************************)
EXTENDS Integers

CONSTANTS
    Ranks,        \* the process group
    Circuits,     \* the circuits callers train
    Interval,     \* checkpoint_interval
    Targets,      \* the values of steps callers use
    MaxStep,      \* the largest of them
    NoFile,       \* the file does not exist
    MaxAttempts,  \* bound: how often a job is started in the directory
    MaxLosses     \* bound: how often the power fails

ASSUME RanksAssumption == Ranks # {}
ASSUME StepsAssumption ==
    /\ Interval \in Nat \ {0} /\ MaxStep \in Nat /\ Targets \subseteq 1..MaxStep
    /\ MaxAttempts \in Nat /\ MaxLosses \in Nat

\* One rank's parameters and optimizer state after that many steps.
Versions == [circuit : Circuits, step : 0..MaxStep]
Options == [resume : BOOLEAN, circuit : Circuits, target : Targets]

ASSUME OptionsAssumption == Circuits # {} /\ Targets # {}
ASSUME NoFileAssumption == NoFile \notin Versions

VARIABLES
    file,     \* rank -> what rank-r.pt holds
    sum,      \* rank -> what rank-r.pt.sha256 is the digest of
    disk,     \* rank -> both as the last directory fsync left them
    attempt,  \* the number of the current attempt
    opt,      \* the arguments of the current attempt
    pc,       \* where each rank is
    start,    \* rank -> start_step
    step,     \* rank -> completed steps
    view,     \* rank -> rank -> the version of that rank's share it holds
    losses    \* how often the power has failed

storage == <<file, sum, disk>>
vars == <<storage, attempt, opt, pc, start, step, view, losses>>

\* "refusing": in the vote, with an error of its own to report.
Resuming == {"load", "check"}
Training == {"step", "cancel", "train", "payload", "checksum", "sync", "barrier", "done"}
Waiting == {"vote", "refusing", "gather", "cancel", "train", "barrier"}
Ended == {"down", "refused", "done"}

Initial(c) == [circuit |-> c, step |-> 0]

Init ==
    /\ file = [r \in Ranks |-> NoFile]
    /\ sum = [r \in Ranks |-> NoFile]
    /\ disk = [r \in Ranks |-> [file |-> NoFile, sum |-> NoFile]]
    /\ attempt = 0
    /\ opt \in Options
    /\ pc = [r \in Ranks |-> "down"]
    /\ start = [r \in Ranks |-> 0]
    /\ step = [r \in Ranks |-> 0]
    /\ view = [r \in Ranks |-> [q \in Ranks |-> Initial(opt.circuit)]]
    /\ losses = 0

All(label) == \A r \in Ranks : pc[r] = label

AllGoto(label) == pc' = [r \in Ranks |-> label]

Goto(r, label) == pc' = [pc EXCEPT ![r] = label]
-----------------------------------------------------------------------------
(* Starting and resuming *)

Start(o) ==
    /\ \A r \in Ranks : pc[r] \in Ended
    /\ attempt < MaxAttempts
    /\ attempt' = attempt + 1
    /\ opt' = o
    /\ AllGoto(IF o.resume THEN "load" ELSE "step")
    /\ start' = [r \in Ranks |-> 0]
    /\ step' = [r \in Ranks |-> 0]
    /\ view' = [r \in Ranks |-> [q \in Ranks |-> Initial(o.circuit)]]
    /\ UNCHANGED <<storage, losses>>

\* What _load_checkpoint requires of the rank's own files.
Accepted(r) == file[r] # NoFile /\ sum[r] = file[r] /\ file[r].circuit = opt.circuit

Load(r) ==
    /\ pc[r] = "load"
    /\ IF Accepted(r)
       THEN /\ start' = [start EXCEPT ![r] = file[r].step]
            /\ step' = [step EXCEPT ![r] = file[r].step]
            /\ view' = [view EXCEPT ![r][r] = file[r]]
            /\ Goto(r, "vote")
       ELSE Goto(r, "refusing") /\ UNCHANGED <<start, step, view>>
    /\ UNCHANGED <<storage, attempt, opt, losses>>

\* Deviation: only the rank with the error raises.
Vote_Own ==
    /\ \A r \in Ranks : pc[r] \in {"vote", "refusing"}
    /\ pc' = [r \in Ranks |-> IF pc[r] = "refusing" THEN "refused" ELSE "check"]
    /\ UNCHANGED <<storage, attempt, opt, start, step, view, losses>>

\* The all-reduce of errors: one refused checkpoint refuses all ranks.
Vote ==
    /\ \A r \in Ranks : pc[r] \in {"vote", "refusing"}
    /\ AllGoto(IF \E r \in Ranks : pc[r] = "refusing" THEN "refused" ELSE "check")
    /\ UNCHANGED <<storage, attempt, opt, start, step, view, losses>>

\* Deviation: a finished run cannot be resumed.
CheckTarget_OffByOne(r) ==
    /\ pc[r] = "check"
    /\ Goto(r, IF start[r] >= opt.target THEN "refused" ELSE "gather")
    /\ UNCHANGED <<storage, attempt, opt, start, step, view, losses>>

\* resume_step_regression, which a rank raises by its own step alone.
CheckTarget(r) ==
    /\ pc[r] = "check"
    /\ Goto(r, IF start[r] > opt.target THEN "refused" ELSE "gather")
    /\ UNCHANGED <<storage, attempt, opt, start, step, view, losses>>

\* Deviation: the gathered steps are not compared.
Agree_Unchecked ==
    /\ All("gather")
    /\ AllGoto("step")
    /\ view' = [r \in Ranks |-> [q \in Ranks |-> view[q][q]]]
    /\ UNCHANGED <<storage, attempt, opt, start, step, losses>>

\* The all-gather of start steps, their comparison, and the broadcast of every
\* share by its owner.
Agree ==
    /\ All("gather")
    /\ IF \A r, q \in Ranks : start[r] = start[q]
       THEN /\ view' = [r \in Ranks |-> [q \in Ranks |-> view[q][q]]]
            /\ AllGoto("step")
       ELSE AllGoto("refused") /\ UNCHANGED view
    /\ UNCHANGED <<storage, attempt, opt, start, step, losses>>
-----------------------------------------------------------------------------
(* The training loop *)

\* Deviation: the loop runs one step too far.
LoopHead_OffByOne(r) ==
    /\ pc[r] = "step"
    /\ Goto(r, IF step[r] > opt.target THEN "done" ELSE "cancel")
    /\ UNCHANGED <<storage, attempt, opt, start, step, view, losses>>

LoopHead(r) ==
    /\ pc[r] = "step"
    /\ Goto(r, IF step[r] = opt.target THEN "done" ELSE "cancel")
    /\ UNCHANGED <<storage, attempt, opt, start, step, view, losses>>

\* The all-reduce of cancelled(): one rank's callback stops every rank.
CancelVote ==
    /\ All("cancel")
    /\ \E cancelled \in BOOLEAN : AllGoto(IF cancelled THEN "down" ELSE "train")
    /\ UNCHANGED <<storage, attempt, opt, start, step, view, losses>>

\* Forward, adjoint, the owners' optimizer steps and their broadcast.
TrainStep ==
    /\ All("train")
    /\ view' = [r \in Ranks |-> [q \in Ranks |-> [view[q][q] EXCEPT !.step = @ + 1]]]
    /\ step' = [r \in Ranks |-> step[r] + 1]
    /\ pc' = [r \in Ranks |-> IF step'[r] % Interval = 0 THEN "payload" ELSE "step"]
    /\ UNCHANGED <<storage, attempt, opt, start, losses>>

\* _write_checkpoint: both temporaries are synced before the first replace.
ReplacePayload(r) ==
    /\ pc[r] = "payload"
    /\ file' = [file EXCEPT ![r] = view[r][r]]
    /\ Goto(r, "checksum")
    /\ UNCHANGED <<sum, disk, attempt, opt, start, step, view, losses>>

ReplaceChecksum(r) ==
    /\ pc[r] = "checksum"
    /\ sum' = [sum EXCEPT ![r] = view[r][r]]
    /\ Goto(r, "sync")
    /\ UNCHANGED <<file, disk, attempt, opt, start, step, view, losses>>

\* Deviation: the directory is not synced.
SyncDirectory_None(r) ==
    /\ pc[r] = "sync"
    /\ Goto(r, "barrier")
    /\ UNCHANGED <<storage, attempt, opt, start, step, view, losses>>

SyncDirectory(r) ==
    /\ pc[r] = "sync"
    /\ disk' = [disk EXCEPT ![r] = [file |-> file[r], sum |-> sum[r]]]
    /\ Goto(r, "barrier")
    /\ UNCHANGED <<file, sum, attempt, opt, start, step, view, losses>>

\* _failure_detection_barrier.
Barrier ==
    /\ All("barrier")
    /\ AllGoto("step")
    /\ UNCHANGED <<storage, attempt, opt, start, step, view, losses>>
-----------------------------------------------------------------------------
(* Failures *)

\* A rank dies, or raises on its own: training_timeout, a watchdog's diagnosis
\* and an expired operation deadline are verdicts of its own clock.
Leave(r) ==
    /\ pc[r] \notin Ended
    /\ Goto(r, "down")
    /\ UNCHANGED <<storage, attempt, opt, start, step, view, losses>>

\* Deviation: only the barrier after a save notices a dead peer.
CollectiveTimeout_BarrierOnly(r) ==
    /\ pc[r] = "barrier"
    /\ \E q \in Ranks : pc[q] \in Ended
    /\ Goto(r, "down")
    /\ UNCHANGED <<storage, attempt, opt, start, step, view, losses>>

\* The collective a rank waits in cannot complete: a peer has gone, by the
\* process group's timeout or the operation's deadline.
CollectiveTimeout(r) ==
    /\ pc[r] \in Waiting
    /\ \E q \in Ranks : pc[q] \in Ended
    /\ Goto(r, "down")
    /\ UNCHANGED <<storage, attempt, opt, start, step, view, losses>>

\* Each name keeps its newest or its last durable content.
PowerLoss ==
    /\ losses < MaxLosses
    /\ losses' = losses + 1
    /\ \E newFile, newSum \in SUBSET Ranks :
        /\ file' = [r \in Ranks |-> IF r \in newFile THEN file[r] ELSE disk[r].file]
        /\ sum' = [r \in Ranks |-> IF r \in newSum THEN sum[r] ELSE disk[r].sum]
    /\ disk' = [r \in Ranks |-> [file |-> file'[r], sum |-> sum'[r]]]
    /\ AllGoto("down")
    /\ UNCHANGED <<attempt, opt, start, step, view>>

Step(r) ==
    \/ Load(r) \/ CheckTarget(r) \/ LoopHead(r)
    \/ ReplacePayload(r) \/ ReplaceChecksum(r) \/ SyncDirectory(r)
    \/ CollectiveTimeout(r)

Next ==
    \/ \E o \in Options : Start(o)
    \/ \E r \in Ranks : Step(r) \/ Leave(r)
    \/ Vote \/ Agree \/ CancelVote \/ TrainStep \/ Barrier
    \/ PowerLoss

Spec == Init /\ [][Next]_vars

\* Ranks keep running; a collective that all ranks have reached completes, one
\* that a peer will never reach times out.
Fairness ==
    /\ \A r \in Ranks : WF_vars(Step(r))
    /\ WF_vars(Vote) /\ WF_vars(Agree) /\ WF_vars(CancelVote)
    /\ WF_vars(TrainStep) /\ WF_vars(Barrier)

FairSpec == Spec /\ Fairness
-----------------------------------------------------------------------------
(* Properties *)

TypeOK ==
    /\ file \in [Ranks -> Versions \cup {NoFile}]
    /\ sum \in [Ranks -> Versions \cup {NoFile}]
    /\ disk \in [Ranks -> [file : Versions \cup {NoFile}, sum : Versions \cup {NoFile}]]
    /\ attempt \in 0..MaxAttempts
    /\ opt \in Options
    /\ pc \in [Ranks -> Resuming \cup Training \cup Waiting \cup Ended]
    /\ start \in [Ranks -> 0..MaxStep]
    /\ step \in [Ranks -> 0..MaxStep]
    /\ view \in [Ranks -> [Ranks -> Versions]]
    /\ losses \in 0..MaxLosses

\* Whatever files earlier attempts and power losses have left, every rank that
\* trains holds one state: all shares of the caller's circuit, all after the
\* number of steps it counts (the vote, the step comparison and the broadcast of
\* a resume; training.py:305 and 645-683).
TrainsOneState ==
    \A r \in Ranks : pc[r] \in Training =>
        view[r] = [q \in Ranks |-> [circuit |-> opt.circuit, step |-> step[r]]]

\* The newest generation of which a rank knows, by the barrier, that it is saved.
LastSaved(r) == step[r] - (step[r] % Interval)

\* A rank that has gone on after a save of its attempt can rely on it: the files
\* of all ranks are whole, of that generation, and survive a power loss
\* (training.py:388-394 and 865-875).
GenerationConfirmed ==
    \A r \in Ranks :
        pc[r] \in {"step", "cancel", "train", "done"} /\ LastSaved(r) > start[r] =>
            LET saved == [circuit |-> opt.circuit, step |-> LastSaved(r)]
            IN \A q \in Ranks : disk[q] = [file |-> saved, sum |-> saved]

\* The directory holds one whole generation that the attempt can continue.
Resumable ==
    \E s \in 0..opt.target : \A r \in Ranks :
        file[r] = sum[r] /\ file[r] = [circuit |-> opt.circuit, step |-> s]

\* A resume refuses only what it must: while the files are one whole generation
\* of the circuit, the target's own included, no rank refuses (training.py:665).
RefusesOnlyBroken == Resumable => \A r \in Ranks : pc[r] # "refused"

\* A checkpoint one rank cannot load refuses the ranks together: no rank is left
\* waiting in a later collective for a peer that refused.  Files beyond the
\* target are excepted: that refusal is local (training.py:647-671).
RefusedTogether ==
    (\A r \in Ranks : start[r] <= opt.target) =>
        \A r, q \in Ranks : pc[r] = "refused" => pc[q] \in {"refused", "down"}

\* Every attempt ends on every rank.
AttemptEnds == [](attempt > 0 => <>(\A r \in Ranks : pc[r] \in Ended))
=============================================================================
