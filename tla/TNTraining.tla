------------------------------ MODULE TNTraining ------------------------------
(***************************************************************************)
(* train_distributed_tensor_network of flagquantum/runtime/executors/      *)
(* tensor_network/training.py.  Every rank keeps all parameters, updates   *)
(* those it owns and gathers the rest; each saves its whole copy in a file *)
(* of its own.  A resuming rank reads that file and nothing else: ranks    *)
(* neither compare their steps nor exchange what they read.                *)
(*                                                                         *)
(* A rank runs alone between collectives, and a collective is one joint    *)
(* step.  A parameter's value is the number of updates it has had; all     *)
(* attempts train from the same initial values.                            *)
(***************************************************************************)
EXTENDS Integers

CONSTANTS
    Ranks,        \* the process group
    Interval,     \* checkpoint_interval
    Steps,        \* the caller's target
    NoFile,       \* the file does not exist
    Torn,         \* the checksum file was being rewritten
    MaxAttempts   \* bound: how often the caller starts the job

VARIABLES
    file,     \* rank -> the step and the parameters its checkpoint holds
    sum,      \* rank -> what its checksum file is the digest of
    attempt,  \* the number of the current attempt
    pc,       \* where each rank is
    step,     \* rank -> completed steps
    params    \* rank -> rank -> its copy of the parameters that rank owns

storage == <<file, sum>>
vars == <<storage, attempt, pc, step, params>>

Waiting == {"train", "report"}
Ended == {"down", "done"}

Init ==
    /\ file = [r \in Ranks |-> NoFile]
    /\ sum = [r \in Ranks |-> NoFile]
    /\ attempt = 0
    /\ pc = [r \in Ranks |-> "down"]
    /\ step = [r \in Ranks |-> 0]
    /\ params = [r \in Ranks |-> [q \in Ranks |-> 0]]

All(label) == \A r \in Ranks : pc[r] = label

Goto(r, label) == pc' = [pc EXCEPT ![r] = label]

Start(resume) ==
    /\ \A r \in Ranks : pc[r] \in Ended
    /\ attempt < MaxAttempts
    /\ attempt' = attempt + 1
    /\ pc' = [r \in Ranks |-> IF resume THEN "read" ELSE "step"]
    /\ step' = [r \in Ranks |-> 0]
    /\ params' = [r \in Ranks |-> [q \in Ranks |-> 0]]
    /\ UNCHANGED storage

Intact(r) == file[r] # NoFile /\ sum[r] = file[r]

\* _read_checkpoint: a rank that cannot use its file raises alone.
Read(r) ==
    /\ pc[r] = "read"
    /\ IF Intact(r)
       THEN /\ step' = [step EXCEPT ![r] = file[r].step]
            /\ params' = [params EXCEPT ![r] = file[r].params]
            /\ Goto(r, "step")
       ELSE Goto(r, "down") /\ UNCHANGED <<step, params>>
    /\ UNCHANGED <<storage, attempt>>

LoopHead(r) ==
    /\ pc[r] = "step"
    /\ Goto(r, IF step[r] >= Steps THEN "report" ELSE "train")
    /\ UNCHANGED <<storage, attempt, step, params>>

\* The sliced reverse, the owners' updates and their all-gather, of whatever
\* step each rank believes this is.
TrainStep ==
    /\ All("train")
    /\ params' = [r \in Ranks |-> [q \in Ranks |-> params[q][q] + 1]]
    /\ step' = [r \in Ranks |-> step[r] + 1]
    /\ pc' = [r \in Ranks |-> IF step'[r] % Interval = 0 THEN "payload" ELSE "step"]
    /\ UNCHANGED <<storage, attempt>>

ReplacePayload(r) ==
    /\ pc[r] = "payload"
    /\ file' = [file EXCEPT ![r] = [step |-> step[r], params |-> params[r]]]
    /\ Goto(r, "checksum")
    /\ UNCHANGED <<sum, attempt, step, params>>

\* write_text, in place: a rank that dies in it leaves part of a file.
WriteChecksum(r) ==
    /\ pc[r] = "checksum"
    /\ \/ sum' = [sum EXCEPT ![r] = file[r]] /\ Goto(r, "step")
       \/ sum' = [sum EXCEPT ![r] = Torn] /\ Goto(r, "down")
    /\ UNCHANGED <<file, attempt, step, params>>

\* The final all-gather of memory sizes.
Report ==
    /\ All("report")
    /\ pc' = [r \in Ranks |-> "done"]
    /\ UNCHANGED <<storage, attempt, step, params>>

\* A rank dies, or raises on a nonfinite value of its own.
Crash(r) ==
    /\ pc[r] \notin Ended
    /\ Goto(r, "down")
    /\ UNCHANGED <<storage, attempt, step, params>>

\* A peer has gone, or waits in the other collective.
CollectiveTimeout(r) ==
    /\ pc[r] \in Waiting
    /\ \E q \in Ranks : pc[q] \in Ended \cup (Waiting \ {pc[r]})
    /\ Goto(r, "down")
    /\ UNCHANGED <<storage, attempt, step, params>>

Next ==
    \/ \E resume \in BOOLEAN : Start(resume)
    \/ \E r \in Ranks :
        \/ Read(r) \/ LoopHead(r) \/ ReplacePayload(r) \/ WriteChecksum(r)
        \/ Crash(r) \/ CollectiveTimeout(r)
    \/ TrainStep
    \/ Report

Spec == Init /\ [][Next]_vars
-----------------------------------------------------------------------------
(* Properties *)

\* A checkpoint that a restart trusts is a state of one training trajectory:
\* all its parameters have had the number of updates it says (training.py:196,
\* "a restart that trusted a payload the writer never finished would resume a
\* trajectory that never ran").
CheckpointsWereTrained ==
    \A r \in Ranks : Intact(r) =>
        file[r].params = [q \in Ranks |-> file[r].step]
=============================================================================
