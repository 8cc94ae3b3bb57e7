--------------------------- MODULE MPSWriterLease ---------------------------
(***************************************************************************)
(* flagquantum/runtime/executors/mps/checkpointing.py: the writer lease.   *)
(*                                                                         *)
(* Several jobs may be started on one checkpoint directory.  Each checks   *)
(* the start policy, takes ACTIVE_WRITER.json with O_EXCL (after breaking  *)
(* a stale one when its caller allows that), resumes, and from then on     *)
(* rewrites the lease's heartbeat before every training step, commits, and *)
(* unlinks the lease when it is done; a job that fails leaves it behind.   *)
(*                                                                         *)
(* A job is one process of rank 0, started once: its name is its PID.  The *)
(* other ranks follow it through collectives and are modelled, with the    *)
(* files of a generation, in MPSCheckpoint; here a commit is one step.     *)
(***************************************************************************)
EXTENDS Integers, FiniteSets

CONSTANTS
    Jobs,        \* processes that may be started on the directory
    HostOf,      \* the host each job runs on
    Contract,    \* the contract fingerprint of each job
    Breakers,    \* jobs started with allow_checkpoint_writer_lease_break
    Steps,       \* the target number of steps, the same for all jobs
    Stale,       \* checkpoint_writer_lease_stale_seconds, in clock ticks
    Punctual,    \* jobs whose lease never gets stale while they hold it
    MaxTime,     \* bound on the clock
    None         \* no file

ASSUME JobsAssumption == Breakers \subseteq Jobs /\ Punctual \subseteq Jobs
ASSUME NumbersAssumption ==
    Steps \in Nat /\ Stale \in Nat \ {0} /\ MaxTime \in Nat

\* Content of ACTIVE_WRITER.json; it is torn between its creation and its write.
Leases == [owner : Jobs, beat : 0..MaxTime, torn : BOOLEAN]
\* Content of COMMITTED.json: the generation and the job that published it.
Manifests == [step : 1..Steps, by : Jobs]

ASSUME NoneAssumption == None \notin Leases /\ None \notin Manifests

VARIABLES
    lease,      \* ACTIVE_WRITER.json
    manifest,   \* COMMITTED.json
    now,        \* time.time()
    pc,         \* where each job is
    resume,     \* the job's resume option
    overwrite,  \* the job's allow_checkpoint_overwrite option
    base,       \* the generation the job's training state extends
    step,       \* the training steps the job has completed
    seen        \* the lease the job has read and not yet written back

vars == <<lease, manifest, now, pc, resume, overwrite, base, step, seen>>

Ended == {"idle", "failed", "done"}
Acquiring == {"policy", "acquire", "inspect", "break", "create"}
Holding == {"write", "restore", "beat", "rewrite", "work", "release"}

Init ==
    /\ lease = None
    /\ manifest = None
    /\ now = 0
    /\ pc = [j \in Jobs |-> "idle"]
    /\ resume \in [Jobs -> BOOLEAN]
    /\ overwrite \in [Jobs -> BOOLEAN]
    /\ base = [j \in Jobs |-> None]
    /\ step = [j \in Jobs |-> 0]
    /\ seen = [j \in Jobs |-> None]

Goto(j, label) == pc' = [pc EXCEPT ![j] = label]
options == <<resume, overwrite>>
-----------------------------------------------------------------------------
(* _start_checkpoint_session *)

Begin(j) ==
    /\ pc[j] = "idle"
    /\ Goto(j, "policy")
    /\ UNCHANGED <<lease, manifest, now, options, base, step, seen>>

CheckPolicy(j) ==
    /\ pc[j] = "policy"
    /\ LET refused == IF resume[j] THEN manifest = None
                                   ELSE manifest # None /\ ~overwrite[j]
       IN  Goto(j, IF refused THEN "failed" ELSE "acquire")
    /\ UNCHANGED <<lease, manifest, now, options, base, step, seen>>

Acquire(j) ==
    /\ pc[j] = "acquire"
    /\ Goto(j, IF j \in Breakers /\ lease # None THEN "inspect" ELSE "create")
    /\ UNCHANGED <<lease, manifest, now, options, base, step, seen>>

\* os.kill(pid, 0).  A job that failed may survive as a process, which makes a
\* breaker fail; its Crash stands for that.
Alive(j) == pc[j] \notin Ended

\* Deviation: the heartbeat's age is not looked at.
Breakable_AnyAge(j, l) ==
    (~l.torn /\ HostOf[l.owner] = HostOf[j]) => ~Alive(l.owner)
\* Deviation: the process that wrote it is not looked at.
Breakable_AnyProcess(j, l) == now - l.beat >= Stale

\* A stale lease; one of this host only when its process is gone too, and a
\* torn one names no process.
Breakable(j, l) ==
    /\ now - l.beat >= Stale
    /\ (~l.torn /\ HostOf[l.owner] = HostOf[j]) => ~Alive(l.owner)

\* Reading the lease; when it has gone meanwhile its stat() raises.
Inspect(j) ==
    /\ pc[j] = "inspect"
    /\ Goto(j, IF lease # None /\ Breakable(j, lease) THEN "break" ELSE "failed")
    /\ UNCHANGED <<lease, manifest, now, options, base, step, seen>>

Break(j) ==
    /\ pc[j] = "break"
    /\ lease' = None
    /\ Goto(j, "create")
    /\ UNCHANGED <<manifest, now, options, base, step, seen>>

\* Deviation: the lease is opened without O_EXCL.
Create_Truncates(j) ==
    /\ pc[j] = "create"
    /\ lease' = [owner |-> j, beat |-> now, torn |-> TRUE]
    /\ Goto(j, "write")
    /\ UNCHANGED <<manifest, now, options, base, step, seen>>

\* os.open with O_EXCL.
Create(j) ==
    /\ pc[j] = "create"
    /\ IF lease = None
       THEN /\ lease' = [owner |-> j, beat |-> now, torn |-> TRUE]
            /\ Goto(j, "write")
       ELSE Goto(j, "failed") /\ UNCHANGED lease
    /\ UNCHANGED <<manifest, now, options, base, step, seen>>

\* os.write to the created file, which keeps its inode if it was unlinked.
Write(j) ==
    /\ pc[j] = "write"
    /\ lease' = IF lease # None /\ lease.owner = j
                THEN [lease EXCEPT !.beat = now, !.torn = FALSE] ELSE lease
    /\ Goto(j, IF resume[j] THEN "restore" ELSE "beat")
    /\ UNCHANGED <<manifest, now, options, base, step, seen>>

\* _restore_training_checkpoint reads the manifest under the lease.
Restore(j) ==
    /\ pc[j] = "restore"
    /\ IF manifest = None
       THEN Goto(j, "failed") /\ UNCHANGED <<base, step>>
       ELSE /\ base' = [base EXCEPT ![j] = manifest]
            /\ step' = [step EXCEPT ![j] = manifest.step]
            /\ Goto(j, "beat")
    /\ UNCHANGED <<lease, manifest, now, options, seen>>
-----------------------------------------------------------------------------
(* The training loop *)

\* Deviation: the loop runs one step too far.
Beat_OffByOne(j) ==
    /\ pc[j] = "beat" /\ step[j] <= Steps
    /\ IF lease # None /\ ~lease.torn /\ Contract[lease.owner] = Contract[j]
       THEN seen' = [seen EXCEPT ![j] = lease] /\ Goto(j, "rewrite")
       ELSE Goto(j, "failed") /\ UNCHANGED seen
    /\ UNCHANGED <<lease, manifest, now, options, base, step>>

\* _refresh_checkpoint_writer_lease reads whatever lease is there ...
Beat(j) ==
    /\ pc[j] = "beat" /\ step[j] < Steps
    /\ IF lease # None /\ ~lease.torn /\ Contract[lease.owner] = Contract[j]
       THEN seen' = [seen EXCEPT ![j] = lease] /\ Goto(j, "rewrite")
       ELSE Goto(j, "failed") /\ UNCHANGED seen
    /\ UNCHANGED <<lease, manifest, now, options, base, step>>

\* ... and replaces it with what it read and a new heartbeat.
Rewrite(j) ==
    /\ pc[j] = "rewrite"
    /\ lease' = [seen[j] EXCEPT !.beat = now]
    /\ seen' = [seen EXCEPT ![j] = None]
    /\ Goto(j, "work")
    /\ UNCHANGED <<manifest, now, options, base, step>>

\* The training step and the commit of its generation.
Commit(j) ==
    /\ pc[j] = "work"
    /\ manifest' = [step |-> step[j] + 1, by |-> j]
    /\ base' = [base EXCEPT ![j] = manifest']
    /\ step' = [step EXCEPT ![j] = @ + 1]
    /\ Goto(j, "beat")
    /\ UNCHANGED <<lease, now, options, seen>>

Finish(j) ==
    /\ pc[j] = "beat" /\ step[j] = Steps
    /\ Goto(j, "release")
    /\ UNCHANGED <<lease, manifest, now, options, base, step, seen>>

Release(j) ==
    /\ pc[j] = "release"
    /\ lease' = None
    /\ Goto(j, "done")
    /\ UNCHANGED <<manifest, now, options, base, step, seen>>
-----------------------------------------------------------------------------
(* The environment *)

\* Any exception or death: nothing releases the lease.
Crash(j) ==
    /\ Alive(j)
    /\ Goto(j, "failed")
    /\ UNCHANGED <<lease, manifest, now, options, base, step, seen>>

\* A punctual job refreshes its lease before it gets stale, and every job
\* writes the lease it has created before that one does.
Tick ==
    /\ now < MaxTime
    /\ (lease # None /\ pc[lease.owner] \in Holding /\ (lease.owner \in Punctual \/ lease.torn))
           => now + 1 - lease.beat < Stale
    /\ now' = now + 1
    /\ UNCHANGED <<lease, manifest, pc, options, base, step, seen>>

\* Every job has ended and the clock has run out.
Stopped ==
    /\ now = MaxTime /\ \A j \in Jobs : pc[j] \in Ended \ {"idle"}
    /\ UNCHANGED vars

Step(j) ==
    \/ CheckPolicy(j) \/ Acquire(j) \/ Inspect(j) \/ Break(j) \/ Create(j) \/ Write(j)
    \/ Restore(j) \/ Beat(j) \/ Rewrite(j) \/ Commit(j) \/ Finish(j) \/ Release(j)

Next ==
    \/ \E j \in Jobs : Begin(j) \/ Step(j) \/ Crash(j)
    \/ Tick
    \/ Stopped

Spec == Init /\ [][Next]_vars
-----------------------------------------------------------------------------
(* Properties *)

TypeOK ==
    /\ lease \in Leases \cup {None}
    /\ manifest \in Manifests \cup {None}
    /\ now \in 0..MaxTime
    /\ pc \in [Jobs -> Ended \cup Acquiring \cup Holding]
    /\ resume \in [Jobs -> BOOLEAN]
    /\ overwrite \in [Jobs -> BOOLEAN]
    /\ base \in [Jobs -> Manifests \cup {None}]
    /\ step \in [Jobs -> 0..Steps]
    /\ seen \in [Jobs -> Leases \cup {None}]

\* At most one job trains and commits on the directory
\* ("exclusive_atomic_file_v1").
LeaseExclusive ==
    \A j, k \in Jobs : pc[j] \in Holding /\ pc[k] \in Holding => j = k

\* The job that trains owns the lease file: heartbeats and the final unlink
\* touch its own lease and never another job's.
HolderOwnsLease ==
    \A j \in Jobs : pc[j] \in Holding => lease # None /\ lease.owner = j

\* A resumed job publishes only successors of the manifest it replaces: two
\* jobs never fork the training history.
ResumedCommitsExtend ==
    [][ \A j \in Jobs : (pc[j] = "work" /\ pc'[j] = "beat" /\ resume[j]) => manifest = base[j] ]_vars

\* A fresh job without allow_checkpoint_overwrite never replaces a generation
\* it did not write itself ("set resume=True or explicitly allow checkpoint
\* overwrite").
FreshStartNeverOverwrites ==
    [][ \A j \in Jobs :
          (pc[j] = "work" /\ pc'[j] = "beat" /\ ~resume[j] /\ ~overwrite[j]) => manifest = base[j] ]_vars
=============================================================================
