------------------------- MODULE DynamicTNCheckpoint -------------------------
(***************************************************************************)
(* flagquantum/runtime/executors/tensor_network/dynamic_checkpoint.py:     *)
(* the one directory that holds a dynamic reverse segment's checkpoint.    *)
(*                                                                         *)
(* A saving job takes .checkpoint.lock with O_EXCL, removes COMMITTED,     *)
(* replaces every rank's file in place, and then rank 0 hashes the files,  *)
(* writes manifest.json and COMMITTED and removes the lock.  A loading job *)
(* takes no lock: its ranks read the manifest, their file's digest and the *)
(* file itself at different times and rely on three collectives.  A lock   *)
(* that a dead writer left is removed by an operator, by its identity.     *)
(*                                                                         *)
(* A job is one process group, saves or loads once, and its ranks may die  *)
(* one by one: the survivors run on to their next collective and time out  *)
(* there.  Two jobs save different cotangents, so the content of a file is *)
(* named by the job that wrote it.                                         *)
(***************************************************************************)
EXTENDS Integers, FiniteSets

CONSTANTS
    Ranks,        \* the ranks of every job
    Leader,       \* rank 0
    Savers,       \* jobs that save
    Loaders,      \* jobs that load
    Index,        \* next_record_index of what each saver saves
    Operators,    \* people who audit and clear the lock
    None          \* a file that does not exist; nothing read yet

ASSUME RanksAssumption == Leader \in Ranks /\ IsFiniteSet(Ranks)
ASSUME JobsAssumption == Savers \cap Loaders = {} /\ None \notin Savers
ASSUME IndexAssumption == Index \in [Savers -> Nat]

Jobs == Savers \cup Loaders
Contents == Savers \cup {None}
\* manifest.json; its checkpoint_identity is a digest of all of it.
Manifests == [by : Savers, sha : [Ranks -> Contents]]
\* .checkpoint.lock; torn until its creator has written it.
Locks == [owner : Savers, torn : BOOLEAN]

ASSUME NoneAssumption == None \notin Manifests /\ None \notin Locks

VARIABLES
    file,       \* content of rank-<r>.pt
    manifest,   \* content of manifest.json
    committed,  \* COMMITTED: the manifest whose identity it holds
    lock,       \* .checkpoint.lock
    pc,         \* where each rank of each job is
    digests,    \* what a saving job's rank 0 has hashed
    seen,       \* the manifest a loading rank has read
    got,        \* the payload a loading rank has read
    opc,        \* where each operator is
    audited,    \* the lock whose identity an operator passes to the clearing
    opened      \* the lock the clearing has opened

files == <<file, manifest, committed>>
vars == <<files, lock, pc, digests, seen, got, opc, audited, opened>>

Ended == {"idle", "failed", "down", "done"}
\* Where a rank waits for its peers.
Collectives == {"bcast", "locked", "refused", "ready", "replaced", "committed", "released",
                "absent", "mismatch", "present", "intact", "damaged", "loaded"}
Local == {"lock", "writeLock", "uncommit", "replace", "hash", "publish", "commit", "release",
          "readManifest", "readCommit", "check", "load"}
\* Rank 0 owns the lock file.
Locked == {"writeLock", "locked", "uncommit", "ready", "replace", "replaced", "hash",
           "publish", "commit", "committed", "release"}

Init ==
    /\ file = [r \in Ranks |-> None]
    /\ manifest = None
    /\ committed = None
    /\ lock = None
    /\ pc = [j \in Jobs |-> [r \in Ranks |-> "idle"]]
    /\ digests = [j \in Savers |-> [r \in Ranks |-> None]]
    /\ seen = [j \in Loaders |-> [r \in Ranks |-> None]]
    /\ got = [j \in Loaders |-> [r \in Ranks |-> None]]
    /\ opc = [o \in Operators |-> "idle"]
    /\ audited = [o \in Operators |-> None]
    /\ opened = [o \in Operators |-> None]

At(j, r, label) == pc[j][r] = label
Goto(j, r, label) == pc' = [pc EXCEPT ![j][r] = label]
\* A collective: every rank of the job is at one of the labels.
All(j, labels) == \A r \in Ranks : pc[j][r] \in labels
AllGoto(j, label) == pc' = [pc EXCEPT ![j] = [r \in Ranks |-> label]]
\* After a collective rank 0 goes one way and its peers another.
Fork(j, leader, others) ==
    pc' = [pc EXCEPT ![j] = [r \in Ranks |-> IF r = Leader THEN leader ELSE others]]

load == <<seen, got>>
operators == <<opc, audited, opened>>
-----------------------------------------------------------------------------
(* save_dynamic_tn_reverse_checkpoint *)

Save(j) ==
    /\ All(j, {"idle"})
    /\ Fork(j, "lock", "bcast")
    /\ UNCHANGED <<files, lock, digests, load, operators>>

\* Deviation: the lock file is opened without O_EXCL.
Lock_NoExcl(j) ==
    /\ At(j, Leader, "lock")
    /\ lock' = [owner |-> j, torn |-> TRUE]
    /\ Goto(j, Leader, "writeLock")
    /\ UNCHANGED <<files, digests, load, operators>>

Lock(j) ==
    /\ At(j, Leader, "lock")
    /\ IF lock = None
       THEN lock' = [owner |-> j, torn |-> TRUE] /\ Goto(j, Leader, "writeLock")
       ELSE Goto(j, Leader, "refused") /\ UNCHANGED lock
    /\ UNCHANGED <<files, digests, load, operators>>

\* os.write to the descriptor, wherever its name has gone.
WriteLock(j) ==
    /\ At(j, Leader, "writeLock")
    /\ lock' = IF lock # None /\ lock.owner = j THEN [lock EXCEPT !.torn = FALSE] ELSE lock
    /\ Goto(j, Leader, "locked")
    /\ UNCHANGED <<files, digests, load, operators>>

LockStatus(j) ==
    /\ pc[j][Leader] \in {"locked", "refused"}
    /\ \A r \in Ranks \ {Leader} : At(j, r, "bcast")
    /\ IF At(j, Leader, "locked") THEN Fork(j, "uncommit", "ready") ELSE AllGoto(j, "failed")
    /\ UNCHANGED <<files, lock, digests, load, operators>>

Uncommit(j) ==
    /\ At(j, Leader, "uncommit")
    /\ committed' = None
    /\ Goto(j, Leader, "ready")
    /\ UNCHANGED <<file, manifest, lock, digests, load, operators>>

Ready(j) ==
    /\ All(j, {"ready"})
    /\ AllGoto(j, "replace")
    /\ UNCHANGED <<files, lock, digests, load, operators>>

Replace(j, r) ==
    /\ At(j, r, "replace")
    /\ file' = [file EXCEPT ![r] = j]
    /\ Goto(j, r, "replaced")
    /\ UNCHANGED <<manifest, committed, lock, digests, load, operators>>

\* Deviation: rank 0 does not wait for its peers' files.
Replaced_NoBarrier(j) ==
    /\ \E r \in Ranks : /\ At(j, r, "replaced")
                        /\ Goto(j, r, IF r = Leader THEN "hash" ELSE "committed")
    /\ UNCHANGED <<files, lock, digests, load, operators>>

Replaced(j) ==
    /\ All(j, {"replaced"})
    /\ Fork(j, "hash", "committed")
    /\ UNCHANGED <<files, lock, digests, load, operators>>

\* Rank 0 hashes one file after another; a survivor of a dead save may replace
\* one in between.
Hash(j, r) ==
    /\ At(j, Leader, "hash")
    /\ digests[j][r] = None
    /\ digests' = [digests EXCEPT ![j][r] = file[r]]
    /\ Goto(j, Leader, IF \E p \in Ranks : digests'[j][p] = None THEN "hash" ELSE "publish")
    /\ UNCHANGED <<files, lock, load, operators>>

\* Deviation: one rank's file is left out.
Manifest_OffByOne(j) == [by |-> j, sha |-> [r \in Ranks \ {Leader} |-> digests[j][r]]]

Manifest(j) == [by |-> j, sha |-> digests[j]]

Publish(j) ==
    /\ At(j, Leader, "publish")
    /\ manifest' = Manifest(j)
    /\ Goto(j, Leader, "commit")
    /\ UNCHANGED <<file, committed, lock, digests, load, operators>>

Commit(j) ==
    /\ At(j, Leader, "commit")
    /\ committed' = Manifest(j)
    /\ Goto(j, Leader, "committed")
    /\ UNCHANGED <<file, manifest, lock, digests, load, operators>>

Committed(j) ==
    /\ All(j, {"committed"})
    /\ Fork(j, "release", "released")
    /\ UNCHANGED <<files, lock, digests, load, operators>>

\* unlink() of whatever lock is there; it raises when there is none.
Release(j) ==
    /\ At(j, Leader, "release")
    /\ lock' = None
    /\ Goto(j, Leader, IF lock = None THEN "down" ELSE "released")
    /\ UNCHANGED <<files, digests, load, operators>>

Released(j) ==
    /\ All(j, {"released"})
    /\ AllGoto(j, "done")
    /\ UNCHANGED <<files, lock, digests, load, operators>>
-----------------------------------------------------------------------------
(* load_dynamic_tn_reverse_checkpoint *)

Load(j) ==
    /\ All(j, {"idle"})
    /\ AllGoto(j, "readManifest")
    /\ UNCHANGED <<files, lock, digests, load, operators>>

ReadManifest(j, r) ==
    /\ At(j, r, "readManifest")
    /\ seen' = [seen EXCEPT ![j][r] = manifest]
    /\ Goto(j, r, IF manifest = None THEN "absent" ELSE "readCommit")
    /\ UNCHANGED <<files, lock, digests, got, operators>>

ReadCommit(j, r) ==
    /\ At(j, r, "readCommit")
    /\ Goto(j, r, IF committed = None THEN "absent"
                  ELSE IF committed = seen[j][r] THEN "present" ELSE "mismatch")
    /\ UNCHANGED <<files, lock, digests, load, operators>>

\* The first _collective_invalid; a mismatch then raises on its rank alone.
Present(j) ==
    /\ All(j, {"absent", "mismatch", "present"})
    /\ IF \E r \in Ranks : At(j, r, "absent")
       THEN AllGoto(j, "failed")
       ELSE pc' = [pc EXCEPT ![j] = [r \in Ranks |->
                       IF At(j, r, "mismatch") THEN "down" ELSE "check"]]
    /\ UNCHANGED <<files, lock, digests, load, operators>>

Check(j, r) ==
    /\ At(j, r, "check")
    /\ Goto(j, r, IF file[r] = seen[j][r].sha[r] THEN "intact" ELSE "damaged")
    /\ UNCHANGED <<files, lock, digests, load, operators>>

Intact(j) ==
    /\ All(j, {"intact", "damaged"})
    /\ AllGoto(j, IF All(j, {"intact"}) THEN "load" ELSE "failed")
    /\ UNCHANGED <<files, lock, digests, load, operators>>

\* The file is read again; it may have been replaced since its digest was taken.
ReadPayload(j, r) ==
    /\ At(j, r, "load")
    /\ got' = [got EXCEPT ![j][r] = file[r]]
    /\ Goto(j, r, "loaded")
    /\ UNCHANGED <<files, lock, digests, seen, operators>>

\* Deviation: the payload's next_record_index is not compared with the manifest's.
Agree_Unchecked(j) ==
    /\ All(j, {"loaded"})
    /\ AllGoto(j, "done")
    /\ UNCHANGED <<files, lock, digests, load, operators>>

Agree(j) ==
    /\ All(j, {"loaded"})
    /\ AllGoto(j, IF \A r \in Ranks : Index[got[j][r]] = Index[seen[j][r].by]
                  THEN "done" ELSE "failed")
    /\ UNCHANGED <<files, lock, digests, load, operators>>
-----------------------------------------------------------------------------
(* inspect_dynamic_tn_checkpoint, clear_dynamic_tn_checkpoint_writer_lock *)

\* writer_lock_identity, a digest of the lock's content: all torn ones are empty.
Identity(l) == IF l.torn THEN None ELSE l.owner

\* An operator acts on an audit that names the writer's PID.
Audit(o) ==
    /\ opc[o] = "idle"
    /\ lock # None /\ ~lock.torn
    /\ audited' = [audited EXCEPT ![o] = lock]
    /\ opc' = [opc EXCEPT ![o] = "open"]
    /\ UNCHANGED <<files, lock, pc, digests, load, opened>>

\* Deviation: the identity is not compared.
Open_AnyIdentity(o) ==
    /\ opc[o] = "open"
    /\ pc[audited[o].owner][Leader] \in Ended
    /\ opened' = [opened EXCEPT ![o] = lock]
    /\ opc' = [opc EXCEPT ![o] = IF lock = None THEN "idle" ELSE "stat"]
    /\ UNCHANGED <<files, lock, pc, digests, load, audited>>

\* The operator clears a lock when the process that wrote it has gone; the
\* content read from the opened file must still have the audited identity.
Open(o) ==
    /\ opc[o] = "open"
    /\ pc[audited[o].owner][Leader] \in Ended
    /\ opened' = [opened EXCEPT ![o] = lock]
    /\ opc' = [opc EXCEPT ![o] = IF lock # None /\ Identity(lock) = Identity(audited[o])
                                 THEN "stat" ELSE "idle"]
    /\ UNCHANGED <<files, lock, pc, digests, load, audited>>

\* The name still stands for the opened inode: each job creates one.
Stat(o) ==
    /\ opc[o] = "stat"
    /\ opc' = [opc EXCEPT ![o] = IF lock # None /\ lock.owner = opened[o].owner
                                 THEN "unlink" ELSE "idle"]
    /\ UNCHANGED <<files, lock, pc, digests, load, audited, opened>>

Unlink(o) ==
    /\ opc[o] = "unlink"
    /\ lock' = None
    /\ opc' = [opc EXCEPT ![o] = "idle"]
    /\ UNCHANGED <<files, pc, digests, load, audited, opened>>
-----------------------------------------------------------------------------
(* Failures *)

Crash(j, r) ==
    /\ pc[j][r] \notin Ended
    /\ Goto(j, r, "down")
    /\ UNCHANGED <<files, lock, digests, load, operators>>

\* A collective that a dead peer never joins.
Timeout(j, r) ==
    /\ pc[j][r] \in Collectives
    /\ \E p \in Ranks : At(j, p, "down")
    /\ Goto(j, r, "down")
    /\ UNCHANGED <<files, lock, digests, load, operators>>

SaveStep(j) ==
    \/ Lock(j) \/ WriteLock(j) \/ LockStatus(j) \/ Uncommit(j) \/ Ready(j) \/ Replaced(j)
    \/ Publish(j) \/ Commit(j) \/ Committed(j) \/ Release(j) \/ Released(j)

SaveRank(j, r) == Replace(j, r) \/ Hash(j, r)

LoadStep(j) == Present(j) \/ Intact(j) \/ Agree(j)
LoadRank(j, r) == ReadManifest(j, r) \/ ReadCommit(j, r) \/ Check(j, r) \/ ReadPayload(j, r)

Clear(o) == Audit(o) \/ Open(o) \/ Stat(o) \/ Unlink(o)

Next ==
    \/ \E j \in Savers : Save(j) \/ SaveStep(j) \/ \E r \in Ranks : SaveRank(j, r)
    \/ \E j \in Loaders : Load(j) \/ LoadStep(j) \/ \E r \in Ranks : LoadRank(j, r)
    \/ \E j \in Jobs, r \in Ranks : Crash(j, r) \/ Timeout(j, r)
    \/ \E o \in Operators : Clear(o)

Spec == Init /\ [][Next]_vars
-----------------------------------------------------------------------------
(* Properties *)

TypeOK ==
    /\ file \in [Ranks -> Contents]
    /\ manifest \in Manifests \cup {None}
    /\ committed \in Manifests \cup {None}
    /\ lock \in Locks \cup {None}
    /\ pc \in [Jobs -> [Ranks -> Ended \cup Collectives \cup Local]]
    /\ digests \in [Savers -> [Ranks -> Contents]]
    /\ seen \in [Loaders -> [Ranks -> Manifests \cup {None}]]
    /\ got \in [Loaders -> [Ranks -> Contents]]
    /\ opc \in [Operators -> {"idle", "open", "stat", "unlink"}]
    /\ audited \in [Operators -> Locks \cup {None}]
    /\ opened \in [Operators -> Locks \cup {None}]

\* The rank 0 of one saving job at a time is past the lock, also after an
\* operator has cleared the lock of a job whose rank 0 died.  The peers of that
\* dead rank may still replace their files.
OneWriter ==
    \A j, k \in Savers : pc[j][Leader] \in Locked /\ pc[k][Leader] \in Locked => j = k

\* A load that returns gives all ranks one frontier, although no lock keeps a
\* save, or a survivor of a dead one, from replacing files between its reads.
LoadsAgree ==
    \A j \in Loaders : All(j, {"done"}) =>
        \A r, p \in Ranks : Index[got[j][r]] = Index[got[j][p]]

\* inspect_dynamic_tn_checkpoint's "loadable".
Loadable ==
    /\ manifest # None
    /\ committed = manifest
    /\ \A r \in Ranks : file[r] = manifest.sha[r]

\* When every save has returned or was refused, and no rank has died, what is
\* on disk is loadable: competing saves do not spoil each other's files.
FinishedSavesLoadable ==
    /\ \A j \in Savers : All(j, {"idle"}) \/ All(j, {"failed"}) \/ All(j, {"done"})
    /\ \E j \in Savers : All(j, {"done"})
    => Loadable

\* The same when a save may die ("Atomically save one file per rank").
AtomicSave ==
    (/\ \A j \in Savers : \A r \in Ranks : pc[j][r] \in Ended
     /\ \E j \in Savers : All(j, {"done"}))
    => Loadable

\* Clearing removes the lock that was audited and never one that replaced it
\* ("Clear exactly the audited lock, refusing replacement races").
ClearsAuditedLock ==
    [][ \A o \in Operators :
          (opc[o] = "unlink" /\ opc'[o] = "idle" /\ lock # None) => lock = audited[o] ]_vars
=============================================================================
