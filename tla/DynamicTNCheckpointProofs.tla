--------------------- MODULE DynamicTNCheckpointProofs ---------------------
(***************************************************************************)
(* Proofs about DynamicTNCheckpoint, for any number of ranks and jobs.     *)
(*                                                                         *)
(* When at most one operator clears locks, the lock excludes other savers, *)
(* clearing it removes the lock that was audited, a load gives all ranks   *)
(* one frontier, and saves that have ended left a loadable checkpoint.     *)
(***************************************************************************)
EXTENDS DynamicTNCheckpoint, TLAPS

OneOperator == \A o, p \in Operators : o = p
-----------------------------------------------------------------------------
(* Types *)

Labels == Ended \cup Collectives \cup Local

LEMMA GotoType ==
    ASSUME pc \in [Jobs -> [Ranks -> Labels]],
           NEW j \in Jobs, NEW r \in Ranks, NEW l \in Labels, Goto(j, r, l)
    PROVE  /\ pc' \in [Jobs -> [Ranks -> Labels]]
           /\ pc'[j][r] = l
           /\ \A k \in Jobs, p \in Ranks : (k # j \/ p # r) => pc'[k][p] = pc[k][p]
<1>1. pc' = [pc EXCEPT ![j] = [pc[j] EXCEPT ![r] = l]]
  BY DEF Goto
<1>2. [pc[j] EXCEPT ![r] = l] \in [Ranks -> Labels]
  OBVIOUS
<1> QED
  BY <1>1, <1>2

LEMMA RowType ==
    ASSUME pc \in [Jobs -> [Ranks -> Labels]],
           NEW j \in Jobs, NEW row \in [Ranks -> Labels], pc' = [pc EXCEPT ![j] = row]
    PROVE  /\ pc' \in [Jobs -> [Ranks -> Labels]]
           /\ pc'[j] = row
           /\ \A k \in Jobs : k # j => pc'[k] = pc[k]
OBVIOUS

LEMMA AllGotoType ==
    ASSUME pc \in [Jobs -> [Ranks -> Labels]],
           NEW j \in Jobs, NEW l \in Labels, AllGoto(j, l)
    PROVE  /\ pc' \in [Jobs -> [Ranks -> Labels]]
           /\ \A r \in Ranks : pc'[j][r] = l
           /\ \A k \in Jobs : k # j => pc'[k] = pc[k]
<1> DEFINE row == [r \in Ranks |-> l]
<1>1. row \in [Ranks -> Labels]
  OBVIOUS
<1> QED
  BY <1>1, RowType DEF AllGoto

LEMMA ForkType ==
    ASSUME pc \in [Jobs -> [Ranks -> Labels]],
           NEW j \in Jobs, NEW l \in Labels, NEW m \in Labels, Fork(j, l, m)
    PROVE  /\ pc' \in [Jobs -> [Ranks -> Labels]]
           /\ pc'[j][Leader] = l
           /\ \A k \in Jobs : k # j => pc'[k] = pc[k]
<1> DEFINE row == [r \in Ranks |-> IF r = Leader THEN l ELSE m]
<1>1. row \in [Ranks -> Labels]
  OBVIOUS
<1>2. row[Leader] = l
  BY RanksAssumption
<1> QED
  BY <1>1, <1>2, RowType DEF Fork

LEMMA LockRecord ==
    /\ \A l \in Locks : l.owner \in Savers /\ l.torn \in BOOLEAN
                        /\ [l EXCEPT !.torn = FALSE] \in Locks
                        /\ [l EXCEPT !.torn = FALSE].owner = l.owner
    /\ \A j \in Savers : /\ [owner |-> j, torn |-> TRUE] \in Locks
                         /\ [owner |-> j, torn |-> TRUE].owner = j
BY DEF Locks

LEMMA ManifestType ==
    ASSUME NEW j \in Savers, digests[j] \in [Ranks -> Contents]
    PROVE  Manifest(j) \in Manifests
BY DEF Manifest, Manifests

LEMMA TypeInit == Init => TypeOK
BY DEF Init, TypeOK, Contents, Ended

LEMMA TypeStep == TypeOK /\ [Next]_vars => TypeOK'
<1> SUFFICES ASSUME TypeOK, [Next]_vars PROVE TypeOK'
  OBVIOUS
<1> USE Zenon, RanksAssumption, JobsAssumption, GotoType, AllGotoType, ForkType
<1> USE DEF TypeOK, Labels, files, load, operators, At, Ended, Collectives, Local
<1>0. Savers \subseteq Jobs /\ Loaders \subseteq Jobs /\ Leader \in Ranks
  BY DEF Jobs
<1>1. ASSUME NEW j \in Savers, Save(j) PROVE TypeOK'
  BY <1>0, <1>1 DEF Save
<1>2. ASSUME NEW j \in Savers, Lock(j) PROVE TypeOK'
  <2>1. CASE lock = None
    <3> DEFINE new == [owner |-> j, torn |-> TRUE]
    <3>1. lock' = new
      BY <1>2, <2>1 DEF Lock
    <3>2. new \in Locks
      BY LockRecord
    <3> HIDE DEF new
    <3>3. lock' \in Locks
      BY <3>1, <3>2
    <3>4. pc' \in [Jobs -> [Ranks -> Labels]]
      BY <1>0, <1>2, <2>1 DEF Lock
    <3> QED
      BY <1>2, <3>3, <3>4 DEF Lock
  <2>2. CASE lock # None
    <3>1. lock' = lock /\ Goto(j, Leader, "refused")
      BY <1>2, <2>2 DEF Lock
    <3> QED
      BY <1>0, <1>2, <3>1 DEF Lock
  <2> QED
    BY <2>1, <2>2
<1>3. ASSUME NEW j \in Savers, WriteLock(j) PROVE TypeOK'
  BY <1>0, <1>3, LockRecord DEF WriteLock
<1>4. ASSUME NEW j \in Savers, LockStatus(j) PROVE TypeOK'
  BY <1>0, <1>4 DEF LockStatus
<1>5. ASSUME NEW j \in Savers, Uncommit(j) PROVE TypeOK'
  BY <1>0, <1>5 DEF Uncommit
<1>6. ASSUME NEW j \in Savers, Ready(j) PROVE TypeOK'
  BY <1>0, <1>6 DEF Ready
<1>7. ASSUME NEW j \in Savers, NEW r \in Ranks, Replace(j, r) PROVE TypeOK'
  BY <1>0, <1>7 DEF Replace, Contents
<1>8. ASSUME NEW j \in Savers, Replaced(j) PROVE TypeOK'
  BY <1>0, <1>8 DEF Replaced
<1>9. ASSUME NEW j \in Savers, NEW r \in Ranks, Hash(j, r) PROVE TypeOK'
  <2>1. PICK l \in {"hash", "publish"} : Goto(j, Leader, l)
    BY <1>9 DEF Hash
  <2>2. digests' \in [Savers -> [Ranks -> Contents]]
    BY <1>9 DEF Hash
  <2> QED
    BY <1>0, <1>9, <2>1, <2>2 DEF Hash
<1>10. ASSUME NEW j \in Savers, Publish(j) PROVE TypeOK'
  BY <1>0, <1>10, ManifestType DEF Publish
<1>11. ASSUME NEW j \in Savers, Commit(j) PROVE TypeOK'
  BY <1>0, <1>11, ManifestType DEF Commit
<1>12. ASSUME NEW j \in Savers, Committed(j) PROVE TypeOK'
  BY <1>0, <1>12 DEF Committed
<1>13. ASSUME NEW j \in Savers, Release(j) PROVE TypeOK'
  BY <1>0, <1>13 DEF Release
<1>14. ASSUME NEW j \in Savers, Released(j) PROVE TypeOK'
  BY <1>0, <1>14 DEF Released
<1>15. ASSUME NEW j \in Loaders, Load(j) PROVE TypeOK'
  BY <1>0, <1>15 DEF Load
<1>16. ASSUME NEW j \in Loaders, NEW r \in Ranks, ReadManifest(j, r) PROVE TypeOK'
  <2>1. seen' \in [Loaders -> [Ranks -> Manifests \cup {None}]]
    BY <1>16 DEF ReadManifest
  <2> QED
    BY <1>0, <1>16, <2>1 DEF ReadManifest
<1>17. ASSUME NEW j \in Loaders, NEW r \in Ranks, ReadCommit(j, r) PROVE TypeOK'
  BY <1>0, <1>17 DEF ReadCommit
<1>18. ASSUME NEW j \in Loaders, Present(j) PROVE TypeOK'
  <2>1. CASE \E r \in Ranks : pc[j][r] = "absent"
    BY <1>0, <1>18, <2>1 DEF Present
  <2>2. CASE ~\E r \in Ranks : pc[j][r] = "absent"
    <3> DEFINE row == [r \in Ranks |-> IF At(j, r, "mismatch") THEN "down" ELSE "check"]
    <3>1. row \in [Ranks -> Labels]
      OBVIOUS
    <3>2. pc' = [pc EXCEPT ![j] = row]
      BY <1>18, <2>2 DEF Present
    <3> QED
      BY <1>0, <1>18, <3>1, <3>2, RowType DEF Present
  <2> QED
    BY <2>1, <2>2
<1>19. ASSUME NEW j \in Loaders, NEW r \in Ranks, Check(j, r) PROVE TypeOK'
  BY <1>0, <1>19 DEF Check
<1>20. ASSUME NEW j \in Loaders, Intact(j) PROVE TypeOK'
  BY <1>0, <1>20 DEF Intact
<1>21. ASSUME NEW j \in Loaders, NEW r \in Ranks, ReadPayload(j, r) PROVE TypeOK'
  <2>1. got' \in [Loaders -> [Ranks -> Contents]]
    BY <1>21 DEF ReadPayload
  <2> QED
    BY <1>0, <1>21, <2>1 DEF ReadPayload
<1>22. ASSUME NEW j \in Loaders, Agree(j) PROVE TypeOK'
  BY <1>0, <1>22 DEF Agree
<1>23. ASSUME NEW j \in Jobs, NEW r \in Ranks, Crash(j, r) \/ Timeout(j, r) PROVE TypeOK'
  <2>1. Goto(j, r, "down")
    BY <1>23 DEF Crash, Timeout
  <2>2. pc' \in [Jobs -> [Ranks -> Labels]]
    BY <2>1
  <2>3. UNCHANGED <<files, lock, digests, load, operators>>
    BY <1>23 DEF Crash, Timeout
  <2> QED
    BY <2>2, <2>3
<1>24. ASSUME NEW o \in Operators, Clear(o) PROVE TypeOK'
  <2>1. CASE Audit(o)
    BY <2>1 DEF Audit
  <2>2. CASE Open(o)
    <3>1. opc' \in [Operators -> {"idle", "open", "stat", "unlink"}]
      BY <2>2 DEF Open
    <3>2. opened' \in [Operators -> Locks \cup {None}]
      BY <2>2 DEF Open
    <3> QED
      BY <2>2, <3>1, <3>2 DEF Open
  <2>3. CASE Stat(o)
    BY <2>3 DEF Stat
  <2>4. CASE Unlink(o)
    BY <2>4 DEF Unlink
  <2> QED
    BY <1>24, <2>1, <2>2, <2>3, <2>4 DEF Clear
<1>25. CASE UNCHANGED vars
  BY <1>25 DEF vars
<1> QED
  BY <1>1, <1>2, <1>3, <1>4, <1>5, <1>6, <1>7, <1>8, <1>9, <1>10, <1>11, <1>12, <1>13,
     <1>14, <1>15, <1>16, <1>17, <1>18, <1>19, <1>20, <1>21, <1>22, <1>23, <1>24, <1>25
     DEF Next, SaveStep, SaveRank, LoadStep, LoadRank

\* Files, jobs and operators stay within their types: a manifest always names a
\* digest for every rank.
THEOREM TypeCorrect == Spec => []TypeOK
BY TypeInit, TypeStep, PTL DEF Spec
-----------------------------------------------------------------------------
(* The lock *)

\* A rank 0 that has raised, died or returned; it never comes back.
Gone == {"failed", "down", "done"}

\* A saver past the lock finds its own lock file in the directory.
HeldIsOwned ==
    \A j \in Savers : pc[j][Leader] \in Locked => lock # None /\ lock.owner = j
\* Whoever owns the lock file has been started.
OwnerStarted == lock # None => pc[lock.owner][Leader] # "idle"
\* An operator about to remove the lock has audited this very lock, and its
\* writer is gone.
ClearedIsGone ==
    \A o \in Operators :
        /\ opc[o] # "idle" =>
               /\ audited[o] \in Locks /\ ~audited[o].torn
               /\ pc[audited[o].owner][Leader] # "idle"
        /\ opc[o] \in {"stat", "unlink"} =>
               /\ lock = audited[o] /\ opened[o] = audited[o]
               /\ pc[audited[o].owner][Leader] \in Gone

LInv == HeldIsOwned /\ OwnerStarted /\ ClearedIsGone

LEMMA LockInit == Init => LInv
BY RanksAssumption DEF Init, LInv, HeldIsOwned, OwnerStarted, ClearedIsGone, Jobs, Locked

\* A step that leaves the lock and the operators alone, and takes no job past
\* the lock nor back to its start.
LEMMA QuietStep ==
    ASSUME TypeOK, LInv, lock' = lock, UNCHANGED operators,
           NEW j \in Savers,
           \A k \in Savers : k # j => pc'[k][Leader] = pc[k][Leader],
           pc'[j][Leader] \in Locked => pc[j][Leader] \in Locked,
           pc[j][Leader] # "idle" => pc'[j][Leader] # "idle",
           pc[j][Leader] \in Gone => pc'[j][Leader] = pc[j][Leader]
    PROVE  LInv'
<1>1. HeldIsOwned'
  BY DEF LInv, HeldIsOwned
<1>2. OwnerStarted'
  BY LockRecord DEF LInv, OwnerStarted, TypeOK
<1>3. ClearedIsGone'
  <2> SUFFICES ASSUME NEW o \in Operators
               PROVE  /\ opc[o] # "idle" =>
                             /\ audited[o] \in Locks /\ ~audited[o].torn
                             /\ pc'[audited[o].owner][Leader] # "idle"
                      /\ opc[o] \in {"stat", "unlink"} =>
                             /\ lock = audited[o] /\ opened[o] = audited[o]
                             /\ pc'[audited[o].owner][Leader] \in Gone
    BY DEF ClearedIsGone, operators
  <2>1. CASE opc[o] = "idle"
    BY <2>1
  <2>2. CASE opc[o] # "idle"
    <3>1. audited[o] \in Locks /\ audited[o].owner \in Savers
      BY <2>2, LockRecord DEF LInv, ClearedIsGone
    <3> QED
      BY <2>2, <3>1 DEF LInv, ClearedIsGone
  <2> QED
    BY <2>1, <2>2
<1> QED
  BY <1>1, <1>2, <1>3 DEF LInv

LEMMA LoaderStep ==
    ASSUME TypeOK, LInv, lock' = lock, UNCHANGED operators,
           \A k \in Savers : pc'[k] = pc[k]
    PROVE  LInv'
<1>1. HeldIsOwned' /\ OwnerStarted'
  BY LockRecord DEF LInv, HeldIsOwned, OwnerStarted, TypeOK
<1>2. ClearedIsGone'
  BY LockRecord DEF LInv, ClearedIsGone, operators
<1> QED
  BY <1>1, <1>2 DEF LInv

\* A quiet step of one rank of a saver.
LEMMA RankStep ==
    ASSUME TypeOK, LInv, lock' = lock, UNCHANGED operators,
           NEW j \in Savers, NEW r \in Ranks, NEW l \in Labels, Goto(j, r, l),
           l # "idle", l \in Locked => pc[j][r] \in Locked, pc[j][r] \notin Gone
    PROVE  LInv'
<1>1. j \in Jobs /\ Leader \in Ranks /\ Savers \subseteq Jobs
  BY RanksAssumption DEF Jobs
<1>2. /\ pc'[j][r] = l
      /\ \A k \in Jobs, p \in Ranks : (k # j \/ p # r) => pc'[k][p] = pc[k][p]
  BY <1>1, GotoType DEF TypeOK, Labels
<1>3. \A k \in Savers : k # j => pc'[k][Leader] = pc[k][Leader]
  BY <1>1, <1>2
<1>4. CASE r = Leader
  BY <1>2, <1>3, <1>4, QuietStep
<1>5. CASE r # Leader
  <2>1. pc'[j][Leader] = pc[j][Leader]
    BY <1>1, <1>2, <1>5
  <2> QED
    BY <1>3, <2>1, QuietStep
<1> QED
  BY <1>4, <1>5

\* A quiet collective of a saver.
LEMMA CollectiveStep ==
    ASSUME TypeOK, LInv, lock' = lock, UNCHANGED operators,
           NEW j \in Savers, NEW l \in Labels, NEW m \in Labels,
           Fork(j, l, m) \/ AllGoto(j, l),
           l # "idle", l \in Locked => pc[j][Leader] \in Locked, pc[j][Leader] \notin Gone
    PROVE  LInv'
<1>1. j \in Jobs /\ Leader \in Ranks /\ Savers \subseteq Jobs
  BY RanksAssumption DEF Jobs
<1>2. pc'[j][Leader] = l /\ \A k \in Jobs : k # j => pc'[k] = pc[k]
  BY <1>1, ForkType, AllGotoType DEF TypeOK, Labels
<1> QED
  BY <1>1, <1>2, QuietStep

LEMMA LockStep == ASSUME OneOperator PROVE TypeOK /\ LInv /\ [Next]_vars => LInv'
<1> SUFFICES ASSUME TypeOK, LInv, [Next]_vars PROVE LInv'
  OBVIOUS
<1> USE DEF Labels, At, Ended, Collectives, Local, Locked, Gone
<1>0. /\ Savers \subseteq Jobs /\ Loaders \subseteq Jobs /\ Leader \in Ranks
      /\ pc \in [Jobs -> [Ranks -> Labels]]
  BY RanksAssumption DEF Jobs, TypeOK
<1>1. ASSUME NEW j \in Savers, Save(j) PROVE LInv'
  BY <1>0, <1>1, CollectiveStep DEF Save, All
<1>2. ASSUME NEW j \in Savers, Lock(j) PROVE LInv'
  <2>1. CASE lock = None
    <3>1. /\ lock' # None /\ lock'.owner = j
      BY <1>2, <2>1, LockRecord, NoneAssumption DEF Lock
    <3>2. /\ pc'[j][Leader] = "writeLock"
          /\ \A k \in Savers : k # j => pc'[k][Leader] = pc[k][Leader]
      BY <1>0, <1>2, <2>1, GotoType DEF Lock
    <3>3. HeldIsOwned'
      BY <2>1, <3>1, <3>2 DEF LInv, HeldIsOwned
    <3>4. OwnerStarted'
      BY <3>1, <3>2 DEF OwnerStarted
    <3>5. \A o \in Operators : opc[o] \notin {"stat", "unlink"}
      BY <2>1, NoneAssumption DEF LInv, ClearedIsGone
    <3>6. opc' = opc /\ audited' = audited
      BY <1>2 DEF Lock, operators
    <3>7. \A o \in Operators : audited[o] \in Locks => audited[o].owner \in Savers
      BY LockRecord
    <3>8. ClearedIsGone'
      BY <3>2, <3>5, <3>6, <3>7 DEF LInv, ClearedIsGone
    <3> QED
      BY <3>3, <3>4, <3>8 DEF LInv
  <2>2. CASE lock # None
    BY <1>0, <1>2, <2>2, RankStep DEF Lock
  <2> QED
    BY <2>1, <2>2
<1>3. ASSUME NEW j \in Savers, WriteLock(j) PROVE LInv'
  <2>1. lock \in Locks /\ lock # None /\ lock.owner = j
    BY <1>3 DEF WriteLock, LInv, HeldIsOwned, TypeOK
  <2>2. \A k \in Savers : k # j => pc[k][Leader] \notin Locked
    BY <2>1 DEF LInv, HeldIsOwned
  <2>3. \A o \in Operators : opc[o] \notin {"stat", "unlink"}
    BY <1>3, <2>1 DEF WriteLock, LInv, ClearedIsGone
  <2>4. /\ pc'[j][Leader] \in {"locked"}
        /\ \A k \in Savers : k # j => pc'[k][Leader] = pc[k][Leader]
    BY <1>0, <1>3, GotoType DEF WriteLock
  <2>5. opc' = opc /\ audited' = audited
    BY <1>3 DEF WriteLock, operators
  <2>6. \A o \in Operators : audited[o] \in Locks => audited[o].owner \in Savers
    BY LockRecord
  <2>7. ClearedIsGone'
    BY <2>3, <2>4, <2>5, <2>6 DEF LInv, ClearedIsGone
  <2>8. lock' \in Locks /\ lock'.owner = j
    BY <1>3, <2>1, LockRecord DEF WriteLock
  <2>9. lock' # None
    BY <2>8, NoneAssumption
  <2> QED
    BY <2>2, <2>4, <2>7, <2>8, <2>9 DEF LInv, HeldIsOwned, OwnerStarted
<1>4. ASSUME NEW j \in Savers, LockStatus(j) PROVE LInv'
  <2>1. CASE pc[j][Leader] = "locked"
    BY <1>0, <1>4, <2>1, CollectiveStep DEF LockStatus
  <2>2. CASE pc[j][Leader] # "locked"
    BY <1>0, <1>4, <2>2, CollectiveStep DEF LockStatus
  <2> QED
    BY <2>1, <2>2
<1>5. ASSUME NEW j \in Savers, Uncommit(j) PROVE LInv'
  BY <1>0, <1>5, RankStep DEF Uncommit
<1>6. ASSUME NEW j \in Savers, Ready(j) PROVE LInv'
  BY <1>0, <1>6, CollectiveStep DEF Ready, All
<1>7. ASSUME NEW j \in Savers, NEW r \in Ranks, Replace(j, r) PROVE LInv'
  BY <1>0, <1>7, RankStep DEF Replace
<1>8. ASSUME NEW j \in Savers, Replaced(j) PROVE LInv'
  BY <1>0, <1>8, CollectiveStep DEF Replaced, All
<1>9. ASSUME NEW j \in Savers, NEW r \in Ranks, Hash(j, r) PROVE LInv'
  <2>1. PICK l \in {"hash", "publish"} : Goto(j, Leader, l)
    BY <1>9 DEF Hash
  <2> QED
    BY <1>0, <1>9, <2>1, RankStep DEF Hash, files
<1>10. ASSUME NEW j \in Savers, Publish(j) PROVE LInv'
  BY <1>0, <1>10, RankStep DEF Publish
<1>11. ASSUME NEW j \in Savers, Commit(j) PROVE LInv'
  BY <1>0, <1>11, RankStep DEF Commit
<1>12. ASSUME NEW j \in Savers, Committed(j) PROVE LInv'
  BY <1>0, <1>12, CollectiveStep DEF Committed, All
<1>13. ASSUME NEW j \in Savers, Release(j) PROVE LInv'
  <2>1. lock \in Locks /\ lock # None /\ lock.owner = j
    BY <1>13 DEF Release, LInv, HeldIsOwned, TypeOK
  <2>2. \A k \in Savers : k # j => pc[k][Leader] \notin Locked
    BY <2>1 DEF LInv, HeldIsOwned
  <2>3. \A o \in Operators : opc[o] \notin {"stat", "unlink"}
    BY <1>13, <2>1 DEF Release, LInv, ClearedIsGone
  <2>4. /\ pc'[j][Leader] \in {"down", "released"}
        /\ \A k \in Savers : k # j => pc'[k][Leader] = pc[k][Leader]
    BY <1>0, <1>13, GotoType DEF Release
  <2>5. opc' = opc /\ audited' = audited
    BY <1>13 DEF Release, operators
  <2>6. \A o \in Operators : audited[o] \in Locks => audited[o].owner \in Savers
    BY LockRecord
  <2>7. ClearedIsGone'
    BY <2>3, <2>4, <2>5, <2>6 DEF LInv, ClearedIsGone
  <2>8. lock' = None
    BY <1>13 DEF Release
  <2> QED
    BY <2>2, <2>4, <2>7, <2>8 DEF LInv, HeldIsOwned, OwnerStarted
<1>14. ASSUME NEW j \in Savers, Released(j) PROVE LInv'
  BY <1>0, <1>14, CollectiveStep DEF Released, All
<1>15. ASSUME NEW j \in Loaders, Load(j) \/ LoadStep(j) PROVE LInv'
  <2>1. lock' = lock /\ UNCHANGED operators
    BY <1>15 DEF Load, LoadStep, Present, Intact, Agree
  <2>2. \A k \in Savers : pc'[k] = pc[k]
    <3>1. PICK row : pc' = [pc EXCEPT ![j] = row]
      BY <1>15 DEF Load, LoadStep, Present, Intact, Agree, AllGoto
    <3> QED
      BY <1>0, <3>1, JobsAssumption
  <2> QED
    BY <2>1, <2>2, LoaderStep
<1>16. ASSUME NEW j \in Loaders, NEW r \in Ranks, LoadRank(j, r) PROVE LInv'
  <2>1. lock' = lock /\ UNCHANGED operators
    BY <1>16 DEF LoadRank, ReadManifest, ReadCommit, Check, ReadPayload
  <2>2. \A k \in Savers : pc'[k] = pc[k]
    <3>1. PICK l : Goto(j, r, l)
      BY <1>16 DEF LoadRank, ReadManifest, ReadCommit, Check, ReadPayload
    <3> QED
      BY <1>0, <3>1, JobsAssumption DEF Goto
  <2> QED
    BY <2>1, <2>2, LoaderStep
<1>17. ASSUME NEW j \in Jobs, NEW r \in Ranks, Crash(j, r) \/ Timeout(j, r) PROVE LInv'
  <2>1. /\ lock' = lock /\ UNCHANGED operators /\ Goto(j, r, "down")
        /\ pc[j][r] \notin Gone
    BY <1>17 DEF Crash, Timeout
  <2>2. CASE j \in Savers
    BY <2>1, <2>2, RankStep
  <2>3. CASE j \in Loaders
    BY <1>0, <2>1, <2>3, JobsAssumption, LoaderStep DEF Goto
  <2> QED
    BY <2>2, <2>3 DEF Jobs
<1>18. ASSUME NEW o \in Operators, Audit(o) PROVE LInv'
  <2>1. lock \in Locks /\ ~lock.torn /\ pc[lock.owner][Leader] # "idle"
    BY <1>18 DEF Audit, LInv, OwnerStarted, TypeOK
  <2>2. /\ audited' = [audited EXCEPT ![o] = lock] /\ opc' = [opc EXCEPT ![o] = "open"]
        /\ lock' = lock /\ pc' = pc /\ opened' = opened
    BY <1>18 DEF Audit
  <2> QED
    BY <2>1, <2>2 DEF LInv, HeldIsOwned, OwnerStarted, ClearedIsGone, TypeOK
<1>19. ASSUME NEW o \in Operators, Open(o) PROVE LInv'
  <2>1. /\ opened' = [opened EXCEPT ![o] = lock]
        /\ opc' = [opc EXCEPT ![o] = IF lock # None /\ Identity(lock) = Identity(audited[o])
                                     THEN "stat" ELSE "idle"]
        /\ lock' = lock /\ pc' = pc /\ audited' = audited
    BY <1>19 DEF Open
  <2>2. /\ audited[o] \in Locks /\ ~audited[o].torn
        /\ pc[audited[o].owner][Leader] \in Gone
    BY <1>19 DEF Open, LInv, ClearedIsGone
  <2>3. ASSUME lock # None, Identity(lock) = Identity(audited[o]) PROVE lock = audited[o]
    BY <2>2, <2>3, JobsAssumption DEF Identity, Locks, TypeOK
  <2> QED
    BY <2>1, <2>2, <2>3 DEF LInv, HeldIsOwned, OwnerStarted, ClearedIsGone, TypeOK
<1>20. ASSUME NEW o \in Operators, Stat(o) PROVE LInv'
  BY <1>20 DEF Stat, LInv, HeldIsOwned, OwnerStarted, ClearedIsGone, TypeOK
<1>21. ASSUME NEW o \in Operators, Unlink(o) PROVE LInv'
  <2>1. lock \in Locks /\ pc[lock.owner][Leader] \in Gone
    BY <1>21 DEF Unlink, LInv, ClearedIsGone
  <2>2. \A k \in Savers : pc[k][Leader] \notin Locked
    BY <2>1 DEF LInv, HeldIsOwned
  <2>3. /\ lock' = None /\ opc' = [opc EXCEPT ![o] = "idle"]
        /\ pc' = pc /\ audited' = audited /\ opened' = opened
    BY <1>21 DEF Unlink
  <2>4. \A p \in Operators : p = o
    BY OneOperator DEF OneOperator
  <2> QED
    BY <2>2, <2>3, <2>4 DEF LInv, HeldIsOwned, OwnerStarted, ClearedIsGone, TypeOK
<1>22. CASE UNCHANGED vars
  BY <1>22 DEF vars, LInv, HeldIsOwned, OwnerStarted, ClearedIsGone
<1> QED
  BY <1>1, <1>2, <1>3, <1>4, <1>5, <1>6, <1>7, <1>8, <1>9, <1>10, <1>11, <1>12, <1>13,
     <1>14, <1>15, <1>16, <1>17, <1>18, <1>19, <1>20, <1>21, <1>22
     DEF Next, SaveStep, SaveRank, Clear

LEMMA Locking == ASSUME OneOperator PROVE Spec => [](TypeOK /\ LInv)
BY TypeInit, TypeStep, LockInit, LockStep, PTL DEF Spec

\* .checkpoint.lock admits the rank 0 of one saver at a time, also across the
\* clearing of a dead saver's lock, as long as one operator clears locks.
THEOREM OneWriterAtATime == ASSUME OneOperator PROVE Spec => []OneWriter
<1>1. LInv => OneWriter
  BY DEF LInv, HeldIsOwned, OneWriter
<1> QED
  BY Locking, <1>1, PTL

\* A single operator removes exactly the lock that was audited.
THEOREM ClearsAudited == ASSUME OneOperator PROVE Spec => ClearsAuditedLock
<1> DEFINE Exact == \A o \in Operators :
               (opc[o] = "unlink" /\ opc'[o] = "idle" /\ lock # None) => lock = audited[o]
<1>1. LInv /\ [Next]_vars => [Exact]_vars
  BY DEF LInv, ClearedIsGone
<1>2. Spec => [][Exact]_vars
  BY Locking, <1>1, PTL DEF Spec
<1> QED
  BY <1>2 DEF ClearsAuditedLock
-----------------------------------------------------------------------------
(* What loads return.  No lock keeps a save from replacing files while a     *)
(* load reads them; what makes the ranks of a load agree is that a file that *)
(* has been replaced never returns, so that of two manifests with a complete *)
(* set of digests at most one still has a file on disk.                      *)

\* Where a rank may still replace its file.
Before == {"idle", "lock", "bcast", "writeLock", "locked", "refused", "uncommit", "ready",
           "replace"}
\* Rank 0 has hashed every file.
Hashed(j) == \A r \in Ranks : digests[j][r] # None
\* None of the files a saver hashed is there any more.
Overwritten(j) == \A r \in Ranks : digests[j][r] # file[r]

\* A rank that has yet to write its file has left no trace of it.
WrittenOnce ==
    \A k \in Savers, r \in Ranks :
        pc[k][r] \in Before => file[r] # k /\ \A j \in Savers : digests[j][r] # k
\* A save replaces every file an earlier one hashed before it hashes its own.
Overwrites ==
    \A j, k \in Savers : j # k =>
        /\ \A r \in Ranks :
               pc[k][Leader] \in {"replace", "replaced"} /\ At(k, r, "replaced") =>
                   digests[j][r] # file[r]
        /\ At(k, Leader, "hash") => Overwritten(j)
        /\ Hashed(j) /\ Hashed(k) => Overwritten(j) \/ Overwritten(k)
HashedOnce ==
    \A j \in Savers :
        /\ pc[j][Leader] \in Before \cup {"replaced", "hash"} => ~Hashed(j)
        /\ pc[j][Leader] \in {"publish", "commit"} => Hashed(j)
\* A manifest holds what its saver hashed.
Hashing(m) == m # None => Hashed(m.by) /\ m.sha = digests[m.by]
ManifestsHashed == Hashing(manifest) /\ \A l \in Loaders, r \in Ranks : Hashing(seen[l][r])

Reading == {"check", "intact", "damaged"}
Agreed == {"load", "loaded", "done"}
SameSave(l, r, p) == seen[l][r].by = seen[l][p].by
\* Two ranks of a load that find their files intact have read one manifest.
Verdicts ==
    \A l \in Loaders, r, p \in Ranks :
        /\ pc[l][r] \in {"readCommit", "present"} \cup Reading => seen[l][r] # None
        /\ At(l, r, "intact") /\ pc[l][p] \in Reading /\ ~SameSave(l, r, p) =>
               Overwritten(seen[l][p].by) /\ ~At(l, p, "intact")
        /\ pc[l][r] \in Agreed /\ pc[l][p] \in Agreed => SameSave(l, r, p)
        /\ At(l, r, "done") => Index[got[l][r]] = Index[seen[l][r].by]

AInv == WrittenOnce /\ Overwrites /\ HashedOnce /\ ManifestsHashed /\ Verdicts

LEMMA ManifestRecord ==
    /\ \A m \in Manifests : m.by \in Savers /\ m.sha \in [Ranks -> Contents]
    /\ \A j \in Savers : Manifest(j).by = j /\ Manifest(j).sha = digests[j]
BY DEF Manifests, Manifest

LEMMA AgreeInit == Init => AInv
BY RanksAssumption, JobsAssumption
   DEF Init, AInv, WrittenOnce, Overwrites, HashedOnce, ManifestsHashed, Hashing, Hashed, Verdicts,
       Jobs, At, Reading, Agreed

\* A saver moves on; no file, digest or reading changes.
LEMMA SaverMove ==
    ASSUME TypeOK, AInv, UNCHANGED <<file, digests, seen, got>>, Hashing(manifest)',
           NEW j \in Savers, \A k \in Jobs \ {j} : pc'[k] = pc[k],
           \A r \in Ranks : pc'[j][r] \in Before => pc[j][r] \in Before,
           \A r \in Ranks :
               pc'[j][r] = "replaced" =>
                   pc[j][r] = "replaced"
                   /\ (pc'[j][Leader] \in {"replace", "replaced"} =>
                            pc[j][Leader] \in {"replace", "replaced"}),
           pc'[j][Leader] = "hash" =>
               pc[j][Leader] = "hash" \/ \A r \in Ranks : pc[j][r] = "replaced",
           pc'[j][Leader] \in {"publish", "commit"} => pc[j][Leader] \in {"publish", "commit"}
    PROVE  AInv'
<1>0. /\ Savers \subseteq Jobs /\ Loaders \subseteq Jobs /\ Leader \in Ranks
      /\ \A l \in Loaders : pc'[l] = pc[l]
  BY RanksAssumption, JobsAssumption DEF Jobs
<1>1. WrittenOnce'
  BY <1>0 DEF AInv, WrittenOnce
<1>2. Overwrites'
  BY <1>0 DEF AInv, Overwrites, Hashed, Overwritten, At
<1>3. HashedOnce'
  BY <1>0 DEF AInv, HashedOnce, Hashed, Before
<1>4. ManifestsHashed'
  BY DEF AInv, ManifestsHashed, Hashing, Hashed
<1>5. Verdicts'
  BY <1>0 DEF AInv, Verdicts, SameSave, Overwritten, At
<1> QED
  BY <1>1, <1>2, <1>3, <1>4, <1>5 DEF AInv

\* One rank of a saver moves on.
LEMMA SaverGoto ==
    ASSUME TypeOK, AInv, UNCHANGED <<file, digests, seen, got>>, Hashing(manifest)',
           NEW j \in Savers, NEW r \in Ranks, NEW l \in Labels, Goto(j, r, l),
           l \in Before => pc[j][r] \in Before, l \notin {"replace", "replaced", "hash"},
           r = Leader /\ l \in {"publish", "commit"} => pc[j][Leader] \in {"publish", "commit"}
    PROVE  AInv'
<1>1. /\ j \in Jobs /\ Leader \in Ranks /\ pc'[j][r] = l
      /\ \A q \in Ranks \ {r} : pc'[j][q] = pc[j][q]
      /\ \A k \in Jobs \ {j} : pc'[k] = pc[k]
  <2>1. j \in Jobs /\ Leader \in Ranks
    BY RanksAssumption DEF Jobs
  <2>2. pc \in [Jobs -> [Ranks -> Labels]]
    BY DEF TypeOK, Labels
  <2> QED
    BY <2>1, <2>2, GotoType DEF Goto
<1>2. pc'[j][Leader] = l \/ pc'[j][Leader] = pc[j][Leader]
  BY <1>1
<1> QED
  BY <1>1, <1>2, SaverMove

\* A collective of a saver.
LEMMA SaverCollective ==
    ASSUME TypeOK, AInv, UNCHANGED <<file, manifest, digests, seen, got>>, NEW j \in Savers,
           Save(j) \/ LockStatus(j) \/ Ready(j) \/ Replaced(j) \/ Committed(j) \/ Released(j)
    PROVE  AInv'
<1>0. /\ j \in Jobs /\ Leader \in Ranks /\ pc \in [Jobs -> [Ranks -> Labels]]
      /\ Hashing(manifest)'
  BY RanksAssumption DEF Jobs, TypeOK, Labels, AInv, ManifestsHashed, Hashing, Hashed
<1>1. ASSUME NEW row, pc' = [pc EXCEPT ![j] = row]
      PROVE  pc'[j] = row /\ \A k \in Jobs \ {j} : pc'[k] = pc[k]
  BY <1>0, <1>1
<1>2. CASE Save(j)
  <2>1. \A r \in Ranks : pc[j][r] = "idle" /\ pc'[j][r] \in {"lock", "bcast"}
    BY <1>0, <1>1, <1>2 DEF Save, Fork, All
  <2>2. \A k \in Jobs \ {j} : pc'[k] = pc[k]
    BY <1>1, <1>2 DEF Save, Fork
  <2> QED
    BY <1>0, <2>1, <2>2, SaverMove DEF Before
<1>3. CASE LockStatus(j)
  <2>1. /\ \A r \in Ranks : /\ pc[j][r] \in {"locked", "refused", "bcast"}
                           /\ pc'[j][r] \in {"uncommit", "ready", "failed"}
        /\ \A k \in Jobs \ {j} : pc'[k] = pc[k]
    <3>1. \A r \in Ranks : pc[j][r] \in {"locked", "refused", "bcast"}
      BY <1>3 DEF LockStatus, At
    <3>2. CASE At(j, Leader, "locked")
      BY <1>1, <1>3, <3>1, <3>2 DEF LockStatus, Fork
    <3>3. CASE ~At(j, Leader, "locked")
      BY <1>1, <1>3, <3>1, <3>3 DEF LockStatus, AllGoto
    <3> QED
      BY <3>2, <3>3
  <2> QED
    BY <1>0, <2>1, SaverMove DEF Before
<1>4. CASE Ready(j)
  <2>1. \A r \in Ranks : pc[j][r] = "ready" /\ pc'[j][r] = "replace"
    BY <1>1, <1>4 DEF Ready, AllGoto, All
  <2>2. \A k \in Jobs \ {j} : pc'[k] = pc[k]
    BY <1>1, <1>4 DEF Ready, AllGoto
  <2> QED
    BY <1>0, <2>1, <2>2, SaverMove DEF Before
<1>5. CASE Replaced(j)
  <2>1. /\ \A r \in Ranks : pc[j][r] = "replaced" /\ pc'[j][r] \in {"hash", "committed"}
        /\ \A k \in Jobs \ {j} : pc'[k] = pc[k]
    BY <1>1, <1>5 DEF Replaced, Fork, All
  <2> QED
    BY <1>0, <2>1, SaverMove DEF Before
<1>6. CASE Committed(j)
  <2>1. /\ \A r \in Ranks : pc'[j][r] \in {"release", "released"}
        /\ \A k \in Jobs \ {j} : pc'[k] = pc[k]
    BY <1>1, <1>6 DEF Committed, Fork
  <2> QED
    BY <1>0, <2>1, SaverMove DEF Before
<1>7. CASE Released(j)
  <2>1. /\ \A r \in Ranks : pc'[j][r] = "done"
        /\ \A k \in Jobs \ {j} : pc'[k] = pc[k]
    BY <1>1, <1>7 DEF Released, AllGoto
  <2> QED
    BY <1>0, <2>1, SaverMove DEF Before
<1> QED
  BY <1>2, <1>3, <1>4, <1>5, <1>6, <1>7

\* A saver replaces a file: nobody has hashed or read this content before.
LEMMA FileReplaced ==
    ASSUME TypeOK, AInv, NEW j \in Savers, NEW r \in Ranks, Replace(j, r) PROVE AInv'
<1>0. /\ Savers \subseteq Jobs /\ Loaders \subseteq Jobs /\ Leader \in Ranks
      /\ pc \in [Jobs -> [Ranks -> Labels]] /\ j # None
  BY RanksAssumption, JobsAssumption DEF Jobs, TypeOK, Labels
<1>1. /\ pc[j][r] = "replace" /\ pc'[j][r] = "replaced"
      /\ \A k \in Savers, q \in Ranks : k # j \/ q # r => pc'[k][q] = pc[k][q]
      /\ \A l \in Loaders : pc'[l] = pc[l]
  <2>1. Goto(j, r, "replaced") /\ "replaced" \in Labels /\ pc[j][r] = "replace"
    BY <1>0 DEF Replace, At, Labels, Collectives
  <2>2. \A l \in Loaders : l # j
    BY JobsAssumption
  <2> QED
    BY <1>0, <2>1, <2>2, GotoType DEF Goto
<1>2. /\ file'[r] = j /\ \A q \in Ranks \ {r} : file'[q] = file[q]
      /\ UNCHANGED <<manifest, digests, seen, got>>
  BY DEF Replace, TypeOK, load
<1>3. \A k \in Savers : digests[k][r] # j
  BY <1>0, <1>1 DEF AInv, WrittenOnce, Before
<1>4. \A k \in Savers, q \in Ranks : digests[k][q] # file[q] => digests[k][q] # file'[q]
  BY <1>2, <1>3
<1>5. WrittenOnce'
  BY <1>0, <1>1, <1>2 DEF AInv, WrittenOnce, Before
<1>6. Overwrites'
  <2> SUFFICES ASSUME NEW i \in Savers, NEW k \in Savers, i # k
               PROVE  /\ \A q \in Ranks :
                             pc'[k][Leader] \in {"replace", "replaced"} /\ pc'[k][q] = "replaced" =>
                                 digests[i][q] # file'[q]
                      /\ pc'[k][Leader] = "hash" => Overwritten(i)'
                      /\ Hashed(i) /\ Hashed(k) => Overwritten(i)' \/ Overwritten(k)'
    BY <1>2 DEF Overwrites, At, Hashed, Overwritten
  <2>1. (Overwritten(i) => Overwritten(i)') /\ (Overwritten(k) => Overwritten(k)')
    BY <1>2, <1>4 DEF Overwritten
  <2>2. pc'[k][Leader] = "hash" => pc[k][Leader] = "hash"
    BY <1>0, <1>1
  <2>3. ASSUME NEW q \in Ranks, pc'[k][Leader] \in {"replace", "replaced"}, pc'[k][q] = "replaced"
        PROVE  digests[i][q] # file'[q]
    <3>1. CASE k = j /\ q = r
      BY <1>2, <1>3, <3>1
    <3>2. CASE ~(k = j /\ q = r)
      <4>1. pc[k][q] = "replaced" /\ pc[k][Leader] \in {"replace", "replaced"}
        BY <1>0, <1>1, <2>3, <3>2
      <4> QED
        BY <1>4, <4>1 DEF AInv, Overwrites, At
    <3> QED
      BY <3>1, <3>2
  <2> QED
    BY <2>1, <2>2, <2>3 DEF AInv, Overwrites, At
<1>7. HashedOnce'
  BY <1>0, <1>1, <1>2 DEF AInv, HashedOnce, Hashed, Before
<1>8. ManifestsHashed'
  BY <1>2 DEF AInv, ManifestsHashed, Hashing, Hashed
<1>9. Verdicts'
  <2>1. \A l \in Loaders, p \in Ranks :
            seen[l][p] # None /\ Overwritten(seen[l][p].by) => Overwritten(seen[l][p].by)'
    BY <1>2, <1>4, ManifestRecord DEF Overwritten, TypeOK
  <2> QED
    BY <1>1, <1>2, <2>1 DEF AInv, Verdicts, SameSave, At, Reading
<1> QED
  BY <1>5, <1>6, <1>7, <1>8, <1>9 DEF AInv

\* Rank 0 of the only saver past the lock hashes a file.
LEMMA FileHashed ==
    ASSUME TypeOK, LInv, AInv, NEW j \in Savers, NEW r \in Ranks, Hash(j, r) PROVE AInv'
<1>0. /\ Savers \subseteq Jobs /\ Loaders \subseteq Jobs /\ Leader \in Ranks
      /\ pc \in [Jobs -> [Ranks -> Labels]]
  BY RanksAssumption DEF Jobs, TypeOK, Labels
<1>1. /\ pc[j][Leader] = "hash" /\ pc'[j][Leader] \in {"hash", "publish"}
      /\ \A k \in Savers, q \in Ranks : k # j \/ q # Leader => pc'[k][q] = pc[k][q]
      /\ \A l \in Loaders : pc'[l] = pc[l]
  <2>1. PICK label \in {"hash", "publish"} : Goto(j, Leader, label)
    BY DEF Hash
  <2>2. label \in Labels /\ pc[j][Leader] = "hash"
    BY DEF Hash, At, Labels, Local
  <2>3. \A l \in Loaders : l # j
    BY JobsAssumption
  <2> QED
    BY <1>0, <2>1, <2>2, <2>3, GotoType DEF Goto
<1>2. /\ digests'[j][r] = file[r] /\ \A q \in Ranks \ {r} : digests'[j][q] = digests[j][q]
      /\ \A k \in Savers \ {j} : digests'[k] = digests[k]
      /\ UNCHANGED <<file, manifest, seen, got>>
  BY DEF Hash, TypeOK, files, load
<1>3. \A k \in Savers \ {j} : pc[k][Leader] \notin {"replace", "replaced", "hash"}
  BY <1>1 DEF LInv, HeldIsOwned, Locked
<1>4. \A k \in Savers \ {j} : Overwritten(k)' = Overwritten(k) /\ Hashed(k)' = Hashed(k)
  BY <1>2 DEF Overwritten, Hashed
<1>5. ~Hashed(j)
  BY <1>1 DEF AInv, HashedOnce
<1>6. /\ pc'[j][Leader] = "publish" => Hashed(j)'
      /\ pc'[j][Leader] = "hash" => ~Hashed(j)'
  <2>1. CASE \E p \in Ranks : digests'[j][p] = None
    <3>1. Goto(j, Leader, "hash") /\ "hash" \in Labels
      BY <2>1 DEF Hash, Labels, Local
    <3> QED
      BY <1>0, <2>1, <3>1, GotoType DEF Hashed
  <2>2. CASE ~\E p \in Ranks : digests'[j][p] = None
    <3>1. Goto(j, Leader, "publish") /\ "publish" \in Labels
      BY <2>2 DEF Hash, Labels, Local
    <3> QED
      BY <1>0, <2>2, <3>1, GotoType DEF Hashed
  <2> QED
    BY <2>1, <2>2
<1>7. WrittenOnce'
  <2> SUFFICES ASSUME NEW k \in Savers, NEW q \in Ranks, pc'[k][q] \in Before
               PROVE  file[q] # k /\ \A i \in Savers : digests'[i][q] # k
    BY <1>2 DEF WrittenOnce
  <2>1. pc[k][q] \in Before
    BY <1>0, <1>1 DEF Before
  <2> QED
    BY <1>2, <2>1 DEF AInv, WrittenOnce
<1>8. Overwrites'
  <2>1. \A k \in Savers \ {j} : Overwritten(k)
    BY <1>1 DEF AInv, Overwrites, At
  <2>2. \A k \in Savers \ {j} : pc'[k][Leader] \notin {"replace", "replaced", "hash"}
    BY <1>0, <1>1, <1>3
  <2>3. pc'[j][Leader] \notin {"replace", "replaced"}
    BY <1>1
  <2> SUFFICES ASSUME NEW i \in Savers, NEW k \in Savers, i # k
               PROVE  /\ pc'[k][Leader] \notin {"replace", "replaced"}
                      /\ pc'[k][Leader] = "hash" => Overwritten(i)'
                      /\ Hashed(i)' /\ Hashed(k)' => Overwritten(i)' \/ Overwritten(k)'
    BY DEF Overwrites, At
  <2> QED
    BY <1>4, <2>1, <2>2, <2>3 DEF AInv, Overwrites
<1>9. HashedOnce'
  BY <1>0, <1>1, <1>4, <1>6 DEF AInv, HashedOnce, Before
<1>10. \A m \in Manifests : Hashing(m) => m.by # j /\ Hashing(m)'
  BY <1>2, <1>4, <1>5, ManifestRecord, NoneAssumption DEF Hashing
<1>11. ManifestsHashed'
  <2>1. Hashing(manifest)'
    BY <1>2, <1>10 DEF AInv, ManifestsHashed, TypeOK, Hashing
  <2>2. ASSUME NEW l \in Loaders, NEW p \in Ranks PROVE Hashing(seen[l][p])'
    BY <1>2, <1>10 DEF AInv, ManifestsHashed, TypeOK, Hashing
  <2> QED
    BY <1>2, <2>1, <2>2 DEF ManifestsHashed
<1>12. Verdicts'
  <2>1. ASSUME NEW l \in Loaders, NEW p \in Ranks, seen[l][p] # None, Overwritten(seen[l][p].by)
        PROVE  Overwritten(seen[l][p].by)'
    <3>1. seen[l][p] \in Manifests /\ Hashing(seen[l][p])
      BY <2>1 DEF TypeOK, AInv, ManifestsHashed
    <3>2. seen[l][p].by \in Savers \ {j}
      BY <1>10, <3>1, ManifestRecord
    <3> QED
      BY <1>2, <2>1, <3>2 DEF Overwritten
  <2> QED
    BY <1>1, <1>2, <2>1 DEF AInv, Verdicts, SameSave, At, Reading
<1> QED
  BY <1>7, <1>8, <1>9, <1>11, <1>12 DEF AInv

\* A step of a loader: only its labels and readings change.
LEMMA LoaderMove ==
    ASSUME TypeOK, AInv, UNCHANGED <<file, manifest, digests>>, NEW l \in Loaders,
           \A k \in Jobs \ {l} : pc'[k] = pc[k],
           \A k \in Loaders \ {l} : seen'[k] = seen[k] /\ got'[k] = got[k],
           \A r \in Ranks : Hashing(seen'[l][r]),
           \A r, p \in Ranks :
               /\ pc'[l][r] \in {"readCommit", "present"} \cup Reading => seen'[l][r] # None
               /\ pc'[l][r] = "intact" /\ pc'[l][p] \in Reading /\ seen'[l][r].by # seen'[l][p].by =>
                      Overwritten(seen'[l][p].by) /\ pc'[l][p] # "intact"
               /\ pc'[l][r] \in Agreed /\ pc'[l][p] \in Agreed => seen'[l][r].by = seen'[l][p].by
               /\ pc'[l][r] = "done" => Index[got'[l][r]] = Index[seen'[l][r].by]
    PROVE  AInv'
<1>0. /\ Savers \subseteq Jobs /\ Loaders \subseteq Jobs
      /\ \A k \in Savers : pc'[k] = pc[k]
      /\ \A k \in Loaders \ {l} : pc'[k] = pc[k]
  BY JobsAssumption DEF Jobs
<1>1. WrittenOnce'
  BY <1>0 DEF AInv, WrittenOnce
<1>2. Overwrites'
  BY <1>0 DEF AInv, Overwrites, Hashed, Overwritten, At
<1>3. HashedOnce'
  BY <1>0 DEF AInv, HashedOnce, Hashed
<1>4. ManifestsHashed'
  <2>1. Hashing(manifest)'
    BY DEF AInv, ManifestsHashed, Hashing, Hashed
  <2>2. ASSUME NEW k \in Loaders, NEW r \in Ranks PROVE Hashing(seen[k][r])'
    <3>1. Hashing(seen'[k][r])
      BY DEF AInv, ManifestsHashed
    <3> QED
      BY <3>1 DEF Hashing, Hashed
  <2> QED
    BY <2>1, <2>2 DEF ManifestsHashed
<1>5. Verdicts'
  <2> SUFFICES ASSUME NEW k \in Loaders, NEW r \in Ranks, NEW p \in Ranks
               PROVE  (/\ pc[k][r] \in {"readCommit", "present"} \cup Reading => seen[k][r] # None
                       /\ At(k, r, "intact") /\ pc[k][p] \in Reading /\ ~SameSave(k, r, p) =>
                              Overwritten(seen[k][p].by) /\ ~At(k, p, "intact")
                       /\ pc[k][r] \in Agreed /\ pc[k][p] \in Agreed => SameSave(k, r, p)
                       /\ At(k, r, "done") => Index[got[k][r]] = Index[seen[k][r].by])'
    BY DEF Verdicts
  <2>1. CASE k = l
    BY <2>1 DEF SameSave, At, Overwritten
  <2>2. CASE k # l
    BY <1>0, <2>2 DEF AInv, Verdicts, SameSave, At, Overwritten
  <2> QED
    BY <2>1, <2>2
<1> QED
  BY <1>1, <1>2, <1>3, <1>4, <1>5 DEF AInv

\* One rank of a loader moves on to a label with no verdict on its files.
LEMMA LoaderGoto ==
    ASSUME TypeOK, AInv, UNCHANGED <<file, manifest, digests>>, NEW l \in Loaders, NEW r \in Ranks,
           NEW label \in Labels, Goto(l, r, label), label \notin Reading,
           label = "loaded" => pc[l][r] = "load",
           label \in Agreed => label = "loaded",
           \A k \in Loaders, p \in Ranks :
               k # l \/ p # r => seen'[k][p] = seen[k][p] /\ got'[k][p] = got[k][p],
           label \in {"readCommit", "present"} => seen'[l][r] # None,
           seen'[l][r] \in {seen[l][r], manifest},
           label = "loaded" => seen'[l][r] = seen[l][r],
           seen' \in [Loaders -> [Ranks -> Manifests \cup {None}]],
           got' \in [Loaders -> [Ranks -> Contents]]
    PROVE  AInv'
<1>1. /\ pc'[l][r] = label /\ \A p \in Ranks \ {r} : pc'[l][p] = pc[l][p]
      /\ \A k \in Jobs \ {l} : pc'[k] = pc[k]
  <2>1. l \in Jobs /\ pc \in [Jobs -> [Ranks -> Labels]]
    BY DEF Jobs, TypeOK, Labels
  <2> QED
    BY <2>1, GotoType DEF Goto
<1>2. ASSUME NEW k \in Loaders \ {l} PROVE seen'[k] = seen[k] /\ got'[k] = got[k]
  <2>1. /\ seen'[k] \in [Ranks -> Manifests \cup {None}] /\ seen[k] \in [Ranks -> Manifests \cup {None}]
        /\ got'[k] \in [Ranks -> Contents] /\ got[k] \in [Ranks -> Contents]
    BY DEF TypeOK
  <2>2. \A p \in Ranks : seen'[k][p] = seen[k][p] /\ got'[k][p] = got[k][p]
    OBVIOUS
  <2> QED
    BY <2>1, <2>2
<1>3. ASSUME NEW p \in Ranks PROVE Hashing(seen'[l][p])
  <2>1. seen'[l][p] \in {seen[l][p], manifest}
    OBVIOUS
  <2> QED
    BY <2>1 DEF AInv, ManifestsHashed
<1>4. ASSUME NEW p \in Ranks, NEW q \in Ranks
      PROVE  /\ pc'[l][p] \in {"readCommit", "present"} \cup Reading => seen'[l][p] # None
             /\ pc'[l][p] = "intact" /\ pc'[l][q] \in Reading /\ seen'[l][p].by # seen'[l][q].by =>
                    Overwritten(seen'[l][q].by) /\ pc'[l][q] # "intact"
             /\ pc'[l][p] \in Agreed /\ pc'[l][q] \in Agreed => seen'[l][p].by = seen'[l][q].by
             /\ pc'[l][p] = "done" => Index[got'[l][p]] = Index[seen'[l][p].by]
  <2>1. ASSUME NEW t \in Ranks, t # r PROVE seen'[l][t] = seen[l][t] /\ got'[l][t] = got[l][t]
    BY <2>1
  <2>2. ASSUME pc'[l][p] \in {"readCommit", "present"} \cup Reading PROVE seen'[l][p] # None
    BY <1>1, <2>1, <2>2 DEF AInv, Verdicts
  <2>3. ASSUME pc'[l][p] = "intact", pc'[l][q] \in Reading, seen'[l][p].by # seen'[l][q].by
        PROVE  Overwritten(seen'[l][q].by) /\ pc'[l][q] # "intact"
    <3>1. p # r /\ q # r
      BY <1>1, <2>3 DEF Reading
    <3> QED
      BY <1>1, <2>1, <2>3, <3>1 DEF AInv, Verdicts, SameSave, At
  <2>4. ASSUME pc'[l][p] \in Agreed, pc'[l][q] \in Agreed PROVE seen'[l][p].by = seen'[l][q].by
    <3>1. /\ seen'[l][p] = seen[l][p] /\ pc[l][p] \in Agreed
          /\ seen'[l][q] = seen[l][q] /\ pc[l][q] \in Agreed
      BY <1>1, <2>1, <2>4 DEF Agreed
    <3> QED
      BY <3>1 DEF AInv, Verdicts, SameSave
  <2>5. ASSUME pc'[l][p] = "done" PROVE Index[got'[l][p]] = Index[seen'[l][p].by]
    <3>1. p # r
      BY <1>1, <2>5 DEF Agreed
    <3> QED
      BY <1>1, <2>1, <2>5, <3>1 DEF AInv, Verdicts, At
  <2> QED
    BY <2>2, <2>3, <2>4, <2>5
<1> QED
  BY <1>1, <1>2, <1>3, <1>4, LoaderMove

\* A collective of a loader.
LEMMA LoaderCollective ==
    ASSUME TypeOK, AInv, NEW l \in Loaders, Load(l) \/ LoadStep(l) PROVE AInv'
<1>0. /\ l \in Jobs /\ pc \in [Jobs -> [Ranks -> Labels]]
      /\ UNCHANGED <<file, manifest, digests, seen, got>>
      /\ \A r \in Ranks : Hashing(seen[l][r])
  BY DEF Jobs, TypeOK, Labels, Load, LoadStep, Present, Intact, Agree, files, load,
         AInv, ManifestsHashed
<1>1. ASSUME NEW row, pc' = [pc EXCEPT ![l] = row]
      PROVE  pc'[l] = row /\ \A k \in Jobs \ {l} : pc'[k] = pc[k]
  BY <1>0, <1>1
<1>2. ASSUME NEW label \in {"readManifest", "failed"}, AllGoto(l, label) PROVE AInv'
  <2>1. \A r \in Ranks : pc'[l][r] = label
    BY <1>1, <1>2 DEF AllGoto
  <2> QED
    BY <1>0, <1>1, <1>2, <2>1, LoaderMove DEF AllGoto, Reading, Agreed
<1>3. ASSUME NEW label \in {"load", "done"}, AllGoto(l, label),
             \A r, p \in Ranks : SameSave(l, r, p),
             label = "done" => \A r \in Ranks : Index[got[l][r]] = Index[seen[l][r].by]
      PROVE  AInv'
  <2>1. \A r \in Ranks : pc'[l][r] = label
    BY <1>1, <1>3 DEF AllGoto
  <2> QED
    BY <1>0, <1>1, <1>3, <2>1, LoaderMove DEF AllGoto, Reading, SameSave
<1>4. CASE Load(l)
  BY <1>2, <1>4 DEF Load
<1>5. CASE Present(l)
  <2>1. CASE \E r \in Ranks : At(l, r, "absent")
    BY <1>2, <1>5, <2>1 DEF Present
  <2>2. CASE ~\E r \in Ranks : At(l, r, "absent")
    <3>1. pc' = [pc EXCEPT ![l] = [r \in Ranks |-> IF At(l, r, "mismatch") THEN "down" ELSE "check"]]
      BY <1>5, <2>2 DEF Present
    <3>2. \A r \in Ranks : pc'[l][r] = IF At(l, r, "mismatch") THEN "down" ELSE "check"
      BY <1>1, <3>1
    <3>3. \A r \in Ranks : pc'[l][r] = "check" => seen[l][r] # None
      BY <1>5, <2>2, <3>2 DEF Present, All, At, AInv, Verdicts
    <3> QED
      BY <1>0, <1>1, <3>1, <3>2, <3>3, LoaderMove DEF Reading, Agreed
  <2> QED
    BY <2>1, <2>2
<1>6. CASE Intact(l)
  <2>1. CASE All(l, {"intact"})
    <3>1. \A r, p \in Ranks : SameSave(l, r, p)
      BY <2>1 DEF All, At, AInv, Verdicts, Reading
    <3> QED
      BY <1>3, <1>6, <2>1, <3>1 DEF Intact
  <2>2. CASE ~All(l, {"intact"})
    BY <1>2, <1>6, <2>2 DEF Intact
  <2> QED
    BY <2>1, <2>2
<1>7. CASE Agree(l)
  <2>1. CASE \A r \in Ranks : Index[got[l][r]] = Index[seen[l][r].by]
    <3>1. \A r, p \in Ranks : SameSave(l, r, p)
      BY <1>7 DEF Agree, All, AInv, Verdicts, Agreed
    <3> QED
      BY <1>3, <1>7, <2>1, <3>1 DEF Agree
  <2>2. CASE ~\A r \in Ranks : Index[got[l][r]] = Index[seen[l][r].by]
    BY <1>2, <1>7, <2>2 DEF Agree
  <2> QED
    BY <2>1, <2>2
<1> QED
  BY <1>4, <1>5, <1>6, <1>7 DEF LoadStep

\* A rank of a loader reads the manifest, COMMITTED or its payload.
LEMMA LoaderReads ==
    ASSUME TypeOK, AInv, NEW l \in Loaders, NEW r \in Ranks,
           ReadManifest(l, r) \/ ReadCommit(l, r) \/ ReadPayload(l, r)
    PROVE  AInv'
<1>0. UNCHANGED <<file, manifest, digests>>
  BY DEF ReadManifest, ReadCommit, ReadPayload, files
<1>1. CASE ReadManifest(l, r)
  <2>1. /\ seen' = [seen EXCEPT ![l] = [seen[l] EXCEPT ![r] = manifest]]
        /\ got' = got
    BY <1>1 DEF ReadManifest
  <2>2. /\ seen' \in [Loaders -> [Ranks -> Manifests \cup {None}]]
        /\ seen'[l][r] = manifest
        /\ \A k \in Loaders, p \in Ranks : k # l \/ p # r => seen'[k][p] = seen[k][p]
    BY <2>1 DEF TypeOK
  <2>3. \/ manifest = None /\ Goto(l, r, "absent")
        \/ manifest # None /\ Goto(l, r, "readCommit")
    BY <1>1 DEF ReadManifest
  <2>4. {"absent", "readCommit"} \subseteq Labels
    BY DEF Labels, Collectives, Local
  <2>5. got' \in [Loaders -> [Ranks -> Contents]]
    BY <2>1 DEF TypeOK
  <2>6. CASE manifest = None /\ Goto(l, r, "absent")
    BY <1>0, <2>1, <2>2, <2>4, <2>5, <2>6, LoaderGoto DEF Reading, Agreed
  <2>7. CASE manifest # None /\ Goto(l, r, "readCommit")
    BY <1>0, <2>1, <2>2, <2>4, <2>5, <2>7, LoaderGoto DEF Reading, Agreed
  <2> QED
    BY <2>3, <2>6, <2>7
<1>2. CASE ReadCommit(l, r)
  <2>1. seen' = seen /\ got' = got /\ pc[l][r] = "readCommit"
    BY <1>2 DEF ReadCommit, load, At
  <2>2. seen[l][r] # None
    BY <2>1 DEF AInv, Verdicts
  <2>3. PICK label \in {"absent", "present", "mismatch"} : Goto(l, r, label)
    BY <1>2 DEF ReadCommit
  <2>4. label \in Labels
    BY DEF Labels, Collectives
  <2>5. /\ seen' \in [Loaders -> [Ranks -> Manifests \cup {None}]]
        /\ got' \in [Loaders -> [Ranks -> Contents]]
    BY <2>1 DEF TypeOK
  <2> QED
    BY <1>0, <2>1, <2>2, <2>3, <2>4, <2>5, LoaderGoto DEF Reading, Agreed
<1>3. CASE ReadPayload(l, r)
  <2>1. /\ got' = [got EXCEPT ![l] = [got[l] EXCEPT ![r] = file[r]]] /\ seen' = seen
        /\ pc[l][r] = "load" /\ Goto(l, r, "loaded")
    BY <1>3 DEF ReadPayload, At
  <2>2. /\ got' \in [Loaders -> [Ranks -> Contents]]
        /\ \A k \in Loaders, p \in Ranks : k # l \/ p # r => got'[k][p] = got[k][p]
    BY <2>1 DEF TypeOK
  <2>3. "loaded" \in Labels /\ seen' \in [Loaders -> [Ranks -> Manifests \cup {None}]]
    BY <2>1 DEF Labels, Collectives, TypeOK
  <2> QED
    BY <1>0, <2>1, <2>2, <2>3, LoaderGoto DEF Reading, Agreed
<1> QED
  BY <1>1, <1>2, <1>3

\* A rank that finds its file intact rules out every other save's manifest.
LEMMA LoaderChecks ==
    ASSUME TypeOK, AInv, NEW l \in Loaders, NEW r \in Ranks, Check(l, r) PROVE AInv'
<1>0. /\ l \in Jobs /\ pc \in [Jobs -> [Ranks -> Labels]]
      /\ UNCHANGED <<file, manifest, digests, seen, got>>
  BY DEF Jobs, TypeOK, Labels, Check, files, load
<1>1. PICK label \in {"intact", "damaged"} :
          /\ Goto(l, r, label)
          /\ label = "intact" => file[r] = seen[l][r].sha[r]
  BY DEF Check
<1>2. /\ pc[l][r] = "check" /\ pc'[l][r] = label
      /\ \A p \in Ranks \ {r} : pc'[l][p] = pc[l][p]
      /\ \A k \in Jobs \ {l} : pc'[k] = pc[k]
  <2>1. label \in Labels
    BY DEF Labels, Collectives
  <2> QED
    BY <1>0, <1>1, <2>1, GotoType DEF Check, At, Goto
<1>3. \A p \in Ranks : /\ Hashing(seen[l][p])
                       /\ pc[l][p] \in {"readCommit", "present"} \cup Reading => seen[l][p] # None
  BY DEF AInv, ManifestsHashed, Verdicts
<1>4. \A p \in Ranks : seen[l][p] # None => seen[l][p].by \in Savers
  BY ManifestRecord DEF TypeOK
<1>5. label = "intact" => ~Overwritten(seen[l][r].by)
  BY <1>1, <1>2, <1>3 DEF Reading, Hashing, Overwritten
<1>6. ASSUME NEW p \in Ranks, pc[l][p] \in Reading, label = "intact", ~SameSave(l, r, p)
      PROVE  Overwritten(seen[l][p].by) /\ pc'[l][p] # "intact"
  <2>1. Overwritten(seen[l][p].by)
    <3>1. /\ seen[l][r].by \in Savers /\ Hashed(seen[l][r].by)
          /\ seen[l][p].by \in Savers /\ Hashed(seen[l][p].by)
      BY <1>2, <1>3, <1>4, <1>6 DEF Reading, Hashing
    <3> QED
      BY <1>5, <1>6, <3>1 DEF AInv, Overwrites, SameSave
  <2>2. p # r
    BY <1>6 DEF SameSave
  <2>3. pc[l][p] # "intact"
    BY <1>2, <1>5, <1>6 DEF AInv, Verdicts, At, Reading, SameSave
  <2> QED
    BY <1>2, <2>1, <2>2, <2>3
<1>7. ASSUME NEW p \in Ranks, pc[l][p] = "intact", ~SameSave(l, p, r)
      PROVE  Overwritten(seen[l][r].by) /\ label # "intact"
  BY <1>2, <1>5, <1>7 DEF AInv, Verdicts, At, Reading
<1>8. ASSUME NEW p \in Ranks, NEW q \in Ranks
      PROVE  /\ pc'[l][p] \in {"readCommit", "present"} \cup Reading => seen[l][p] # None
             /\ pc'[l][p] = "intact" /\ pc'[l][q] \in Reading /\ ~SameSave(l, p, q) =>
                    Overwritten(seen[l][q].by) /\ pc'[l][q] # "intact"
             /\ pc'[l][p] \in Agreed /\ pc'[l][q] \in Agreed => SameSave(l, p, q)
             /\ pc'[l][p] = "done" => Index[got[l][p]] = Index[seen[l][p].by]
  <2>1. \A t \in Ranks \ {r} : pc'[l][t] = pc[l][t]
    BY <1>2
  <2>2. pc'[l][r] \in Reading /\ pc[l][r] \in Reading /\ pc'[l][r] \notin Agreed
    BY <1>2 DEF Reading, Agreed
  <2>3. pc'[l][p] \in {"readCommit", "present"} \cup Reading => seen[l][p] # None
    BY <1>3, <2>1, <2>2
  <2>4. ASSUME pc'[l][p] = "intact", pc'[l][q] \in Reading, ~SameSave(l, p, q)
        PROVE  Overwritten(seen[l][q].by) /\ pc'[l][q] # "intact"
    <3>1. CASE p = r
      BY <1>2, <1>6, <2>1, <2>2, <2>4, <3>1
    <3>2. CASE p # r /\ q = r
      BY <1>2, <1>7, <2>1, <2>4, <3>2
    <3>3. CASE p # r /\ q # r
      BY <2>1, <2>4, <3>3 DEF AInv, Verdicts, At
    <3> QED
      BY <3>1, <3>2, <3>3
  <2>5. pc'[l][p] \in Agreed /\ pc'[l][q] \in Agreed => SameSave(l, p, q)
    BY <2>1, <2>2 DEF AInv, Verdicts
  <2>6. pc'[l][p] = "done" => Index[got[l][p]] = Index[seen[l][p].by]
    BY <2>1, <2>2 DEF AInv, Verdicts, At, Agreed
  <2> QED
    BY <2>3, <2>4, <2>5, <2>6
<1> QED
  BY <1>0, <1>2, <1>3, <1>8, LoaderMove DEF SameSave

\* A step of rank 0 of a saver that writes no rank file and hashes none.
LEMMA SaverLocal ==
    ASSUME TypeOK, AInv, NEW j \in Savers,
           Lock(j) \/ WriteLock(j) \/ Uncommit(j) \/ Publish(j) \/ Commit(j) \/ Release(j)
    PROVE  AInv'
<1>0. UNCHANGED <<file, digests, seen, got>> /\ Leader \in Ranks
  BY RanksAssumption DEF Lock, WriteLock, Uncommit, Publish, Commit, Release, files, load
<1>1. CASE Publish(j)
  <2>1. manifest' = Manifest(j) /\ Goto(j, Leader, "commit") /\ pc[j][Leader] = "publish"
    BY <1>1 DEF Publish, At
  <2>2. Hashed(j)
    BY <2>1 DEF AInv, HashedOnce
  <2>3. Hashing(manifest)'
    BY <1>0, <2>1, <2>2, ManifestRecord DEF Hashing, Hashed
  <2>4. "commit" \in Labels
    BY DEF Labels, Local
  <2> QED
    BY <1>0, <2>1, <2>3, <2>4, SaverGoto DEF Before
<1>2. CASE Lock(j) \/ WriteLock(j) \/ Uncommit(j) \/ Commit(j) \/ Release(j)
  <2>1. manifest' = manifest
    BY <1>2 DEF Lock, WriteLock, Uncommit, Commit, Release, files
  <2>2. Hashing(manifest)'
    BY <1>0, <2>1 DEF AInv, ManifestsHashed, Hashing, Hashed
  <2>3. PICK label \in {"writeLock", "refused", "locked", "ready", "committed", "down", "released"} :
            /\ Goto(j, Leader, label)
            /\ label \in Before => pc[j][Leader] \in Before
    BY <1>2 DEF Lock, WriteLock, Uncommit, Commit, Release, At, Before
  <2>4. label \in Labels
    BY DEF Labels, Ended, Collectives, Local
  <2> QED
    BY <1>0, <2>2, <2>3, <2>4, SaverGoto
<1> QED
  BY <1>1, <1>2

LEMMA AgreeStep == TypeOK /\ LInv /\ AInv /\ [Next]_vars => AInv'
<1> SUFFICES ASSUME TypeOK, LInv, AInv, [Next]_vars PROVE AInv'
  OBVIOUS
<1>1. ASSUME NEW j \in Savers, Save(j) \/ SaveStep(j) PROVE AInv'
  <2>1. CASE Save(j) \/ LockStatus(j) \/ Ready(j) \/ Replaced(j) \/ Committed(j) \/ Released(j)
    <3>1. UNCHANGED <<file, manifest, digests, seen, got>>
      BY <2>1 DEF Save, LockStatus, Ready, Replaced, Committed, Released, files, load
    <3> QED
      BY <2>1, <3>1, SaverCollective
  <2> QED
    BY <1>1, <2>1, SaverLocal DEF SaveStep
<1>2. ASSUME NEW l \in Loaders, NEW r \in Ranks, LoadRank(l, r) PROVE AInv'
  BY <1>2, LoaderReads, LoaderChecks DEF LoadRank
<1>3. ASSUME NEW j \in Jobs, NEW r \in Ranks, Crash(j, r) \/ Timeout(j, r) PROVE AInv'
  <2>1. /\ UNCHANGED <<file, manifest, digests, seen, got>>
        /\ Goto(j, r, "down") /\ "down" \in Labels
    BY <1>3 DEF Crash, Timeout, files, load, Labels, Ended
  <2>2. CASE j \in Savers
    <3>1. Hashing(manifest)'
      BY <2>1 DEF AInv, ManifestsHashed, Hashing, Hashed
    <3> QED
      BY <2>1, <2>2, <3>1, SaverGoto DEF Before
  <2>3. CASE j \in Loaders
    <3>1. /\ seen' \in [Loaders -> [Ranks -> Manifests \cup {None}]]
          /\ got' \in [Loaders -> [Ranks -> Contents]]
      BY <2>1 DEF TypeOK
    <3> QED
      BY <2>1, <2>3, <3>1, LoaderGoto DEF Reading, Agreed
  <2> QED
    BY <2>2, <2>3 DEF Jobs
<1>4. CASE (\E o \in Operators : Clear(o)) \/ UNCHANGED vars
  <2>1. UNCHANGED <<file, manifest, digests, seen, got, pc>>
    BY <1>4 DEF Clear, Audit, Open, Stat, Unlink, vars, files, load
  <2> QED
    BY <2>1 DEF AInv, WrittenOnce, Overwrites, HashedOnce, ManifestsHashed, Hashing, Hashed,
                Verdicts, SameSave, Overwritten, At
<1> QED
  BY <1>1, <1>2, <1>3, <1>4, FileReplaced, FileHashed, LoaderCollective DEF Next, SaveRank

\* A load that returns gives every rank one frontier, whatever saves, survivors
\* of dead savers and other loads do between its reads.
THEOREM LoadsGiveOneFrontier == ASSUME OneOperator PROVE Spec => []LoadsAgree
<1>1. AInv => LoadsAgree
  BY DEF AInv, Verdicts, LoadsAgree, All, At, Agreed, SameSave
<1> QED
  BY Locking, AgreeInit, AgreeStep, <1>1, PTL DEF Spec
-----------------------------------------------------------------------------
(* What finished saves leave on disk, when no rank of a saver has died.      *)

Clean == \A j \in Savers, r \in Ranks : pc[j][r] # "down"

Others(j, label) == \A r \in Ranks \ {Leader} : At(j, r, label)
\* The ranks of a saver are at matching places.
Coherent(j) ==
    \/ \E label \in {"idle", "failed", "done"} : All(j, {label})
    \/ pc[j][Leader] \in {"lock", "writeLock", "locked", "refused"} /\ Others(j, "bcast")
    \/ pc[j][Leader] \in {"uncommit", "ready"} /\ Others(j, "ready")
    \/ All(j, {"replace", "replaced"})
    \/ pc[j][Leader] \in {"hash", "publish", "commit", "committed"} /\ Others(j, "committed")
    \/ pc[j][Leader] \in {"release", "released"} /\ Others(j, "released")
\* From its first hash to COMMITTED a saver finds its files and manifest as it left them.
Recorded(j) ==
    /\ pc[j][Leader] \in Before \cup {"replaced"} => \A r \in Ranks : digests[j][r] = None
    /\ At(j, Leader, "hash") => \A r \in Ranks : digests[j][r] \in {None, file[r]}
    /\ pc[j][Leader] \in {"publish", "commit"} => digests[j] = file
    /\ At(j, Leader, "commit") => manifest = Manifest(j)

Changing == {"uncommit", "ready", "replace", "replaced", "hash", "publish", "commit"}
Saved == {"committed", "release", "released", "done"}
\* While no saver changes the files, a save that has committed left them loadable.
Settled ==
    /\ \A j \in Savers : pc[j][Leader] \notin Changing
    /\ \E j \in Savers : pc[j][Leader] \in Saved
    => Loadable

CInv == Clean => Settled /\ \A j \in Savers : Coherent(j) /\ Recorded(j)

LEMMA CleanInit == Init => CInv
BY RanksAssumption DEF Init, CInv, Coherent, Recorded, Settled, Saved, All, At, Jobs

\* A saver moves within the part of a save that only the lock's owner reaches.
LEMMA OwnerMoves ==
    ASSUME TypeOK, LInv, Clean, CInv, NEW j \in Savers,
           \A k \in Savers \ {j} : pc'[k] = pc[k] /\ digests'[k] = digests[k],
           pc[j][Leader] \in Locked, pc'[j][Leader] \in Changing,
           Coherent(j)', Recorded(j)'
    PROVE  CInv'
<1>1. \A k \in Savers \ {j} : pc[k][Leader] \notin Locked
  BY DEF LInv, HeldIsOwned
<1>2. \A k \in Savers \ {j} : Coherent(k)' /\ Recorded(k)'
  BY <1>1 DEF CInv, Coherent, Recorded, All, At, Others, Locked
<1>3. Settled'
  BY DEF Settled
<1> QED
  BY <1>2, <1>3 DEF CInv

\* A saver moves outside that part, and leaves the files alone.
LEMMA SaverRests ==
    ASSUME TypeOK, Clean, CInv, UNCHANGED <<file, manifest, committed, digests>>, NEW j \in Savers,
           \A k \in Savers \ {j} : pc'[k] = pc[k],
           pc[j][Leader] \notin Changing, pc'[j][Leader] \notin Changing,
           pc'[j][Leader] \in Saved => pc[j][Leader] \in Saved,
           pc'[j][Leader] \in Before => pc[j][Leader] \in Before,
           Coherent(j)'
    PROVE  CInv'
<1>1. \A k \in Savers \ {j} : Coherent(k)' /\ Recorded(k)'
  BY DEF CInv, Coherent, Recorded, All, At, Others, Manifest
<1>2. Recorded(j)'
  BY DEF CInv, Recorded, Changing, At
<1>3. Settled'
  BY DEF CInv, Settled, Loadable
<1> QED
  BY <1>1, <1>2, <1>3 DEF CInv

LEMMA GotoRow ==
    ASSUME TypeOK, NEW j \in Jobs, NEW r \in Ranks, NEW l \in Labels, Goto(j, r, l)
    PROVE  /\ pc'[j][r] = l
           /\ \A q \in Ranks \ {r} : pc'[j][q] = pc[j][q]
           /\ \A k \in Jobs \ {j} : pc'[k] = pc[k]
<1>1. pc \in [Jobs -> [Ranks -> Labels]]
  BY DEF TypeOK, Labels
<1> QED
  BY <1>1, GotoType DEF Goto

\* A step of a saver's rank 0 between collectives.
LEMMA CleanLocal ==
    ASSUME TypeOK, LInv, Clean, CInv, NEW j \in Savers, Clean',
           \/ Lock(j) \/ WriteLock(j) \/ Uncommit(j) \/ \E r \in Ranks : Hash(j, r)
           \/ Publish(j) \/ Commit(j) \/ Release(j)
    PROVE  CInv'
<1>0. j \in Jobs /\ Savers \subseteq Jobs /\ Leader \in Ranks /\ Coherent(j) /\ Recorded(j)
  BY RanksAssumption DEF Jobs, CInv
<1>1. ASSUME NEW l \in Labels, Goto(j, Leader, l)
      PROVE  /\ pc'[j][Leader] = l /\ \A r \in Ranks \ {Leader} : pc'[j][r] = pc[j][r]
             /\ \A k \in Savers \ {j} : pc'[k] = pc[k]
  BY <1>0, <1>1, GotoRow
<1> USE DEF Labels, Ended, Collectives, Local, Locked, Changing, Before
<1>2. CASE Lock(j) \/ WriteLock(j)
  <2>1. PICK l \in {"writeLock", "refused", "locked"} : Goto(j, Leader, l)
    BY <1>2 DEF Lock, WriteLock
  <2>2. /\ UNCHANGED <<file, manifest, committed, digests>>
        /\ pc[j][Leader] \in {"lock", "writeLock"}
    BY <1>2 DEF Lock, WriteLock, files, At
  <2>3. Coherent(j)'
    BY <1>0, <1>1, <2>1, <2>2 DEF Coherent, All, At, Others
  <2> QED
    BY <1>1, <2>1, <2>2, <2>3, SaverRests DEF Saved
<1>3. CASE Uncommit(j)
  <2>1. Goto(j, Leader, "ready") /\ pc[j][Leader] = "uncommit" /\ digests' = digests
    BY <1>3 DEF Uncommit, At
  <2>2. Coherent(j)' /\ Recorded(j)'
    BY <1>0, <1>1, <2>1 DEF Coherent, Recorded, All, At, Others
  <2> QED
    BY <1>1, <2>1, <2>2, OwnerMoves
<1>4. CASE \E r \in Ranks : Hash(j, r)
  <2>1. PICK r \in Ranks : Hash(j, r)
    BY <1>4
  <2>2. PICK l \in {"hash", "publish"} : /\ Goto(j, Leader, l)
                                         /\ l = "publish" => \A p \in Ranks : digests'[j][p] # None
    BY <2>1 DEF Hash
  <2>3. pc[j][Leader] = "hash" /\ pc'[j][Leader] = l
    BY <1>1, <2>1, <2>2 DEF Hash, At
  <2>4. /\ digests'[j][r] = file[r] /\ \A q \in Ranks \ {r} : digests'[j][q] = digests[j][q]
        /\ \A k \in Savers \ {j} : digests'[k] = digests[k]
        /\ digests'[j] \in [Ranks -> Contents] /\ file \in [Ranks -> Contents] /\ file' = file
    BY <2>1 DEF Hash, files, TypeOK
  <2>5. \A q \in Ranks : digests'[j][q] \in {None, file[q]}
    BY <1>0, <2>3, <2>4 DEF Recorded, At
  <2>6. l = "publish" => digests'[j] = file
    BY <2>2, <2>4, <2>5
  <2>7. Recorded(j)'
    BY <2>3, <2>4, <2>5, <2>6 DEF Recorded, At
  <2>8. Coherent(j)'
    BY <1>0, <1>1, <2>2, <2>3 DEF Coherent, All, At, Others
  <2> QED
    BY <1>1, <2>2, <2>3, <2>4, <2>7, <2>8, OwnerMoves
<1>5. CASE Publish(j)
  <2>1. Goto(j, Leader, "commit") /\ pc[j][Leader] = "publish"
    BY <1>5 DEF Publish, At
  <2>2. manifest' = Manifest(j) /\ digests' = digests /\ file' = file
    BY <1>5 DEF Publish
  <2>3. Coherent(j)' /\ Recorded(j)'
    BY <1>0, <1>1, <2>1, <2>2 DEF Coherent, Recorded, All, At, Others, Manifest
  <2> QED
    BY <1>1, <2>1, <2>2, <2>3, OwnerMoves
<1>6. CASE Commit(j)
  <2>1. Goto(j, Leader, "committed") /\ pc[j][Leader] = "commit"
    BY <1>6 DEF Commit, At
  <2>2. committed' = Manifest(j) /\ UNCHANGED <<digests, file, manifest>>
    BY <1>6 DEF Commit
  <2>3. manifest = Manifest(j) /\ digests[j] = file
    BY <1>0, <2>1 DEF Recorded, At
  <2>4. Loadable'
    <3>1. manifest \in Manifests /\ manifest.sha = file
      BY <2>3, ManifestType, ManifestRecord DEF TypeOK
    <3> QED
      BY <2>2, <2>3, <3>1, NoneAssumption DEF Loadable
  <2>5. Coherent(j)' /\ Recorded(j)'
    BY <1>0, <1>1, <2>1 DEF Coherent, Recorded, All, At, Others
  <2>6. \A k \in Savers \ {j} : Coherent(k)' /\ Recorded(k)'
    BY <1>1, <2>1, <2>2 DEF CInv, Coherent, Recorded, All, At, Others, Manifest
  <2> QED
    BY <2>4, <2>5, <2>6 DEF CInv, Settled
<1>7. CASE Release(j)
  <2>1. Goto(j, Leader, "released") /\ pc[j][Leader] = "release"
    <3>1. pc[j][Leader] = "release" /\ (Goto(j, Leader, "released") \/ Goto(j, Leader, "down"))
      BY <1>7 DEF Release, At
    <3>2. ~Goto(j, Leader, "down")
      BY <1>0, <1>1 DEF Clean
    <3> QED
      BY <3>1, <3>2
  <2>2. UNCHANGED <<file, manifest, committed, digests>>
    BY <1>7 DEF Release, files
  <2>3. Coherent(j)'
    BY <1>0, <1>1, <2>1 DEF Coherent, All, At, Others
  <2> QED
    BY <1>1, <2>1, <2>2, <2>3, SaverRests DEF Saved
<1> QED
  BY <1>2, <1>3, <1>4, <1>5, <1>6, <1>7

LEMMA CleanReplace ==
    ASSUME TypeOK, LInv, Clean, CInv, NEW j \in Savers, NEW r \in Ranks, Replace(j, r)
    PROVE  CInv'
<1>0. j \in Jobs /\ Savers \subseteq Jobs /\ Leader \in Ranks /\ Coherent(j)
  BY RanksAssumption DEF Jobs, CInv
<1>1. /\ Goto(j, r, "replaced") /\ pc[j][r] = "replace" /\ "replaced" \in Labels
      /\ digests' = digests
  BY DEF Replace, At, Labels, Collectives
<1>2. /\ pc'[j][r] = "replaced" /\ \A q \in Ranks \ {r} : pc'[j][q] = pc[j][q]
      /\ \A k \in Savers \ {j} : pc'[k] = pc[k]
  BY <1>0, <1>1, GotoRow
<1>3. All(j, {"replace", "replaced"})
  BY <1>0, <1>1 DEF Coherent, All, At, Others
<1>4. All(j, {"replace", "replaced"})'
  BY <1>2, <1>3 DEF All
<1>5. Coherent(j)'
  BY <1>4 DEF Coherent, All
<1>6. Recorded(j)'
  <2>1. \A q \in Ranks : digests[j][q] = None
    BY <1>0, <1>3 DEF CInv, Recorded, All, Before
  <2> QED
    BY <1>0, <1>1, <1>4, <2>1 DEF Recorded, All, At
<1> QED
  BY <1>0, <1>1, <1>2, <1>3, <1>4, <1>5, <1>6, OwnerMoves DEF All, Locked, Changing

LEMMA CleanCollective ==
    ASSUME TypeOK, LInv, Clean, CInv, NEW j \in Savers,
           Save(j) \/ LockStatus(j) \/ Ready(j) \/ Replaced(j) \/ Committed(j) \/ Released(j)
    PROVE  CInv'
<1>0. /\ j \in Jobs /\ Savers \subseteq Jobs /\ Leader \in Ranks
      /\ UNCHANGED <<file, manifest, committed, digests>>
      /\ Recorded(j)
  BY RanksAssumption DEF Jobs, CInv, Save, LockStatus, Ready, Replaced, Committed, Released, files
<1>1. ASSUME NEW row, pc' = [pc EXCEPT ![j] = row]
      PROVE  pc'[j] = row /\ \A k \in Savers \ {j} : pc'[k] = pc[k]
  BY <1>0, <1>1 DEF TypeOK
<1> USE DEF Locked, Changing, Before
<1>2. ASSUME NEW l, NEW m, Fork(j, l, m)
      PROVE  /\ pc'[j][Leader] = l /\ \A r \in Ranks \ {Leader} : pc'[j][r] = m
             /\ \A k \in Savers \ {j} : pc'[k] = pc[k]
  BY <1>0, <1>1, <1>2 DEF Fork
<1>3. ASSUME NEW l, AllGoto(j, l)
      PROVE  (\A r \in Ranks : pc'[j][r] = l) /\ \A k \in Savers \ {j} : pc'[k] = pc[k]
  BY <1>1, <1>3 DEF AllGoto
<1>4. CASE Save(j)
  <2>1. pc[j][Leader] = "idle" /\ Fork(j, "lock", "bcast")
    BY <1>0, <1>4 DEF Save, All
  <2>2. Coherent(j)'
    BY <1>2, <2>1 DEF Coherent, Others, At
  <2> QED
    BY <1>0, <1>2, <2>1, <2>2, SaverRests DEF Saved
<1>5. CASE LockStatus(j) /\ At(j, Leader, "locked")
  <2>1. pc[j][Leader] = "locked" /\ Fork(j, "uncommit", "ready")
    BY <1>5 DEF LockStatus, At
  <2>2. Coherent(j)' /\ Recorded(j)'
    BY <1>0, <1>2, <2>1 DEF Coherent, Recorded, Others, At
  <2> QED
    BY <1>0, <1>2, <2>1, <2>2, OwnerMoves
<1>6. CASE LockStatus(j) /\ ~At(j, Leader, "locked")
  <2>1. pc[j][Leader] = "refused" /\ AllGoto(j, "failed")
    BY <1>6 DEF LockStatus, At
  <2>2. Coherent(j)'
    BY <1>3, <2>1 DEF Coherent, All
  <2> QED
    BY <1>0, <1>3, <2>1, <2>2, SaverRests DEF Saved
<1>7. CASE Ready(j)
  <2>1. pc[j][Leader] = "ready" /\ AllGoto(j, "replace")
    BY <1>0, <1>7 DEF Ready, All
  <2>2. Coherent(j)' /\ Recorded(j)'
    BY <1>0, <1>3, <2>1 DEF Coherent, Recorded, All, At
  <2> QED
    BY <1>0, <1>3, <2>1, <2>2, OwnerMoves
<1>8. CASE Replaced(j)
  <2>1. pc[j][Leader] = "replaced" /\ Fork(j, "hash", "committed")
    BY <1>0, <1>8 DEF Replaced, All
  <2>2. Coherent(j)' /\ Recorded(j)'
    BY <1>0, <1>2, <2>1 DEF Coherent, Recorded, Others, At
  <2> QED
    BY <1>0, <1>2, <2>1, <2>2, OwnerMoves
<1>9. CASE Committed(j)
  <2>1. pc[j][Leader] = "committed" /\ Fork(j, "release", "released")
    BY <1>0, <1>9 DEF Committed, All
  <2>2. Coherent(j)'
    BY <1>2, <2>1 DEF Coherent, Others, At
  <2> QED
    BY <1>0, <1>2, <2>1, <2>2, SaverRests DEF Saved
<1>10. CASE Released(j)
  <2>1. pc[j][Leader] = "released" /\ AllGoto(j, "done")
    BY <1>0, <1>10 DEF Released, All
  <2>2. Coherent(j)'
    BY <1>3, <2>1 DEF Coherent, All
  <2> QED
    BY <1>0, <1>3, <2>1, <2>2, SaverRests DEF Saved
<1> QED
  BY <1>4, <1>5, <1>6, <1>7, <1>8, <1>9, <1>10

\* No step brings a dead rank back.
LEMMA DeadStaysDead == ASSUME TypeOK, [Next]_vars, Clean' PROVE Clean
<1> SUFFICES ASSUME NEW j \in Savers, NEW r \in Ranks, pc[j][r] = "down" PROVE pc'[j][r] = "down"
  BY DEF Clean
<1>0. j \in Jobs /\ Leader \in Ranks /\ \A l \in Loaders : l # j
  BY RanksAssumption, JobsAssumption DEF Jobs
<1>1. ASSUME NEW k \in Jobs, NEW q \in Ranks, NEW l \in Labels, Goto(k, q, l),
             pc[k][q] # "down" \/ l = "down"
      PROVE  pc'[j][r] = "down"
  BY <1>0, <1>1, GotoRow
<1>2. ASSUME NEW k \in Jobs, k # j, \E row : pc' = [pc EXCEPT ![k] = row] PROVE pc'[j][r] = "down"
  BY <1>0, <1>2 DEF TypeOK
<1> USE DEF Labels, Ended, Collectives, Local, At
<1>3. ASSUME NEW k \in Savers, Save(k) \/ LockStatus(k) \/ Ready(k) \/ Replaced(k)
                               \/ Committed(k) \/ Released(k)
      PROVE  pc'[j][r] = "down"
  <2>1. \A q \in Ranks : pc[k][q] # "down"
    BY <1>3 DEF Save, LockStatus, Ready, Replaced, Committed, Released, All
  <2>2. \E row : pc' = [pc EXCEPT ![k] = row]
    BY <1>3 DEF Save, LockStatus, Ready, Replaced, Committed, Released, Fork, AllGoto
  <2> QED
    BY <1>2, <2>1, <2>2 DEF Jobs
<1>4. ASSUME NEW k \in Savers, \/ Lock(k) \/ WriteLock(k) \/ Uncommit(k)
                               \/ (\E q \in Ranks : Hash(k, q))
                               \/ Publish(k) \/ Commit(k) \/ Release(k)
      PROVE  pc'[j][r] = "down"
  <2>1. pc[k][Leader] # "down"
    BY <1>4 DEF Lock, WriteLock, Uncommit, Hash, Publish, Commit, Release
  <2>2. \E l \in Labels : Goto(k, Leader, l)
    BY <1>4 DEF Lock, WriteLock, Uncommit, Hash, Publish, Commit, Release
  <2> QED
    BY <1>0, <1>1, <2>1, <2>2 DEF Jobs
<1>5. ASSUME NEW k \in Savers, NEW q \in Ranks, Replace(k, q) PROVE pc'[j][r] = "down"
  BY <1>1, <1>5 DEF Replace, Jobs
<1>6. ASSUME NEW k \in Loaders, Load(k) \/ LoadStep(k) PROVE pc'[j][r] = "down"
  BY <1>0, <1>2, <1>6 DEF Load, LoadStep, Present, Intact, Agree, AllGoto, Jobs
<1>7. ASSUME NEW k \in Loaders, NEW q \in Ranks, LoadRank(k, q) PROVE pc'[j][r] = "down"
  <2>1. \E l : Goto(k, q, l)
    BY <1>7 DEF LoadRank, ReadManifest, ReadCommit, Check, ReadPayload
  <2> QED
    BY <1>0, <1>2, <2>1 DEF Goto, Jobs
<1>8. ASSUME NEW k \in Jobs, NEW q \in Ranks, Crash(k, q) \/ Timeout(k, q)
      PROVE  pc'[j][r] = "down"
  BY <1>1, <1>8 DEF Crash, Timeout
<1>9. CASE (\E o \in Operators : Clear(o)) \/ UNCHANGED vars
  BY <1>9 DEF Clear, Audit, Open, Stat, Unlink, vars
<1> QED
  BY <1>3, <1>4, <1>5, <1>6, <1>7, <1>8, <1>9 DEF Next, SaveStep, SaveRank

LEMMA CleanStep == TypeOK /\ LInv /\ CInv /\ [Next]_vars => CInv'
<1> SUFFICES ASSUME TypeOK, LInv, CInv, [Next]_vars, Clean' PROVE CInv'
  BY DEF CInv
<1>0. Clean
  BY DeadStaysDead
<1>1. ASSUME NEW j \in Savers, Save(j) \/ SaveStep(j) PROVE CInv'
  BY <1>0, <1>1, CleanLocal, CleanCollective DEF SaveStep
<1>2. ASSUME NEW j \in Savers, NEW r \in Ranks, SaveRank(j, r) PROVE CInv'
  BY <1>0, <1>2, CleanReplace, CleanLocal DEF SaveRank
<1>3. ASSUME UNCHANGED <<file, manifest, committed, digests>>, \A k \in Savers : pc'[k] = pc[k]
      PROVE  CInv'
  BY <1>0, <1>3 DEF CInv, Settled, Loadable, Coherent, Recorded, All, At, Others, Manifest
<1>4. ASSUME NEW l \in Loaders, Load(l) \/ LoadStep(l) PROVE CInv'
  <2>1. UNCHANGED <<file, manifest, committed, digests>>
    BY <1>4 DEF Load, LoadStep, Present, Intact, Agree, files
  <2>2. \E row : pc' = [pc EXCEPT ![l] = row]
    BY <1>4 DEF Load, LoadStep, Present, Intact, Agree, AllGoto
  <2> QED
    BY <1>3, <2>1, <2>2, JobsAssumption DEF TypeOK, Jobs
<1>5. ASSUME NEW l \in Loaders, NEW r \in Ranks, LoadRank(l, r) PROVE CInv'
  <2>1. UNCHANGED <<file, manifest, committed, digests>>
    BY <1>5 DEF LoadRank, ReadManifest, ReadCommit, Check, ReadPayload, files
  <2>2. \E label : Goto(l, r, label)
    BY <1>5 DEF LoadRank, ReadManifest, ReadCommit, Check, ReadPayload
  <2> QED
    BY <1>3, <2>1, <2>2, JobsAssumption DEF Goto, TypeOK, Jobs
<1>6. ASSUME NEW j \in Jobs, NEW r \in Ranks, Crash(j, r) \/ Timeout(j, r) PROVE CInv'
  <2>1. /\ UNCHANGED <<file, manifest, committed, digests>>
        /\ Goto(j, r, "down") /\ "down" \in Labels
    BY <1>6 DEF Crash, Timeout, files, Labels, Ended
  <2>2. pc'[j][r] = "down" /\ \A k \in Jobs \ {j} : pc'[k] = pc[k]
    BY <2>1, GotoRow
  <2>3. j \notin Savers
    BY <2>2 DEF Clean
  <2> QED
    BY <1>3, <2>1, <2>2, <2>3 DEF Jobs
<1>7. CASE (\E o \in Operators : Clear(o)) \/ UNCHANGED vars
  BY <1>3, <1>7 DEF Clear, Audit, Open, Stat, Unlink, vars, files
<1> QED
  BY <1>1, <1>2, <1>4, <1>5, <1>6, <1>7 DEF Next

\* Competing saves leave the directory loadable once all of them have returned
\* or been refused: the lock keeps them from mixing their files.
THEOREM FinishedSavesAreLoadable == ASSUME OneOperator PROVE Spec => []FinishedSavesLoadable
<1>1. CInv => FinishedSavesLoadable
  <2> SUFFICES ASSUME CInv, \A j \in Savers : All(j, {"idle"}) \/ All(j, {"failed"}) \/ All(j, {"done"}),
                      NEW j \in Savers, All(j, {"done"})
               PROVE  Loadable
    BY DEF FinishedSavesLoadable
  <2>1. Clean
    BY DEF Clean, All
  <2>2. \A k \in Savers : pc[k][Leader] \notin Changing
    BY RanksAssumption DEF All, Changing
  <2>3. pc[j][Leader] \in Saved
    BY RanksAssumption DEF All, Saved
  <2> QED
    BY <2>1, <2>2, <2>3 DEF CInv, Settled
<1> QED
  BY Locking, CleanInit, CleanStep, <1>1, PTL DEF Spec
=============================================================================
