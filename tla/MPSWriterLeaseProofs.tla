------------------------ MODULE MPSWriterLeaseProofs ------------------------
(***************************************************************************)
(* Proofs about MPSWriterLease, for any number of jobs and steps.          *)
(*                                                                         *)
(* The lease excludes other writers when at most one job may break it and  *)
(* that job can tell a slow holder from a dead one: a holder that is not   *)
(* punctual runs on the breaker's host, where its process is looked up.    *)
(***************************************************************************)
EXTENDS MPSWriterLease, TLAPS

OneBreaker == \A a, b \in Breakers : a = b
SlowAreLocal == \A j \in Jobs \ Punctual, b \in Breakers : HostOf[j] = HostOf[b]
-----------------------------------------------------------------------------
(* Types *)

StepsLeft == \A j \in Jobs : pc[j] \in {"rewrite", "work"} => step[j] < Steps
SeenWhenRewriting == \A j \in Jobs : pc[j] = "rewrite" => seen[j] \in Leases
TInv == TypeOK /\ StepsLeft /\ SeenWhenRewriting

LEMMA LeaseRecord ==
    ASSUME NEW l \in Leases
    PROVE  /\ l.owner \in Jobs /\ l.beat \in 0..MaxTime /\ l.torn \in BOOLEAN
           /\ \A t \in 0..MaxTime :
                 /\ [l EXCEPT !.beat = t] \in Leases
                 /\ [l EXCEPT !.beat = t].owner = l.owner
                 /\ [l EXCEPT !.beat = t].beat = t
                 /\ [l EXCEPT !.beat = t].torn = l.torn
                 /\ [l EXCEPT !.beat = t, !.torn = FALSE] \in Leases
                 /\ [l EXCEPT !.beat = t, !.torn = FALSE].owner = l.owner
                 /\ [l EXCEPT !.beat = t, !.torn = FALSE].beat = t
BY DEF Leases

LEMMA NewLease ==
    ASSUME NEW j \in Jobs, NEW t \in 0..MaxTime
    PROVE  LET l == [owner |-> j, beat |-> t, torn |-> TRUE]
           IN  l \in Leases /\ l.owner = j /\ l.beat = t
BY DEF Leases

LEMMA ManifestRecord ==
    /\ \A m \in Manifests : m.step \in 1..Steps
    /\ \A n \in 1..Steps, j \in Jobs : [step |-> n, by |-> j] \in Manifests
BY DEF Manifests

LEMMA TypeInit == Init => TInv
BY NumbersAssumption
   DEF Init, TInv, TypeOK, StepsLeft, SeenWhenRewriting, Ended

LEMMA TypeStep == TInv /\ [Next]_vars => TInv'
<1> SUFFICES ASSUME TInv, [Next]_vars PROVE TInv'
  OBVIOUS
<1> USE NumbersAssumption
<1> USE DEF TInv, TypeOK, StepsLeft, SeenWhenRewriting, Goto, options,
            Ended, Acquiring, Holding
<1>1. ASSUME NEW j \in Jobs, Begin(j) PROVE TInv'
  BY <1>1 DEF Begin
<1>2. ASSUME NEW j \in Jobs, CheckPolicy(j) PROVE TInv'
  BY <1>2 DEF CheckPolicy
<1>3. ASSUME NEW j \in Jobs, Acquire(j) PROVE TInv'
  BY <1>3 DEF Acquire
<1>4. ASSUME NEW j \in Jobs, Inspect(j) PROVE TInv'
  BY <1>4 DEF Inspect
<1>5. ASSUME NEW j \in Jobs, Break(j) PROVE TInv'
  BY <1>5 DEF Break
<1>6. ASSUME NEW j \in Jobs, Create(j) PROVE TInv'
  BY <1>6, NewLease DEF Create
<1>7. ASSUME NEW j \in Jobs, Write(j) PROVE TInv'
  BY <1>7, LeaseRecord DEF Write
<1>8. ASSUME NEW j \in Jobs, Restore(j) PROVE TInv'
  BY <1>8, ManifestRecord DEF Restore
<1>9. ASSUME NEW j \in Jobs, Beat(j) PROVE TInv'
  BY <1>9 DEF Beat
<1>10. ASSUME NEW j \in Jobs, Rewrite(j) PROVE TInv'
  BY <1>10, LeaseRecord DEF Rewrite
<1>11. ASSUME NEW j \in Jobs, Commit(j) PROVE TInv'
  BY <1>11, ManifestRecord DEF Commit
<1>12. ASSUME NEW j \in Jobs, Finish(j) PROVE TInv'
  BY <1>12 DEF Finish
<1>13. ASSUME NEW j \in Jobs, Release(j) PROVE TInv'
  BY <1>13 DEF Release
<1>14. ASSUME NEW j \in Jobs, Crash(j) PROVE TInv'
  BY <1>14 DEF Crash
<1>15. CASE Tick
  BY <1>15 DEF Tick
<1>16. CASE UNCHANGED vars
  BY <1>16 DEF vars
<1> QED
  BY <1>1, <1>2, <1>3, <1>4, <1>5, <1>6, <1>7, <1>8, <1>9, <1>10, <1>11,
     <1>12, <1>13, <1>14, <1>15, <1>16 DEF Next, Step, Stopped

\* The files, the clock and the jobs stay within their types: no job trains
\* past the target step, and a heartbeat is rewritten from a lease that was read.
THEOREM TypeCorrect == Spec => []TypeOK
<1>1. TInv => TypeOK
  BY DEF TInv
<1> QED
  BY TypeInit, TypeStep, <1>1, PTL DEF Spec
-----------------------------------------------------------------------------
(* Exclusion *)

\* The lease of a punctual holder, or one being written, is not stale.
HeldIsFresh ==
    \A j \in Jobs : pc[j] \in Holding /\ (j \in Punctual \/ lease.torn) => now - lease.beat < Stale
\* Only a job that held the lease can have left it.
OwnerHeld == lease # None => pc[lease.owner] \in Holding \cup {"failed", "done"}
\* A heartbeat rewrites the job's own lease.
SeenIsOwn == \A j \in Jobs : pc[j] = "rewrite" => seen[j].owner = j
\* A lease is about to be broken only after its owner has ended.
BrokenIsDead ==
    \A b \in Jobs :
        /\ pc[b] \in {"inspect", "break"} => b \in Breakers
        /\ pc[b] = "break" => lease # None /\ pc[lease.owner] \in {"failed", "done"}

OInv == HolderOwnsLease /\ HeldIsFresh /\ OwnerHeld /\ SeenIsOwn /\ BrokenIsDead

LEMMA OwnInit == Init => OInv
BY DEF Init, OInv, HolderOwnsLease, HeldIsFresh, OwnerHeld, SeenIsOwn, BrokenIsDead, Holding

LEMMA OwnStep ==
    ASSUME OneBreaker, SlowAreLocal
    PROVE  TInv /\ OInv /\ [Next]_vars => OInv'
<1> SUFFICES ASSUME TInv, OInv, [Next]_vars PROVE OInv'
  OBVIOUS
<1> USE JobsAssumption, NumbersAssumption
<1> USE DEF TInv, TypeOK, OInv, HolderOwnsLease, HeldIsFresh, OwnerHeld, SeenIsOwn,
            BrokenIsDead, Goto, options, Ended, Acquiring, Holding
<1>0. lease # None => lease \in Leases /\ lease.owner \in Jobs /\ lease.beat \in 0..MaxTime
  BY LeaseRecord
<1>1. ASSUME NEW j \in Jobs, Begin(j) PROVE OInv'
  BY <1>0, <1>1 DEF Begin
<1>2. ASSUME NEW j \in Jobs, CheckPolicy(j) PROVE OInv'
  BY <1>0, <1>2 DEF CheckPolicy
<1>3. ASSUME NEW j \in Jobs, Acquire(j) PROVE OInv'
  BY <1>0, <1>3 DEF Acquire
<1>4. ASSUME NEW j \in Jobs, Inspect(j) PROVE OInv'
  <2>1. ASSUME lease # None, Breakable(j, lease), j \in Breakers
        PROVE  pc[lease.owner] \in {"failed", "done"}
    <3>1. CASE lease.owner \in Punctual \/ lease.torn
      BY <1>0, <2>1, <3>1 DEF Breakable
    <3>2. CASE ~(lease.owner \in Punctual \/ lease.torn)
      BY <1>0, <2>1, <3>2, SlowAreLocal DEF SlowAreLocal, Breakable, Alive
    <3> QED
      BY <3>1, <3>2
  <2>2. /\ pc' \in [Jobs -> {"break", "failed"} \cup Ended \cup Acquiring \cup Holding]
        /\ \A k \in Jobs : k # j => pc'[k] = pc[k]
        /\ pc'[j] \in {"break", "failed"} /\ j \in Breakers
        /\ pc'[j] = "break" => lease # None /\ Breakable(j, lease)
    BY <1>4 DEF Inspect
  <2>3. lease' = lease /\ seen' = seen /\ now' = now
    BY <1>4 DEF Inspect
  <2>4. HolderOwnsLease' /\ HeldIsFresh' /\ SeenIsOwn'
    BY <2>2, <2>3
  <2>5. ASSUME lease # None PROVE lease.owner # j
    BY <1>0, <1>4, <2>5 DEF Inspect
  <2>6. OwnerHeld'
    BY <1>0, <2>2, <2>3, <2>5
  <2>7. BrokenIsDead'
    <3> SUFFICES ASSUME NEW b \in Jobs
                 PROVE  /\ pc'[b] \in {"inspect", "break"} => b \in Breakers
                        /\ pc'[b] = "break" => lease # None /\ pc'[lease.owner] \in {"failed", "done"}
      BY <2>3
    <3>1. CASE b = j
      BY <1>0, <2>1, <2>2, <2>5, <3>1
    <3>2. CASE b # j
      BY <1>0, <2>2, <2>5, <3>2
    <3> QED
      BY <3>1, <3>2
  <2> QED
    BY <2>4, <2>6, <2>7
<1>5. ASSUME NEW j \in Jobs, Break(j) PROVE OInv'
  <2>1. lease # None /\ pc[lease.owner] \in {"failed", "done"} /\ j \in Breakers
    BY <1>5 DEF Break
  <2>2. \A k \in Jobs : pc[k] \notin Holding
    BY <2>1
  <2>3. \A k \in Jobs : k # j => pc[k] # "break"
    BY <2>1, OneBreaker DEF OneBreaker
  <2>4. lease' = None /\ pc' = [pc EXCEPT ![j] = "create"] /\ seen' = seen
    BY <1>5 DEF Break
  <2> QED
    BY <2>2, <2>3, <2>4
<1>6. ASSUME NEW j \in Jobs, Create(j) PROVE OInv'
  <2>1. CASE lease # None
    BY <1>0, <1>6, <2>1 DEF Create
  <2>2. CASE lease = None
    <3>1. /\ lease' \in Leases /\ lease'.owner = j /\ lease'.beat = now
          /\ pc' = [pc EXCEPT ![j] = "write"] /\ now' = now /\ seen' = seen
      BY <1>6, <2>2, NewLease DEF Create
    <3>2. \A k \in Jobs : pc[k] \notin Holding /\ pc[k] # "break"
      BY <2>2
    <3> QED
      BY <3>1, <3>2, NoneAssumption
  <2> QED
    BY <2>1, <2>2
<1>7. ASSUME NEW j \in Jobs, Write(j) PROVE OInv'
  <2>1. lease # None /\ lease.owner = j
    BY <1>7 DEF Write
  <2>2. lease' \in Leases /\ lease'.owner = j /\ lease'.beat = now
    <3>1. lease \in Leases /\ lease.owner = j /\ now \in 0..MaxTime
      BY <1>0, <2>1
    <3>2. lease' = [lease EXCEPT !.beat = now, !.torn = FALSE]
      BY <1>7, <2>1 DEF Write
    <3> HIDE DEF TypeOK, HeldIsFresh, OwnerHeld, SeenIsOwn, BrokenIsDead
    <3> QED
      BY <3>1, <3>2, LeaseRecord
  <2>3. /\ now' = now /\ seen' = seen
        /\ pc' = [pc EXCEPT ![j] = IF resume[j] THEN "restore" ELSE "beat"]
    BY <1>7 DEF Write
  <2>4. \A k \in Jobs : k # j => pc[k] \notin Holding /\ pc[k] # "break"
    BY <1>7, <2>1 DEF Write
  <2> QED
    BY <2>2, <2>3, <2>4, NoneAssumption
<1>8. ASSUME NEW j \in Jobs, Restore(j) PROVE OInv'
  BY <1>0, <1>8 DEF Restore
<1>9. ASSUME NEW j \in Jobs, Beat(j) PROVE OInv'
  BY <1>0, <1>9 DEF Beat
<1>10. ASSUME NEW j \in Jobs, Rewrite(j) PROVE OInv'
  <2>1. seen[j] \in Leases /\ seen[j].owner = j
    BY <1>10 DEF Rewrite, SeenWhenRewriting
  <2>2. lease' \in Leases /\ lease'.owner = j /\ lease'.beat = now
    BY <1>10, <2>1, LeaseRecord DEF Rewrite
  <2> QED
    BY <1>0, <1>10, <2>2, NoneAssumption DEF Rewrite
<1>11. ASSUME NEW j \in Jobs, Commit(j) PROVE OInv'
  BY <1>0, <1>11 DEF Commit
<1>12. ASSUME NEW j \in Jobs, Finish(j) PROVE OInv'
  BY <1>0, <1>12 DEF Finish
<1>13. ASSUME NEW j \in Jobs, Release(j) PROVE OInv'
  BY <1>0, <1>13 DEF Release
<1>14. ASSUME NEW j \in Jobs, Crash(j) PROVE OInv'
  BY <1>0, <1>14 DEF Crash, Alive
<1>15. CASE Tick
  BY <1>0, <1>15 DEF Tick
<1>16. CASE UNCHANGED vars
  BY <1>16 DEF vars
<1> QED
  BY <1>1, <1>2, <1>3, <1>4, <1>5, <1>6, <1>7, <1>8, <1>9, <1>10, <1>11,
     <1>12, <1>13, <1>14, <1>15, <1>16 DEF Next, Step, Stopped

LEMMA Owning == ASSUME OneBreaker, SlowAreLocal PROVE Spec => [](TInv /\ OInv)
BY TypeInit, TypeStep, OwnInit, OwnStep, PTL DEF Spec

\* A training job's heartbeats and its final unlink touch its own lease: no
\* other job has replaced it, as long as one job at most breaks leases.
THEOREM HolderOwns ==
    ASSUME OneBreaker, SlowAreLocal PROVE Spec => []HolderOwnsLease
<1>1. OInv => HolderOwnsLease
  BY DEF OInv
<1> QED
  BY Owning, <1>1, PTL

\* ACTIVE_WRITER.json admits one training job at a time, as long as one job at
\* most breaks leases.
THEOREM Exclusive ==
    ASSUME OneBreaker, SlowAreLocal PROVE Spec => []LeaseExclusive
<1>1. HolderOwnsLease => LeaseExclusive
  BY DEF HolderOwnsLease, LeaseExclusive
<1> QED
  BY HolderOwns, <1>1, PTL
-----------------------------------------------------------------------------
(* The training history *)

\* A resumed job trains on the generation that is committed.
OnCommitted ==
    \A j \in Jobs : pc[j] \in {"beat", "rewrite", "work", "release"} /\ resume[j] => manifest = base[j]

LEMMA HistoryInit == Init => OnCommitted
BY DEF Init, OnCommitted

LEMMA HistoryStep == TInv /\ OInv /\ OnCommitted /\ [Next]_vars => OnCommitted'
<1> SUFFICES ASSUME TInv, OInv, OnCommitted, [Next]_vars PROVE OnCommitted'
  OBVIOUS
<1> USE DEF TInv, TypeOK, OInv, HolderOwnsLease, OnCommitted, Goto, options, Holding
<1>1. ASSUME NEW j \in Jobs, Begin(j) \/ CheckPolicy(j) \/ Acquire(j) \/ Inspect(j)
                             \/ Break(j) \/ Create(j) \/ Crash(j)
      PROVE  OnCommitted'
  BY <1>1 DEF Begin, CheckPolicy, Acquire, Inspect, Break, Create, Crash
<1>2. ASSUME NEW j \in Jobs, Write(j) PROVE OnCommitted'
  BY <1>2 DEF Write
<1>3. ASSUME NEW j \in Jobs, Restore(j) PROVE OnCommitted'
  BY <1>3 DEF Restore
<1>4. ASSUME NEW j \in Jobs, Beat(j) \/ Rewrite(j) \/ Finish(j) \/ Release(j)
      PROVE  OnCommitted'
  BY <1>4 DEF Beat, Rewrite, Finish, Release
<1>5. ASSUME NEW j \in Jobs, Commit(j) PROVE OnCommitted'
  BY <1>5 DEF Commit
<1>6. CASE Tick \/ UNCHANGED vars
  BY <1>6 DEF Tick, vars
<1> QED
  BY <1>1, <1>2, <1>3, <1>4, <1>5, <1>6 DEF Next, Step, Stopped

\* A resumed job replaces only the generation it trained on: no generation that
\* another job committed is dropped from the history.
THEOREM ResumedExtend ==
    ASSUME OneBreaker, SlowAreLocal PROVE Spec => ResumedCommitsExtend
<1> DEFINE Extends == \A j \in Jobs :
               (pc[j] = "work" /\ pc'[j] = "beat" /\ resume[j]) => manifest = base[j]
<1>1. OnCommitted /\ [Next]_vars => [Extends]_vars
  BY DEF OnCommitted
<1>2. Spec => []OnCommitted
  BY Owning, HistoryInit, HistoryStep, PTL DEF Spec
<1>3. Spec => [][Extends]_vars
  BY <1>1, <1>2, PTL DEF Spec
<1> QED
  BY <1>3 DEF ResumedCommitsExtend
=============================================================================
