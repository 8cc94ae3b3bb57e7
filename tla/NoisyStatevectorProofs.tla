------------------------- MODULE NoisyStatevectorProofs -------------------------
(***************************************************************************)
(* Proofs about NoisyStatevector, for any number of ranks and trajectories *)
(* and any options and attempts: a trajectory is counted once and gets one *)
(* verdict, what has been done is not lost, what is saved is valid, and    *)
(* the final comparison of counts succeeds.                                *)
(***************************************************************************)
EXTENDS NoisyStatevector, FiniteSetTheorems, WellFoundedInduction, TLAPS

Labels == Waiting \cup Ended \cup Running

\* A rank's lists hold its own trajectories, each sampled once.
OwnWork(c, r) ==
    /\ c.done \subseteq Owned(r, World)
    /\ \A i \in Ids : c.moments[i] = IF i \in c.done THEN 1 ELSE 0

OwnProgress ==
    \A r \in Ranks : /\ OwnWork(progress[r], r)
                     /\ pending[r] \subseteq Owned(r, World)
                     /\ pending[r] \cap progress[r].done = {}

OwnFiles == \A r \in Ranks : file[r] # NoFile => OwnWork(file[r], r)

\* A rank comes to the final reduction with its progress saved.
SavedBeforeReduce == \A r \in Ranks : pc[r] \in {"reduce", "gather"} => file[r] = progress[r]

\* Ranks that reduced together still hold what they reduced.
ReducedTogether ==
    \A r, q \in Ranks : pc[r] = "gather" /\ pc[q] = "gather" =>
                            reduced[r][q] = progress[q].moments

\* A result is returned when the attempt is over on every rank.
ResultsAtEnd == \A r, q \in Ranks : result[r] # NoResult => pc[q] \in Ended

\* A resumed rank is never behind its file.
NotBehindFile ==
    \A r \in Ranks : opt.resume /\ pc[r] \notin Ended /\ file[r] # NoFile =>
                         file[r].done \subseteq progress[r].done

IInv ==
    /\ TypeOK /\ OwnProgress /\ OwnFiles /\ SavedBeforeReduce /\ ReducedTogether
    /\ ResultsAtEnd /\ NotBehindFile /\ CountsEachOnce /\ ResultIsSaved
-----------------------------------------------------------------------------
(* Ownership *)

LEMMA NoMultipleBetween ==
    ASSUME NEW n \in Nat \ {0}, NEW k \in Int, n * k < n, n * k > -n
    PROVE  k = 0
<1>1. CASE k >= 1
  <2>1. n * k >= n * 1
    BY <1>1, SMT
  <2> QED
    BY <2>1
<1>2. CASE k <= -1
  <2>1. n * k <= n * (-1)
    BY <1>2, SMT
  <2> QED
    BY <2>1
<1> QED
  BY <1>1, <1>2

\* owned_trajectory_ids gives no trajectory to two ranks.
LEMMA OwnedDisjoint ==
    ASSUME NEW r \in Ranks, NEW q \in Ranks, NEW i \in Owned(r, World) \cap Owned(q, World)
    PROVE  r = q
<1>0. /\ World \in Nat \ {0} /\ Count \in Nat \ {0}
      /\ r \in Int /\ q \in Int /\ r - q < World /\ q - r < World
  BY ScheduleAssumption, CountAssumption DEF Ranks
<1>1. PICK a \in 0..Count : i = r + a * World
  BY DEF Owned
<1>2. PICK b \in 0..Count : i = q + b * World
  BY DEF Owned
<1>3. a \in Int /\ b \in Int /\ b - a \in Int
  BY <1>0
<1>4. World * (b - a) = r - q
  <2>1. World * (b - a) = b * World - a * World
    BY <1>0, <1>3, SMT
  <2>2. a * World \in Int /\ b * World \in Int
    BY <1>0, <1>3
  <2> QED
    BY <1>0, <1>1, <1>2, <2>1, <2>2
<1>5. b - a = 0
  BY <1>0, <1>3, <1>4, NoMultipleBetween
<1>6. World * (b - a) = 0
  BY <1>0, <1>5
<1> QED
  BY <1>0, <1>4, <1>6

LEMMA DivMod ==
    ASSUME NEW i \in Nat, NEW n \in Nat \ {0}
    PROVE  \E k \in 0..i, r \in 0..(n - 1) : i = r + k * n
<1> DEFINE quotient == i \div n
           rest == i % n
<1>1. i = n * quotient + rest /\ rest \in 0..(n-1)
  BY SMT
<1>2. quotient \in Int
  BY SMT
<1>3. quotient >= 0 /\ quotient <= i
  BY SMT
<1>4. n * quotient = quotient * n
  BY <1>2, SMT
<1> HIDE DEF quotient, rest
<1> QED
  BY <1>1, <1>2, <1>3, <1>4

\* Every trajectory belongs to some rank.
LEMMA EveryIdOwned == \A i \in Ids : \E r \in Ranks : i \in Owned(r, World)
<1> SUFFICES ASSUME NEW i \in Ids PROVE \E r \in Ranks : i \in Owned(r, World)
  OBVIOUS
<1>1. World \in Nat \ {0} /\ Count \in Nat \ {0}
  BY ScheduleAssumption, CountAssumption
<1>2. i \in Nat /\ i < Count
  BY <1>1 DEF Ids
<1>3. PICK k \in 0..i, r \in 0..(World - 1) : i = r + k * World
  BY <1>1, <1>2, DivMod
<1>4. r \in Ranks /\ k \in 0..Count
  BY <1>1, <1>2 DEF Ranks
<1> QED
  BY <1>3, <1>4 DEF Owned

LEMMA EmptyFacts ==
    /\ Empty \in Checkpoints /\ Empty.done = {}
    /\ \A r \in Ranks : OwnWork(Empty, r)
BY DEF Empty, Checkpoints, OwnWork

LEMMA OwnedIds == \A r : Owned(r, World) \subseteq Ids
BY DEF Owned
-----------------------------------------------------------------------------
(* Starting *)

LEMMA InvInit == Init => IInv
<1> SUFFICES ASSUME Init PROVE IInv
  OBVIOUS
<1>1. NoMoments \in [Ranks -> [Ids -> Nat]]
  BY DEF NoMoments, Empty
<1>2. opt \in Options
  BY OptionsAssumption DEF Init
<1>3. TypeOK
  BY <1>1, <1>2, EmptyFacts, ScheduleAssumption DEF Init, TypeOK, Ended
<1>4. OwnProgress /\ OwnFiles
  BY EmptyFacts DEF Init, OwnProgress, OwnFiles
<1>5. SavedBeforeReduce /\ ReducedTogether /\ ResultsAtEnd /\ NotBehindFile
  BY DEF Init, SavedBeforeReduce, ReducedTogether, ResultsAtEnd, NotBehindFile, Ended
<1>6. CountsEachOnce /\ ResultIsSaved
  BY DEF Init, CountsEachOnce, ResultIsSaved
<1> QED
  BY <1>3, <1>4, <1>5, <1>6 DEF IInv

LEMMA StartStep == ASSUME IInv, NEW o \in Options, Start(o) PROVE IInv'
<1> DEFINE Missing(r) == o.resume /\ file[r] = NoFile
<1>1. \A r \in Ranks : /\ pc'[r] = IF Missing(r) THEN "down" ELSE "batch"
                       /\ progress'[r] = IF Missing(r) \/ ~o.resume THEN Empty ELSE file[r]
                       /\ pending'[r] = Pending(progress'[r], Owned(r, World), o.retryFailed)
                       /\ result'[r] = NoResult
  BY DEF Start, Restored
<1>2. \A r \in Ranks : progress'[r] \in Checkpoints /\ OwnWork(progress'[r], r)
  <2> TAKE r \in Ranks
  <2>1. CASE Missing(r) \/ ~o.resume
    BY <1>1, <2>1, EmptyFacts
  <2>2. CASE ~Missing(r) /\ o.resume
    <3>1. progress'[r] = file[r] /\ file[r] # NoFile
      BY <1>1, <2>2
    <3> QED
      BY <3>1 DEF IInv, TypeOK, OwnFiles
  <2> QED
    BY <2>1, <2>2
<1>3. \A r \in Ranks : /\ pending'[r] \subseteq Owned(r, World)
                       /\ pending'[r] \cap progress'[r].done = {}
  BY <1>1 DEF Pending
<1>4. TypeOK'
  <2>1. progress' \in [Ranks -> Checkpoints]
    BY <1>2 DEF Start
  <2>2. pending' \in [Ranks -> SUBSET Ids]
    BY <1>3, OwnedIds DEF Start
  <2>3. pc' \in [Ranks -> Waiting \cup Ended \cup Running]
    BY DEF Start, Ended, Running
  <2>4. reduced' \in [Ranks -> [Ranks -> [Ids -> Nat]]]
    BY DEF Start, NoMoments, Empty
  <2>5. attempt' \in 0..MaxAttempts
    BY ScheduleAssumption DEF Start, IInv, TypeOK
  <2>6. executed' \in [Ranks -> Nat] /\ unsaved' \in [Ranks -> Nat]
    BY DEF Start
  <2>7. file' \in [Ranks -> Checkpoints \cup {NoFile}] /\ opt' \in Options
    BY DEF Start, IInv, TypeOK
  <2>8. result' \in [Ranks -> Results \cup {NoResult}]
    BY DEF Start
  <2> QED
    BY <2>1, <2>2, <2>3, <2>4, <2>5, <2>6, <2>7, <2>8 DEF TypeOK
<1>5. OwnProgress'
  BY <1>2, <1>3 DEF OwnProgress, OwnWork
<1>6. OwnFiles'
  BY DEF Start, IInv, OwnFiles, OwnWork
<1>7. SavedBeforeReduce' /\ ReducedTogether'
  BY <1>1 DEF SavedBeforeReduce, ReducedTogether
<1>8. ResultsAtEnd' /\ CountsEachOnce' /\ ResultIsSaved'
  BY <1>1 DEF ResultsAtEnd, CountsEachOnce, ResultIsSaved
<1>9. NotBehindFile'
  <2>1. file' = file /\ opt' = o
    BY DEF Start
  <2> SUFFICES ASSUME NEW r \in Ranks, o.resume, pc'[r] \notin Ended, file[r] # NoFile
               PROVE  file[r].done \subseteq progress'[r].done
    BY <2>1 DEF NotBehindFile
  <2> QED
    BY <1>1
<1> QED
  BY <1>4, <1>5, <1>6, <1>7, <1>8, <1>9 DEF IInv
-----------------------------------------------------------------------------
(* A rank on its own *)

\* Whatever a running rank does, nobody has a result yet.
LEMMA NoResultsYet ==
    ASSUME IInv, NEW r \in Ranks, pc[r] \notin Ended
    PROVE  \A q \in Ranks : result[q] = NoResult
BY DEF IInv, ResultsAtEnd

\* A rank leaves the loop, raises, dies or gives up waiting.
LEMMA LeaveStep ==
    ASSUME IInv, NEW r \in Ranks, pc[r] \notin Ended,
           UNCHANGED <<attempt, opt, memory, reduced, result>>,
           NEW label \in {"down", "refused", "reduce"}, Goto(r, label),
           file' = file \/ file' = [file EXCEPT ![r] = progress[r]],
           label = "reduce" => file' = [file EXCEPT ![r] = progress[r]]
    PROVE  IInv'
<1>1. /\ pc' \in [Ranks -> Labels] /\ pc'[r] = label
      /\ \A q \in Ranks \ {r} : pc'[q] = pc[q] /\ file'[q] = file[q]
      /\ file'[r] = file[r] \/ file'[r] = progress[r]
      /\ file' \in [Ranks -> Checkpoints \cup {NoFile}]
      /\ label = "reduce" => file'[r] = progress[r]
  BY DEF IInv, TypeOK, Goto, Labels, Waiting, Ended
<1>2. progress' = progress /\ pending' = pending /\ opt' = opt
      /\ reduced' = reduced /\ result' = result
  BY DEF memory
<1>3. \A q \in Ranks : result'[q] = NoResult
  BY <1>2, NoResultsYet
<1>4. progress[r] # NoFile /\ OwnWork(progress[r], r)
  BY NoFileAssumption DEF IInv, TypeOK, OwnProgress
<1>5. TypeOK'
  BY <1>1 DEF IInv, TypeOK, memory, Labels
<1>6. OwnProgress' /\ OwnFiles'
  BY <1>1, <1>2, <1>4 DEF IInv, OwnProgress, OwnFiles, OwnWork
<1>7. SavedBeforeReduce'
  BY <1>1, <1>2 DEF IInv, SavedBeforeReduce
<1>8. ReducedTogether'
  BY <1>1, <1>2 DEF IInv, ReducedTogether
<1>9. ResultsAtEnd' /\ CountsEachOnce' /\ ResultIsSaved'
  BY <1>3 DEF ResultsAtEnd, CountsEachOnce, ResultIsSaved
<1>10. NotBehindFile'
  <2>1. \A q \in Ranks : opt.resume /\ pc'[q] \notin Ended /\ file'[q] # NoFile =>
                               file'[q].done \subseteq progress[q].done
    BY <1>1 DEF IInv, NotBehindFile
  <2> QED
    BY <1>2, <2>1 DEF NotBehindFile
<1> QED
  BY <1>5, <1>6, <1>7, <1>8, <1>9, <1>10 DEF IInv

LEMMA AfterBatchFacts ==
    ASSUME IInv, NEW r \in Ranks, NEW good \in SUBSET pending[r], NEW bad \in SUBSET pending[r]
    PROVE  /\ AfterBatch(r, good, bad) \in Checkpoints
           /\ OwnWork(AfterBatch(r, good, bad), r)
           /\ AfterBatch(r, good, bad).done = progress[r].done \cup good
<1>1. /\ progress[r] \in Checkpoints /\ OwnWork(progress[r], r)
      /\ pending[r] \subseteq Owned(r, World) /\ pending[r] \cap progress[r].done = {}
      /\ pending[r] \subseteq Ids
  BY DEF IInv, TypeOK, OwnProgress
<1>2. Added(progress[r].moments, good) \in [Ids -> Nat]
  BY <1>1 DEF Added, Checkpoints
<1>3. \A i \in Ids : Added(progress[r].moments, good)[i] =
                        IF i \in progress[r].done \cup good THEN 1 ELSE 0
  BY <1>1 DEF Added, OwnWork
<1> QED
  BY <1>1, <1>2, <1>3 DEF AfterBatch, Checkpoints, OwnWork

LEMMA RunBatchStep == ASSUME IInv, NEW r \in Ranks, RunBatch(r) PROVE IInv'
<1>1. PICK bad \in SUBSET NextBatch(r) :
          progress' = [progress EXCEPT ![r] = AfterBatch(r, NextBatch(r) \ bad, bad)]
  BY DEF RunBatch
<1> DEFINE after == AfterBatch(r, NextBatch(r) \ bad, bad)
<1>2. /\ after \in Checkpoints /\ OwnWork(after, r)
      /\ after.done = progress[r].done \cup (NextBatch(r) \ bad)
  BY AfterBatchFacts DEF NextBatch
<1> HIDE DEF after
<1>3. progress' = [progress EXCEPT ![r] = after]
  BY <1>1 DEF after
<1>4. /\ progress' \in [Ranks -> Checkpoints] /\ progress'[r] = after
      /\ \A q \in Ranks \ {r} : progress'[q] = progress[q]
  BY <1>2, <1>3 DEF IInv, TypeOK
<1>5. /\ pending' \in [Ranks -> SUBSET Ids] /\ pending'[r] = pending[r] \ NextBatch(r)
      /\ \A q \in Ranks \ {r} : pending'[q] = pending[q]
  BY DEF IInv, TypeOK, RunBatch
<1>6. \/ file' = file
      \/ file' = [file EXCEPT ![r] = after]
  BY <1>4 DEF RunBatch, Save
<1>7. \E label \in {"round", "batch", "refused"} : pc' = [pc EXCEPT ![r] = label]
  BY DEF RunBatch, Save, Goto
<1>8. /\ pc' \in [Ranks -> Labels] /\ pc'[r] \in {"round", "batch", "refused"}
      /\ \A q \in Ranks \ {r} : pc'[q] = pc[q]
  BY <1>7 DEF IInv, TypeOK, Labels, Waiting, Ended, Running
<1>9. /\ file' \in [Ranks -> Checkpoints \cup {NoFile}]
      /\ file'[r] = file[r] \/ file'[r] = after
      /\ \A q \in Ranks \ {r} : file'[q] = file[q]
  BY <1>2, <1>6 DEF IInv, TypeOK
<1>10. \A q \in Ranks : result'[q] = NoResult
  BY NoResultsYet DEF RunBatch, Ended
<1>11. TypeOK'
  <2>1. executed \in [Ranks -> Nat] /\ unsaved \in [Ranks -> Nat]
    BY DEF IInv, TypeOK
  <2>2. executed' \in [Ranks -> Nat]
    BY <2>1 DEF RunBatch
  <2>3. \/ unsaved' = [unsaved EXCEPT ![r] = 0]
        \/ unsaved' = [unsaved EXCEPT ![r] = @ + 1]
    BY DEF RunBatch
  <2>4. unsaved' \in [Ranks -> Nat]
    BY <2>1, <2>3
  <2> QED
    BY <1>4, <1>5, <1>8, <1>9, <2>2, <2>4 DEF IInv, TypeOK, RunBatch, Labels
<1>12. OwnProgress'
  <2>1. /\ pending[r] \subseteq Owned(r, World) /\ pending[r] \cap progress[r].done = {}
        /\ NextBatch(r) \subseteq pending[r]
    BY DEF IInv, OwnProgress, NextBatch
  <2> SUFFICES ASSUME NEW q \in Ranks
               PROVE  /\ OwnWork(progress'[q], q)
                      /\ pending'[q] \subseteq Owned(q, World)
                      /\ pending'[q] \cap progress'[q].done = {}
    BY DEF OwnProgress, OwnWork
  <2>2. CASE q = r
    BY <1>2, <1>4, <1>5, <2>1, <2>2 DEF OwnWork
  <2>3. CASE q # r
    BY <1>4, <1>5, <2>3 DEF IInv, OwnProgress, OwnWork
  <2> QED
    BY <2>2, <2>3
<1>13. OwnFiles'
  BY <1>2, <1>9 DEF IInv, OwnFiles, OwnWork
<1>14. SavedBeforeReduce' /\ ReducedTogether'
  BY <1>4, <1>8, <1>9 DEF IInv, RunBatch, SavedBeforeReduce, ReducedTogether
<1>15. ResultsAtEnd' /\ CountsEachOnce' /\ ResultIsSaved'
  BY <1>10 DEF ResultsAtEnd, CountsEachOnce, ResultIsSaved
<1>16. NotBehindFile'
  <2>1. opt' = opt /\ pc[r] \notin Ended
    BY DEF RunBatch, Ended
  <2>2. \A q \in Ranks : opt.resume /\ pc'[q] \notin Ended /\ file'[q] # NoFile =>
                               file'[q].done \subseteq progress'[q].done
    BY <1>2, <1>4, <1>8, <1>9, <2>1 DEF IInv, NotBehindFile
  <2> QED
    BY <2>1, <2>2 DEF NotBehindFile
<1> QED
  BY <1>11, <1>12, <1>13, <1>14, <1>15, <1>16 DEF IInv
\* The remaining actions of one rank are departures.
LEMMA RankStep == ASSUME IInv, NEW r \in Ranks, Step(r) \/ Crash(r) PROVE IInv'
<1>1. CASE RunBatch(r)
  BY <1>1, RunBatchStep
<1>2. CASE BatchRaises(r)
  <2>1. \/ Goto(r, "down") /\ file' = [file EXCEPT ![r] = progress[r]]
        \/ Goto(r, "refused") /\ file' = file
    BY <1>2 DEF BatchRaises, Save
  <2> QED
    BY <1>2, <2>1, LeaveStep DEF BatchRaises, Ended
<1>3. CASE LeaveLoop(r)
  <2>1. \/ Goto(r, "reduce") /\ file' = [file EXCEPT ![r] = progress[r]]
        \/ Goto(r, "refused") /\ file' = file
    BY <1>3 DEF LeaveLoop, Save
  <2>2. pc[r] \notin Ended
    BY <1>3 DEF LeaveLoop, Ended
  <2>3. UNCHANGED <<attempt, opt, memory, reduced, result>>
    BY <1>3 DEF LeaveLoop
  <2> QED
    BY <2>1, <2>2, <2>3, LeaveStep
<1>4. CASE CollectiveTimeout(r)
  <2>1. pc[r] \notin Ended
    BY <1>4 DEF CollectiveTimeout, Waiting, Ended
  <2> QED
    BY <1>4, <2>1, LeaveStep DEF CollectiveTimeout
<1>5. CASE Crash(r)
  BY <1>5, LeaveStep DEF Crash
<1> QED
  BY <1>1, <1>2, <1>3, <1>4, <1>5 DEF Step
-----------------------------------------------------------------------------
(* Collectives *)

LEMMA RanksExist == 0 \in Ranks
BY ScheduleAssumption, CountAssumption DEF Ranks

LEMMA ReduceStep == ASSUME IInv, Reduce PROVE IInv'
<1>1. PICK converged \in BOOLEAN : pc' = [r \in Ranks |-> Concluded(pc[r], converged)]
  BY DEF Reduce
<1>2. \A r \in Ranks : /\ pc[r] \in {"round", "reduce"}
                       /\ pc'[r] \in {"down", "gather", "break", "batch"}
                       /\ pc'[r] = "gather" => pc[r] = "reduce"
  BY <1>1 DEF Reduce, Concluded
<1>3. pc' \in [Ranks -> Labels]
  <2>1. \A r \in Ranks : pc'[r] \in Labels
    BY <1>2 DEF Labels, Waiting, Ended, Running
  <2> QED
    BY <1>1, <2>1
<1>4. \A r, q \in Ranks : pc[r] = "reduce" => reduced'[r][q] = progress[q].moments
  BY DEF Reduce
<1>5. reduced' \in [Ranks -> [Ranks -> [Ids -> Nat]]]
  <2>1. [q \in Ranks |-> progress[q].moments] \in [Ranks -> [Ids -> Nat]]
    BY DEF IInv, TypeOK, Checkpoints
  <2>2. reduced \in [Ranks -> [Ranks -> [Ids -> Nat]]]
    BY DEF IInv, TypeOK
  <2>3. reduced' = [r \in Ranks |-> IF pc[r] = "reduce"
                                   THEN [q \in Ranks |-> progress[q].moments]
                                   ELSE reduced[r]]
    BY DEF Reduce
  <2> QED
    BY <2>1, <2>2, <2>3
<1>6. /\ file' = file /\ attempt' = attempt /\ opt' = opt /\ progress' = progress
      /\ pending' = pending /\ executed' = executed /\ unsaved' = unsaved /\ result' = result
  BY DEF Reduce, memory
<1>7. \A q \in Ranks : result'[q] = NoResult
  BY <1>2, <1>6, RanksExist, NoResultsYet DEF Ended
<1>8. TypeOK'
  BY <1>3, <1>5, <1>6 DEF IInv, TypeOK, Labels
<1>9. OwnProgress' /\ OwnFiles'
  BY <1>6 DEF IInv, OwnProgress, OwnFiles, OwnWork
<1>10. SavedBeforeReduce'
  BY <1>2, <1>6 DEF IInv, SavedBeforeReduce
<1>11. ReducedTogether'
  BY <1>2, <1>4, <1>6 DEF ReducedTogether
<1>12. ResultsAtEnd' /\ CountsEachOnce' /\ ResultIsSaved'
  BY <1>7 DEF ResultsAtEnd, CountsEachOnce, ResultIsSaved
<1>13. NotBehindFile'
  BY <1>2, <1>6 DEF IInv, NotBehindFile, Ended
<1> QED
  BY <1>8, <1>9, <1>10, <1>11, <1>12, <1>13 DEF IInv

LEMMA GatherStep == ASSUME IInv, Gather PROVE IInv'
<1>1. /\ file' = file /\ attempt' = attempt /\ opt' = opt /\ progress' = progress
      /\ pending' = pending /\ executed' = executed /\ unsaved' = unsaved /\ reduced' = reduced
  BY DEF Gather, memory
<1>2. \A r \in Ranks : pc[r] = "gather" /\ pc'[r] \in {"done", "down"}
  BY DEF Gather
<1>3. \A r \in Ranks : /\ file[r] = progress[r] /\ file[r] # NoFile
                       /\ OwnWork(progress[r], r)
  BY <1>2, NoFileAssumption DEF IInv, TypeOK, SavedBeforeReduce, OwnProgress
<1>4. \A r, q \in Ranks : reduced[r][q] = progress[q].moments
  BY <1>2 DEF IInv, ReducedTogether
<1>5. \A r \in Ranks : result'[r] # NoResult =>
                           result'[r].ids = CompletedIds /\ result'[r].moments = reduced[r]
  <2> SUFFICES ASSUME NEW r \in Ranks, result'[r] # NoResult
               PROVE  result'[r].ids = CompletedIds /\ result'[r].moments = reduced[r]
    OBVIOUS
  <2>1. result'[r] = Gathered(r)
    BY DEF Gather
  <2>2. Gathered(r).ids = CompletedIds /\ Gathered(r).moments = reduced[r]
    BY Zenon DEF Gathered
  <2> QED
    BY <2>1, <2>2
<1>6. CompletedIds \subseteq Ids /\ CompletedIds = UNION {progress[q].done : q \in Ranks}
  BY <1>3, OwnedIds DEF CompletedIds, OwnWork
<1>7. \A r \in Ranks : Gathered(r) \in Results
  <2> SUFFICES ASSUME NEW r \in Ranks PROVE Gathered(r) \in Results
    OBVIOUS
  <2>1. reduced[r] \in [Ranks -> [Ids -> Nat]]
    BY DEF IInv, TypeOK
  <2>2. UNION {progress[q].failed : q \in Ranks} \subseteq Ids
    BY DEF IInv, TypeOK, Checkpoints
  <2> QED
    BY <1>6, <2>1, <2>2 DEF Gathered, Results
<1>8. TypeOK'
  <2>1. pc' \in [Ranks -> Waiting \cup Ended \cup Running]
    BY DEF Gather, Ended
  <2>2. result' \in [Ranks -> Results \cup {NoResult}]
    BY <1>7 DEF Gather
  <2> QED
    BY <1>1, <2>1, <2>2 DEF IInv, TypeOK
<1>9. OwnProgress' /\ OwnFiles'
  BY <1>1 DEF IInv, OwnProgress, OwnFiles, OwnWork
<1>10. SavedBeforeReduce' /\ ReducedTogether' /\ NotBehindFile' /\ ResultsAtEnd'
  BY <1>2 DEF SavedBeforeReduce, ReducedTogether, NotBehindFile, ResultsAtEnd, Ended
<1>11. CountsEachOnce'
  <2> SUFFICES ASSUME NEW r \in Ranks, result'[r] # NoResult
               PROVE  /\ \A i \in result'[r].ids :
                            \E q \in Ranks :
                                /\ result'[r].moments[q][i] = 1
                                /\ \A s \in Ranks \ {q} : result'[r].moments[s][i] = 0
                      /\ \A i \in Ids \ result'[r].ids :
                            \A q \in Ranks : result'[r].moments[q][i] = 0
    BY DEF CountsEachOnce
  <2>1. result'[r].ids = CompletedIds /\ result'[r].moments = reduced[r]
    BY <1>5
  <2>2. \A q \in Ranks, i \in Ids :
            reduced[r][q][i] = IF i \in progress[q].done THEN 1 ELSE 0
    BY <1>3, <1>4 DEF OwnWork
  <2>3. ASSUME NEW i \in CompletedIds
        PROVE  \E q \in Ranks : /\ reduced[r][q][i] = 1
                                /\ \A s \in Ranks \ {q} : reduced[r][s][i] = 0
    <3>1. PICK q \in Ranks : i \in progress[q].done
      BY <1>6, <2>3
    <3>2. \A s \in Ranks \ {q} : i \notin progress[s].done
      BY <1>3, <3>1, OwnedDisjoint DEF OwnWork
    <3>3. i \in Ids
      BY <1>6, <2>3
    <3> QED
      BY <2>2, <3>1, <3>2, <3>3
  <2>4. \A i \in Ids \ CompletedIds : \A q \in Ranks : reduced[r][q][i] = 0
    BY <1>6, <2>2
  <2> QED
    BY <2>1, <2>3, <2>4
<1>12. ResultIsSaved'
  <2>1. UNION {file[q].done : q \in {s \in Ranks : file[s] # NoFile}} = CompletedIds
    BY <1>3, <1>6
  <2>2. \A r \in Ranks : result'[r] # NoResult => result'[r].ids = CompletedIds
    BY <1>5
  <2> QED
    BY <1>1, <2>1, <2>2 DEF ResultIsSaved
<1> QED
  BY <1>8, <1>9, <1>10, <1>11, <1>12 DEF IInv
-----------------------------------------------------------------------------
(* Theorems *)

LEMMA InvNext == IInv /\ [Next]_vars => IInv'
<1> SUFFICES ASSUME IInv, [Next]_vars PROVE IInv'
  OBVIOUS
<1>1. CASE \E o \in Options : Start(o)
  BY <1>1, StartStep
<1>2. CASE \E r \in Ranks : Step(r) \/ Crash(r)
  BY <1>2, RankStep
<1>3. CASE Reduce
  BY <1>3, ReduceStep
<1>4. CASE Gather
  BY <1>4, GatherStep
<1>5. CASE UNCHANGED vars
  BY <1>5 DEF vars, memory, IInv, TypeOK, OwnProgress, OwnFiles, OwnWork, SavedBeforeReduce,
              ReducedTogether, ResultsAtEnd, NotBehindFile, CountsEachOnce, ResultIsSaved
<1> QED
  BY <1>1, <1>2, <1>3, <1>4, <1>5 DEF Next

\* The inductive invariant holds in every reachable state of noisy.py's protocol.
THEOREM InductiveInvariant == Spec => []IInv
  BY InvInit, InvNext, PTL DEF Spec

\* The state is well-typed in every reachable state.
THEOREM TypeCorrect == Spec => []TypeOK
<1>1. IInv => TypeOK
  BY DEF IInv
<1> QED
  BY <1>1, InductiveInvariant, PTL

\* No trajectory is missing from, or twice in, the moments of a returned result
\* (noisy.py, _collective_reduce_result), over any sequence of attempts.
THEOREM EachCountedOnce == Spec => []CountsEachOnce
<1>1. IInv => CountsEachOnce
  BY DEF IInv
<1> QED
  BY <1>1, InductiveInvariant, PTL

\* What a returned result lists is in the ranks' files (noisy.py:486).
THEOREM ResultsAreSaved == Spec => []ResultIsSaved
<1>1. IInv => ResultIsSaved
  BY DEF IInv
<1> QED
  BY <1>1, InductiveInvariant, PTL

\* A resumed attempt never shortens the list of completed trajectories in a
\* rank's file.
THEOREM NothingForgotten == Spec => ProgressSurvives
<1>1. ASSUME IInv, [Next]_vars, NEW r \in Ranks, opt'.resume, file[r] # NoFile
      PROVE  file[r].done \subseteq file'[r].done
  <2>1. CASE file' = file
    BY <2>1
  <2>2. CASE file' # file
    <3>1. PICK q \in Ranks : RunBatch(q) \/ BatchRaises(q) \/ LeaveLoop(q)
      BY <1>1, <2>2 DEF Next, Step, Start, CollectiveTimeout, Crash, Reduce, Gather, vars
    <3>2. pc[q] \notin Ended /\ opt' = opt
      BY <3>1 DEF RunBatch, BatchRaises, LeaveLoop, Ended
    <3>3. file[q] # NoFile => file[q].done \subseteq progress[q].done
      BY <1>1, <3>2 DEF IInv, NotBehindFile
    <3>4. PICK c : file' = [file EXCEPT ![q] = c] /\ progress[q].done \subseteq c.done
      <4>1. CASE RunBatch(q)
        <5>1. PICK bad \in SUBSET NextBatch(q) : progress' =
                  [progress EXCEPT ![q] = AfterBatch(q, NextBatch(q) \ bad, bad)]
          BY <4>1 DEF RunBatch
        <5>2. progress'[q] = AfterBatch(q, NextBatch(q) \ bad, bad)
          BY <1>1, <5>1 DEF IInv, TypeOK
        <5>3. progress[q].done \subseteq progress'[q].done
          BY <5>2 DEF AfterBatch
        <5>4. file' = [file EXCEPT ![q] = progress'[q]]
          BY <2>2, <4>1 DEF RunBatch, Save
        <5> QED
          BY <5>3, <5>4
      <4>2. CASE BatchRaises(q) \/ LeaveLoop(q)
        <5>1. file' = [file EXCEPT ![q] = progress[q]]
          BY <2>2, <4>2 DEF BatchRaises, LeaveLoop, Save
        <5> QED
          BY <5>1
      <4> QED
        BY <3>1, <4>1, <4>2
    <3> QED
      BY <1>1, <3>3, <3>4 DEF IInv, TypeOK
  <2> QED
    BY <2>1, <2>2
<1>2. IInv /\ [Next]_vars => [\A r \in Ranks : opt'.resume /\ file[r] # NoFile =>
                                  file[r].done \subseteq file'[r].done]_vars
  BY <1>1
<1> QED
  BY <1>2, InductiveInvariant, PTL DEF Spec, ProgressSurvives
-----------------------------------------------------------------------------
(* Every trajectory is accounted for *)

\* Lists and files hold a rank's own trajectories, as completed or as failed.
Split(c, r) == c.done \cap c.failed = {} /\ c.failed \subseteq Owned(r, World)

SplitLists ==
    \A r \in Ranks : /\ Split(progress[r], r)
                     /\ file[r] # NoFile => Split(file[r], r)

\* A rank at work has yet to run what it has no verdict on.
Accounted ==
    \A r \in Ranks : pc[r] \notin Ended =>
        Owned(r, World) \subseteq pending[r] \cup progress[r].done \cup progress[r].failed

\* Without adaptive stopping and without a limit the loop ends with the work.
LoopExhausts ==
    ~opt.adaptive => \A r \in Ranks :
        /\ pc[r] \notin {"round", "break"}
        /\ opt.limit = 0 /\ pc[r] \in {"reduce", "gather"} => pending[r] = {}

VInv == SplitLists /\ Accounted /\ LoopExhausts /\ AccountsForAll

LEMMA VerdictInit == Init => VInv
BY DEF Init, VInv, SplitLists, Split, Accounted, LoopExhausts, AccountsForAll, Empty, Ended

LEMMA VerdictStart == ASSUME IInv, VInv, NEW o \in Options, Start(o) PROVE VInv'
<1>1. \A r \in Ranks : /\ pc'[r] \in {"down", "batch"}
                       /\ progress'[r] = Empty \/ (progress'[r] = file[r] /\ file[r] # NoFile)
                       /\ pending'[r] = Pending(progress'[r], Owned(r, World), o.retryFailed)
                       /\ result'[r] = NoResult
  BY DEF Start, Restored
<1>2. \A r \in Ranks : Split(Empty, r)
  BY DEF Split, Empty
<1>3. SplitLists'
  BY <1>1, <1>2 DEF VInv, SplitLists, Split, Start
<1>4. Accounted'
  BY <1>1 DEF Accounted, Pending
<1>5. LoopExhausts' /\ AccountsForAll'
  BY <1>1 DEF LoopExhausts, AccountsForAll
<1> QED
  BY <1>3, <1>4, <1>5 DEF VInv

\* A rank leaves the loop, raises, dies or gives up waiting.
LEMMA VerdictLeave ==
    ASSUME IInv, VInv, NEW r \in Ranks, pc[r] \notin Ended,
           UNCHANGED <<attempt, opt, memory, reduced, result>>,
           NEW label \in {"down", "refused", "reduce"}, Goto(r, label),
           file' = file \/ file' = [file EXCEPT ![r] = progress[r]],
           label = "reduce" => \/ opt.adaptive
                               \/ pending[r] = {} \/ opt.limit > 0
    PROVE  VInv'
<1>1. /\ pc'[r] = label
      /\ file'[r] = file[r] \/ file'[r] = progress[r]
      /\ \A q \in Ranks \ {r} : pc'[q] = pc[q] /\ file'[q] = file[q]
  BY DEF IInv, TypeOK, Goto
<1>2. progress' = progress /\ pending' = pending /\ opt' = opt /\ result' = result
  BY DEF memory
<1>3. SplitLists'
  BY <1>1, <1>2 DEF VInv, SplitLists, Split
<1>4. Accounted'
  BY <1>1, <1>2 DEF VInv, Accounted, Ended
<1>5. LoopExhausts'
  BY <1>1, <1>2 DEF VInv, LoopExhausts
<1>6. AccountsForAll'
  BY <1>2, NoResultsYet DEF AccountsForAll
<1> QED
  BY <1>3, <1>4, <1>5, <1>6 DEF VInv

LEMMA VerdictRunBatch == ASSUME IInv, VInv, NEW r \in Ranks, RunBatch(r) PROVE VInv'
<1>1. PICK bad \in SUBSET NextBatch(r) :
          progress' = [progress EXCEPT ![r] = AfterBatch(r, NextBatch(r) \ bad, bad)]
  BY DEF RunBatch
<1>2. NextBatch(r) \subseteq pending[r]
  BY DEF NextBatch
<1>3. /\ progress'[r] = AfterBatch(r, NextBatch(r) \ bad, bad)
      /\ pending'[r] = pending[r] \ NextBatch(r)
      /\ \A q \in Ranks \ {r} : progress'[q] = progress[q] /\ pending'[q] = pending[q]
  BY <1>1 DEF RunBatch, IInv, TypeOK
<1>4. /\ progress'[r].done = progress[r].done \cup (NextBatch(r) \ bad)
      /\ progress'[r].failed = (progress[r].failed \cup bad) \ (NextBatch(r) \ bad)
  BY <1>3 DEF AfterBatch
<1>5. Split(progress'[r], r)
  BY <1>2, <1>4 DEF IInv, OwnProgress, VInv, SplitLists, Split
<1>6. /\ pc'[r] \in {"round", "batch", "refused"}
      /\ pc'[r] = "round" => opt.adaptive
      /\ \A q \in Ranks \ {r} : pc'[q] = pc[q]
  BY DEF RunBatch, Save, Goto, IInv, TypeOK
<1>7. /\ file'[r] = file[r] \/ file'[r] = progress'[r]
      /\ \A q \in Ranks \ {r} : file'[q] = file[q]
  BY DEF RunBatch, Save, IInv, TypeOK
<1>8. pc[r] \notin Ended /\ result' = result /\ opt' = opt
  BY DEF RunBatch, Ended
<1>9. SplitLists'
  BY <1>3, <1>5, <1>7 DEF VInv, SplitLists, Split
<1>10. Accounted'
  <2>1. Owned(r, World) \subseteq pending'[r] \cup progress'[r].done \cup progress'[r].failed
    BY <1>3, <1>4, <1>8 DEF VInv, Accounted
  <2> QED
    BY <1>3, <1>6, <2>1 DEF VInv, Accounted
<1>11. LoopExhausts'
  BY <1>3, <1>6, <1>8 DEF VInv, LoopExhausts
<1>12. AccountsForAll'
  BY <1>8, NoResultsYet DEF AccountsForAll
<1> QED
  BY <1>9, <1>10, <1>11, <1>12 DEF VInv

LEMMA VerdictRank == ASSUME IInv, VInv, NEW r \in Ranks, Step(r) \/ Crash(r) PROVE VInv'
<1>1. CASE RunBatch(r)
  BY <1>1, VerdictRunBatch
<1>2. CASE BatchRaises(r)
  <2>1. \/ Goto(r, "down") /\ file' = [file EXCEPT ![r] = progress[r]]
        \/ Goto(r, "refused") /\ file' = file
    BY <1>2 DEF BatchRaises, Save
  <2> QED
    BY <1>2, <2>1, VerdictLeave DEF BatchRaises, Ended
<1>3. CASE LeaveLoop(r)
  <2>1. \/ Goto(r, "reduce") /\ file' = [file EXCEPT ![r] = progress[r]]
        \/ Goto(r, "refused") /\ file' = file
    BY <1>3 DEF LeaveLoop, Save
  <2>2. pc[r] \notin Ended /\ UNCHANGED <<attempt, opt, memory, reduced, result>>
    BY <1>3 DEF LeaveLoop, Ended
  <2>3. opt.adaptive \/ pending[r] = {} \/ opt.limit > 0
    BY <1>3 DEF LeaveLoop, LimitReached, VInv, LoopExhausts
  <2> QED
    BY <2>1, <2>2, <2>3, VerdictLeave
<1>4. CASE CollectiveTimeout(r)
  <2>1. pc[r] \notin Ended
    BY <1>4 DEF CollectiveTimeout, Waiting, Ended
  <2> QED
    BY <1>4, <2>1, VerdictLeave DEF CollectiveTimeout
<1>5. CASE Crash(r)
  BY <1>5, VerdictLeave DEF Crash
<1> QED
  BY <1>1, <1>2, <1>3, <1>4, <1>5 DEF Step

LEMMA VerdictReduce == ASSUME IInv, VInv, Reduce PROVE VInv'
<1>1. /\ file' = file /\ opt' = opt /\ progress' = progress
      /\ pending' = pending /\ result' = result
  BY DEF Reduce, memory
<1>2. \A r \in Ranks : /\ pc[r] \in {"round", "reduce"}
                       /\ pc'[r] \in {"down", "gather", "break", "batch"}
                       /\ pc[r] = "reduce" => pc'[r] \in {"down", "gather"}
                       /\ pc'[r] = "gather" => pc[r] = "reduce"
  <2>1. PICK converged \in BOOLEAN : pc' = [r \in Ranks |-> Concluded(pc[r], converged)]
    BY DEF Reduce
  <2> QED
    BY <2>1 DEF Reduce, Concluded
<1>3. SplitLists'
  BY <1>1 DEF VInv, SplitLists, Split
<1>4. Accounted'
  BY <1>1, <1>2 DEF VInv, Accounted, Ended
<1>5. LoopExhausts'
  BY <1>1, <1>2 DEF VInv, LoopExhausts
<1>6. AccountsForAll'
  BY <1>1, <1>2, RanksExist, NoResultsYet DEF AccountsForAll, Ended
<1> QED
  BY <1>3, <1>4, <1>5, <1>6 DEF VInv

LEMMA VerdictGather == ASSUME IInv, VInv, Gather PROVE VInv'
<1>1. /\ file' = file /\ opt' = opt /\ progress' = progress /\ pending' = pending
  BY DEF Gather, memory
<1>2. \A r \in Ranks : pc[r] = "gather" /\ pc'[r] \in {"done", "down"}
  BY DEF Gather
<1>3. SplitLists' /\ Accounted' /\ LoopExhausts'
  BY <1>1, <1>2 DEF VInv, SplitLists, Split, Accounted, LoopExhausts, Ended
<1>4. ASSUME NEW r \in Ranks, result'[r] # NoResult
      PROVE  result'[r].ids = CompletedIds
             /\ result'[r].failed = UNION {progress[q].failed : q \in Ranks}
  <2>1. result'[r] = Gathered(r)
    BY <1>4 DEF Gather
  <2>2. Gathered(r).ids = CompletedIds
        /\ Gathered(r).failed = UNION {progress[q].failed : q \in Ranks}
    BY Zenon DEF Gathered
  <2> QED
    BY <2>1, <2>2
<1>5. CompletedIds \cap UNION {progress[q].failed : q \in Ranks} = {}
  <2> SUFFICES ASSUME NEW q \in Ranks, NEW s \in Ranks,
                      NEW i \in progress[q].done, i \in progress[s].failed
               PROVE  FALSE
    BY DEF CompletedIds
  <2>1. i \in Owned(q, World) \cap Owned(s, World)
    BY DEF IInv, OwnProgress, OwnWork, VInv, SplitLists, Split
  <2>2. q = s
    BY <2>1, OwnedDisjoint
  <2> QED
    BY <2>2 DEF VInv, SplitLists, Split
<1>6. ASSUME ~opt.adaptive, opt.limit = 0
      PROVE  CompletedIds \cup UNION {progress[q].failed : q \in Ranks} = Ids
  <2>1. \A q \in Ranks : progress[q].done \subseteq Ids /\ progress[q].failed \subseteq Ids
    BY DEF IInv, TypeOK, Checkpoints
  <2>2. \A q \in Ranks : Owned(q, World) \subseteq progress[q].done \cup progress[q].failed
    BY <1>2, <1>6 DEF VInv, Accounted, LoopExhausts, Ended
  <2> QED
    BY <2>1, <2>2, EveryIdOwned DEF CompletedIds
<1>7. AccountsForAll'
  BY <1>1, <1>4, <1>5, <1>6 DEF AccountsForAll
<1> QED
  BY <1>3, <1>7 DEF VInv

LEMMA VerdictNext == IInv /\ VInv /\ [Next]_vars => VInv'
<1> SUFFICES ASSUME IInv, VInv, [Next]_vars PROVE VInv'
  OBVIOUS
<1>1. CASE \E o \in Options : Start(o)
  BY <1>1, VerdictStart
<1>2. CASE \E r \in Ranks : Step(r) \/ Crash(r)
  BY <1>2, VerdictRank
<1>3. CASE Reduce
  BY <1>3, VerdictReduce
<1>4. CASE Gather
  BY <1>4, VerdictGather
<1>5. CASE UNCHANGED vars
  BY <1>5 DEF vars, memory, VInv, SplitLists, Split, Accounted, LoopExhausts, AccountsForAll
<1> QED
  BY <1>1, <1>2, <1>3, <1>4, <1>5 DEF Next

\* A returned result names no trajectory as completed and as failed, and all of
\* them when nothing could stop the run early (noisy.py, the loop and
\* _collective_reduce_result).
THEOREM AllAccountedFor == Spec => []AccountsForAll
<1>1. VInv => AccountsForAll
  BY DEF VInv
<1> QED
  BY <1>1, VerdictInit, VerdictNext, InductiveInvariant, PTL DEF Spec
-----------------------------------------------------------------------------
(* What is saved is valid *)

LEMMA Smallest ==
    ASSUME NEW T \in SUBSET Nat, T # {}
    PROVE  \E n \in T : \A m \in T : n <= m
<1>1. PICK n \in T : \A m \in T : ~(<<m, n>> \in OpToRel(<, Nat))
  BY NatLessThanWellFounded, WFMin, Zenon
<1>2. ASSUME NEW m \in T, m < n PROVE <<m, n>> \in OpToRel(<, Nat)
  <2>1. m \in Nat /\ n \in Nat
    OBVIOUS
  <2> QED
    BY <1>2, <2>1, Zenon DEF OpToRel
<1>3. ASSUME NEW m \in T PROVE n <= m
  <2>1. ~(m < n)
   BY <1>1, <1>2
  <2> QED BY <2>1
<1> QED
  BY <1>3

\* What one more identifier adds to a count of the completed ones.
LEMMA CountStep ==
    ASSUME NEW D \in SUBSET Ids, NEW s \in SUBSET Ids, NEW x \in s
    PROVE  /\ Cardinality(s \cap D) \in Nat
           /\ Cardinality(s \cap D) =
                  (IF x \in D THEN 1 ELSE 0) + Cardinality((s \ {x}) \cap D)
<1>1. IsFiniteSet(Ids)
  BY FS_Interval, CountAssumption DEF Ids
<1>2. IsFiniteSet(s \cap D) /\ Cardinality(s \cap D) \in Nat
  BY <1>1, FS_Subset, FS_CardinalityType
<1>3. CASE x \in D
  <2>1. (s \ {x}) \cap D = (s \cap D) \ {x}
    OBVIOUS
  <2>2. Cardinality((s \cap D) \ {x}) = Cardinality(s \cap D) - 1
    BY <1>2, <1>3, FS_RemoveElement
  <2> QED
    BY <1>2, <1>3, <2>1, <2>2
<1>4. CASE x \notin D
  <2>1. (s \ {x}) \cap D = s \cap D
    BY <1>4
  <2> QED
    BY <1>2, <1>4, <2>1
<1> QED
  BY <1>3, <1>4

\* Moments that hold each sample of D once and no other hold as many as D has.
LEMMA SamplesAreCounted ==
    ASSUME NEW moments, NEW D \in SUBSET Ids,
           \A i \in Ids : moments[i] = IF i \in D THEN 1 ELSE 0
    PROVE  Samples(moments) = Cardinality(D)
<1> DEFINE some(s) == CHOOSE x \in s : TRUE
           Sums(f) == f = [s \in SUBSET Ids |->
                              IF s = {} THEN 0 ELSE moments[some(s)] + f[s \ {some(s)}]]
           count == [s \in SUBSET Ids |-> Cardinality(s \cap D)]
<1>1. Samples(moments) = (CHOOSE f : Sums(f))[Ids]
  BY Zenon DEF Samples, MapThenSumSet, MapThenFoldSet
<1>2. \A s \in SUBSET Ids : s # {} => some(s) \in s
  OBVIOUS
<1> HIDE DEF some
<1>3. Cardinality({}) = 0
  BY FS_EmptySet
<1>4. ASSUME NEW s \in SUBSET Ids, s # {}
      PROVE  /\ count[s] \in Nat
             /\ count[s] = moments[some(s)] + count[s \ {some(s)}]
  <2>1. some(s) \in s /\ some(s) \in Ids /\ s \ {some(s)} \in SUBSET Ids
    BY <1>2, <1>4
  <2>2. Cardinality(s \cap D) \in Nat
        /\ Cardinality(s \cap D) =
              (IF some(s) \in D THEN 1 ELSE 0) + Cardinality((s \ {some(s)}) \cap D)
    BY <2>1, CountStep
  <2>3. count[s] = Cardinality(s \cap D)
        /\ count[s \ {some(s)}] = Cardinality((s \ {some(s)}) \cap D)
    BY <2>1
  <2> QED
    BY <2>1, <2>2, <2>3
<1>5. count[{}] = 0
  <2>1. {} \cap D = {}
    OBVIOUS
  <2> QED
    BY <1>3, <2>1
<1>6. Sums(count)
  <2>1. \A s \in SUBSET Ids :
            count[s] = IF s = {} THEN 0 ELSE moments[some(s)] + count[s \ {some(s)}]
    BY <1>4, <1>5
  <2>2. count = [s \in SUBSET Ids |-> count[s]]
    OBVIOUS
  <2> HIDE DEF count
  <2> QED
    BY <2>1, <2>2, Zenon
<1>7. ASSUME NEW f, Sums(f) PROVE \A s \in SUBSET Ids : f[s] = count[s]
  <2> SUFFICES ASSUME NEW t \in SUBSET Ids, f[t] # count[t] PROVE FALSE
    OBVIOUS
  <2>1. \A s \in SUBSET Ids : IsFiniteSet(s) /\ Cardinality(s) \in Nat
    <3>1. IsFiniteSet(Ids)
      BY FS_Interval, CountAssumption DEF Ids
    <3> QED
      BY <3>1, FS_Subset, FS_CardinalityType
  <2> DEFINE Wrong == {s \in SUBSET Ids : f[s] # count[s]}
             Sizes == {Cardinality(s) : s \in Wrong}
  <2>2. Sizes \in SUBSET Nat /\ Sizes # {}
    BY <2>1
  <2>3. PICK n \in Sizes : \A m \in Sizes : n <= m
    BY <2>2, Smallest
  <2>4. PICK s \in Wrong : Cardinality(s) = n
    BY <2>3
  <2>5. \A u \in SUBSET Ids :
            f[u] = IF u = {} THEN 0 ELSE moments[some(u)] + f[u \ {some(u)}]
    BY <1>7
  <2>6. s # {}
    BY <1>5, <2>4, <2>5
  <2>7. some(s) \in s /\ s \in SUBSET Ids /\ s \ {some(s)} \in SUBSET Ids
    BY <1>2, <2>4, <2>6
  <2>8. Cardinality(s \ {some(s)}) = Cardinality(s) - 1
    BY <2>1, <2>7, FS_RemoveElement
  <2>9. s \ {some(s)} \notin Wrong
    <3>1. \A u \in Wrong : n <= Cardinality(u)
      BY <2>3
    <3>2. ~(Cardinality(s) <= Cardinality(s) - 1)
      BY <2>1, <2>7
    <3> HIDE DEF Wrong
    <3> QED
      BY <2>4, <2>8, <3>1, <3>2
  <2>10. f[s \ {some(s)}] = count[s \ {some(s)}]
    BY <2>7, <2>9
  <2>11. f[s] = count[s]
    <3> HIDE DEF count, Sums
    <3> QED
      BY <1>4, <2>5, <2>6, <2>7, <2>10
  <2> QED
    BY <2>4, <2>11
<1>8. Sums(CHOOSE f : Sums(f))
  <2> HIDE DEF Sums, count
  <2> QED
    BY <1>6, Zenon
<1>9. Samples(moments) = count[Ids]
  <2> HIDE DEF Sums, count
  <2> QED
    BY <1>1, <1>7, <1>8, Zenon
<1>10. Ids \cap D = D
  OBVIOUS
<1> QED
  BY <1>9, <1>10

\* A rank's lists are what the constructor of a checkpoint accepts.
LEMMA OwnListsAreValid ==
    ASSUME NEW c \in Checkpoints, NEW r, OwnWork(c, r), Split(c, r)
    PROVE  Valid(c)
<1>1. Samples(c.moments) = Cardinality(c.done)
  BY SamplesAreCounted DEF Checkpoints, OwnWork
<1> QED
  BY <1>1 DEF Valid, Checkpoints, Split

LEMMA SavesNext == IInv /\ VInv /\ SavesAreValid /\ [Next]_vars => SavesAreValid'
<1> SUFFICES ASSUME IInv, VInv, SavesAreValid, [Next]_vars PROVE SavesAreValid'
  OBVIOUS
<1>1. \A r \in Ranks : Valid(progress[r])
  BY OwnListsAreValid DEF IInv, TypeOK, OwnProgress, VInv, SplitLists
<1>2. \A r \in Ranks : Valid(progress'[r])
  <2>1. IInv' /\ VInv'
    BY InvNext, VerdictNext
  <2>2. \A r \in Ranks : /\ progress'[r] \in Checkpoints
                         /\ OwnWork(progress'[r], r) /\ Split(progress'[r], r)
    BY <2>1 DEF IInv, TypeOK, OwnProgress, OwnWork, VInv, SplitLists, Split
  <2> QED
    BY <2>2, OwnListsAreValid
<1>3. pc \in [Ranks -> Labels] /\ \A r \in Ranks : pc[r] # "refused"
  BY DEF IInv, TypeOK, Labels, SavesAreValid
<1>4. CASE \E o \in Options : Start(o)
  BY <1>4 DEF Start, SavesAreValid
<1>5. CASE \E r \in Ranks : Step(r) \/ Crash(r)
  <2>1. PICK r \in Ranks : Step(r) \/ Crash(r)
    BY <1>5
  <2>2. \E label \in Labels \ {"refused"} : Goto(r, label)
    <3>1. CASE RunBatch(r)
      <4>1. Goto(r, "round") \/ Goto(r, "batch")
        BY <1>2, <3>1 DEF RunBatch, Save
      <4> QED
        BY <4>1 DEF Labels, Waiting, Running
    <3>2. CASE BatchRaises(r) \/ LeaveLoop(r)
      <4>1. Goto(r, "down") \/ Goto(r, "reduce")
        BY <1>1, <3>2 DEF BatchRaises, LeaveLoop, Save
      <4> QED
        BY <4>1 DEF Labels, Waiting, Ended
    <3>3. CASE CollectiveTimeout(r) \/ Crash(r)
      BY <3>3 DEF CollectiveTimeout, Crash, Labels, Ended
    <3> QED
      BY <2>1, <3>1, <3>2, <3>3 DEF Step
  <2> QED
    BY <1>3, <2>2 DEF Goto, SavesAreValid
<1>6. CASE Reduce
  BY <1>6 DEF Reduce, Concluded, SavesAreValid
<1>7. CASE Gather
  BY <1>7 DEF Gather, SavesAreValid
<1>8. CASE UNCHANGED vars
  BY <1>8 DEF vars, SavesAreValid
<1> QED
  BY <1>4, <1>5, <1>6, <1>7, <1>8 DEF Next

\* save_progress never builds a checkpoint whose counts and lists its constructor
\* refuses, over any sequence of attempts, failures and retries (noisy.py:381).
THEOREM SavesAlwaysValid == Spec => []SavesAreValid
<1>1. Init => SavesAreValid
  BY DEF Init, SavesAreValid
<1>2. Init => VInv
  BY VerdictInit
<1> QED
  BY <1>1, <1>2, SavesNext, VerdictNext, InductiveInvariant, PTL DEF Spec
-----------------------------------------------------------------------------
(* The counts of a result *)

\* Sums of equal numbers over the ranks are equal.
LEMMA EqualCountsAgree ==
    ASSUME NEW r \in Ranks,
           \A q \in Ranks : Cardinality(progress[q].done) = Samples(reduced[r][q])
    PROVE  CountsAgree(r)
<1> DEFINE some(s) == CHOOSE q \in s : TRUE
           Lists(f) == f = [s \in SUBSET Ranks |->
               IF s = {} THEN 0
               ELSE Cardinality(progress[some(s)].done) + f[s \ {some(s)}]]
           Counts(f) == f = [s \in SUBSET Ranks |->
               IF s = {} THEN 0
               ELSE Samples(reduced[r][some(s)]) + f[s \ {some(s)}]]
<1>1. CountsAgree(r) <=> (CHOOSE f : Lists(f))[Ranks] = (CHOOSE f : Counts(f))[Ranks]
  BY Zenon DEF CountsAgree, MapThenSumSet, MapThenFoldSet
<1>2. \A s \in SUBSET Ranks : s # {} =>
          Cardinality(progress[some(s)].done) = Samples(reduced[r][some(s)])
  OBVIOUS
<1> HIDE DEF some
<1>3. \A f : Lists(f) <=> Counts(f)
  <2> TAKE f
  <2>1. [s \in SUBSET Ranks |-> IF s = {} THEN 0
             ELSE Cardinality(progress[some(s)].done) + f[s \ {some(s)}]]
        = [s \in SUBSET Ranks |-> IF s = {} THEN 0
               ELSE Samples(reduced[r][some(s)]) + f[s \ {some(s)}]]
    BY <1>2
  <2> QED
    BY <2>1
<1> HIDE DEF Lists, Counts
<1> QED
  BY <1>1, <1>3

\* The RuntimeError of noisy.py:556 is never raised: what the ranks summed up is
\* as many samples as they list, for any number of ranks and any history.
THEOREM CountsAlwaysMatch == Spec => []CountsMatch
<1>1. ASSUME IInv PROVE CountsMatch
  <2> SUFFICES ASSUME \A r \in Ranks : pc[r] = "gather", NEW r \in Ranks PROVE CountsAgree(r)
    BY DEF CountsMatch
  <2>1. ASSUME NEW q \in Ranks
        PROVE  Cardinality(progress[q].done) = Samples(reduced[r][q])
    <3>1. reduced[r][q] = progress[q].moments
      BY <1>1 DEF IInv, ReducedTogether
    <3>2. progress[q] \in Checkpoints /\ OwnWork(progress[q], q)
      BY <1>1 DEF IInv, TypeOK, OwnProgress
    <3>3. Samples(progress[q].moments) = Cardinality(progress[q].done)
      BY <3>2, SamplesAreCounted DEF Checkpoints, OwnWork
    <3> QED
      BY <3>1, <3>3
  <2> QED
    BY <2>1, EqualCountsAgree
<1> QED
  BY <1>1, InductiveInvariant, PTL
=============================================================================
