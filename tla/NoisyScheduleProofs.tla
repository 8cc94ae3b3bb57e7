--------------------------- MODULE NoisyScheduleProofs ---------------------------
(***************************************************************************)
(* Proofs about the rounds of NoisyStatevector: when no attempt both stops *)
(* adaptively and resumes, the ranks always wait in the same collective,   *)
(* for any number of ranks and trajectories, batch size and limit.         *)
(***************************************************************************)
EXTENDS NoisyStatevectorProofs, FunctionTheorems

\* The caller resumes only what does not stop adaptively.
FreshWhenAdaptive == \A o \in Options : o.adaptive => ~o.resume
-----------------------------------------------------------------------------
(* The rows of identifiers a rank works off *)

LEMMA TimesOrder ==
    ASSUME NEW n \in Nat \ {0}, NEW k \in Int, NEW l \in Int
    PROVE  /\ k * n \in Int /\ l * n \in Int
           /\ k <= l <=> k * n <= l * n
           /\ k < l => k * n + n <= l * n
<1>1. k * n \in Int /\ l * n \in Int
  OBVIOUS
<1>2. ASSUME k <= l PROVE k * n <= l * n
  BY <1>2, SMT
<1>3. ASSUME k < l PROVE k * n + n <= l * n
  <2>1. (k + 1) * n <= l * n
    BY <1>3, SMT
  <2>2. (k + 1) * n = k * n + n
    BY SMT
  <2> QED
    BY <2>1, <2>2
<1> QED
  BY <1>1, <1>2, <1>3

\* The trajectories of rank r from its lo-th to its hi-th.
Row(r, lo, hi) == {r + k * World : k \in lo..hi}

LEMMA WorldIsPositive == World \in Nat \ {0} /\ Batch \in Nat \ {0} /\ Count \in Nat \ {0}
BY ScheduleAssumption, CountAssumption

LEMMA RowOrder ==
    ASSUME NEW r \in Ranks, NEW k \in Int, NEW l \in Int
    PROVE  /\ r + k * World \in Int
           /\ r + k * World <= r + l * World <=> k <= l
           /\ r + k * World = r + l * World <=> k = l
<1>1. r \in Int
  BY WorldIsPositive DEF Ranks
<1>2. /\ k * World \in Int /\ l * World \in Int
      /\ k <= l <=> k * World <= l * World
      /\ l <= k <=> l * World <= k * World
  BY WorldIsPositive, TimesOrder
<1> QED
  BY <1>1, <1>2

LEMMA RowCount ==
    ASSUME NEW r \in Ranks, NEW lo \in Int, NEW hi \in Int, lo <= hi
    PROVE  Cardinality(Row(r, lo, hi)) = hi - lo + 1
<1> DEFINE f == [k \in lo..hi |-> r + k * World]
<1>1. f \in [lo..hi -> Row(r, lo, hi)]
  BY DEF Row
<1>2. ASSUME NEW k \in lo..hi, NEW l \in lo..hi, f[k] = f[l] PROVE k = l
  BY <1>2, RowOrder
<1>3. \A i \in Row(r, lo, hi) : \E k \in lo..hi : f[k] = i
  BY DEF Row
<1>4. f \in Bijection(lo..hi, Row(r, lo, hi))
  <2> HIDE DEF f
  <2> QED
    BY <1>1, <1>2, <1>3 DEF Bijection, Injection, Surjection, IsInjective
<1>5. ExistsBijection(lo..hi, Row(r, lo, hi))
  BY <1>4 DEF ExistsBijection
<1>6. IsFiniteSet(lo..hi) /\ Cardinality(lo..hi) = hi - lo + 1
  BY FS_Interval
<1> QED
  BY <1>5, <1>6, FS_Bijection

\* The first identifiers of a rank's remaining ones, by their number.
LEMMA FirstOfRow ==
    ASSUME NEW r \in Ranks, NEW lo \in Int, NEW hi \in Int, lo + Batch - 1 <= hi
    PROVE  Row(r, lo, hi) \
               {i \in Row(r, lo, hi) : Cardinality({j \in Row(r, lo, hi) : j <= i}) <= Batch}
           = Row(r, lo + Batch, hi)
<1>1. Batch \in Nat \ {0}
  BY WorldIsPositive
<1>2. ASSUME NEW k \in lo..hi
      PROVE  {j \in Row(r, lo, hi) : j <= r + k * World} = Row(r, lo, k)
  <2>1. \A l \in lo..hi : r + l * World <= r + k * World <=> l <= k
    BY RowOrder
  <2> QED
    BY <2>1 DEF Row
<1>3. ASSUME NEW k \in lo..hi
      PROVE  Cardinality({j \in Row(r, lo, hi) : j <= r + k * World}) <= Batch
                 <=> k <= lo + Batch - 1
  <2>1. Cardinality(Row(r, lo, k)) = k - lo + 1
    BY RowCount
  <2>2. Cardinality({j \in Row(r, lo, hi) : j <= r + k * World}) = k - lo + 1
    BY <1>2, <2>1, Zenon
  <2> HIDE DEF Row
  <2> QED
    BY <1>1, <2>2
<1>4. ASSUME NEW k \in lo..hi
      PROVE  r + k * World \in Row(r, lo + Batch, hi) <=> k >= lo + Batch
  <2>1. \A l \in (lo + Batch)..hi : r + k * World = r + l * World <=> k = l
    BY <1>1, RowOrder
  <2> QED
    BY <1>1, <2>1 DEF Row
<1> DEFINE first == {i \in Row(r, lo, hi) : Cardinality({j \in Row(r, lo, hi) : j <= i}) <= Batch}
<1>5. ASSUME NEW k \in lo..hi
      PROVE  r + k * World \in first <=> ~(k >= lo + Batch)
  <2>1. r + k * World \in Row(r, lo, hi)
    BY DEF Row
  <2> QED
    BY <1>1, <1>3, <2>1
<1> HIDE DEF first
<1>6. Row(r, lo + Batch, hi) \subseteq Row(r, lo, hi)
  BY <1>1 DEF Row
<1>7. \A i \in Row(r, lo, hi) : i \in Row(r, lo + Batch, hi) <=> i \notin first
  BY <1>4, <1>5 DEF Row
<1>8. Row(r, lo, hi) \ first = Row(r, lo + Batch, hi)
  BY <1>6, <1>7
<1> QED
  BY <1>8 DEF first

\* How many rounds an even schedule has, and what a rank has left after some.
FullRounds == Count \div (World * Batch)

Left(r, rounds) == Row(r, Batch * rounds, Batch * FullRounds - 1)

LEMMA EvenSchedule ==
    ASSUME Count % (World * Batch) = 0
    PROVE  FullRounds \in Nat /\ Batch * FullRounds \in Nat
           /\ Count = (Batch * FullRounds) * World
<1> DEFINE n == World * Batch
<1>1. n \in Nat \ {0}
  <2>1. World * Batch >= World * 1
    BY WorldIsPositive, SMT
  <2> QED
    BY WorldIsPositive, <2>1
<1>2. World * Batch = n /\ Count % n = 0
  OBVIOUS
<1> HIDE DEF n
<1>3. Count \in Nat
  BY WorldIsPositive
<1>4. Count = n * (Count \div n) + (Count % n) /\ Count \div n \in Nat
  BY <1>1, <1>3, SMT
<1>5. Count = n * FullRounds /\ FullRounds \in Nat
  <2>1. FullRounds = Count \div n
    BY <1>2 DEF FullRounds
  <2>2. n * (Count \div n) \in Nat
    BY <1>1, <1>4
  <2> QED
    BY <1>2, <1>3, <1>4, <2>1, <2>2
<1>6. (World * Batch) * FullRounds = (Batch * FullRounds) * World
  BY <1>5, WorldIsPositive, SMT
<1>7. Batch * FullRounds \in Nat
  BY <1>5, WorldIsPositive
<1> QED
  BY <1>2, <1>5, <1>6, <1>7

LEMMA AllLeft ==
    ASSUME Count % (World * Batch) = 0, NEW r \in Ranks
    PROVE  Owned(r, World) = Left(r, 0)
<1> DEFINE m == Batch * FullRounds
<1>1. m \in Nat /\ Count = m * World /\ FullRounds \in Nat
  BY EvenSchedule
<1>2. Left(r, 0) = Row(r, 0, m - 1)
  BY WorldIsPositive DEF Left
<1> HIDE DEF m
<1>3. r \in Nat /\ r < World /\ World \in Nat \ {0} /\ Count \in Nat
  BY WorldIsPositive DEF Ranks
<1>4. ASSUME NEW k \in Nat
      PROVE  r + k * World \in Ids <=> k <= m - 1
  <2>1. k * World \in Nat
    BY <1>3
  <2>2. m <= k => m * World <= k * World
    BY <1>1, <1>3, TimesOrder
  <2>3. k < m => k * World + World <= m * World
    BY <1>1, <1>3, TimesOrder
  <2> QED
    BY <1>1, <1>3, <2>1, <2>2, <2>3 DEF Ids
<1>5. m <= Count
  BY <1>1, <1>3, SMT
<1>6. Row(r, 0, m - 1) \subseteq Owned(r, World)
  BY <1>1, <1>4, <1>5 DEF Row, Owned
<1>7. Owned(r, World) \subseteq Row(r, 0, m - 1)
  <2> SUFFICES ASSUME NEW i \in Owned(r, World) PROVE i \in Row(r, 0, m - 1)
    OBVIOUS
  <2>1. PICK k \in 0..Count : i = r + k * World
    BY DEF Owned
  <2>2. k \in Nat /\ i \in Ids
    BY <1>3 DEF Owned
  <2>3. k \in 0..(m - 1)
    BY <1>1, <1>4, <2>1, <2>2
  <2> QED
    BY <2>1, <2>3 DEF Row
<1> QED
  BY <1>2, <1>6, <1>7

\* A batch takes the next Batch of them, and there are FullRounds batches.
LEMMA RoundOfWork ==
    ASSUME Count % (World * Batch) = 0, NEW r \in Ranks, NEW e \in Nat,
           pending[r] = Left(r, e)
    PROVE  /\ pending[r] = {} <=> e >= FullRounds
           /\ e < FullRounds => pending[r] \ NextBatch(r) = Left(r, e + 1)
<1>1. FullRounds \in Nat /\ Batch \in Nat \ {0}
  BY EvenSchedule, WorldIsPositive
<1> DEFINE lo == Batch * e
           hi == Batch * FullRounds - 1
<1>2. /\ lo \in Int /\ hi \in Int /\ lo = e * Batch /\ hi = FullRounds * Batch - 1
  BY <1>1
<1>3. /\ FullRounds <= e => FullRounds * Batch <= e * Batch
      /\ e < FullRounds => e * Batch + Batch <= FullRounds * Batch
  BY <1>1, TimesOrder
<1>4. e * Batch \in Int /\ FullRounds * Batch \in Int
  BY <1>1
<1>5. /\ FullRounds <= e => hi < lo
      /\ e < FullRounds => lo + Batch - 1 <= hi
  BY <1>1, <1>2, <1>3, <1>4
<1>6. Batch * (e + 1) = lo + Batch
  BY <1>1
<1>7. pending[r] = Row(r, lo, hi) /\ Left(r, e + 1) = Row(r, lo + Batch, hi)
  BY <1>6 DEF Left
<1> HIDE DEF lo, hi
<1>8. hi < lo => Row(r, lo, hi) = {}
  BY <1>2 DEF Row
<1>9. lo <= hi => r + lo * World \in Row(r, lo, hi)
  BY <1>2 DEF Row
<1>10. lo + Batch - 1 <= hi => lo <= hi
  BY <1>1, <1>2
<1>11. pending[r] = {} <=> e >= FullRounds
  BY <1>1, <1>5, <1>7, <1>8, <1>9, <1>10
<1>12. e < FullRounds => pending[r] \ NextBatch(r) = Left(r, e + 1)
  BY <1>2, <1>5, <1>7, FirstOfRow DEF NextBatch
<1> QED
  BY <1>11, <1>12
-----------------------------------------------------------------------------
(* The invariant *)

Alive == \A r \in Ranks : pc[r] \notin Ended

\* After so many rounds no rank runs another batch.
LoopOver(rounds) == rounds >= FullRounds \/ (opt.limit > 0 /\ rounds >= opt.limit)

\* How many rounds a rank has behind it.
Rounds(r) == IF pc[r] = "round" THEN executed[r] - 1 ELSE executed[r]

\* Of two ranks of an adaptive attempt neither is a round ahead, and one has left
\* the loop early only if the other will.
Abreast(r, q) ==
    /\ Rounds(r) = Rounds(q)
    /\ pc[r] = "round" => ~LoopOver(Rounds(r)) /\ pc[q] \in {"batch", "round"}
    /\ pc[r] = "break" => pc[q] \in {"break", "reduce"}
    /\ pc[r] = "reduce" /\ pc[q] = "batch" => LoopOver(executed[q])

InStep ==
    /\ Count % (World * Batch) = 0
    /\ \A r \in Ranks : pending[r] = Left(r, executed[r])
    /\ \A r, q \in Ranks : Abreast(r, q)

GatherTogether == \A r, q \in Ranks : pc[r] = "gather" => pc[q] = "gather"

\* An attempt is in step until the first rank has left it.
SInv == Alive => (opt.adaptive => InStep) /\ GatherTogether

LEMMA ScheduleInit == Init => SInv
BY RanksExist DEF Init, SInv, Alive, Ended

LEMMA ScheduleStart ==
    ASSUME FreshWhenAdaptive, NEW o \in Options, Start(o) PROVE SInv'
<1> SUFFICES ASSUME Alive' PROVE (opt.adaptive => InStep)' /\ GatherTogether'
  BY DEF SInv
<1>1. \A r \in Ranks : /\ pc'[r] = "batch" /\ executed'[r] = 0
                       /\ progress'[r] = Restored(r, o)
                       /\ pending'[r] = Pending(progress'[r], Owned(r, World), o.retryFailed)
  BY DEF Start, Alive, Ended
<1>2. opt' = o /\ ScheduleAllowed(o)
  BY DEF Start
<1>3. GatherTogether'
  BY <1>1 DEF GatherTogether
<1>4. ASSUME o.adaptive PROVE InStep'
  <2>1. Count % (World * Batch) = 0
    BY <1>2, <1>4 DEF ScheduleAllowed
  <2>2. \A r \in Ranks : pending'[r] = Owned(r, World)
    <3> TAKE r \in Ranks
    <3>1. progress'[r] = Empty
      BY <1>1, <1>4 DEF FreshWhenAdaptive, Restored
    <3>2. Empty.done = {} /\ Empty.failed = {}
      BY DEF Empty
    <3>3. Pending(Empty, Owned(r, World), o.retryFailed) = Owned(r, World)
      BY <3>2 DEF Pending
    <3> QED
      BY <1>1, <3>1, <3>3
  <2>3. \A r \in Ranks : pending'[r] = Left(r, executed'[r])
    BY <1>1, <2>1, <2>2, AllLeft
  <2>4. \A r, q \in Ranks : Abreast(r, q)'
    BY <1>1 DEF Abreast, Rounds
  <2> QED
    BY <2>1, <2>3, <2>4 DEF InStep
<1> QED
  BY <1>2, <1>3, <1>4

LEMMA ScheduleRunBatch ==
    ASSUME IInv, SInv, NEW r \in Ranks, RunBatch(r) PROVE SInv'
<1> SUFFICES ASSUME Alive' PROVE (opt.adaptive => InStep)' /\ GatherTogether'
  BY DEF SInv
<1>1. /\ pc[r] = "batch" /\ pending[r] # {} /\ ~LimitReached(r)
      /\ opt' = opt
  BY DEF RunBatch
<1>2. Goto(r, IF opt.adaptive THEN "round" ELSE "batch") \/ Goto(r, "refused")
  BY DEF RunBatch, Save
<1>3. /\ pc'[r] = IF opt.adaptive THEN "round" ELSE "batch"
      /\ \A q \in Ranks \ {r} : pc'[q] = pc[q]
  BY <1>2 DEF Goto, IInv, TypeOK, Alive, Ended
<1>4. Alive
  BY <1>1, <1>3 DEF Alive, Ended
<1>5. GatherTogether'
  BY <1>1, <1>3, <1>4 DEF SInv, GatherTogether
<1>6. ASSUME opt.adaptive PROVE InStep'
  <2>1. InStep
    BY <1>4, <1>6 DEF SInv
  <2>2. /\ executed \in [Ranks -> Nat] /\ opt.limit \in Nat
    BY OptionsAssumption, ScheduleAssumption DEF IInv, TypeOK, AllOptions
  <2>3. /\ executed'[r] = executed[r] + 1 /\ pending'[r] = pending[r] \ NextBatch(r)
        /\ \A q \in Ranks \ {r} : executed'[q] = executed[q] /\ pending'[q] = pending[q]
    BY <2>2 DEF RunBatch, IInv, TypeOK
  <2>4. FullRounds \in Nat
    BY <2>1, EvenSchedule DEF InStep
  <2>5. pending[r] = {} <=> executed[r] >= FullRounds
    BY <2>1, <2>2, RoundOfWork DEF InStep
  <2>6. executed[r] < FullRounds /\ ~LoopOver(executed[r])
    BY <1>1, <2>2, <2>4, <2>5 DEF LoopOver, LimitReached
  <2>7. \A q \in Ranks : pending'[q] = Left(q, executed'[q])
    <3>1. Count % (World * Batch) = 0 /\ \A q \in Ranks : pending[q] = Left(q, executed[q])
      BY <2>1 DEF InStep
    <3>2. pending[r] \ NextBatch(r) = Left(r, executed[r] + 1)
      BY <2>2, <2>6, <3>1, RoundOfWork
    <3> QED
      BY <2>3, <3>1, <3>2
  <2>8. \A q \in Ranks : pc[q] \in {"batch", "round"}
    <3> TAKE q \in Ranks
    <3>1. pc[q] \in Labels /\ pc[q] \notin Ended
      BY <1>4 DEF IInv, TypeOK, Alive, Labels
    <3>2. Abreast(q, r) /\ GatherTogether
      BY <1>4, <2>1 DEF InStep, SInv
    <3> QED
      BY <1>1, <2>6, <3>1, <3>2 DEF Abreast, GatherTogether, Labels, Waiting, Running
  <2>9. \A q \in Ranks : Rounds(q) = executed[r]
    BY <1>1, <2>1 DEF InStep, Abreast, Rounds
  <2>10. \A q \in Ranks : Rounds(q)' = executed[r]
    BY <1>3, <1>6, <2>2, <2>3, <2>9 DEF Rounds
  <2>11. \A q \in Ranks : pc'[q] \in {"batch", "round"}
    BY <1>3, <1>6, <2>8
  <2>12. \A q, s \in Ranks : Abreast(q, s)'
    BY <2>10, <2>11, <2>6, <1>1 DEF Abreast, LoopOver
  <2> QED
    BY <2>1, <2>7, <2>12 DEF InStep
<1> QED
  BY <1>1, <1>5, <1>6

LEMMA ScheduleLeaveLoop ==
    ASSUME IInv, SInv, NEW r \in Ranks, LeaveLoop(r) PROVE SInv'
<1> SUFFICES ASSUME Alive' PROVE (opt.adaptive => InStep)' /\ GatherTogether'
  BY DEF SInv
<1>1. /\ opt' = opt /\ executed' = executed /\ pending' = pending
      /\ pc[r] = "break" \/ (pc[r] = "batch" /\ (pending[r] = {} \/ LimitReached(r)))
  BY DEF LeaveLoop, memory
<1>2. Goto(r, "reduce") \/ Goto(r, "refused")
  BY DEF LeaveLoop, Save
<1>3. pc'[r] = "reduce" /\ \A q \in Ranks \ {r} : pc'[q] = pc[q]
  BY <1>2 DEF Goto, IInv, TypeOK, Alive, Ended
<1>4. Alive
  BY <1>1, <1>3 DEF Alive, Ended
<1>5. GatherTogether'
  BY <1>1, <1>3, <1>4 DEF SInv, GatherTogether
<1>6. ASSUME opt.adaptive PROVE InStep'
  <2>1. InStep
    BY <1>4, <1>6 DEF SInv
  <2>2. executed \in [Ranks -> Nat]
    BY DEF IInv, TypeOK
  <2>3. pc[r] = "batch" => LoopOver(executed[r])
    <3>1. pending[r] = {} <=> executed[r] >= FullRounds
      BY <2>1, <2>2, RoundOfWork DEF InStep
    <3> QED
      BY <1>1, <3>1 DEF LoopOver, LimitReached
  <2>4. \A q \in Ranks : LoopOver(executed[q])' <=> LoopOver(executed[q])
    BY <1>1 DEF LoopOver
  <2>5. \A q \in Ranks : Abreast(r, q) /\ Abreast(q, r)
    BY <2>1 DEF InStep
  <2>6. \A q \in Ranks : Rounds(q)' = Rounds(q) /\ Rounds(q) = Rounds(r)
    BY <1>1, <1>3, <2>5 DEF Abreast, Rounds
  <2>7. \A q \in Ranks : pc[q] # "round"
    BY <1>1, <2>3, <2>5 DEF Abreast, Rounds
  <2>8. \A q \in Ranks : pc[q] = "batch" => pc[r] = "batch" /\ LoopOver(executed[q])
    BY <1>1, <2>3, <2>5 DEF Abreast, Rounds
  <2>9. \A q, s \in Ranks : Abreast(q, s)
    BY <2>1 DEF InStep
  <2>10. ASSUME NEW q \in Ranks, NEW s \in Ranks PROVE Abreast(q, s)'
    <3>1. Rounds(q)' = Rounds(s)'
      BY <2>6
    <3>2. pc'[q] # "round"
      BY <1>3, <2>7
    <3>3. pc'[q] = "break" => pc'[s] \in {"break", "reduce"}
      BY <1>3, <2>9 DEF Abreast
    <3>4. pc'[s] = "batch" => LoopOver(executed[s])'
      BY <1>3, <2>4, <2>8
    <3> QED
      BY <3>1, <3>2, <3>3, <3>4 DEF Abreast
  <2>11. \A q \in Ranks : pending'[q] = Left(q, executed'[q])
    BY <1>1, <2>1 DEF InStep
  <2> QED
    BY <2>1, <2>10, <2>11 DEF InStep
<1> QED
  BY <1>1, <1>5, <1>6

LEMMA ScheduleReduce == ASSUME IInv, VInv, SInv, Reduce PROVE SInv'
<1> SUFFICES ASSUME Alive' PROVE (opt.adaptive => InStep)' /\ GatherTogether'
  BY DEF SInv
<1>1. PICK converged \in BOOLEAN : pc' = [r \in Ranks |-> Concluded(pc[r], converged)]
  BY DEF Reduce
<1>2. /\ opt' = opt /\ executed' = executed /\ pending' = pending
      /\ \A r \in Ranks : pc[r] \in {"round", "reduce"}
  BY DEF Reduce, memory
<1>3. \A r \in Ranks : pc'[r] = IF pc[r] = "reduce" THEN "gather"
                                ELSE IF converged THEN "break" ELSE "batch"
  BY <1>1, RanksExist DEF Concluded, Alive, Ended
<1>4. Alive
  BY <1>2 DEF Alive, Ended
<1>5. ASSUME opt.adaptive
      PROVE  InStep' /\ GatherTogether'
  <2>1. InStep
    BY <1>4, <1>5 DEF SInv
  <2>2. executed \in [Ranks -> Nat]
    BY DEF IInv, TypeOK
  <2>3. \A r, q \in Ranks : pc[r] = pc[q] /\ Rounds(r) = Rounds(q)
    BY <1>2, <2>1 DEF InStep, Abreast
  <2>4. \A r, q \in Ranks : pc'[r] = pc'[q] /\ pc'[r] # "round" /\ pc'[r] # "reduce"
    BY <1>2, <1>3, <2>3
  <2>5. \A r, q \in Ranks : executed[r] = executed[q]
    BY <2>2, <2>3 DEF Rounds
  <2>6. \A r, q \in Ranks : Abreast(r, q)'
    BY <1>2, <2>4, <2>5 DEF Abreast, Rounds
  <2>7. \A r \in Ranks : pending'[r] = Left(r, executed'[r])
    BY <1>2, <2>1 DEF InStep
  <2> QED
    BY <2>1, <2>4, <2>6, <2>7 DEF InStep, GatherTogether
<1>6. ASSUME ~opt.adaptive PROVE GatherTogether'
  BY <1>2, <1>3, <1>6 DEF VInv, LoopExhausts, GatherTogether
<1> QED
  BY <1>2, <1>5, <1>6

\* Every other step takes a rank out of the attempt.
LEMMA ScheduleNext ==
    ASSUME FreshWhenAdaptive, IInv, VInv, SInv, [Next]_vars PROVE SInv'
<1>1. CASE \E o \in Options : Start(o)
  BY <1>1, ScheduleStart
<1>2. CASE \E r \in Ranks : Step(r) \/ Crash(r)
  <2>1. PICK r \in Ranks : Step(r) \/ Crash(r)
    BY <1>2
  <2>2. CASE RunBatch(r)
    BY <2>2, ScheduleRunBatch
  <2>3. CASE LeaveLoop(r)
    BY <2>3, ScheduleLeaveLoop
  <2>4. CASE BatchRaises(r) \/ CollectiveTimeout(r) \/ Crash(r)
    <3>1. Goto(r, "down") \/ Goto(r, "refused")
      BY <2>4 DEF BatchRaises, Save, CollectiveTimeout, Crash
    <3>2. pc'[r] \in Ended
      BY <3>1 DEF Goto, Ended, IInv, TypeOK
    <3> QED
      BY <3>2 DEF SInv, Alive
  <2> QED
    BY <2>1, <2>2, <2>3, <2>4 DEF Step
<1>3. CASE Reduce
  BY <1>3, ScheduleReduce
<1>4. CASE Gather
  BY <1>4, RanksExist DEF Gather, SInv, Alive, Ended
<1>5. CASE UNCHANGED vars
  BY <1>5 DEF vars, memory, SInv, Alive, InStep, Abreast, Rounds, LoopOver, GatherTogether
<1> QED
  BY <1>1, <1>2, <1>3, <1>4, <1>5 DEF Next

\* Waiting ranks are in one collective: the refusal of uneven schedules
\* (noisy.py:288) does what it is for as long as adaptive runs start afresh.
THEOREM SameCollective == ASSUME FreshWhenAdaptive PROVE Spec => []CollectivesMatch
<1>1. ASSUME VInv, SInv PROVE CollectivesMatch
  <2> SUFFICES ASSUME \A r \in Ranks : pc[r] \in Waiting, NEW r \in Ranks, NEW q \in Ranks
               PROVE  pc[r] = pc[q]
    BY DEF CollectivesMatch
  <2>1. Alive
    BY DEF Alive, Waiting, Ended
  <2>2. CASE opt.adaptive
    BY <1>1, <2>1, <2>2 DEF SInv, InStep, Abreast, GatherTogether, Waiting
  <2>3. CASE ~opt.adaptive
    BY <1>1, <2>1, <2>3 DEF SInv, VInv, LoopExhausts, GatherTogether, Waiting
  <2> QED
    BY <2>2, <2>3
<1>2. IInv /\ VInv /\ SInv /\ [Next]_vars => SInv'
  BY ScheduleNext
<1> QED
  BY <1>1, <1>2, ScheduleInit, VerdictInit, VerdictNext, InductiveInvariant, PTL DEF Spec
=============================================================================
