---------------------- MODULE StatevectorTrainingProofs ----------------------
(***************************************************************************)
(* Proofs about StatevectorTraining, for any number of ranks, circuits,    *)
(* steps, attempts and power losses: whatever is on disk, the ranks of a   *)
(* running attempt hold one state, and they refuse only what is broken.    *)
(***************************************************************************)
EXTENDS StatevectorTraining, TLAPS

At(r, labels) == pc[r] \in labels

\* What a resuming rank has loaded is the share its step counts.
LoadedOwn ==
    \A r \in Ranks :
        /\ At(r, {"load"}) => start[r] = 0
        /\ At(r, {"vote", "check", "gather"}) =>
               /\ step[r] = start[r]
               /\ view[r][r] = [circuit |-> opt.circuit, step |-> step[r]]
\* TrainsOneState, share by share.
SharesInStep ==
    \A r, q \in Ranks :
        At(r, Training) => view[r][q] = [circuit |-> opt.circuit, step |-> step[r]]
\* Training ranks are at one step, and nobody passes the target.
InStep ==
    /\ \A r, q \in Ranks : At(r, Training) /\ At(q, Training) => step[r] = step[q]
    /\ \A r \in Ranks : At(r, Training \cup {"gather"}) => step[r] <= opt.target
    /\ \A r \in Ranks : At(r, {"cancel", "train"}) => step[r] < opt.target

IInv == TypeOK /\ SharesInStep /\ LoadedOwn /\ InStep

LEMMA VersionRecord ==
    /\ \A c \in Circuits, s \in 0..MaxStep : [circuit |-> c, step |-> s] \in Versions
    /\ \A v \in Versions : /\ v.circuit \in Circuits /\ v.step \in 0..MaxStep
                           /\ v = [circuit |-> v.circuit, step |-> v.step]
    /\ \A o \in Options : o.circuit \in Circuits /\ o.target \in Targets /\ o.resume \in BOOLEAN
BY DEF Versions, Options

LEMMA InitialTyped == \A o \in Options : Initial(o.circuit) \in Versions /\ o.circuit \in Circuits
BY StepsAssumption DEF Versions, Options, Initial

LEMMA InvInit == Init => IInv
BY InitialTyped, StepsAssumption
   DEF Init, IInv, TypeOK, SharesInStep, LoadedOwn, InStep, At, Training, Ended, Initial

LEMMA StartStep == ASSUME IInv, NEW o \in Options, Start(o) PROVE IInv'
<1>1. pc' = [r \in Ranks |-> IF o.resume THEN "load" ELSE "step"]
  BY DEF Start, AllGoto
<1>2. view' = [r \in Ranks |-> [q \in Ranks |-> [circuit |-> opt'.circuit, step |-> 0]]]
  BY DEF Start, Initial
<1>3. start' = [r \in Ranks |-> 0] /\ step' = [r \in Ranks |-> 0] /\ opt' = o
  BY DEF Start
<1>4. TypeOK'
  <2>1. view' \in [Ranks -> [Ranks -> Versions]]
    BY InitialTyped DEF Start
  <2>2. start' \in [Ranks -> 0..MaxStep] /\ step' \in [Ranks -> 0..MaxStep]
    BY <1>3, StepsAssumption
  <2>3. pc' \in [Ranks -> Resuming \cup Training \cup Waiting \cup Ended]
    BY <1>1 DEF Resuming, Training
  <2>4. attempt' \in 0..MaxAttempts
    BY StepsAssumption DEF Start, IInv, TypeOK
  <2> QED
    BY <1>3, <2>1, <2>2, <2>3, <2>4 DEF Start, storage, IInv, TypeOK
<1>5. SharesInStep'
  BY <1>2, <1>3 DEF SharesInStep, At
<1>6. LoadedOwn'
  BY <1>1, <1>3 DEF LoadedOwn, At
<1>7. InStep'
  <2>1. \A r \in Ranks : step'[r] = 0 /\ pc'[r] \notin {"cancel", "train"}
    BY <1>1, <1>3
  <2>2. opt'.target \in 1..MaxStep
    BY <1>3, StepsAssumption DEF Options
  <2> QED
    BY <2>1, <2>2 DEF InStep, At
<1> QED
  BY <1>4, <1>5, <1>6, <1>7 DEF IInv

LEMMA OwnShareTyped ==
    ASSUME NEW v \in [Ranks -> [Ranks -> Versions]], NEW r \in Ranks, NEW x \in Versions
    PROVE  [v EXCEPT ![r][r] = x] \in [Ranks -> [Ranks -> Versions]]
<1>1. [v[r] EXCEPT ![r] = x] \in [Ranks -> Versions]
  OBVIOUS
<1> QED
  BY <1>1

LEMMA LoadStep == ASSUME IInv, NEW r \in Ranks, Load(r) PROVE IInv'
<1>0. Accepted(r) => /\ file[r] \in Versions /\ file[r].step \in 0..MaxStep
                     /\ file[r] = [circuit |-> opt.circuit, step |-> file[r].step]
  BY VersionRecord DEF IInv, TypeOK, Accepted
<1>1. TypeOK'
  <2>1. view' \in [Ranks -> [Ranks -> Versions]]
    <3>1. CASE Accepted(r)
      <4>1. view' = [view EXCEPT ![r][r] = file[r]] /\ file[r] \in Versions
        BY <1>0, <3>1 DEF Load
      <4>2. view \in [Ranks -> [Ranks -> Versions]]
        BY DEF IInv, TypeOK
      <4> QED
        BY <4>1, <4>2, OwnShareTyped
    <3>2. CASE ~Accepted(r)
      BY <3>2 DEF IInv, TypeOK, Load
    <3> QED
      BY <3>1, <3>2
  <2>2. start' \in [Ranks -> 0..MaxStep] /\ step' \in [Ranks -> 0..MaxStep]
    BY <1>0 DEF IInv, TypeOK, Load
  <2>3. pc' \in [Ranks -> Resuming \cup Training \cup Waiting \cup Ended]
    BY DEF IInv, TypeOK, Load, Goto, Waiting
  <2> QED
    BY <2>1, <2>2, <2>3 DEF IInv, TypeOK, Load, storage
<1>2. pc[r] = "load" /\ pc'[r] \in {"vote", "refusing"} /\ opt' = opt
  BY DEF Load, Goto, IInv, TypeOK
<1>3. \A q \in Ranks \ {r} : /\ pc'[q] = pc[q] /\ start'[q] = start[q]
                             /\ step'[q] = step[q] /\ view'[q] = view[q]
  BY DEF Load, Goto, IInv, TypeOK
<1>4. SharesInStep'
  BY <1>2, <1>3 DEF IInv, SharesInStep, At, Training
<1>5. pc'[r] = "vote" => /\ step'[r] = start'[r]
                         /\ view'[r][r] = [circuit |-> opt.circuit, step |-> step'[r]]
  BY <1>0 DEF Load, Goto, IInv, TypeOK
<1>6. LoadedOwn'
  BY <1>2, <1>3, <1>5 DEF IInv, LoadedOwn, At
<1>7. InStep'
  BY <1>2, <1>3 DEF IInv, InStep, At, Training
<1> QED
  BY <1>1, <1>4, <1>6, <1>7 DEF IInv

LEMMA AgreeStep == ASSUME IInv, Agree PROVE IInv'
<1>1. TypeOK'
  BY DEF IInv, TypeOK, Agree, All, AllGoto, storage, Training, Ended
<1>2. \A r \in Ranks : pc'[r] \notin {"load", "vote", "check", "gather", "cancel", "train"}
  BY DEF Agree, AllGoto
<1>3. LoadedOwn'
  BY <1>2 DEF LoadedOwn, At
<1>4. CASE \A r, q \in Ranks : start[r] = start[q]
  <2>1. /\ view' = [r \in Ranks |-> [q \in Ranks |-> view[q][q]]]
        /\ UNCHANGED <<opt, step>>
    BY <1>4 DEF Agree
  <2>2. \A r, q \in Ranks :
            /\ view[q][q] = [circuit |-> opt.circuit, step |-> step[r]]
            /\ step[r] = step[q] /\ step[r] <= opt.target
    <3>1. \A q \in Ranks : pc[q] = "gather"
      BY DEF Agree, All
    <3>2. \A q \in Ranks : /\ step[q] = start[q] /\ step[q] <= opt.target
                            /\ view[q][q] = [circuit |-> opt.circuit, step |-> step[q]]
      BY <3>1 DEF IInv, LoadedOwn, InStep, At
    <3> QED
      BY <1>4, <3>2
  <2>3. SharesInStep'
    BY <2>1, <2>2 DEF SharesInStep
  <2>4. InStep'
    BY <1>2, <2>1, <2>2 DEF InStep, At
  <2> QED
    BY <1>1, <1>3, <2>3, <2>4 DEF IInv
<1>5. CASE ~(\A r, q \in Ranks : start[r] = start[q])
  <2>1. \A r \in Ranks : pc'[r] = "refused"
    BY <1>5 DEF Agree, AllGoto
  <2>2. SharesInStep' /\ InStep'
    BY <2>1 DEF SharesInStep, InStep, At, Training
  <2> QED
    BY <1>1, <1>3, <2>2 DEF IInv
<1> QED
  BY <1>4, <1>5

LEMMA TrainStepStep == ASSUME IInv, TrainStep PROVE IInv'
<1>0. opt \in Options /\ opt.target \in 1..MaxStep /\ step \in [Ranks -> 0..MaxStep]
  BY StepsAssumption DEF IInv, TypeOK, Options
<1>1. \A r, q \in Ranks : step[r] = step[q] /\ step[r] < opt.target
  BY DEF IInv, InStep, At, Training, TrainStep, All
<1>2. \A q \in Ranks : view[q][q] = [circuit |-> opt.circuit, step |-> step[q]]
  BY DEF IInv, SharesInStep, At, Training, TrainStep, All
<1>3. \A q \in Ranks : [view[q][q] EXCEPT !.step = @ + 1]
                          = [circuit |-> opt.circuit, step |-> step[q] + 1]
  <2> TAKE q \in Ranks
  <2>1. view[q][q] = [circuit |-> opt.circuit, step |-> step[q]]
    BY <1>2
  <2> QED
    BY <2>1
<1>4. step' = [r \in Ranks |-> step[r] + 1] /\ opt' = opt /\ UNCHANGED <<storage, start, losses, attempt>>
  BY DEF TrainStep
<1>5. \A r \in Ranks : step'[r] = step[r] + 1 /\ step'[r] \in 0..MaxStep /\ step'[r] <= opt.target
  BY <1>0, <1>1, <1>4, StepsAssumption
<1>6. pc' \in [Ranks -> {"payload", "step"}]
  BY DEF TrainStep
<1>7. \A r, q \in Ranks : view'[r][q] = [circuit |-> opt.circuit, step |-> step'[r]]
  <2>1. \A r, q \in Ranks : view'[r][q] = [view[q][q] EXCEPT !.step = @ + 1]
    BY DEF TrainStep
  <2> QED
    <3> TAKE r, q \in Ranks
    <3>1. step'[r] = step[q] + 1
      BY <1>1, <1>5
    <3> QED
      BY <1>3, <2>1, <3>1
<1>8. TypeOK'
  <2>1. \A r, q \in Ranks : view'[r][q] \in Versions
    BY <1>0, <1>5, <1>7, VersionRecord
  <2>2. view' \in [Ranks -> [Ranks -> Versions]]
    BY <2>1 DEF TrainStep
  <2>3. step' \in [Ranks -> 0..MaxStep]
    BY <1>4, <1>5
  <2>4. pc' \in [Ranks -> Resuming \cup Training \cup Waiting \cup Ended]
    BY <1>6 DEF Training
  <2> QED
    BY <1>4, <2>2, <2>3, <2>4 DEF IInv, TypeOK, storage
<1>9. SharesInStep'
  BY <1>4, <1>7 DEF SharesInStep
<1>10. LoadedOwn'
  BY <1>6 DEF LoadedOwn, At
<1>11. InStep'
  BY <1>1, <1>4, <1>5, <1>6 DEF InStep, At
<1> QED
  BY <1>8, <1>9, <1>10, <1>11 DEF IInv

LEMMA JointSteps == ASSUME IInv, Vote \/ CancelVote \/ Barrier \/ PowerLoss PROVE IInv'
<1> USE StepsAssumption DEF IInv, TypeOK, Resuming, Training, Waiting, Ended,
        SharesInStep, LoadedOwn, InStep, At, All, AllGoto, storage
<1>1. CASE Vote
  BY <1>1 DEF Vote
<1>2. CASE CancelVote
  BY <1>2 DEF CancelVote
<1>3. CASE Barrier
  BY <1>3 DEF Barrier
<1>4. CASE PowerLoss
  BY <1>4 DEF PowerLoss
<1> QED
  BY <1>1, <1>2, <1>3, <1>4

\* The labels a rank may move to by itself, its memory staying as it is.
Allowed(r, label) ==
    \/ label \in {"down", "refused", "refusing"}
    \/ label = "gather" /\ pc[r] = "check" /\ step[r] <= opt.target
    \/ label \in {"checksum", "sync", "barrier", "done"} /\ pc[r] \in Training
    \/ label = "cancel" /\ pc[r] \in Training /\ step[r] < opt.target

LEMMA MoveStep ==
    ASSUME IInv, NEW r \in Ranks, NEW label, Goto(r, label), Allowed(r, label),
           UNCHANGED <<attempt, opt, start, step, view, losses>>,
           file' \in [Ranks -> Versions \cup {NoFile}],
           sum' \in [Ranks -> Versions \cup {NoFile}],
           disk' \in [Ranks -> [file : Versions \cup {NoFile}, sum : Versions \cup {NoFile}]]
    PROVE  IInv'
<1>1. pc'[r] = label /\ \A q \in Ranks \ {r} : pc'[q] = pc[q]
  BY DEF Goto, IInv, TypeOK
<1>2. TypeOK'
  <2>1. label \in Resuming \cup Training \cup Waiting \cup Ended
    BY DEF Allowed, Training, Waiting, Ended
  <2> QED
    BY <2>1 DEF Goto, IInv, TypeOK
<1>3. /\ label \in Training => pc[r] \in Training
      /\ label \in Training \cup {"gather"} => step[r] <= opt.target
      /\ label \in {"cancel", "train"} => step[r] < opt.target
      /\ label \in {"vote", "check", "gather"} => pc[r] \in {"vote", "check", "gather"}
      /\ label # "load"
  BY DEF Allowed, IInv, InStep, At, Training
<1>4. SharesInStep'
  BY <1>1, <1>3 DEF IInv, SharesInStep, At
<1>5. LoadedOwn'
  BY <1>1, <1>3 DEF IInv, LoadedOwn, At
<1>6. InStep'
  BY <1>1, <1>3 DEF IInv, InStep, At
<1> QED
  BY <1>2, <1>4, <1>5, <1>6 DEF IInv

LEMMA LocalSteps ==
    ASSUME IInv, NEW r \in Ranks,
           \/ CheckTarget(r) \/ LoopHead(r) \/ CollectiveTimeout(r) \/ Leave(r)
           \/ ReplacePayload(r) \/ ReplaceChecksum(r) \/ SyncDirectory(r)
    PROVE  IInv'
<1>0. /\ opt.target \in Int /\ step[r] \in Int /\ view[r][r] \in Versions
      /\ file \in [Ranks -> Versions \cup {NoFile}]
      /\ sum \in [Ranks -> Versions \cup {NoFile}]
      /\ disk \in [Ranks -> [file : Versions \cup {NoFile}, sum : Versions \cup {NoFile}]]
  <2>1. opt.target \in 1..MaxStep /\ step[r] \in 0..MaxStep
    BY StepsAssumption, VersionRecord DEF IInv, TypeOK
  <2>2. view[r][r] \in Versions
    BY DEF IInv, TypeOK
  <2> QED
    BY <2>1, <2>2, StepsAssumption DEF IInv, TypeOK
<1>1. CASE CheckTarget(r)
  <2>1. pc[r] = "check" /\ step[r] = start[r]
    BY <1>1 DEF CheckTarget, IInv, LoadedOwn, At
  <2>2. CASE start[r] > opt.target
    <3>1. Goto(r, "refused") /\ Allowed(r, "refused")
      BY <1>1, <2>2 DEF CheckTarget, Allowed
    <3> QED
      BY <1>0, <1>1, <3>1, MoveStep DEF CheckTarget, storage
  <2>3. CASE ~(start[r] > opt.target)
    <3>1. Goto(r, "gather") /\ Allowed(r, "gather")
      BY <1>0, <1>1, <2>1, <2>3 DEF CheckTarget, Allowed
    <3> QED
      BY <1>0, <1>1, <3>1, MoveStep DEF CheckTarget, storage
  <2> QED
    BY <2>2, <2>3
<1>2. CASE LoopHead(r)
  <2>1. pc[r] \in Training /\ step[r] <= opt.target
    BY <1>2 DEF LoopHead, IInv, InStep, At, Training
  <2>2. CASE step[r] = opt.target
    <3>1. Goto(r, "done") /\ Allowed(r, "done")
      BY <1>2, <2>1, <2>2 DEF LoopHead, Allowed
    <3> QED
      BY <1>0, <1>2, <3>1, MoveStep DEF LoopHead, storage
  <2>3. CASE step[r] # opt.target
    <3>1. Goto(r, "cancel") /\ Allowed(r, "cancel")
      BY <1>0, <1>2, <2>1, <2>3 DEF LoopHead, Allowed
    <3> QED
      BY <1>0, <1>2, <3>1, MoveStep DEF LoopHead, storage
  <2> QED
    BY <2>2, <2>3
<1>3. CASE CollectiveTimeout(r) \/ Leave(r)
  <2>1. Goto(r, "down") /\ Allowed(r, "down")
    BY <1>3 DEF CollectiveTimeout, Leave, Allowed
  <2> QED
    BY <1>0, <1>3, <2>1, MoveStep DEF CollectiveTimeout, Leave, storage
<1>4. CASE ReplacePayload(r)
  <2>1. Goto(r, "checksum") /\ Allowed(r, "checksum")
    BY <1>4 DEF ReplacePayload, Allowed, Training
  <2>2. file' \in [Ranks -> Versions \cup {NoFile}]
    BY <1>0, <1>4 DEF ReplacePayload
  <2> QED
    BY <1>0, <1>4, <2>1, <2>2, MoveStep DEF ReplacePayload
<1>5. CASE ReplaceChecksum(r)
  <2>1. Goto(r, "sync") /\ Allowed(r, "sync")
    BY <1>5 DEF ReplaceChecksum, Allowed, Training
  <2>2. sum' \in [Ranks -> Versions \cup {NoFile}]
    BY <1>0, <1>5 DEF ReplaceChecksum
  <2> QED
    BY <1>0, <1>5, <2>1, <2>2, MoveStep DEF ReplaceChecksum
<1>6. CASE SyncDirectory(r)
  <2>1. Goto(r, "barrier") /\ Allowed(r, "barrier")
    BY <1>6 DEF SyncDirectory, Allowed, Training
  <2>2. disk' \in [Ranks -> [file : Versions \cup {NoFile}, sum : Versions \cup {NoFile}]]
    BY <1>0, <1>6 DEF SyncDirectory
  <2> QED
    BY <1>0, <1>6, <2>1, <2>2, MoveStep DEF SyncDirectory
<1> QED
  BY <1>1, <1>2, <1>3, <1>4, <1>5, <1>6

LEMMA InvStep == IInv /\ [Next]_vars => IInv'
<1> SUFFICES ASSUME IInv, [Next]_vars PROVE IInv'
  OBVIOUS
<1>1. CASE UNCHANGED vars
  BY <1>1 DEF vars, storage, IInv, TypeOK, SharesInStep, LoadedOwn, InStep, At
<1> QED
  BY <1>1, StartStep, LoadStep, AgreeStep, TrainStepStep, JointSteps, LocalSteps DEF Next, Step

LEMMA Invariant == Spec => []IInv
BY InvInit, InvStep, PTL DEF Spec

\* Files, steps and shares stay within their types: no rank trains past the
\* target, whatever step it resumed from.
THEOREM TypeCorrect == Spec => []TypeOK
<1>1. IInv => TypeOK
  BY DEF IInv
<1> QED
  BY Invariant, <1>1, PTL

\* A rank that trains holds all shares of its circuit after the steps it counts,
\* however many earlier attempts and power losses have left the files mixed.
THEOREM OneState == Spec => []TrainsOneState
<1>1. IInv => TrainsOneState
  BY DEF IInv, TypeOK, SharesInStep, TrainsOneState, At
<1> QED
  BY Invariant, <1>1, PTL
-----------------------------------------------------------------------------
(* Refusals *)

LEMMA RefusedStep == IInv /\ RefusedTogether /\ [Next]_vars => RefusedTogether'
<1> SUFFICES ASSUME IInv, RefusedTogether, [Next]_vars PROVE RefusedTogether'
  OBVIOUS
<1>0. pc \in [Ranks -> Resuming \cup Training \cup Waiting \cup Ended]
  BY DEF IInv, TypeOK
<1>1. ASSUME NEW o \in Options, Start(o) PROVE RefusedTogether'
  BY <1>1 DEF Start, AllGoto, RefusedTogether
<1>2. ASSUME NEW r \in Ranks, Load(r) PROVE RefusedTogether'
  <2>1. pc[r] = "load" /\ start[r] = 0 /\ opt.target \in 1..MaxStep
    BY <1>2, VersionRecord, StepsAssumption DEF Load, IInv, TypeOK, LoadedOwn, At
  <2>2. /\ \A q \in Ranks \ {r} : start'[q] = start[q] /\ pc'[q] = pc[q]
        /\ pc'[r] # "refused" /\ opt' = opt
    BY <1>0, <1>2 DEF Load, Goto, IInv, TypeOK
  <2>3. ASSUME \A q \in Ranks : start'[q] <= opt'.target PROVE \A q \in Ranks : pc[q] # "refused"
    BY <2>1, <2>2, <2>3, StepsAssumption DEF RefusedTogether
  <2> QED
    BY <2>2, <2>3 DEF RefusedTogether
<1>3. ASSUME NEW r \in Ranks, CheckTarget(r) PROVE RefusedTogether'
  BY <1>0, <1>3, VersionRecord, StepsAssumption
     DEF CheckTarget, Goto, RefusedTogether, IInv, TypeOK
<1>4. ASSUME NEW r \in Ranks, NEW label, Goto(r, label), label # "refused",
             pc[r] \notin {"refused", "down"} \/ label = "down", UNCHANGED <<opt, start>>
      PROVE  RefusedTogether'
  BY <1>0, <1>4 DEF Goto, RefusedTogether
<1>5. ASSUME NEW r \in Ranks,
             \/ LoopHead(r) \/ CollectiveTimeout(r) \/ Leave(r)
             \/ ReplacePayload(r) \/ ReplaceChecksum(r) \/ SyncDirectory(r)
      PROVE  RefusedTogether'
  <2>1. UNCHANGED <<opt, start>>
    BY <1>5 DEF LoopHead, CollectiveTimeout, Leave, ReplacePayload, ReplaceChecksum, SyncDirectory
  <2>2. \/ Goto(r, "down")
        \/ /\ pc[r] \notin {"refused", "down"}
           /\ \E label \in {"done", "cancel", "checksum", "sync", "barrier"} : Goto(r, label)
    BY <1>5 DEF LoopHead, CollectiveTimeout, Leave, ReplacePayload, ReplaceChecksum, SyncDirectory
  <2> QED
    BY <1>4, <2>1, <2>2
<1>6. ASSUME Vote \/ Agree \/ CancelVote \/ TrainStep \/ Barrier \/ PowerLoss
      PROVE  RefusedTogether'
  BY <1>6 DEF Vote, Agree, CancelVote, TrainStep, Barrier, PowerLoss, AllGoto, RefusedTogether
<1>7. CASE UNCHANGED vars
  BY <1>7 DEF vars, RefusedTogether
<1> QED
  BY <1>1, <1>2, <1>3, <1>5, <1>6, <1>7 DEF Next, Step

\* A rank whose checkpoint is missing, damaged or of another circuit never
\* leaves its peers waiting in a later collective of the resume.
THEOREM RefusesTogether == Spec => []RefusedTogether
<1>1. Init => RefusedTogether
  BY DEF Init, RefusedTogether
<1> QED
  BY <1>1, Invariant, RefusedStep, PTL DEF Spec
-----------------------------------------------------------------------------
(* Confirmed generations *)

LEMMA ModBounds ==
    ASSUME NEW s \in Nat, NEW i \in Nat \ {0}
    PROVE  s % i \in 0..(i - 1) /\ s = i * (s \div i) + (s % i) /\ (s \div i) \in Nat
BY SMT

LEMMA NoMultipleBetween ==
    ASSUME NEW i \in Nat \ {0}, NEW k \in Int, i * k < i, i * k > -i
    PROVE  k = 0
<1>1. CASE k >= 1
  <2>1. i * k >= i * 1
    BY <1>1, SMT
  <2> QED
    BY <2>1
<1>2. CASE k <= -1
  <2>1. i * k <= i * (-1)
    BY <1>2, SMT
  <2> QED
    BY <2>1
<1> QED
  BY <1>1, <1>2

LEMMA NextMod ==
    ASSUME NEW s \in Nat, NEW i \in Nat \ {0}, (s + 1) % i # 0
    PROVE  (s + 1) % i = (s % i) + 1
<1>1. PICK a \in Int, b \in 0..(i - 1) : s = i * a + b /\ b = s % i
  <2>1. (s \div i) \in Int /\ (s % i) \in 0..(i - 1) /\ s = i * (s \div i) + (s % i)
    BY ModBounds
  <2> QED
    BY <2>1
<1>2. PICK c \in Int, d \in 0..(i - 1) : s + 1 = i * c + d /\ d = (s + 1) % i
  <2>0. s + 1 \in Nat
    OBVIOUS
  <2>1. ((s + 1) \div i) \in Int /\ ((s + 1) % i) \in 0..(i - 1) /\ s + 1 = i * ((s + 1) \div i) + ((s + 1) % i)
    BY <2>0, ModBounds
  <2> QED
    BY <2>1
<1>3. i * (c - a) = b + 1 - d
  <2>1. i * (c - a) = i * c - i * a
    BY SMT
  <2>2. i * c \in Int /\ i * a \in Int
    OBVIOUS
  <2> QED
    BY <1>1, <1>2, <2>1, <2>2
<1>4. d >= 1
  BY <1>2
<1>5. b + 1 - d < i /\ b + 1 - d > -i
  BY <1>4
<1>6. c - a = 0
  BY <1>3, <1>5, NoMultipleBetween
<1>7. i * (c - a) = 0
  BY <1>6
<1>8. d = b + 1
  BY <1>3, <1>7
<1> QED
  BY <1>8, <1>1, <1>2

LEMMA ModNat == \A s \in Nat : s % Interval \in Nat
<1> TAKE s \in Nat
<1>1. s % Interval \in 0..(Interval - 1)
  BY ModBounds, StepsAssumption
<1> QED
  BY <1>1, StepsAssumption

Going == {"step", "cancel", "train", "done"}
Saving == {"payload", "checksum", "sync", "barrier"}
Share(r) == [circuit |-> opt.circuit, step |-> step[r]]

\* A save is of a multiple of the interval, and what it has written so far is there.
SaveWritten ==
    \A r \in Ranks :
        /\ At(r, Saving) => step[r] % Interval = 0
        /\ At(r, {"checksum", "sync"}) => file[r] = Share(r)
        /\ At(r, {"sync"}) => sum[r] = Share(r)
        /\ At(r, {"barrier"}) => disk[r] = [file |-> Share(r), sum |-> Share(r)]
\* No rank goes on while another one saves.
SavesTogether == \A r, q \in Ranks : ~(At(r, Going) /\ At(q, Saving))

GInv == GenerationConfirmed /\ SaveWritten /\ SavesTogether

LEMMA ConfirmInit == Init => GInv
BY DEF Init, GInv, GenerationConfirmed, SaveWritten, SavesTogether, At, Going, Saving

LEMMA ConfirmFresh == ASSUME IInv, NEW o \in Options, Start(o) PROVE GInv'
<1>1. \A r \in Ranks : pc'[r] \in {"load", "step"} /\ step'[r] = 0 /\ start'[r] = 0
  BY DEF Start, AllGoto
<1>2. 0 % Interval \in Nat
  BY ModNat
<1>3. \A r \in Ranks : ~(LastSaved(r)' > start'[r])
  BY <1>1, <1>2 DEF LastSaved
<1> QED
  BY <1>1, <1>3 DEF GInv, GenerationConfirmed, SaveWritten, SavesTogether, At, Going, Saving

LEMMA ConfirmAgree == ASSUME IInv, Agree PROVE GInv'
<1>1. \A r \in Ranks : pc'[r] \in {"step", "refused"}
  BY DEF Agree, AllGoto
<1>2. \A r \in Ranks : step[r] = start[r] /\ step[r] \in Nat
  <2> TAKE r \in Ranks
  <2>1. step[r] = start[r]
    BY DEF Agree, All, IInv, LoadedOwn, At
  <2>2. step[r] \in 0..MaxStep
    BY DEF IInv, TypeOK
  <2> QED
    BY <2>1, <2>2, StepsAssumption
<1>3. \A r \in Ranks : step[r] % Interval \in Nat
  BY <1>2, ModNat
<1>4. \A r \in Ranks : ~(LastSaved(r)' > start'[r])
  BY <1>2, <1>3 DEF LastSaved, Agree
<1> QED
  BY <1>1, <1>4 DEF GInv, GenerationConfirmed, SaveWritten, SavesTogether, At, Going, Saving

LEMMA ConfirmTrain == ASSUME IInv, GInv, TrainStep PROVE GInv'
<1>0. /\ \A r, q \in Ranks : step[r] = step[q] /\ step[r] \in Nat
      /\ \A r \in Ranks : pc[r] = "train"
  BY DEF IInv, TypeOK, InStep, At, Training, TrainStep, All
<1>1. \A r \in Ranks : step'[r] = step[r] + 1 /\ UNCHANGED <<storage, opt, start>>
  BY DEF TrainStep
<1>2. CASE \A r \in Ranks : (step[r] + 1) % Interval = 0
  <2>1. \A r \in Ranks : pc'[r] = "payload" /\ step'[r] % Interval = 0
    BY <1>1, <1>2 DEF TrainStep
  <2> QED
    BY <2>1 DEF GInv, GenerationConfirmed, SaveWritten, SavesTogether, At, Going, Saving
<1>3. CASE \A r \in Ranks : (step[r] + 1) % Interval # 0
  <2>1. \A r \in Ranks : pc'[r] = "step"
    BY <1>1, <1>3 DEF TrainStep
  <2>2. \A r \in Ranks : (step[r] + 1) % Interval = (step[r] % Interval) + 1
    BY <1>0, <1>3, NextMod, StepsAssumption
  <2>3. \A r \in Ranks : step[r] % Interval \in Nat
    BY <1>0, ModNat
  <2>4. \A r \in Ranks : LastSaved(r)' = LastSaved(r)
    BY <1>0, <1>1, <2>2, <2>3 DEF LastSaved
  <2>5. GenerationConfirmed'
    BY <1>0, <1>1, <2>4 DEF GInv, GenerationConfirmed, storage
  <2> QED
    BY <2>1, <2>5 DEF GInv, SaveWritten, SavesTogether, At, Saving
<1> QED
  BY <1>0, <1>2, <1>3

LEMMA ConfirmBarrier == ASSUME IInv, GInv, Barrier PROVE GInv'
<1>0. \A r, q \in Ranks : pc[r] = "barrier" /\ step[r] = step[q] /\ step[r] \in Nat
  BY DEF IInv, TypeOK, InStep, At, Training, Barrier, All
<1>1. \A r \in Ranks : pc'[r] = "step" /\ UNCHANGED <<storage, opt, start, step>>
  BY DEF Barrier, AllGoto
<1>2. \A r \in Ranks : LastSaved(r) = step[r]
  <2>1. \A r \in Ranks : step[r] % Interval = 0
    BY <1>0 DEF GInv, SaveWritten, At, Saving
  <2> TAKE r \in Ranks
  <2>2. step[r] \in Nat /\ step[r] % Interval = 0
    BY <1>0, <2>1
  <2> QED
    BY <2>2 DEF LastSaved
<1>3. \A r, q \in Ranks :
        LET saved == [circuit |-> opt.circuit, step |-> LastSaved(r)]
        IN  disk[q] = [file |-> saved, sum |-> saved]
  BY <1>0, <1>2 DEF GInv, SaveWritten, At, Share
<1>4. GenerationConfirmed'
  BY <1>1, <1>3 DEF GenerationConfirmed, LastSaved, storage
<1> QED
  BY <1>1, <1>4 DEF GInv, SaveWritten, SavesTogether, At, Saving

\* Steps of one rank that change no directory entry a power loss keeps.
LEMMA ConfirmMove ==
    ASSUME IInv, GInv, NEW r \in Ranks, NEW label, Goto(r, label),
           UNCHANGED <<disk, opt, step>>,
           \A q \in Ranks : q # r => file'[q] = file[q] /\ sum'[q] = sum[q] /\ start'[q] = start[q],
           label \in Going => pc[r] \in Going /\ start'[r] = start[r],
           label \in Saving => label \in {"checksum", "sync"} /\ pc[r] \in Saving,
           label \in {"checksum", "sync"} => file'[r] = Share(r),
           label = "sync" => sum'[r] = Share(r)
    PROVE  GInv'
<1>1. pc'[r] = label /\ \A q \in Ranks \ {r} : pc'[q] = pc[q]
  BY DEF Goto, IInv, TypeOK
<1>2. \A q \in Ranks : LastSaved(q)' = LastSaved(q)
  BY DEF LastSaved
<1>3. GenerationConfirmed'
  BY <1>1, <1>2 DEF GInv, GenerationConfirmed, Going
<1>4. SaveWritten'
  <2>1. ASSUME NEW q \in Ranks, q # r
        PROVE  /\ pc'[q] = pc[q] /\ step'[q] = step[q] /\ disk'[q] = disk[q]
               /\ file'[q] = file[q] /\ sum'[q] = sum[q] /\ Share(q)' = Share(q)
    BY <1>1, <2>1 DEF Share
  <2>2. step'[r] = step[r] /\ Share(r)' = Share(r)
    BY DEF Share
  <2> QED
    BY <1>1, <2>1, <2>2 DEF GInv, SaveWritten, At, Saving
<1>5. SavesTogether'
  <2> SUFFICES ASSUME NEW p \in Ranks, NEW q \in Ranks, pc'[p] \in Going, pc'[q] \in Saving
               PROVE  FALSE
    BY DEF SavesTogether, At
  <2>1. pc[p] \in Going /\ pc[q] \in Saving
    BY <1>1
  <2> QED
    BY <2>1 DEF GInv, SavesTogether, At
<1> QED
  BY <1>3, <1>4, <1>5 DEF GInv

LEMMA ConfirmLocal == ASSUME IInv, GInv, NEW r \in Ranks, Step(r) \/ Leave(r) PROVE GInv'
<1>0. /\ \A q \in Ranks : q # r => file'[q] = file[q] /\ sum'[q] = sum[q] /\ start'[q] = start[q]
      /\ UNCHANGED opt
  BY DEF Step, Leave, Load, CheckTarget, LoopHead, ReplacePayload, ReplaceChecksum,
         SyncDirectory, CollectiveTimeout, IInv, TypeOK, storage
<1>1. CASE Load(r)
  <2>1. \E label \in {"vote", "refusing"} : Goto(r, label)
    BY <1>1 DEF Load
  <2>2. pc[r] = "load" /\ UNCHANGED disk /\ \A q \in Ranks \ {r} : step'[q] = step[q]
    BY <1>1 DEF Load, IInv, TypeOK, storage
  <2>3. pc'[r] \in {"vote", "refusing"} /\ \A q \in Ranks \ {r} : pc'[q] = pc[q]
    BY <2>1 DEF Goto, IInv, TypeOK
  <2>4. \A q \in Ranks \ {r} : LastSaved(q)' = LastSaved(q)
    BY <2>2 DEF LastSaved
  <2>5. GenerationConfirmed'
    BY <1>0, <2>2, <2>3, <2>4 DEF GInv, GenerationConfirmed
  <2>6. SaveWritten' /\ SavesTogether'
    BY <1>0, <2>2, <2>3 DEF GInv, SaveWritten, SavesTogether, At, Share, Going, Saving
  <2> QED
    BY <2>5, <2>6 DEF GInv
<1>2. CASE CheckTarget(r) \/ CollectiveTimeout(r) \/ Leave(r)
  <2>1. PICK label \in {"refused", "gather", "down"} : Goto(r, label)
    BY <1>2 DEF CheckTarget, CollectiveTimeout, Leave
  <2>2. UNCHANGED <<storage, opt, step>>
    BY <1>2 DEF CheckTarget, CollectiveTimeout, Leave
  <2> QED
    BY <1>0, <2>1, <2>2, ConfirmMove DEF storage, Going, Saving
<1>3. CASE LoopHead(r)
  <2>1. PICK label \in {"done", "cancel"} : Goto(r, label)
    BY <1>3 DEF LoopHead
  <2>2. UNCHANGED <<storage, opt, step, start>> /\ pc[r] \in Going
    BY <1>3 DEF LoopHead, Going
  <2> QED
    BY <1>0, <2>1, <2>2, ConfirmMove DEF storage, Saving
<1>4. CASE ReplacePayload(r)
  <2>1. Goto(r, "checksum") /\ pc[r] \in Saving /\ UNCHANGED <<disk, opt, step, start>>
    BY <1>4 DEF ReplacePayload, Saving
  <2>2. file'[r] = Share(r)
    BY <1>4 DEF ReplacePayload, Share, IInv, TypeOK, SharesInStep, At, Training
  <2> QED
    BY <1>0, <2>1, <2>2, ConfirmMove DEF Going
<1>5. CASE ReplaceChecksum(r)
  <2>1. Goto(r, "sync") /\ pc[r] \in Saving /\ UNCHANGED <<file, disk, opt, step, start>>
    BY <1>5 DEF ReplaceChecksum, Saving
  <2>2. sum'[r] = Share(r) /\ file[r] = Share(r)
    BY <1>5 DEF ReplaceChecksum, Share, IInv, TypeOK, SharesInStep, GInv, SaveWritten, At, Training
  <2> QED
    BY <1>0, <2>1, <2>2, ConfirmMove DEF Going
<1>6. CASE SyncDirectory(r)
  <2>1. /\ pc'[r] = "barrier" /\ pc[r] = "sync"
        /\ \A q \in Ranks \ {r} : pc'[q] = pc[q] /\ disk'[q] = disk[q]
        /\ disk'[r] = [file |-> file[r], sum |-> sum[r]]
        /\ UNCHANGED <<file, sum, opt, step, start>>
    BY <1>6 DEF SyncDirectory, Goto, IInv, TypeOK
  <2>2. file[r] = Share(r) /\ sum[r] = Share(r) /\ step[r] % Interval = 0
    BY <2>1 DEF GInv, SaveWritten, At, Saving
  <2>3. \A q \in Ranks : pc'[q] \notin Going
    BY <2>1 DEF GInv, SavesTogether, At, Saving, Going
  <2>4. GenerationConfirmed'
    BY <2>3 DEF GenerationConfirmed, Going
  <2>5. SaveWritten'
    BY <2>1, <2>2 DEF GInv, SaveWritten, At, Saving, Share
  <2>6. SavesTogether'
    BY <2>3 DEF SavesTogether, At
  <2> QED
    BY <2>4, <2>5, <2>6 DEF GInv
<1> QED
  BY <1>1, <1>2, <1>3, <1>4, <1>5, <1>6 DEF Step

LEMMA ConfirmOther == ASSUME IInv, GInv, Vote \/ CancelVote \/ PowerLoss PROVE GInv'
<1>1. CASE Vote
  <2>1. \A r \in Ranks : pc'[r] \notin Going \cup Saving
    BY <1>1 DEF Vote, AllGoto, Going, Saving
  <2> QED
    BY <2>1 DEF GInv, GenerationConfirmed, SaveWritten, SavesTogether, At, Going, Saving
<1>2. CASE CancelVote
  <2>1. /\ \A r \in Ranks : pc[r] = "cancel" /\ pc'[r] \in {"down", "train"}
        /\ UNCHANGED <<storage, opt, start, step>>
    BY <1>2 DEF CancelVote, All, AllGoto
  <2>2. \A r \in Ranks : LastSaved(r)' = LastSaved(r)
    BY <2>1 DEF LastSaved
  <2>3. GenerationConfirmed'
    BY <2>1, <2>2 DEF GInv, GenerationConfirmed, storage
  <2>4. SaveWritten' /\ SavesTogether'
    BY <2>1 DEF SaveWritten, SavesTogether, At, Saving
  <2> QED
    BY <2>3, <2>4 DEF GInv
<1>3. CASE PowerLoss
  <2>1. \A r \in Ranks : pc'[r] = "down"
    BY <1>3 DEF PowerLoss, AllGoto
  <2> QED
    BY <2>1 DEF GInv, GenerationConfirmed, SaveWritten, SavesTogether, At, Going, Saving
<1> QED
  BY <1>1, <1>2, <1>3

LEMMA ConfirmStep == IInv /\ GInv /\ [Next]_vars => GInv'
<1> SUFFICES ASSUME IInv, GInv, [Next]_vars PROVE GInv'
  OBVIOUS
<1>1. CASE UNCHANGED vars
  BY <1>1 DEF vars, storage, GInv, GenerationConfirmed, LastSaved, SaveWritten,
              SavesTogether, At, Share
<1> QED
  BY <1>1, ConfirmFresh, ConfirmAgree, ConfirmTrain, ConfirmBarrier, ConfirmLocal,
     ConfirmOther DEF Next

\* A rank that goes on after a save may rely on it: every rank's payload and
\* checksum are that generation's and would survive a power loss.
THEOREM GenerationsConfirmed == Spec => []GenerationConfirmed
<1>1. GInv => GenerationConfirmed
  BY DEF GInv
<1> QED
  BY Invariant, ConfirmInit, ConfirmStep, <1>1, PTL DEF Spec
-----------------------------------------------------------------------------
(* What a resume may refuse *)

InResume == {"load", "vote", "refusing", "check", "gather", "refused"}

\* A group resumes together or trains together: files rest while it resumes.
ResumesTogether == \A r, q \in Ranks : ~(At(r, InResume) /\ At(q, Training))
\* What a resuming rank reports is still true of its files.
LoadedFiles ==
    \A r \in Ranks :
        /\ At(r, {"vote", "check", "gather"}) => Accepted(r) /\ start[r] = file[r].step
        /\ At(r, {"refusing"}) => ~Accepted(r)

FInv == ResumesTogether /\ LoadedFiles /\ RefusesOnlyBroken

\* A generation the attempt can continue is accepted by every rank.
LEMMA ResumableAccepted ==
    ASSUME TypeOK, Resumable
    PROVE  \E s \in 0..opt.target : \A r \in Ranks : Accepted(r) /\ file[r].step = s
<1>1. PICK s \in 0..opt.target :
          \A r \in Ranks : file[r] = sum[r] /\ file[r] = [circuit |-> opt.circuit, step |-> s]
  BY DEF Resumable
<1>2. opt.circuit \in Circuits /\ s \in 0..MaxStep
  BY VersionRecord, StepsAssumption DEF TypeOK
<1>3. [circuit |-> opt.circuit, step |-> s] # NoFile
  BY <1>2, VersionRecord, NoFileAssumption
<1> QED
  BY <1>1, <1>3 DEF Accepted

\* While the files rest, a rank's own verdict is all that can change.
LEMMA RefusalMove ==
    ASSUME IInv, FInv, UNCHANGED <<file, sum, opt>>, NEW r \in Ranks, NEW label, Goto(r, label),
           \A q \in Ranks \ {r} : start'[q] = start[q],
           label \in InResume => pc[r] \in InResume,
           label \in Training => pc[r] \in Training,
           label \in {"vote", "check", "gather"} => Accepted(r) /\ start'[r] = file[r].step,
           label = "refusing" => ~Accepted(r),
           label = "refused" => ~Resumable
    PROVE  FInv'
<1>1. pc'[r] = label /\ \A q \in Ranks \ {r} : pc'[q] = pc[q]
  BY DEF Goto, IInv, TypeOK
<1>2. ResumesTogether'
  <2> SUFFICES ASSUME NEW p \in Ranks, NEW q \in Ranks, pc'[p] \in InResume, pc'[q] \in Training
               PROVE  FALSE
    BY DEF ResumesTogether, At
  <2>1. pc[p] \in InResume /\ pc[q] \in Training
    BY <1>1
  <2> QED
    BY <2>1 DEF FInv, ResumesTogether, At
<1>3. LoadedFiles'
  BY <1>1 DEF FInv, LoadedFiles, At, Accepted
<1>4. RefusesOnlyBroken'
  BY <1>1 DEF FInv, RefusesOnlyBroken, Resumable
<1> QED
  BY <1>2, <1>3, <1>4 DEF FInv

\* A step that leaves every rank training or gone leaves nobody to refuse.
LEMMA RefusalVacuous ==
    ASSUME \A r \in Ranks : pc'[r] \notin InResume \ {"load"},
           \A r, q \in Ranks : ~(pc'[r] = "load" /\ pc'[q] \in Training)
    PROVE  FInv'
BY DEF FInv, ResumesTogether, LoadedFiles, RefusesOnlyBroken, At, InResume, Training

LEMMA RefusalJoint ==
    ASSUME IInv, FInv,
           \/ \E o \in Options : Start(o)
           \/ Vote \/ Agree \/ CancelVote \/ TrainStep \/ Barrier \/ PowerLoss
    PROVE  FInv'
<1>1. CASE \E o \in Options : Start(o)
  BY <1>1, RefusalVacuous DEF Start, AllGoto, InResume, Training
<1>2. CASE Vote
  <2>1. UNCHANGED <<file, sum, opt, start>>
    BY <1>2 DEF Vote, storage
  <2>2. CASE \E r \in Ranks : pc[r] = "refusing"
    <3>1. \A r \in Ranks : pc'[r] = "refused"
      BY <1>2, <2>2 DEF Vote, AllGoto
    <3>2. ~Resumable
      BY <2>2, ResumableAccepted DEF IInv, FInv, LoadedFiles, At
    <3>3. ~Resumable'
      BY <2>1, <3>2 DEF Resumable
    <3> QED
      BY <3>1, <3>3 DEF FInv, ResumesTogether, LoadedFiles, RefusesOnlyBroken, At, Training
  <2>3. CASE \A r \in Ranks : pc[r] # "refusing"
    <3>1. \A r \in Ranks : pc[r] = "vote" /\ pc'[r] = "check"
      BY <1>2, <2>3 DEF Vote, AllGoto
    <3> QED
      BY <2>1, <3>1 DEF FInv, ResumesTogether, LoadedFiles, RefusesOnlyBroken, At, Training,
                        Accepted
  <2> QED
    BY <2>2, <2>3
<1>3. CASE Agree
  <2>1. UNCHANGED <<file, sum, opt, start>> /\ \A r \in Ranks : pc[r] = "gather"
    BY <1>3 DEF Agree, All, storage
  <2>2. CASE \A r, q \in Ranks : start[r] = start[q]
    BY <1>3, <2>2, RefusalVacuous DEF Agree, AllGoto, InResume, Training
  <2>3. CASE ~\A r, q \in Ranks : start[r] = start[q]
    <3>1. \A r \in Ranks : pc'[r] = "refused"
      BY <1>3, <2>3 DEF Agree, AllGoto
    <3>2. ~Resumable
      BY <2>1, <2>3, ResumableAccepted DEF IInv, FInv, LoadedFiles, At
    <3>3. ~Resumable'
      BY <2>1, <3>2 DEF Resumable
    <3> QED
      BY <3>1, <3>3 DEF FInv, ResumesTogether, LoadedFiles, RefusesOnlyBroken, At, Training
  <2> QED
    BY <2>2, <2>3
<1>4. CASE CancelVote \/ TrainStep \/ Barrier \/ PowerLoss
  <2>1. \A r \in Ranks : pc'[r] \in {"down", "train", "payload", "step"}
    BY <1>4 DEF CancelVote, TrainStep, Barrier, PowerLoss, AllGoto
  <2> QED
    BY <2>1, RefusalVacuous DEF InResume, Training
<1> QED
  BY <1>1, <1>2, <1>3, <1>4

LEMMA RefusalLocal == ASSUME IInv, FInv, NEW r \in Ranks, Step(r) \/ Leave(r) PROVE FInv'
<1>0. pc \in [Ranks -> Resuming \cup Training \cup Waiting \cup Ended] /\ UNCHANGED opt
  BY DEF IInv, TypeOK, Step, Leave, Load, CheckTarget, LoopHead, ReplacePayload,
         ReplaceChecksum, SyncDirectory, CollectiveTimeout
<1>1. CASE Load(r)
  <2>1. UNCHANGED <<file, sum>> /\ pc[r] = "load" /\ \A q \in Ranks \ {r} : start'[q] = start[q]
    BY <1>1 DEF Load, storage, IInv, TypeOK
  <2>2. \/ Accepted(r) /\ start'[r] = file[r].step /\ Goto(r, "vote")
        \/ ~Accepted(r) /\ Goto(r, "refusing")
    BY <1>1 DEF Load, IInv, TypeOK
  <2> QED
    BY <1>0, <2>1, <2>2, RefusalMove DEF InResume, Training
<1>2. CASE CheckTarget(r)
  <2>1. UNCHANGED <<file, sum, start>> /\ pc[r] = "check"
    BY <1>2 DEF CheckTarget, storage
  <2>2. Accepted(r) /\ start[r] = file[r].step
    BY <2>1 DEF FInv, LoadedFiles, At
  <2>3. \/ start[r] > opt.target /\ Goto(r, "refused")
        \/ Goto(r, "gather")
    BY <1>2 DEF CheckTarget
  <2>4. start[r] > opt.target => ~Resumable
    <3>1. opt.target \in Nat /\ start[r] \in Nat
      BY VersionRecord, StepsAssumption DEF IInv, TypeOK
    <3> QED
      BY <2>2, <3>1, ResumableAccepted DEF IInv
  <2>5. CASE start[r] > opt.target /\ Goto(r, "refused")
    BY <1>0, <2>1, <2>4, <2>5, RefusalMove DEF InResume, Training
  <2>6. CASE Goto(r, "gather")
    BY <1>0, <2>1, <2>2, <2>6, RefusalMove DEF InResume, Training
  <2> QED
    BY <2>3, <2>5, <2>6
<1>3. CASE CollectiveTimeout(r) \/ Leave(r)
  <2>1. Goto(r, "down") /\ UNCHANGED <<file, sum, start>>
    BY <1>3 DEF CollectiveTimeout, Leave, storage
  <2> QED
    BY <1>0, <2>1, RefusalMove DEF InResume, Training
<1>4. CASE LoopHead(r) \/ ReplacePayload(r) \/ ReplaceChecksum(r) \/ SyncDirectory(r)
  <2>1. pc[r] \in Training
    BY <1>4 DEF LoopHead, ReplacePayload, ReplaceChecksum, SyncDirectory, Training
  <2>2. \E label \in {"done", "cancel", "checksum", "sync", "barrier"} : Goto(r, label)
    BY <1>4 DEF LoopHead, ReplacePayload, ReplaceChecksum, SyncDirectory
  <2>3. pc'[r] \in Training /\ \A q \in Ranks \ {r} : pc'[q] = pc[q]
    BY <1>0, <2>2 DEF Goto, Training
  <2>4. \A q \in Ranks : pc[q] \notin InResume
    BY <2>1 DEF FInv, ResumesTogether, At
  <2>5. \A q \in Ranks : pc'[q] \notin InResume
    BY <2>3, <2>4 DEF InResume, Training
  <2> QED
    BY <2>5, RefusalVacuous DEF InResume
<1> QED
  BY <1>1, <1>2, <1>3, <1>4 DEF Step

LEMMA RefusalStep == IInv /\ FInv /\ [Next]_vars => FInv'
<1> SUFFICES ASSUME IInv, FInv, [Next]_vars PROVE FInv'
  OBVIOUS
<1>1. CASE UNCHANGED vars
  BY <1>1 DEF vars, storage, FInv, ResumesTogether, LoadedFiles, RefusesOnlyBroken, At,
              Accepted, Resumable
<1> QED
  BY <1>1, RefusalJoint, RefusalLocal DEF Next

\* While the files are one whole generation of the caller's circuit, up to and
\* with the target, no rank of a resume refuses them.
THEOREM RefusesOnlyTheBroken == Spec => []RefusesOnlyBroken
<1>1. Init => FInv
  BY DEF Init, FInv, ResumesTogether, LoadedFiles, RefusesOnlyBroken, At, InResume
<1>2. FInv => RefusesOnlyBroken
  BY DEF FInv
<1> QED
  BY Invariant, RefusalStep, <1>1, <1>2, PTL DEF Spec
=============================================================================
