------------------------ MODULE ReceiptJournalProofs ------------------------
(***************************************************************************)
(* For any number of callers and requests: type correctness, at most one   *)
(* submission per receipt path, the identity of every returned job, and    *)
(* that the callers' file operations implement SubmitOnce.                 *)
(***************************************************************************)
EXTENDS ReceiptJournal, SequenceTheorems, TLAPS

Owning == {"writeReservation", "submit", "createReceipt", "writeReceipt", "complete"}

\* A number that names a job created for request r.
JobFor(n, r) == n \in DOMAIN jobs /\ jobs[n] = r

\* The O_EXCL reservation has one owner, and the owner keeps the journal there.
OneOwner ==
    /\ \A c, d \in Callers : pc[c] \in Owning /\ pc[d] \in Owning => c = d
    /\ \A c \in Callers : pc[c] \in Owning => journal # NoFile

\* Whoever may still contact the provider is ahead of any job.
NoJobYet ==
    /\ \A c \in Callers : pc[c] \in {"writeReservation", "submit"} => jobs = << >>
    /\ \A c \in Callers : pc[c] = "reserve" /\ journal = NoFile => jobs = << >>

\* A caller past the provider's answer, or given a job, holds its own job, and
\* between writing and recording it the receipt is the one the caller wrote.
HoldsOwnJob ==
    /\ \A c \in Callers : pc[c] \in {"createReceipt", "writeReceipt", "complete", "returned"}
                           => JobFor(held[c], req[c])
    /\ \A c \in Callers : pc[c] = "writeReceipt" => receipt = Torn
    /\ \A c \in Callers : pc[c] = "complete" => receipt = held[c]

\* What a completed journal says is true, and so is a reader's copy of it.
JournalTrue ==
    (IsJournal(journal) /\ journal.receipt # Unrecorded) =>
        /\ JobFor(journal.receipt, journal.request)
        /\ tampers = 0 => receipt = journal.receipt

ReadersSawTruth ==
    /\ \A c \in Callers : pc[c] = "checkReceipt" /\ saved[c].receipt # Unrecorded
                           => JobFor(saved[c].receipt, req[c])
    /\ \A c \in Callers : pc[c] = "restore" => JobFor(receipt, req[c])

RInv == HoldsOwnJob /\ JournalTrue /\ ReadersSawTruth

OInv == OneOwner /\ NoJobYet /\ JobsAreReserved /\ AtMostOneSubmission

USE SpecialAssumption, JournalsAssumption
-----------------------------------------------------------------------------
\* What a caller writes into the journal is a complete journal.
LEMMA JournalRecord ==
  ASSUME NEW r \in Requests, NEW d \in Contents \cup {Unrecorded}
  PROVE  /\ Journal(r, d) \in Journals
         /\ IsJournal(Journal(r, d))
         /\ Journal(r, d) \notin {NoFile, Torn, Damaged}
         /\ Journal(r, d).request = r
         /\ Journal(r, d).receipt = d
<1>1. Journal(r, d) \in Journals
  BY DEF Journal, Journals
<1> QED
  BY <1>1 DEF Journal, IsJournal, Special

(* The digest a caller records is that of a receipt it has written: TypeOK   *)
(* alone would allow it to complete the journal over a missing receipt.      *)
Written == \A c \in Callers : pc[c] = "complete" => receipt \in Nat

LEMMA TypeStep == TypeOK /\ Written /\ [Next]_vars => TypeOK' /\ Written'
<1> SUFFICES ASSUME TypeOK, Written, [Next]_vars PROVE TypeOK' /\ Written'
  OBVIOUS
<1> USE DEF TypeOK, Written, Goto, files
<1>1. ASSUME NEW c \in Callers, NEW r \in Requests, Call(c, r) PROVE TypeOK' /\ Written'
  BY <1>1 DEF Call, Running
<1>2. ASSUME NEW c \in Callers, ProbeJournal(c) PROVE TypeOK' /\ Written'
  BY <1>2 DEF ProbeJournal, Running, Ended
<1>3. ASSUME NEW c \in Callers, ReadJournal(c) PROVE TypeOK' /\ Written'
  BY <1>3 DEF ReadJournal, Running, Ended
<1>4. ASSUME NEW c \in Callers, CheckReceipt(c) PROVE TypeOK' /\ Written'
  BY <1>4 DEF CheckReceipt, Running, Ended
<1>5. ASSUME NEW c \in Callers, Restore(c) PROVE TypeOK' /\ Written'
  <2>1. DOMAIN jobs \subseteq Nat
    BY LenProperties
  <2> QED
    BY <1>5, <2>1 DEF Restore, Ended
<1>6. ASSUME NEW c \in Callers, ProbeReceipt(c) PROVE TypeOK' /\ Written'
  BY <1>6 DEF ProbeReceipt, Running, Ended
<1>7. ASSUME NEW c \in Callers, Reserve(c) PROVE TypeOK' /\ Written'
  BY <1>7 DEF Reserve, Running, Ended
<1>8. ASSUME NEW c \in Callers, WriteReservation(c) PROVE TypeOK' /\ Written'
  <2>1. Journal(req[c], Unrecorded) \in Journals
    BY JournalRecord
  <2>2. journal' \in Journals \cup {NoFile, Torn, Damaged}
    BY <1>8, <2>1 DEF WriteReservation
  <2> QED
    BY <1>8, <2>2 DEF WriteReservation, Running, Ended
<1>9. ASSUME NEW c \in Callers, Submit(c) PROVE TypeOK' /\ Written'
  <2>1. /\ Append(jobs, req[c]) \in Seq(Requests)
        /\ Len(Append(jobs, req[c])) \in Nat
    BY AppendProperties, LenProperties
  <2>2. jobs' \in {jobs, Append(jobs, req[c])}
    BY <1>9 DEF Submit
  <2>3. held' \in [Callers -> Nat]
    BY <1>9, <2>1 DEF Submit
  <2>4. pc' \in [Callers -> Ended \cup Running] /\ pc'[c] # "complete"
    BY <1>9 DEF Submit, Running, Ended
  <2>5. UNCHANGED <<journal, receipt, tampers, req, saved>>
    BY <1>9 DEF Submit
  <2>6. \A d \in Callers : d # c => pc'[d] = pc[d]
    BY <1>9 DEF Submit
  <2> QED
    BY <2>1, <2>2, <2>3, <2>4, <2>5, <2>6
<1>10. ASSUME NEW c \in Callers, CreateReceipt(c) PROVE TypeOK' /\ Written'
  BY <1>10 DEF CreateReceipt, Running, Ended, Contents, Special
<1>11. ASSUME NEW c \in Callers, WriteReceipt(c) PROVE TypeOK' /\ Written'
  BY <1>11 DEF WriteReceipt, Running, Ended, Contents
<1>12. ASSUME NEW c \in Callers, Complete(c) PROVE TypeOK' /\ Written'
  <2>1. receipt \in Contents
    BY <1>12 DEF Complete, Contents
  <2>2. Journal(req[c], receipt) \in Journals
    BY <2>1, JournalRecord
  <2>3. journal' \in Journals \cup {NoFile, Torn, Damaged}
    BY <1>12, <2>2 DEF Complete
  <2> QED
    BY <1>12, <2>3 DEF Complete, Ended
<1>13. ASSUME NEW c \in Callers, Crash(c) PROVE TypeOK' /\ Written'
  BY <1>13 DEF Crash, Ended
<1>14. CASE Tamper
  <2>1. \A c \in Callers : pc[c] # "complete"
    BY <1>14 DEF Tamper, Ended
  <2> QED
    BY <1>14, <2>1 DEF Tamper, Contents
<1>15. CASE UNCHANGED vars
  BY <1>15 DEF vars
<1> QED
  BY <1>1, <1>2, <1>3, <1>4, <1>5, <1>6, <1>7, <1>8, <1>9, <1>10, <1>11, <1>12,
     <1>13, <1>14, <1>15 DEF Next, Step

LEMMA TypeInit == Init => TypeOK /\ Written
  BY DEF Init, TypeOK, Written, Contents, Ended

(* Every file, program counter and job number stays in its range.            *)
THEOREM TypeCorrect == Spec => []TypeOK
  BY TypeInit, TypeStep, PTL DEF Spec
-----------------------------------------------------------------------------
LEMMA OwnershipStep ==
  TypeOK /\ Written /\ TypeOK' /\ OInv /\ [Next]_vars => OInv'
<1> SUFFICES ASSUME TypeOK, Written, TypeOK', OInv, [Next]_vars PROVE OInv'
  OBVIOUS
<1> USE DEF OInv, OneOwner, NoJobYet, JobsAreReserved, AtMostOneSubmission, Owning,
            Goto, files
<1>0. pc \in [Callers -> Ended \cup Running] /\ jobs \in Seq(Requests)
  BY DEF TypeOK
<1>1. ASSUME NEW c \in Callers, NEW r \in Requests, Call(c, r) PROVE OInv'
  BY <1>0, <1>1 DEF Call
<1>2. ASSUME NEW c \in Callers, ProbeJournal(c) PROVE OInv'
  <2>1. pc'[c] \in {"raised", "readJournal", "probeReceipt"}
    BY <1>0, <1>2 DEF ProbeJournal
  <2> QED
    BY <1>0, <1>2, <2>1 DEF ProbeJournal
<1>3. ASSUME NEW c \in Callers, ReadJournal(c) PROVE OInv'
  BY <1>0, <1>3 DEF ReadJournal
<1>4. ASSUME NEW c \in Callers, CheckReceipt(c) PROVE OInv'
  BY <1>0, <1>4 DEF CheckReceipt
<1>5. ASSUME NEW c \in Callers, Restore(c) PROVE OInv'
  BY <1>0, <1>5 DEF Restore
<1>6. ASSUME NEW c \in Callers, ProbeReceipt(c) PROVE OInv'
  BY <1>0, <1>6 DEF ProbeReceipt
<1>7. ASSUME NEW c \in Callers, Reserve(c) PROVE OInv'
  BY <1>0, <1>7 DEF Reserve
<1>8. ASSUME NEW c \in Callers, WriteReservation(c) PROVE OInv'
  <2>1. journal' # NoFile
    BY <1>8, JournalRecord DEF WriteReservation, TypeOK
  <2> QED
    BY <1>0, <1>8, <2>1 DEF WriteReservation
<1>9. ASSUME NEW c \in Callers, Submit(c) PROVE OInv'
  <2>1. jobs = << >> /\ journal # NoFile
    BY <1>9 DEF Submit
  <2>2. \A d \in Callers : d # c => pc[d] \notin Owning
    BY <1>9 DEF Submit
  <2>3. pc'[c] \in {"raised", "createReceipt"} /\ \A d \in Callers : d # c => pc'[d] = pc[d]
    BY <1>0, <1>9 DEF Submit
  <2>4. UNCHANGED <<journal, receipt>> /\ jobs' \in {jobs, Append(jobs, req[c])}
    BY <1>9 DEF Submit
  <2>5. Len(jobs') <= 1
    <3>1. req[c] \in Requests
      BY DEF TypeOK
    <3> QED
      <4>1. Len(Append(jobs, req[c])) = Len(jobs) + 1
        BY <1>0, <3>1, AppendProperties
      <4>2. Len(jobs) = 0
        BY <2>1, EmptySeq
      <4>3. CASE jobs' = jobs
        BY <4>2, <4>3
      <4>4. CASE jobs' = Append(jobs, req[c])
        BY <4>1, <4>2, <4>4
      <4> QED
        BY <2>4, <4>3, <4>4
  <2> QED
    BY <2>1, <2>2, <2>3, <2>4, <2>5
<1>10. ASSUME NEW c \in Callers, CreateReceipt(c) PROVE OInv'
  BY <1>0, <1>10 DEF CreateReceipt
<1>11. ASSUME NEW c \in Callers, WriteReceipt(c) PROVE OInv'
  BY <1>0, <1>11 DEF WriteReceipt
<1>12. ASSUME NEW c \in Callers, Complete(c) PROVE OInv'
  <2>1. journal' # NoFile
    BY <1>12, JournalRecord DEF Complete, TypeOK, Written, Contents
  <2> QED
    BY <1>0, <1>12, <2>1 DEF Complete
<1>13. ASSUME NEW c \in Callers, Crash(c) PROVE OInv'
  BY <1>0, <1>13 DEF Crash
<1>14. CASE Tamper
  <2>1. \A c \in Callers : pc[c] \notin Owning \cup {"reserve"}
    BY <1>14 DEF Tamper, Ended
  <2>2. journal' # NoFile \/ receipt' # NoFile
    BY <1>14 DEF Tamper, Special
  <2> QED
    BY <1>14, <2>1, <2>2 DEF Tamper
<1>15. CASE UNCHANGED vars
  BY <1>15 DEF vars
<1> QED
  BY <1>1, <1>2, <1>3, <1>4, <1>5, <1>6, <1>7, <1>8, <1>9, <1>10, <1>11, <1>12,
     <1>13, <1>14, <1>15 DEF Next, Step

LEMMA OwnershipInit == Init => OInv
  BY EmptySeq DEF Init, OInv, OneOwner, NoJobYet, JobsAreReserved, AtMostOneSubmission, Owning

LEMMA Ownership == Spec => [](TypeOK /\ Written /\ OInv)
  BY TypeInit, TypeStep, OwnershipInit, OwnershipStep, PTL DEF Spec

(* One receipt path never costs more than one provider job, for any number   *)
(* of racing, crashing and retrying callers and any number of user mishaps   *)
(* that leave at least one of the two files in place.                        *)
THEOREM SubmitsAtMostOnce == Spec => []AtMostOneSubmission
<1>1. OInv => AtMostOneSubmission
  BY DEF OInv
<1> QED
  BY <1>1, Ownership, PTL

(* A job exists only under a reservation that every later call can see.      *)
THEOREM ReservedBeforeSubmission == Spec => []JobsAreReserved
<1>1. OInv => JobsAreReserved
  BY DEF OInv
<1> QED
  BY <1>1, Ownership, PTL
-----------------------------------------------------------------------------
LEMMA JobNumbers == TypeOK => DOMAIN jobs \subseteq Nat /\ NoFile \notin DOMAIN jobs
                                /\ Torn \notin DOMAIN jobs
<1> SUFFICES ASSUME TypeOK PROVE DOMAIN jobs \subseteq Nat
  BY DEF Special
<1> QED
  BY LenProperties DEF TypeOK

LEMMA IdentityStep ==
  TypeOK /\ Written /\ OInv /\ RInv /\ [Next]_vars => RInv'
<1> SUFFICES ASSUME TypeOK, Written, OInv, RInv, [Next]_vars PROVE RInv'
  OBVIOUS
<1> USE DEF RInv, HoldsOwnJob, JournalTrue, ReadersSawTruth, JobFor, Goto, files
<1>0. /\ pc \in [Callers -> Ended \cup Running]
      /\ held \in [Callers -> Nat]
      /\ DOMAIN req = Callers /\ DOMAIN saved = Callers
  BY DEF TypeOK
<1>1. ASSUME NEW c \in Callers, NEW r \in Requests, Call(c, r) PROVE RInv'
  BY <1>0, <1>1 DEF Call
<1>2. ASSUME NEW c \in Callers, ProbeJournal(c) PROVE RInv'
  <2>1. pc'[c] \in {"raised", "readJournal", "probeReceipt"}
    BY <1>0, <1>2 DEF ProbeJournal
  <2> QED
    BY <1>0, <1>2, <2>1 DEF ProbeJournal
<1>3. ASSUME NEW c \in Callers, ReadJournal(c) PROVE RInv'
  BY <1>0, <1>3 DEF ReadJournal
<1>4. ASSUME NEW c \in Callers, CheckReceipt(c) PROVE RInv'
  BY <1>0, <1>4 DEF CheckReceipt
<1>5. ASSUME NEW c \in Callers, Restore(c) PROVE RInv'
  BY <1>0, <1>5 DEF Restore
<1>6. ASSUME NEW c \in Callers, ProbeReceipt(c) PROVE RInv'
  BY <1>0, <1>6 DEF ProbeReceipt
<1>7. ASSUME NEW c \in Callers, Reserve(c) PROVE RInv'
  <2>1. journal' = journal \/ ~IsJournal(journal')
    BY <1>7 DEF Reserve, IsJournal, Special
  <2> QED
    BY <1>0, <1>7, <2>1 DEF Reserve
<1>8. ASSUME NEW c \in Callers, WriteReservation(c) PROVE RInv'
  <2>1. journal' = journal \/ journal'.receipt = Unrecorded
    BY <1>8, JournalRecord DEF WriteReservation, TypeOK
  <2> QED
    BY <1>0, <1>8, <2>1 DEF WriteReservation
<1>9. ASSUME NEW c \in Callers, Submit(c) PROVE RInv'
  <2>1. jobs = << >> /\ DOMAIN jobs = {}
    BY <1>9, EmptySeq DEF Submit, OInv, NoJobYet
  <2>2. /\ pc'[c] \in {"raised", "createReceipt"}
        /\ \A d \in Callers : d # c => pc'[d] = pc[d] /\ held'[d] = held[d]
        /\ UNCHANGED <<journal, receipt, tampers, req, saved>>
    BY <1>0, <1>9 DEF Submit
  <2>3. pc'[c] = "createReceipt" => JobFor(held[c], req[c])'
    <3> SUFFICES ASSUME pc'[c] = "createReceipt" PROVE JobFor(held[c], req[c])'
      OBVIOUS
    <3>1. jobs' = Append(jobs, req[c]) /\ held'[c] = Len(jobs')
      BY <1>0, <1>9 DEF Submit
    <3>2. req[c] \in Requests /\ jobs \in Seq(Requests) /\ Len(jobs) = 0
      BY <2>1, EmptySeq DEF TypeOK
    <3>3. Len(jobs') = 1 /\ jobs'[1] = req[c] /\ DOMAIN jobs' = 1..1
      BY <3>1, <3>2, AppendProperties, LenProperties
    <3> QED
      BY <2>2, <3>1, <3>3
  <2> QED
    BY <2>1, <2>2, <2>3
<1>10. ASSUME NEW c \in Callers, CreateReceipt(c) PROVE RInv'
  <2>1. \A d \in Callers : pc[d] \in {"writeReceipt", "complete"} => d = c
    BY <1>10 DEF CreateReceipt, OInv, OneOwner, Owning
  <2>2. receipt' = receipt \/ (receipt = NoFile /\ receipt' = Torn)
    BY <1>10 DEF CreateReceipt
  <2> QED
    BY <1>0, <1>10, <2>1, <2>2, JobNumbers DEF CreateReceipt
<1>11. ASSUME NEW c \in Callers, WriteReceipt(c) PROVE RInv'
  <2>1. \A d \in Callers : pc[d] \in {"writeReceipt", "complete"} => d = c
    BY <1>11 DEF WriteReceipt, OInv, OneOwner, Owning
  <2>2. receipt = Torn
    BY <1>11 DEF WriteReceipt
  <2> QED
    BY <1>0, <1>11, <2>1, <2>2, JobNumbers DEF WriteReceipt
<1>12. ASSUME NEW c \in Callers, Complete(c) PROVE RInv'
  <2>1. journal' = journal \/
          (journal'.receipt = receipt /\ journal'.request = req[c])
    BY <1>12, JournalRecord DEF Complete, TypeOK, Written, Contents
  <2>2. JobFor(receipt, req[c])
    BY <1>12 DEF Complete
  <2> QED
    BY <1>0, <1>12, <2>1, <2>2 DEF Complete
<1>13. ASSUME NEW c \in Callers, Crash(c) PROVE RInv'
  BY <1>0, <1>13 DEF Crash
<1>14. CASE Tamper
  <2>1. \A c \in Callers : pc[c] \in Ended /\ UNCHANGED <<pc, jobs, held, req, saved>>
    BY <1>14 DEF Tamper
  <2>2. tampers' # 0
    BY <1>14 DEF Tamper, TypeOK
  <2>3. journal' = journal \/ ~IsJournal(journal')
    BY <1>14 DEF Tamper, IsJournal, Special
  <2> QED
    BY <1>14, <2>1, <2>2, <2>3 DEF Ended, Tamper
<1>15. CASE UNCHANGED vars
  BY <1>15 DEF vars
<1> QED
  BY <1>1, <1>2, <1>3, <1>4, <1>5, <1>6, <1>7, <1>8, <1>9, <1>10, <1>11, <1>12,
     <1>13, <1>14, <1>15 DEF Next, Step

LEMMA IdentityInit == Init => RInv
  BY DEF Init, RInv, HoldsOwnJob, JournalTrue, ReadersSawTruth, IsJournal, Special

LEMMA Identity == Spec => [](TypeOK /\ RInv)
  BY TypeInit, TypeStep, OwnershipInit, OwnershipStep, IdentityInit, IdentityStep, PTL DEF Spec

(* A call that returns a job returns one created for its own configuration.  *)
THEOREM ReturnsItsOwnJob == Spec => []ReturnedJobIsRequested
<1>1. RInv => ReturnedJobIsRequested
  BY DEF RInv, HoldsOwnJob, ReturnedJobIsRequested, JobFor
<1> QED
  BY <1>1, Identity, PTL

(* While the user leaves the files alone, a completed journal vouches for an  *)
(* intact receipt of a job created for the journal's request.                *)
THEOREM JournalVouches == Spec => []CompletedJournalVouches
<1>1. RInv => CompletedJournalVouches
  BY DEF RInv, JournalTrue, CompletedJournalVouches, JobFor
<1> QED
  BY <1>1, Identity, PTL
-----------------------------------------------------------------------------
(* What the record of a job still means later: who may write the journal,    *)
(* and what the user's mishaps leave possible.                               *)
Completed == IsJournal(journal) /\ journal.receipt # Unrecorded

\* Whoever owns the reservation has yet to complete the journal.
OwnersUnrecorded == \A c \in Callers : pc[c] \in Owning => ~Completed

\* Once the user has touched the files no caller can own a reservation again.
NoOwnerOfLost == tampers > 0 => \A c \in Callers :
    /\ pc[c] \notin Owning \cup {"reserve"}
    /\ pc[c] = "probeReceipt" => receipt # NoFile

\* ... and no journal vouches for the receipt that is left.
LostForGood == tampers > 0 =>
    /\ journal # NoFile \/ receipt # NoFile
    /\ Completed => receipt # journal.receipt

\* A caller that restores does so from a journal that is still the one it read.
ReadersAreCurrent == \A c \in Callers :
    /\ pc[c] = "checkReceipt" /\ saved[c].receipt # Unrecorded =>
         Completed /\ saved[c] = journal
    /\ pc[c] = "restore" => Completed /\ receipt = journal.receipt

\* Before the first job no receipt lies next to a reservation.
UnusedPath ==
    /\ jobs = << >> /\ journal # NoFile => receipt = NoFile
    /\ \A c \in Callers : pc[c] = "reserve" /\ journal = NoFile => receipt = NoFile

PInv == /\ OwnersUnrecorded /\ NoOwnerOfLost /\ LostForGood
        /\ ReadersAreCurrent /\ UnusedPath

\* An owner of the reservation works on untouched files.
LEMMA OwnersUntouched ==
  ASSUME TypeOK, PInv, NEW c \in Callers, pc[c] \in Owning PROVE tampers = 0 /\ ~Completed
  BY DEF TypeOK, PInv, NoOwnerOfLost, OwnersUnrecorded

LEMMA PromiseInvStep ==
  TypeOK /\ Written /\ OInv /\ RInv /\ PInv /\ [Next]_vars => PInv'
<1> SUFFICES ASSUME TypeOK, Written, OInv, RInv, PInv, [Next]_vars PROVE PInv'
  OBVIOUS
<1> USE DEF PInv, OwnersUnrecorded, NoOwnerOfLost, LostForGood, ReadersAreCurrent,
            UnusedPath, Owning, Completed, Goto, files
<1>0. /\ pc \in [Callers -> Ended \cup Running]
      /\ tampers \in Nat /\ DOMAIN saved = Callers
  BY DEF TypeOK
<1>1. ASSUME NEW c \in Callers, NEW r \in Requests, Call(c, r) PROVE PInv'
  BY <1>0, <1>1 DEF Call
<1>2. ASSUME NEW c \in Callers, ProbeJournal(c) PROVE PInv'
  BY <1>0, <1>2 DEF ProbeJournal
<1>3. ASSUME NEW c \in Callers, ReadJournal(c) PROVE PInv'
  BY <1>0, <1>3 DEF ReadJournal
<1>4. ASSUME NEW c \in Callers, CheckReceipt(c) PROVE PInv'
  BY <1>0, <1>4 DEF CheckReceipt
<1>5. ASSUME NEW c \in Callers, Restore(c) PROVE PInv'
  BY <1>0, <1>5 DEF Restore
<1>6. ASSUME NEW c \in Callers, ProbeReceipt(c) PROVE PInv'
  BY <1>0, <1>6 DEF ProbeReceipt
<1>7. ASSUME NEW c \in Callers, Reserve(c) PROVE PInv'
  <2>1. \/ journal = NoFile /\ journal' = Torn /\ pc'[c] = "writeReservation"
        \/ journal' = journal /\ pc'[c] = "raised"
    BY <1>0, <1>7 DEF Reserve
  <2>2. ~IsJournal(NoFile) /\ ~IsJournal(Torn)
    BY DEF IsJournal, Special
  <2> QED
    BY <1>0, <1>7, <2>1, <2>2 DEF Reserve
<1>8. ASSUME NEW c \in Callers, WriteReservation(c) PROVE PInv'
  <2>1. journal' = journal \/ (journal' # NoFile /\ ~Completed')
    BY <1>8, JournalRecord DEF WriteReservation, TypeOK
  <2>2. journal # NoFile /\ jobs = << >>
    BY <1>8 DEF WriteReservation, OInv, OneOwner, NoJobYet
  <2>3. tampers = 0 /\ ~Completed
    BY <1>8, OwnersUntouched DEF WriteReservation
  <2> QED
    BY <1>0, <1>8, <2>1, <2>2, <2>3 DEF WriteReservation
<1>9. ASSUME NEW c \in Callers, Submit(c) PROVE PInv'
  <2>1. jobs = << >> /\ journal # NoFile
    BY <1>9 DEF Submit, OInv, OneOwner, NoJobYet
  <2>2. pc'[c] \in {"raised", "createReceipt"} /\ \A d \in Callers : d # c => pc'[d] = pc[d]
    BY <1>0, <1>9 DEF Submit
  <2>3. UNCHANGED <<journal, receipt, tampers, saved>>
    BY <1>9 DEF Submit
  <2>4. tampers = 0 /\ ~Completed
    BY <1>9, OwnersUntouched DEF Submit
  <2> QED
    BY <1>0, <2>1, <2>2, <2>3, <2>4
<1>10. ASSUME NEW c \in Callers, CreateReceipt(c) PROVE PInv'
  <2>1. jobs # << >> /\ journal # NoFile
    BY <1>10, EmptySeq DEF CreateReceipt, OInv, OneOwner, RInv, HoldsOwnJob, JobFor
  <2>2. tampers = 0 /\ ~Completed
    BY <1>10, OwnersUntouched DEF CreateReceipt
  <2> QED
    BY <1>0, <1>10, <2>1, <2>2 DEF CreateReceipt
<1>11. ASSUME NEW c \in Callers, WriteReceipt(c) PROVE PInv'
  <2>1. jobs # << >> /\ journal # NoFile
    BY <1>11, EmptySeq DEF WriteReceipt, OInv, OneOwner, RInv, HoldsOwnJob, JobFor
  <2>2. tampers = 0 /\ ~Completed
    BY <1>11, OwnersUntouched DEF WriteReceipt
  <2> QED
    BY <1>0, <1>11, <2>1, <2>2 DEF WriteReceipt
<1>12. ASSUME NEW c \in Callers, Complete(c) PROVE PInv'
  <2>1. jobs # << >> /\ journal # NoFile
    BY <1>12, EmptySeq DEF Complete, OInv, OneOwner, RInv, HoldsOwnJob, JobFor
  <2>2. tampers = 0 /\ ~Completed
    BY <1>12, OwnersUntouched DEF Complete
  <2>3. journal' # NoFile
    BY <1>12, <2>1, JournalRecord DEF Complete, TypeOK, Written, Contents
  <2>4. \A d \in Callers : pc[d] \in Owning => d = c
    BY <1>12 DEF Complete, OInv, OneOwner
  <2>5. pc'[c] \in {"returned", "raised"} /\ \A d \in Callers : d # c => pc'[d] = pc[d]
    BY <1>0, <1>12 DEF Complete
  <2>6. UNCHANGED <<receipt, tampers, jobs, saved>>
    BY <1>12 DEF Complete
  <2> QED
    BY <1>0, <2>1, <2>2, <2>3, <2>4, <2>5, <2>6
<1>13. ASSUME NEW c \in Callers, Crash(c) PROVE PInv'
  BY <1>0, <1>13 DEF Crash
<1>14. CASE Tamper
  <2>1. \A c \in Callers : pc'[c] \in Ended
    BY <1>14 DEF Tamper
  <2>2. journal' # NoFile \/ receipt' # NoFile
    BY <1>14 DEF Tamper, Special
  <2>3. Completed' => receipt' # journal'.receipt
    <3>1. CASE journal' = journal /\ receipt' \in {NoFile, Damaged}
      <4>1. Completed => journal.receipt \in Nat
        BY JobNumbers DEF RInv, JournalTrue, JobFor
      <4> QED
        BY <3>1, <4>1 DEF Special
    <3>2. CASE journal' \in {Damaged, NoFile}
      BY <3>2 DEF IsJournal, Special
    <3> QED
      BY <1>14, <3>1, <3>2 DEF Tamper
  <2>4. jobs' = << >> /\ journal' # NoFile => receipt' = NoFile
    BY <1>14 DEF Tamper, Special
  <2> QED
    BY <2>1, <2>2, <2>3, <2>4 DEF Ended
<1>15. CASE UNCHANGED vars
  BY <1>15 DEF vars
<1> QED
  BY <1>1, <1>2, <1>3, <1>4, <1>5, <1>6, <1>7, <1>8, <1>9, <1>10, <1>11, <1>12,
     <1>13, <1>14, <1>15 DEF Next, Step

LEMMA PromiseInvInit == Init => PInv
  BY DEF Init, PInv, OwnersUnrecorded, NoOwnerOfLost, LostForGood, ReadersAreCurrent,
         UnusedPath, Owning

Safe == TypeOK /\ Written /\ OInv /\ RInv /\ PInv

LEMMA AllSafe == Spec => []Safe
  BY TypeInit, TypeStep, OwnershipInit, OwnershipStep, IdentityInit, IdentityStep,
     PromiseInvInit, PromiseInvStep, PTL DEF Spec, Safe

LEMMA FinalStep == Safe /\ [Next]_vars => [Completed /\ tampers' = tampers => journal' = journal]_vars
<1> SUFFICES ASSUME Safe, Next, Completed, tampers' = tampers, journal' # journal PROVE FALSE
  BY DEF vars
<1> USE DEF files, Goto
<1>1. ASSUME NEW c \in Callers, Reserve(c) PROVE FALSE
  BY <1>1 DEF Reserve, Completed, IsJournal, Special
<1>2. ASSUME NEW c \in Callers, WriteReservation(c) PROVE FALSE
  BY <1>2, OwnersUntouched DEF WriteReservation, Safe, Owning
<1>3. ASSUME NEW c \in Callers, Complete(c) PROVE FALSE
  BY <1>3, OwnersUntouched DEF Complete, Safe, Owning
<1>4. CASE Tamper
  BY <1>4 DEF Tamper, Safe, TypeOK
<1> QED
  BY <1>1, <1>2, <1>3, <1>4 DEF Next, Step, Call, ProbeJournal, ReadJournal, CheckReceipt,
     Restore, ProbeReceipt, Submit, CreateReceipt, WriteReceipt, Crash

(* No call, however late it fails or dies, changes a completed journal.      *)
THEOREM RecordIsFinal == Spec => CompletedJournalIsFinal
  BY AllSafe, FinalStep, PTL DEF Spec, CompletedJournalIsFinal, Completed
-----------------------------------------------------------------------------
(* The two files and their callers implement SubmitOnce. *)

\* The expressions Promise substitutes for SubmitOnce's variables.
Phase == CASE jobs = << >> /\ journal = NoFile -> "open"
           [] jobs = << >> /\ journal # NoFile -> "claimed"
           [] jobs # << >> /\ tampers > 0      -> "lost"
           [] OTHER -> IF IsJournal(journal) /\ journal.receipt # Unrecorded
                       THEN "recorded" ELSE "submitted"
Answer == [c \in Callers |-> IF pc[c] = "returned" THEN held[c] ELSE 0]
promised == <<Phase, jobs, req, Answer>>

\* A step that keeps the files and gives no caller a job changes no answer.
LEMMA QuietStep ==
  ASSUME UNCHANGED <<journal, jobs, req, tampers>>,
         \A c \in Callers : \/ pc'[c] = pc[c] /\ held'[c] = held[c]
                            \/ pc[c] # "returned" /\ pc'[c] # "returned"
  PROVE  UNCHANGED promised
<1>1. Answer' = Answer
  BY DEF Answer
<1>2. Phase' = Phase
  BY DEF Phase
<1> QED
  BY <1>1, <1>2 DEF promised

\* The only job there is is number 1.
LEMMA TheJob ==
  ASSUME Safe, NEW n, NEW r, JobFor(n, r) PROVE n = 1 /\ jobs[1] = r /\ jobs # << >>
<1>1. n \in 1..Len(jobs) /\ Len(jobs) <= 1 /\ Len(jobs) \in Nat
  BY LenProperties DEF Safe, TypeOK, OInv, AtMostOneSubmission, JobFor
<1>2. n = 1
  BY <1>1
<1> QED
  BY <1>1, <1>2, EmptySeq DEF JobFor

LEMMA PromiseStep ==
  ASSUME Safe, Safe', [Next]_vars PROVE [Promise!Next]_promised
<1> USE DEF Goto, files
<1>0. /\ pc \in [Callers -> Ended \cup Running]
      /\ held \in [Callers -> Nat] /\ req \in [Callers -> Requests]
      /\ jobs \in Seq(Requests) /\ tampers \in Nat
  BY DEF Safe, TypeOK
<1>1. ASSUME NEW c \in Callers, NEW r \in Requests, Call(c, r) PROVE Promise!Ask(c, r)
  <2>1. Phase' = Phase
    BY <1>1 DEF Call, Phase
  <2>2. Answer' = [Answer EXCEPT ![c] = 0]
    BY <1>0, <1>1 DEF Call, Answer
  <2> QED
    BY <1>1, <2>1, <2>2 DEF Call, Promise!Ask, Phase, Answer
<1>2. ASSUME NEW c \in Callers,
             \/ ProbeJournal(c) \/ ReadJournal(c) \/ CheckReceipt(c) \/ ProbeReceipt(c)
             \/ CreateReceipt(c) \/ WriteReceipt(c) \/ Crash(c)
      PROVE  UNCHANGED promised
  <2>1. UNCHANGED <<journal, jobs, req, tampers, held>>
    BY <1>2 DEF ProbeJournal, ReadJournal, CheckReceipt, ProbeReceipt, CreateReceipt,
                WriteReceipt, Crash
  <2>2. \A d \in Callers : pc'[d] = pc[d] \/ (pc[d] # "returned" /\ pc'[d] # "returned")
    BY <1>0, <1>2 DEF ProbeJournal, ReadJournal, CheckReceipt, ProbeReceipt, CreateReceipt,
                      WriteReceipt, Crash, Running
  <2> QED
    BY <2>1, <2>2, QuietStep
<1>3. ASSUME NEW c \in Callers, Restore(c) PROVE Promise!Restore(c) \/ UNCHANGED promised
  <2>1. UNCHANGED <<journal, jobs, req, tampers, receipt>> /\ pc[c] = "restore"
    BY <1>3 DEF Restore
  <2>2. CASE pc'[c] = "raised"
    <3>1. \A d \in Callers : d = c \/ (pc'[d] = pc[d] /\ held'[d] = held[d])
      BY <1>0, <1>3 DEF Restore
    <3> QED
      BY <2>1, <2>2, <3>1, QuietStep
  <2>3. CASE held' = [held EXCEPT ![c] = receipt] /\ Goto(c, "returned")
    <3>1. receipt = 1 /\ jobs[1] = req[c] /\ jobs # << >>
      BY <2>1, TheJob DEF Safe, RInv, ReadersSawTruth
    <3>2. Completed /\ tampers = 0
      BY <1>0, <2>1 DEF Safe, PInv, ReadersAreCurrent, LostForGood
    <3>3. Phase = "recorded" /\ Phase' = Phase
      BY <2>1, <3>1, <3>2 DEF Phase, Completed
    <3>4. Answer' = [Answer EXCEPT ![c] = 1]
      BY <1>0, <2>3, <3>1 DEF Answer
    <3> QED
      BY <2>1, <3>1, <3>3, <3>4 DEF Promise!Restore, Promise!GiveJob, Phase, Answer
  <2> QED
    BY <1>0, <1>3, <2>2, <2>3 DEF Restore
<1>4. ASSUME NEW c \in Callers, Reserve(c) PROVE Promise!Claim \/ UNCHANGED promised
  <2>1. UNCHANGED <<jobs, req, tampers, held>> /\ pc[c] = "reserve"
    BY <1>4 DEF Reserve
  <2>2. \A d \in Callers : pc'[d] = pc[d] \/ (pc[d] # "returned" /\ pc'[d] # "returned")
    BY <1>0, <1>4 DEF Reserve
  <2>3. Answer' = Answer
    BY <2>1, <2>2 DEF Answer
  <2>4. CASE journal = NoFile /\ journal' = Torn
    <3>1. jobs = << >>
      BY <2>1, <2>4 DEF Safe, OInv, NoJobYet
    <3>2. Phase = "open" /\ Phase' = "claimed"
      BY <2>1, <2>4, <3>1 DEF Phase
    <3> QED
      BY <2>1, <2>3, <3>2 DEF Promise!Claim, Phase, Answer
  <2>5. CASE journal' = journal
    BY <2>1, <2>2, <2>5, QuietStep
  <2> QED
    BY <1>4, <2>4, <2>5 DEF Reserve
<1>5. ASSUME NEW c \in Callers, WriteReservation(c) PROVE UNCHANGED promised
  <2>1. UNCHANGED <<jobs, req, tampers, held>> /\ pc[c] = "writeReservation"
    BY <1>5 DEF WriteReservation
  <2>2. \A d \in Callers : pc'[d] = pc[d] \/ (pc[d] # "returned" /\ pc'[d] # "returned")
    BY <1>0, <1>5 DEF WriteReservation
  <2>3. Answer' = Answer
    BY <2>1, <2>2 DEF Answer
  <2>4. jobs = << >> /\ journal # NoFile
    BY <2>1 DEF Safe, OInv, OneOwner, NoJobYet, Owning
  <2>5. journal' # NoFile
    BY <1>0, <1>5, <2>4, JournalRecord DEF WriteReservation
  <2>6. Phase = "claimed" /\ Phase' = "claimed"
    BY <2>1, <2>4, <2>5 DEF Phase
  <2> QED
    BY <2>1, <2>3, <2>6 DEF promised
<1>6. ASSUME NEW c \in Callers, Submit(c) PROVE Promise!Create(c) \/ UNCHANGED promised
  <2>1. UNCHANGED <<journal, req, tampers>> /\ pc[c] = "submit"
    BY <1>6 DEF Submit
  <2>2. /\ pc'[c] \in {"raised", "createReceipt"}
        /\ \A d \in Callers : d # c => pc'[d] = pc[d] /\ held'[d] = held[d]
    BY <1>0, <1>6 DEF Submit
  <2>3. Answer' = Answer
    BY <2>1, <2>2 DEF Answer
  <2>4. CASE jobs' = jobs
    BY <2>1, <2>2, <2>4, QuietStep
  <2>5. CASE jobs' = Append(jobs, req[c])
    <3>1. jobs = << >> /\ journal # NoFile /\ tampers = 0 /\ ~Completed
      BY <2>1, OwnersUntouched DEF Safe, OInv, OneOwner, NoJobYet, Owning
    <3>2. jobs' = <<req[c]>> /\ jobs' # << >>
      BY <2>5, <3>1
    <3>3. Phase = "claimed" /\ Phase' = "submitted"
      BY <2>1, <3>1, <3>2 DEF Phase, Completed
    <3> QED
      BY <2>1, <2>3, <3>2, <3>3 DEF Promise!Create, Phase, Answer
  <2> QED
    BY <1>6, <2>4, <2>5 DEF Submit
<1>7. ASSUME NEW c \in Callers, Complete(c) PROVE Promise!Record(c) \/ UNCHANGED promised
  <2>1. UNCHANGED <<jobs, req, tampers, held, receipt>> /\ pc[c] = "complete"
    BY <1>7 DEF Complete
  <2>2. CASE journal' = journal /\ Goto(c, "raised")
    BY <1>0, <2>1, <2>2, QuietStep
  <2>3. CASE journal' = Journal(req[c], receipt) /\ Goto(c, "returned")
    <3>1. held[c] = 1 /\ jobs[1] = req[c] /\ jobs # << >>
      BY <2>1, TheJob DEF Safe, RInv, HoldsOwnJob
    <3>2. tampers = 0 /\ ~Completed
      BY <2>1, OwnersUntouched DEF Safe, Owning
    <3>3. Completed'
      <4>1. receipt \in Nat /\ receipt # Unrecorded
        BY <2>1 DEF Safe, Written, Special
      <4> QED
        BY <1>0, <2>3, <4>1, JournalRecord DEF Completed, Contents
    <3>4. Phase = "submitted" /\ Phase' = "recorded"
      BY <2>1, <3>1, <3>2, <3>3 DEF Phase, Completed
    <3>5. Answer' = [Answer EXCEPT ![c] = 1]
      BY <1>0, <2>1, <2>3, <3>1 DEF Answer
    <3> QED
      BY <2>1, <3>1, <3>4, <3>5 DEF Promise!Record, Promise!GiveJob, Phase, Answer
  <2> QED
    BY <1>7, <2>2, <2>3 DEF Complete
<1>8. CASE Tamper
  <2>1. UNCHANGED <<jobs, pc, req, held>> /\ journal # NoFile /\ tampers' > 0
    BY <1>0, <1>8 DEF Tamper
  <2>2. Answer' = Answer
    BY <2>1 DEF Answer
  <2>3. CASE jobs = << >>
    <3>1. receipt = NoFile
      BY <2>1, <2>3 DEF Safe, PInv, UnusedPath
    <3>2. journal' # NoFile
      BY <1>8, <3>1 DEF Tamper, Special
    <3>3. Phase = "claimed" /\ Phase' = "claimed"
      BY <2>1, <2>3, <3>2 DEF Phase
    <3> QED
      BY <2>1, <2>2, <3>3 DEF promised
  <2>4. CASE jobs # << >>
    <3>1. Phase' = "lost" /\ Phase \in {"submitted", "recorded", "lost"}
      BY <2>1, <2>4 DEF Phase
    <3>2. CASE Phase = "lost"
      BY <2>1, <2>2, <3>1, <3>2 DEF promised
    <3>3. CASE Phase # "lost"
      BY <2>1, <2>2, <3>1, <3>3 DEF Promise!Next, Promise!Lose, Phase, Answer
    <3> QED
      BY <3>2, <3>3
  <2> QED
    BY <2>3, <2>4
<1>9. CASE UNCHANGED vars
  BY <1>9, QuietStep DEF vars
<1> QED
  BY <1>1, <1>2, <1>3, <1>4, <1>5, <1>6, <1>7, <1>8, <1>9 DEF Next, Step, Promise!Next

(* Every behaviour of the code is one of SubmitOnce: a path is claimed once, *)
(* a job is created under the claim, a caller is given it only when it is on *)
(* record and its own, and a lost record never yields a job again.           *)
THEOREM PromiseKept == Spec => KeepsPromise
<1>1. Init => Promise!Init
  BY DEF Init, Promise!Init
<1>2. Safe /\ Safe' /\ [Next]_vars => [Promise!Next]_promised
  BY PromiseStep
<1>3. [Promise!Next]_promised => [Promise!Next]_(Promise!vars)
  BY DEF Promise!vars, promised, Phase, Answer
<1> QED
  BY <1>1, <1>2, <1>3, AllSafe, PTL DEF Spec, KeepsPromise, Promise!Spec
=============================================================================
