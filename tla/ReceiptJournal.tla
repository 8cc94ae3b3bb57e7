--------------------------- MODULE ReceiptJournal ---------------------------
(***************************************************************************)
(* flagquantum/remote/_job_receipts.py: local exclusion of submissions.    *)
(*                                                                         *)
(* submit(..., receipt=path) either restores the job of an earlier call    *)
(* with the same request or contacts the provider exactly once.  Two files *)
(* decide which: the receipt (the provider's job, written by RemoteJob.save)*)
(* and the request journal next to it, created with O_EXCL before the      *)
(* provider is contacted and completed with the receipt's digest after.    *)
(*                                                                         *)
(* Callers are threads or processes that share the directory and may call  *)
(* again and again; each file operation and the call of the provider are   *)
(* steps of their own, a caller may die between any two of them, the       *)
(* provider may refuse, answer, or create a job whose answer is lost, and  *)
(* the user may damage or remove one of the two files between calls.       *)
(***************************************************************************)
EXTENDS Integers, Sequences

CONSTANTS
    Callers,      \* the threads or processes that call submit with this path
    Requests,     \* digests of submission configurations (request_digest)
    TargetOf,     \* the target a request names
    MaxTampers,   \* bound: how many times the user touches the two files
    NoFile,       \* the file does not exist
    Link,         \* the path is a symbolic link
    Torn,         \* the file exists and its content was never finished
    Damaged,      \* the file's content is not what the code wrote
    Unrecorded    \* the journal's receipt_sha256 is still null

Special == {NoFile, Link, Torn, Damaged, Unrecorded}

ASSUME SpecialAssumption ==
    /\ Special \cap Nat = {}
    /\ NoFile \notin {Link, Torn, Damaged, Unrecorded}
    /\ Link \notin {Torn, Damaged, Unrecorded}
    /\ Torn \notin {Damaged, Unrecorded}
    /\ Damaged # Unrecorded
ASSUME TampersAssumption == MaxTampers \in Nat

VARIABLES
    journal,   \* content of <receipt>.request.json
    receipt,   \* content of the receipt: a provider job's number, or special
    jobs,      \* provider: the request each created job was created for
    pc,        \* where each caller is in resume_or_submit
    req,       \* the identity each caller submits
    held,      \* the job number a caller holds (its handle or what it restored)
    saved,     \* the journal a resuming caller has read
    tampers    \* how many times the user has touched the files

vars == <<journal, receipt, jobs, pc, req, held, saved, tampers>>

Ended   == {"idle", "returned", "raised", "crashed"}
Running == {"probeJournal", "readJournal", "checkReceipt", "restore", "probeReceipt",
            "reserve", "writeReservation", "submit", "createReceipt", "writeReceipt",
            "complete"}

\* A receipt's digest is its content: SHA-256 collisions are left out.
Journal(r, digest) == [request |-> r, receipt |-> digest]
IsJournal(j) == j \notin Special
Contents == Nat \cup {Torn, Damaged, Link}
Journals == [request : Requests, receipt : Contents \cup {Unrecorded}]

ASSUME JournalsAssumption == Special \cap Journals = {}

Init ==
    /\ journal = NoFile
    /\ receipt \in {NoFile, Link}
    /\ jobs = << >>
    /\ pc = [c \in Callers |-> "idle"]
    /\ req \in [Callers -> Requests]
    /\ held = [c \in Callers |-> 0]
    /\ saved = [c \in Callers |-> NoFile]
    /\ tampers = 0

Goto(c, label) == pc' = [pc EXCEPT ![c] = label]

files == <<journal, receipt, tampers>>
-----------------------------------------------------------------------------
(* One step of resume_or_submit per operation on the files or the provider. *)

Call(c, r) ==
    /\ pc[c] \in Ended
    /\ Goto(c, "probeJournal")
    /\ req' = [req EXCEPT ![c] = r]
    /\ held' = [held EXCEPT ![c] = 0]
    /\ saved' = [saved EXCEPT ![c] = NoFile]
    /\ UNCHANGED <<files, jobs>>

ProbeJournal(c) ==
    /\ pc[c] = "probeJournal"
    /\ Goto(c, CASE receipt = Link                      -> "raised"
                 [] receipt # Link /\ journal # NoFile -> "readJournal"
                 [] OTHER                               -> "probeReceipt")
    /\ UNCHANGED <<files, jobs, req, held, saved>>

\* Deviation: the journal's identity is not compared with the request's.
ReadJournal_AnyRequest(c) ==
    /\ pc[c] = "readJournal"
    /\ saved' = [saved EXCEPT ![c] = journal]
    /\ Goto(c, IF IsJournal(journal) THEN "checkReceipt" ELSE "raised")
    /\ UNCHANGED <<files, jobs, req, held>>

\* _read_journal rejects what is not a complete journal; then the identity.
ReadJournal(c) ==
    /\ pc[c] = "readJournal"
    /\ saved' = [saved EXCEPT ![c] = journal]
    /\ Goto(c, IF IsJournal(journal) /\ journal.request = req[c]
               THEN "checkReceipt" ELSE "raised")
    /\ UNCHANGED <<files, jobs, req, held>>

CheckReceipt(c) ==
    /\ pc[c] = "checkReceipt"
    /\ Goto(c, IF /\ receipt # NoFile
                  /\ saved[c].receipt # Unrecorded
                  /\ receipt = saved[c].receipt
               THEN "restore" ELSE "raised")
    /\ UNCHANGED <<files, jobs, req, held, saved>>

\* restore(receipt) parses the file, and may fail for its own reasons.
Restore(c) ==
    /\ pc[c] = "restore"
    /\ \/ /\ receipt \in DOMAIN jobs
          /\ TargetOf[jobs[receipt]] = TargetOf[req[c]]
          /\ held' = [held EXCEPT ![c] = receipt]
          /\ Goto(c, "returned")
       \/ /\ Goto(c, "raised")
          /\ UNCHANGED held
    /\ UNCHANGED <<files, jobs, req, saved>>

ProbeReceipt(c) ==
    /\ pc[c] = "probeReceipt"
    /\ Goto(c, IF receipt = NoFile THEN "reserve" ELSE "raised")
    /\ UNCHANGED <<files, jobs, req, held, saved>>

\* Deviation: the journal is opened without O_EXCL.
Reserve_NoExcl(c) ==
    /\ pc[c] = "reserve"
    /\ journal' = Torn
    /\ Goto(c, "writeReservation")
    /\ UNCHANGED <<receipt, tampers, jobs, req, held, saved>>

\* Deviation: a caller waits for the owner of the reservation to go away.
Reserve_Waits(c) ==
    /\ pc[c] = "reserve"
    /\ journal = NoFile
    /\ journal' = Torn
    /\ Goto(c, "writeReservation")
    /\ UNCHANGED <<receipt, tampers, jobs, req, held, saved>>

Reserve(c) ==
    /\ pc[c] = "reserve"
    /\ IF journal = NoFile
       THEN journal' = Torn /\ Goto(c, "writeReservation")
       ELSE Goto(c, "raised") /\ UNCHANGED journal
    /\ UNCHANGED <<receipt, tampers, jobs, req, held, saved>>

WriteReservation(c) ==
    /\ pc[c] = "writeReservation"
    /\ \/ /\ journal' = Journal(req[c], Unrecorded)
          /\ Goto(c, "submit")
       \/ Goto(c, "raised") /\ UNCHANGED journal
    /\ UNCHANGED <<receipt, tampers, jobs, req, held, saved>>

\* Deviation: the reservation is cleaned up when submitter() raises.
Submit_CleansUp(c) ==
    /\ pc[c] = "submit"
    /\ \/ Goto(c, "raised") /\ journal' = NoFile /\ UNCHANGED <<jobs, held>>
       \/ /\ jobs' = Append(jobs, req[c])
          /\ \/ /\ held' = [held EXCEPT ![c] = Len(jobs')]
                /\ Goto(c, "createReceipt")
                /\ UNCHANGED journal
             \/ Goto(c, "raised") /\ journal' = NoFile /\ UNCHANGED held
    /\ UNCHANGED <<receipt, tampers, req, saved>>

\* submitter(): refused before a job exists, answered, or the answer is lost.
Submit(c) ==
    /\ pc[c] = "submit"
    /\ \/ Goto(c, "raised") /\ UNCHANGED <<jobs, held>>
       \/ /\ jobs' = Append(jobs, req[c])
          /\ \/ /\ held' = [held EXCEPT ![c] = Len(jobs')]
                /\ Goto(c, "createReceipt")
             \/ Goto(c, "raised") /\ UNCHANGED held
    /\ UNCHANGED <<files, req, saved>>

\* Deviation: a receipt that cannot be created is skipped.
CreateReceipt_Skipped(c) ==
    /\ pc[c] = "createReceipt"
    /\ \/ receipt = NoFile /\ receipt' = Torn /\ Goto(c, "writeReceipt")
       \/ Goto(c, "complete") /\ UNCHANGED receipt
    /\ UNCHANGED <<journal, tampers, jobs, req, held, saved>>

\* Deviation: the caller is given the job although nothing records it.
CreateReceipt_BestEffort(c) ==
    /\ pc[c] = "createReceipt"
    /\ \/ receipt = NoFile /\ receipt' = Torn /\ Goto(c, "writeReceipt")
       \/ Goto(c, "returned") /\ UNCHANGED receipt
    /\ UNCHANGED <<journal, tampers, jobs, req, held, saved>>

\* RemoteJob.save opens with O_EXCL, then writes.
CreateReceipt(c) ==
    /\ pc[c] = "createReceipt"
    /\ \/ /\ receipt = NoFile
          /\ receipt' = Torn
          /\ Goto(c, "writeReceipt")
       \/ Goto(c, "raised") /\ UNCHANGED receipt
    /\ UNCHANGED <<journal, tampers, jobs, req, held, saved>>

\* Deviation: the digest is taken before the receipt's content is written out.
WriteReceipt_Unflushed(c) ==
    /\ pc[c] = "writeReceipt"
    /\ Goto(c, "complete")
    /\ UNCHANGED <<files, jobs, req, held, saved>>

WriteReceipt(c) ==
    /\ pc[c] = "writeReceipt"
    /\ \/ receipt' = held[c] /\ Goto(c, "complete")
       \/ Goto(c, "raised") /\ UNCHANGED receipt
    /\ UNCHANGED <<journal, tampers, jobs, req, held, saved>>

\* _receipt_digest and _complete: the journal is replaced in one step.
Complete(c) ==
    /\ pc[c] = "complete"
    /\ \/ /\ journal' = Journal(req[c], receipt)
          /\ Goto(c, "returned")
       \/ Goto(c, "raised") /\ UNCHANGED journal
    /\ UNCHANGED <<receipt, tampers, jobs, req, held, saved>>

Crash(c) ==
    /\ pc[c] \in Running
    /\ Goto(c, "crashed")
    /\ UNCHANGED <<files, jobs, req, held, saved>>

\* The user loses or damages one of the two files while no call is running.
Tamper ==
    /\ tampers < MaxTampers
    /\ \A c \in Callers : pc[c] \in Ended
    /\ journal # NoFile
    /\ tampers' = tampers + 1
    /\ \/ receipt \in Nat /\ receipt' \in {NoFile, Damaged} /\ UNCHANGED journal
       \/ journal' = Damaged /\ UNCHANGED receipt
       \/ receipt # NoFile /\ journal' = NoFile /\ UNCHANGED receipt
    /\ UNCHANGED <<jobs, pc, req, held, saved>>

Step(c) ==
    \/ ProbeJournal(c) \/ ReadJournal(c) \/ CheckReceipt(c) \/ Restore(c)
    \/ ProbeReceipt(c) \/ Reserve(c) \/ WriteReservation(c) \/ Submit(c)
    \/ CreateReceipt(c) \/ WriteReceipt(c) \/ Complete(c)

Next ==
    \/ \E c \in Callers : Step(c) \/ Crash(c) \/ \E r \in Requests : Call(c, r)
    \/ Tamper

Spec == Init /\ [][Next]_vars

\* A running call never waits for anything but its own next operation.
FairSpec == Spec /\ \A c \in Callers : WF_vars(Step(c))
-----------------------------------------------------------------------------
(* Properties *)

TypeOK ==
    /\ journal \in Journals \cup {NoFile, Torn, Damaged}
    /\ receipt \in Contents \cup {NoFile}
    /\ jobs \in Seq(Requests)
    /\ pc \in [Callers -> Ended \cup Running]
    /\ req \in [Callers -> Requests]
    /\ held \in [Callers -> Nat]
    /\ saved \in [Callers -> Journals \cup {NoFile, Torn, Damaged}]
    /\ tampers \in Nat

\* However many callers race, crash, lose the provider's answer or find their
\* files damaged, one receipt path never costs more than one provider job
\* ("never retry remote submissions").
AtMostOneSubmission == Len(jobs) <= 1

\* A call that returns a job, fresh or restored, returns one the provider
\* created for exactly the configuration this call asked for.
ReturnedJobIsRequested ==
    \A c \in Callers : pc[c] = "returned" =>
        held[c] \in DOMAIN jobs /\ jobs[held[c]] = req[c]

\* A completed journal vouches for a receipt that is on disk, intact, and names
\* a job created for the journal's own request: the two files agree, so any
\* later call with that request restores (until the user touches the files).
CompletedJournalVouches ==
    (tampers = 0 /\ IsJournal(journal) /\ journal.receipt # Unrecorded) =>
        /\ receipt = journal.receipt
        /\ receipt \in DOMAIN jobs
        /\ jobs[receipt] = journal.request

\* A job may exist only after a reservation that every later call can see: no
\* crash leaves a job behind a directory that looks unused.
JobsAreReserved == jobs # << >> => journal # NoFile \/ receipt # NoFile

\* No step of the code, only the user, changes a completed journal: a call that
\* raced, failed or died later cannot undo the record of an earlier one.
CompletedJournalIsFinal ==
    [][ (IsJournal(journal) /\ journal.receipt # Unrecorded /\ tampers' = tampers)
            => journal' = journal ]_vars

\* Every call ends, whatever the other callers do: exclusion is by refusal and
\* never by waiting for the caller that owns the reservation.
EveryCallEnds == \A c \in Callers : pc[c] \in Running ~> pc[c] \in Ended

(* What the component promises its callers: SubmitOnce *)
Promise == INSTANCE SubmitOnce WITH
    phase   <- CASE jobs = << >> /\ journal = NoFile -> "open"
                 [] jobs = << >> /\ journal # NoFile -> "claimed"
                 [] jobs # << >> /\ tampers > 0      -> "lost"
                 [] OTHER -> IF IsJournal(journal) /\ journal.receipt # Unrecorded
                             THEN "recorded" ELSE "submitted",
    request <- jobs,
    ask     <- req,
    answer  <- [c \in Callers |-> IF pc[c] = "returned" THEN held[c] ELSE 0]

\* Every behaviour of the two files and the callers is one of SubmitOnce.
KeepsPromise == Promise!Spec

=============================================================================
