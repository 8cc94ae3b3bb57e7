\* Two callers, two requests, the user may touch the files once.
CONSTANTS
    c1 = c1
    c2 = c2
    r1 = r1
    r2 = r2
    qpu = qpu
    Callers = {c1, c2}
    Requests = {r1, r2}
    TargetOf <- MCTargetOf
    MaxTampers = 1
    NoFile = NoFile
    Link = Link
    Torn = Torn
    Damaged = Damaged
    Unrecorded = Unrecorded
SPECIFICATION FairSpec
INVARIANTS
    TypeOK
    AtMostOneSubmission
    ReturnedJobIsRequested
    CompletedJournalVouches
    JobsAreReserved
PROPERTIES
    CompletedJournalIsFinal
    EveryCallEnds
    KeepsPromise
