----------------------------- MODULE SubmitOnce -----------------------------
(***************************************************************************)
(* What submit(..., receipt=path) promises: a path is claimed once, at     *)
(* most one job is created under the claim, and a caller is given a job    *)
(* only when that job is recorded and was created for the caller's own     *)
(* request.  Once the record is lost the path never yields a job again.    *)
(***************************************************************************)
EXTENDS Integers, Sequences

CONSTANTS Callers, Requests

VARIABLES
    phase,     \* "open", "claimed", "submitted", "recorded" or "lost"
    request,   \* << >>, or the created job's request
    ask,       \* the request of each caller's call
    answer     \* 0, or the number of the job the caller was given

vars == <<phase, request, ask, answer>>

Init ==
    /\ phase = "open"
    /\ request = << >>
    /\ ask \in [Callers -> Requests]
    /\ answer = [c \in Callers |-> 0]

Ask(c, r) ==
    /\ ask' = [ask EXCEPT ![c] = r]
    /\ answer' = [answer EXCEPT ![c] = 0]
    /\ UNCHANGED <<phase, request>>

Claim ==
    /\ phase = "open"
    /\ phase' = "claimed"
    /\ UNCHANGED <<request, ask, answer>>

Create(c) ==
    /\ phase = "claimed"
    /\ phase' = "submitted"
    /\ request' = <<ask[c]>>
    /\ UNCHANGED <<ask, answer>>

GiveJob(c) == ask[c] = request[1] /\ answer' = [answer EXCEPT ![c] = 1]

Record(c) ==
    /\ phase = "submitted"
    /\ phase' = "recorded"
    /\ GiveJob(c)
    /\ UNCHANGED <<request, ask>>

Restore(c) ==
    /\ phase = "recorded"
    /\ GiveJob(c)
    /\ UNCHANGED <<phase, request, ask>>

Lose ==
    /\ phase \in {"submitted", "recorded"}
    /\ phase' = "lost"
    /\ UNCHANGED <<request, ask, answer>>

Next ==
    \/ Claim \/ Lose
    \/ \E c \in Callers : Create(c) \/ Record(c) \/ Restore(c)
    \/ \E c \in Callers, r \in Requests : Ask(c, r)

Spec == Init /\ [][Next]_vars
=============================================================================
