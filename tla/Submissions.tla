---------------------------- MODULE Submissions ----------------------------
(***************************************************************************)
(* One user's POST requests that submit a track to one live session, from  *)
(* the claim of the Idempotency-Key to the answer.                         *)
(*                                                                         *)
(* A request claims its key's record, checks eligibility outside of any    *)
(* transaction, asks Stripe for a PaymentIntent if the tier is paid,       *)
(* writes its rows in one transaction and releases the record.  Requests   *)
(* run concurrently; any step may fail, the release included, and the      *)
(* process may die between two steps.                                      *)
(*                                                                         *)
(* upgradeSubmission has the shape of the paid branch under a path of its  *)
(* own, and so under other records.                                        *)
(***************************************************************************)
EXTENDS Naturals, FiniteSets

CONSTANTS
    Requests,    \* the requests the user sends
    Keys,        \* Idempotency-Key headers
    Free, Paid,  \* request bodies, told apart by fingerprint
    None,
    MaxFree,     \* maxFreeSubmissionsPerUser, 0 for none
    MaxActive    \* activeEntryCapacityLimit, 0 for none

Bodies == {Free, Paid}

ASSUME BodiesAssumption == Free # Paid
ASSUME NoneAssumption   == None \notin Requests \cup Keys \cup Bodies
ASSUME LimitsAssumption == MaxFree \in Nat /\ MaxActive \in Nat

VARIABLES
    record,    \* ApiIdempotencyRecord of each key, status "NONE" if there is none
    request,   \* each request: how far it is, its key and body, whose answer it got
    intents,   \* requests Stripe made a PaymentIntent for
    rows,      \* requests whose transaction committed a submission
    active,    \* those of rows that are free and still in the line
    freeUsed,  \* UserLiveSubmissionUsage.freeUsedCount
    overlap    \* history: was a request ever sent before the others were over?

tables == <<intents, rows, active, freeUsed>>
vars   == <<record, request, tables, overlap>>

RecordStatus == {"NONE", "PROCESSING", "COMPLETED", "FAILED"}

\* Phases of a request that holds the claim, and of one that was answered
\* or whose process died.
Working == {"claimed", "eligible", "intended", "committed", "failing"}
Over    == {"made", "replayed", "conflict", "mismatch", "failed", "lost"}
Phases  == {"idle", "reclaiming"} \cup Working \cup Over

Record  == [status : RecordStatus, body : Bodies \cup {None}, response : Requests \cup {None}]
Request == [phase : Phases, key : Keys \cup {None}, body : Bodies \cup {None},
            got : Requests \cup {None}]

Init ==
    /\ record = [k \in Keys |-> [status |-> "NONE", body |-> None, response |-> None]]
    /\ request = [r \in Requests |-> [phase |-> "idle", key |-> None, body |-> None, got |-> None]]
    /\ intents = {} /\ rows = {} /\ active = {}
    /\ freeUsed = 0
    /\ overlap = FALSE

In(r, phase)  == request[r].phase = phase
To(r, phase)  == request' = [request EXCEPT ![r].phase = phase]
RecordOf(r)   == record[request[r].key]

-----------------------------------------------------------------------------
(* claimLock *)

Enters(r, k, b, phase) ==
    /\ In(r, "idle")
    /\ request' = [request EXCEPT ![r] = [phase |-> phase, key |-> k, body |-> b, got |-> None]]
    /\ UNCHANGED tables

\* The insert succeeds: (user, key, path) is unique.
ClaimNew(r, k, b) ==
    /\ record[k].status = "NONE"
    /\ record' = [record EXCEPT ![k] = [status |-> "PROCESSING", body |-> b, response |-> None]]
    /\ Enters(r, k, b, "claimed")

\* Mutant: a record that has been PROCESSING for long is taken over.
MutMeetProcessing(r, k, b) ==
    /\ record[k].status = "PROCESSING"
    /\ Enters(r, k, b, "claimed")
    /\ UNCHANGED record

\* The insert fails and the record is fetched.
MeetProcessing(r, k, b) ==
    /\ record[k].status = "PROCESSING"
    /\ Enters(r, k, b, "conflict")
    /\ UNCHANGED record

MeetFailed(r, k, b) ==
    /\ record[k].status = "FAILED"
    /\ Enters(r, k, b, "reclaiming")
    /\ UNCHANGED record

MeetCompleted(r, k, b) ==
    /\ record[k].status = "COMPLETED"
    /\ In(r, "idle")
    /\ request' = [request EXCEPT ![r] =
          IF record[k].body = b
          THEN [phase |-> "replayed", key |-> k, body |-> b, got |-> record[k].response]
          ELSE [phase |-> "mismatch", key |-> k, body |-> b, got |-> None]]
    /\ UNCHANGED <<record, tables>>

\* The update by id looks at the status no more.
Reclaim(r) ==
    /\ In(r, "reclaiming") /\ To(r, "claimed")
    /\ record' = [record EXCEPT ![request[r].key] =
                     [@ EXCEPT !.status = "PROCESSING", !.body = request[r].body]]
    /\ UNCHANGED tables

Claim(r, k, b) ==
    \/ ClaimNew(r, k, b) \/ MeetProcessing(r, k, b)
    \/ MeetFailed(r, k, b) \/ MeetCompleted(r, k, b)

-----------------------------------------------------------------------------
(* createSubmission *)

\* A limit of 0, like one that is not set, is no limit: it is tested for truth.
Below(n, limit)  == limit = 0 \/ n < limit
Within(n, limit) == limit = 0 \/ n <= limit

\* Mutant: the limits are reached one submission late.
MutCheckEligibility(r) ==
    /\ In(r, "claimed") /\ UNCHANGED <<record, tables>>
    /\ request[r].body = Free => Within(freeUsed, MaxFree) /\ Within(Cardinality(active), MaxActive)
    /\ To(r, "eligible")

\* Validation and getEligibility: reads outside of any transaction.
CheckEligibility(r) ==
    /\ In(r, "claimed") /\ UNCHANGED <<record, tables>>
    /\ request[r].body = Free => Below(freeUsed, MaxFree) /\ Below(Cardinality(active), MaxActive)
    /\ To(r, "eligible")

CreatePaymentIntent(r) ==
    /\ In(r, "eligible") /\ request[r].body = Paid
    /\ intents' = intents \cup {r}
    /\ To(r, "intended")
    /\ UNCHANGED <<record, rows, active, freeUsed>>

CommitFree(r) ==
    /\ In(r, "eligible") /\ request[r].body = Free
    /\ rows' = rows \cup {r} /\ active' = active \cup {r}
    /\ freeUsed' = freeUsed + 1
    /\ To(r, "committed")
    /\ UNCHANGED <<record, intents>>

CommitPaid(r) ==
    /\ In(r, "intended")
    /\ rows' = rows \cup {r}
    /\ To(r, "committed")
    /\ UNCHANGED <<record, intents, active, freeUsed>>

\* Mutant: the record is completed before the transaction.
MutComplete(r) ==
    /\ request[r].phase \in {"eligible", "committed"}
    /\ record' = [record EXCEPT ![request[r].key] =
                     [@ EXCEPT !.status = "COMPLETED", !.response = r]]
    /\ request' = [request EXCEPT ![r].phase = "made", ![r].got = r]
    /\ UNCHANGED tables

\* releaseLock(COMPLETED) with the response, and the response is sent.
Complete(r) ==
    /\ In(r, "committed")
    /\ record' = [record EXCEPT ![request[r].key] =
                     [@ EXCEPT !.status = "COMPLETED", !.response = r]]
    /\ request' = [request EXCEPT ![r].phase = "made", ![r].got = r]
    /\ UNCHANGED tables

\* Not eligible, no PaymentIntent, no commit, or the release above failed:
\* everything is in one try block.
Throw(r) ==
    /\ request[r].phase \in Working \ {"failing"}
    /\ To(r, "failing")
    /\ UNCHANGED <<record, tables>>

\* releaseLock(FAILED); it too may fail and leave the record as it is.
ReleaseFailed(r) ==
    /\ In(r, "failing") /\ To(r, "failed")
    /\ \/ record' = [record EXCEPT ![request[r].key] =
                        [@ EXCEPT !.status = "FAILED", !.response = None]]
       \/ UNCHANGED record
    /\ UNCHANGED tables

\* The process dies.
Die(r) ==
    /\ request[r].phase \in {"reclaiming"} \cup Working
    /\ To(r, "lost")
    /\ UNCHANGED <<record, tables>>

\* A free entry is played, skipped or removed.
LeaveLine(r) ==
    /\ r \in active /\ active' = active \ {r}
    /\ UNCHANGED <<record, request, intents, rows, freeUsed>>

-----------------------------------------------------------------------------
(* The specification *)

Step(r) ==
    \/ Reclaim(r) \/ CheckEligibility(r) \/ CreatePaymentIntent(r)
    \/ CommitFree(r) \/ CommitPaid(r) \/ Complete(r)
    \/ Throw(r) \/ ReleaseFailed(r) \/ Die(r) \/ LeaveLine(r)

\* Every request sent so far is over: a client that waits for its answers
\* sends the next one only then.
Quiet == \A r \in Requests : request[r].phase \in {"idle"} \cup Over

Send(r) ==
    /\ \E k \in Keys, b \in Bodies : Claim(r, k, b)
    /\ overlap' = (overlap \/ ~Quiet)

Proceed(r) == Step(r) /\ UNCHANGED overlap

Next == \E r \in Requests : Send(r) \/ Proceed(r)

Spec == Init /\ [][Next]_vars

-----------------------------------------------------------------------------
(* Properties *)

TypeOK ==
    /\ record \in [Keys -> Record]
    /\ request \in [Requests -> Request]
    /\ intents \in SUBSET Requests
    /\ rows \in SUBSET Requests
    /\ active \in SUBSET rows
    /\ freeUsed \in Nat
    /\ overlap \in BOOLEAN

With(k)    == {r \in Requests : request[r].key = k}
Holders(k) == {r \in With(k) : request[r].phase \in Working}

\* Until a request with the key has failed, only one request ever works
\* under it, makes a PaymentIntent and makes a submission, whatever dies.
FirstClaimExclusive ==
    \A k \in Keys :
        (\A r \in With(k) : request[r].phase # "failed") =>
            /\ Cardinality(Holders(k)) <= 1
            /\ Cardinality(intents \cap With(k)) <= 1
            /\ Cardinality(rows \cap With(k)) <= 1

\* What a request is told was made, now or by an earlier request with its
\* key, was committed.
AnswersAreReal ==
    \A r \in Requests :
        request[r].phase \in {"made", "replayed"} =>
            request[r].got \in rows \cap With(request[r].key)

\* A client that waits for its answers makes one submission with a key at
\* most, not counting those it was told had failed.
OncePerKey ==
    ~overlap => \A k \in Keys :
        Cardinality({r \in rows \cap With(k) : ~In(r, "failing") /\ ~In(r, "failed")}) <= 1

\* A client that waits for its answers stays within the free line's limits.
FreeLimits ==
    ~overlap => Within(freeUsed, MaxFree) /\ Within(Cardinality(active), MaxActive)

=============================================================================
