------------------------- MODULE SubmissionsProofs -------------------------
(* Theorems about Submissions, for every value of its constants. *)
EXTENDS Submissions, FiniteSetTheorems, TLAPS

USE BodiesAssumption, NoneAssumption, LimitsAssumption

-----------------------------------------------------------------------------
(* The inductive invariant *)

\* A request that was sent has a key and a body.
Sent ==
    \A r \in Requests :
        request[r].phase # "idle" => request[r].key \in Keys /\ request[r].body \in Bodies

\* A completed record holds the answer of a request that committed.
Recorded ==
    /\ \A k \in Keys : record[k].status = "COMPLETED" => record[k].response \in rows \cap With(k)
    /\ \A r \in Requests : request[r].phase = "committed" => r \in rows

\* Phases only a request that claimed the key can be in, unless it failed.
Started == Working \cup {"made", "lost"}

Unfailed(k) == \A r \in With(k) : request[r].phase # "failed"

\* A record is created by its first claim and opened again by a failure.
Traces ==
    /\ \A k \in Keys : record[k].status = "NONE" => With(k) = {}
    /\ \A k \in Keys : record[k].status = "FAILED" => ~Unfailed(k)
    /\ \A r \in Requests : request[r].phase = "reclaiming" => ~Unfailed(request[r].key)
    /\ \A r \in intents \cup rows : request[r].phase \in Started \cup {"failed"}

\* Until a request failed, the key has one claimant.
OneClaimant ==
    \A k \in Keys : Unfailed(k) =>
        \A q, r \in With(k) :
            request[q].phase \in Started /\ request[r].phase \in Started => q = r

Inv == TypeOK /\ Sent /\ Recorded /\ AnswersAreReal /\ Traces /\ OneClaimant

LEMMA InvInit == Init => Inv
<1>1. Init => overlap \in BOOLEAN
    BY DEF Init
<1> QED BY <1>1 DEF Init, Inv, TypeOK, Sent, Recorded, AnswersAreReal, Traces, OneClaimant,
       Record, Request, RecordStatus, Phases, Working, Over, With, Unfailed, Bodies

-----------------------------------------------------------------------------
(* A request is sent *)

\* What every way of meeting a record has in common: the request of one
\* idle row is replaced.
LEMMA InvEnters ==
    ASSUME Inv, NEW r \in Requests, NEW k \in Keys, NEW b \in Bodies,
           NEW new \in Request, new.key = k, new.body = b, new.phase # "idle",
           In(r, "idle"),
           request' = [request EXCEPT ![r] = new],
           UNCHANGED tables, overlap' \in BOOLEAN,
           record' \in [Keys -> Record],
           \/ /\ record[k].status = "NONE" /\ record'[k].status = "PROCESSING"
              /\ new.phase = "claimed"
              /\ \A l \in Keys \ {k} : record'[l] = record[l]
           \/ /\ record' = record /\ record[k].status # "NONE"
              /\ new.phase \notin Started \cup {"made"}
              /\ new.phase = "reclaiming" => record[k].status = "FAILED"
              /\ new.phase = "replayed" => record[k].status = "COMPLETED" /\ new.got = record[k].response
    PROVE  Inv'
<1> USE DEF Inv, In
<1>1. /\ request \in [Requests -> Request] /\ record \in [Keys -> Record]
      /\ request' \in [Requests -> Request] /\ request'[r] = new
      /\ \A q \in Requests \ {r} : request'[q] = request[q]
      /\ rows \subseteq Requests /\ intents \subseteq Requests
      /\ rows' = rows /\ intents' = intents
    BY DEF TypeOK, tables
<1>2. r \notin rows \cup intents
    BY DEF Traces, Started, Working
<1>3. TypeOK'
    BY <1>1 DEF TypeOK, tables
<1>4. Sent'
    BY <1>1 DEF Sent
<1>5. \A l \in Keys : /\ With(l) \ {r} = With(l)' \ {r}
                      /\ r \in With(l)' <=> l = k
    BY <1>1 DEF With
<1>6. Recorded' /\ AnswersAreReal'
    <2>1. new.phase \notin {"committed", "made"}
        BY DEF Started, Working
    <2>2. \A l \in Keys : rows \cap With(l) \subseteq rows' \cap With(l)'
        BY <1>1, <1>2, <1>5
    <2>3. Recorded'
        BY <1>1, <2>1, <2>2 DEF Recorded
    <2>4. \A q \in Requests : request[q].phase \in {"made", "replayed"} =>
            request[q].key \in Keys /\ request[q].got \in rows \cap With(request[q].key)
        BY DEF AnswersAreReal, Sent
    <2>5. new.phase = "replayed" => new.got \in rows \cap With(k)
        BY DEF Recorded
    <2>6. AnswersAreReal'
        BY <1>1, <2>1, <2>2, <2>4, <2>5 DEF AnswersAreReal
    <2> QED BY <2>3, <2>6
<1>7. \A l \in Keys : ~Unfailed(l) => ~Unfailed(l)'
    BY <1>1, <1>5 DEF Unfailed, With
<1>8. Traces'
    BY <1>1, <1>2, <1>5, <1>7 DEF Traces, Sent
<1>9. OneClaimant'
    <2> SUFFICES ASSUME NEW l \in Keys, Unfailed(l)', NEW p \in With(l)', NEW q \in With(l)',
                        request'[p].phase \in Started, request'[q].phase \in Started
                 PROVE  p = q
        BY DEF OneClaimant, Started
    <2>1. Unfailed(l)
        BY <1>7
    <2>2. CASE record[k].status = "NONE"
        BY <1>1, <1>5, <2>1, <2>2 DEF OneClaimant, Traces, With
    <2>3. CASE record[k].status # "NONE"
        BY <1>1, <1>5, <2>1, <2>3 DEF OneClaimant, With
    <2> QED BY <2>2, <2>3
<1> QED BY <1>3, <1>4, <1>6, <1>8, <1>9

LEMMA InvClaim ==
    ASSUME Inv, NEW r \in Requests, NEW k \in Keys, NEW b \in Bodies, Claim(r, k, b),
           overlap' \in BOOLEAN
    PROVE  Inv'
<1> USE DEF Inv
<1>1. record \in [Keys -> Record] /\ request \in [Requests -> Request]
    BY DEF TypeOK
<1>2. CASE ClaimNew(r, k, b)
    <2> DEFINE new == [phase |-> "claimed", key |-> k, body |-> b, got |-> None]
    <2>1. new \in Request
        BY DEF Request, Phases, Working
    <2>2. record' \in [Keys -> Record] /\ record'[k].status = "PROCESSING"
        BY <1>1, <1>2 DEF ClaimNew, Record, RecordStatus
    <2> QED BY <1>1, <1>2, <2>1, <2>2, InvEnters DEF ClaimNew, Enters
<1>3. CASE MeetProcessing(r, k, b)
    <2> DEFINE new == [phase |-> "conflict", key |-> k, body |-> b, got |-> None]
    <2>1. new \in Request /\ new.phase \notin Started
        BY DEF Request, Phases, Over, Started, Working
    <2> QED BY <1>1, <1>3, <2>1, InvEnters DEF MeetProcessing, Enters
<1>4. CASE MeetFailed(r, k, b)
    <2> DEFINE new == [phase |-> "reclaiming", key |-> k, body |-> b, got |-> None]
    <2>1. new \in Request /\ new.phase \notin Started
        BY DEF Request, Phases, Started, Working
    <2> QED BY <1>1, <1>4, <2>1, InvEnters DEF MeetFailed, Enters
<1>5. CASE MeetCompleted(r, k, b)
    <2>1. record[k].response \in Requests
        BY <1>5 DEF MeetCompleted, Recorded, With
    <2>2. CASE record[k].body = b
        <3> DEFINE new == [phase |-> "replayed", key |-> k, body |-> b, got |-> record[k].response]
        <3>1. new \in Request /\ new.phase \notin Started
            BY <2>1 DEF Request, Phases, Over, Started, Working
        <3>2. /\ new.key = k /\ new.body = b /\ new.phase = "replayed"
              /\ new.got = record[k].response
            OBVIOUS
        <3>3. /\ request' = [request EXCEPT ![r] = new]
              /\ record' = record /\ record[k].status = "COMPLETED"
              /\ In(r, "idle") /\ UNCHANGED tables
            BY <1>5, <2>2 DEF MeetCompleted
        <3> HIDE DEF new
        <3> QED BY <1>1, <3>1, <3>2, <3>3, InvEnters
    <2>3. CASE record[k].body # b
        <3> DEFINE new == [phase |-> "mismatch", key |-> k, body |-> b, got |-> None]
        <3>1. new \in Request /\ new.phase \notin Started
            BY DEF Request, Phases, Over, Started, Working
        <3> QED BY <1>1, <1>5, <2>3, <3>1, InvEnters DEF MeetCompleted
    <2> QED BY <2>2, <2>3
<1> QED BY <1>2, <1>3, <1>4, <1>5 DEF Claim

-----------------------------------------------------------------------------
(* A request goes on *)

\* The request r gets to a phase, and keeps its key and body.
Moves(r, phase) ==
    /\ request' \in [Requests -> Request]
    /\ request'[r].phase = phase
    /\ request'[r].key = request[r].key
    /\ phase = "made" => request'[r].got = r
    /\ request'[r].body = request[r].body
    /\ \A q \in Requests \ {r} : request'[q] = request[q]

LEMMA ToMoves ==
    ASSUME TypeOK, NEW r \in Requests, NEW phase \in Phases \ {"made"}, To(r, phase)
    PROVE  Moves(r, phase)
<1>1. request \in [Requests -> Request] /\ request[r] \in Request
    BY DEF TypeOK
<1>2. request' = [request EXCEPT ![r] = [request[r] EXCEPT !.phase = phase]]
    BY DEF To
<1>3. [request[r] EXCEPT !.phase = phase] \in Request
    BY <1>1 DEF Request
<1> QED BY <1>1, <1>2, <1>3 DEF Moves, Request

\* The record of the request's key may be opened, completed or failed.
Releases(r, phase) ==
    LET k == request[r].key
    IN  /\ record' \in [Keys -> Record]
        /\ \A l \in Keys \ {k} : record'[l] = record[l]
        /\ \/ record'[k] = record[k]
           \/ record'[k].status = "PROCESSING"
           \/ record'[k].status = "COMPLETED" /\ record'[k].response = r /\ r \in rows
           \/ record'[k].status = "FAILED" /\ phase = "failed"

\* What the steps of a request that was sent have in common.
LEMMA InvMoves ==
    ASSUME Inv, NEW r \in Requests, NEW phase \in Started \cup {"failed"},
           request[r].phase \in Started \/ ~Unfailed(request[r].key),
           request[r].phase \notin {"idle", "failed"},
           Moves(r, phase), Releases(r, phase),
           intents' \in SUBSET Requests, intents \subseteq intents', intents' \subseteq intents \cup {r},
           rows' \in SUBSET Requests, rows \subseteq rows', rows' \subseteq rows \cup {r},
           active' \in SUBSET rows', freeUsed' \in Nat, overlap' \in BOOLEAN,
           phase = "committed" => r \in rows',
           phase = "made" => r \in rows
    PROVE  Inv'
<1> USE DEF Inv, In
<1>0. PICK k \in Keys : k = request[r].key
    BY DEF Sent
<1>1. /\ request \in [Requests -> Request] /\ k \in Keys
      /\ request' \in [Requests -> Request]
      /\ \A q \in Requests \ {r} : request'[q] = request[q]
    BY <1>0 DEF TypeOK, Moves
<1>2. /\ request'[r].phase = phase /\ request'[r].key = k
      /\ phase = "made" => request'[r].got = r
      /\ request'[r].body = request[r].body
    BY <1>0 DEF Moves
<1>a. /\ record' \in [Keys -> Record]
      /\ \A l \in Keys \ {k} : record'[l] = record[l]
      /\ \/ record'[k] = record[k]
         \/ record'[k].status = "PROCESSING"
         \/ record'[k].status = "COMPLETED" /\ record'[k].response = r /\ r \in rows
         \/ record'[k].status = "FAILED" /\ phase = "failed"
    BY <1>0 DEF Releases
<1>b. phase \notin {"idle", "reclaiming", "replayed"}
    BY DEF Started, Working
<1>c. TypeOK'
    BY <1>1, <1>a DEF TypeOK
<1>3. \A l \in Keys : With(l)' = With(l)
    BY <1>0, <1>1, <1>2 DEF With
<1>4. r \in With(k)
    BY <1>0 DEF With
<1>5. Sent'
    BY <1>0, <1>1, <1>2 DEF Sent
<1>6. Recorded'
    BY <1>1, <1>2, <1>a, <1>3, <1>4 DEF Recorded
<1>7. AnswersAreReal'
    BY <1>1, <1>2, <1>b, <1>3, <1>4 DEF AnswersAreReal, Sent
<1>8. \A l \in Keys : ~Unfailed(l) => ~Unfailed(l)'
    BY <1>1, <1>2, <1>3 DEF Unfailed, With
<1>9. phase = "failed" => ~Unfailed(k)'
    BY <1>1, <1>2, <1>3, <1>4 DEF Unfailed
<1>10. Traces'
    <2>1. \A l \in Keys : record'[l].status = "NONE" => With(l)' = {}
        BY <1>1, <1>a, <1>3, <1>4 DEF Traces
    <2>2. \A l \in Keys : record'[l].status = "FAILED" => ~Unfailed(l)'
        BY <1>1, <1>a, <1>8, <1>9 DEF Traces
    <2>3. \A q \in Requests : request'[q].phase = "reclaiming" => ~Unfailed(request[q].key)'
        <3> SUFFICES ASSUME NEW q \in Requests, request'[q].phase = "reclaiming"
                     PROVE  ~Unfailed(request[q].key)'
            OBVIOUS
        <3>1. q # r /\ request'[q] = request[q]
            BY <1>1, <1>2, <1>b
        <3>2. request[q].key \in Keys /\ ~Unfailed(request[q].key)
            BY <3>1 DEF Traces, Sent
        <3>3. PICK l \in Keys : l = request[q].key
            BY <3>2
        <3> QED BY <1>8, <3>1, <3>2, <3>3
    <2>4. \A q \in intents' \cup rows' : request'[q].phase \in Started \cup {"failed"}
        BY <1>1, <1>2 DEF Traces, Started, Working
    <2> QED BY <2>1, <2>2, <2>3, <2>4 DEF Traces
<1>11. OneClaimant'
    <2> SUFFICES ASSUME NEW l \in Keys, Unfailed(l)', NEW p \in With(l)', NEW q \in With(l)',
                        request'[p].phase \in Started, request'[q].phase \in Started
                 PROVE  p = q
        BY DEF OneClaimant, Started
    <2>1. Unfailed(l) /\ p \in With(l) /\ q \in With(l) /\ p \in Requests /\ q \in Requests
        BY <1>3, <1>8 DEF With
    <2>2. \A x \in {p, q} : request[x].phase \in Started
        BY <1>0, <1>1, <2>1 DEF With
    <2> QED BY <2>1, <2>2 DEF OneClaimant
<1> QED BY <1>c, <1>5, <1>6, <1>7, <1>10, <1>11

\* Writing a row to the record of the request's key.
LEMMA WriteReleases ==
    ASSUME TypeOK, NEW r \in Requests, NEW phase, NEW row \in Record,
           request[r].key \in Keys,
           record' = [record EXCEPT ![request[r].key] = row],
           \/ row.status = "PROCESSING"
           \/ row.status = "COMPLETED" /\ row.response = r /\ r \in rows
           \/ row.status = "FAILED" /\ phase = "failed"
    PROVE  Releases(r, phase)
<1>1. record \in [Keys -> Record]
    BY DEF TypeOK
<1> QED BY <1>1 DEF Releases

LEMMA InvStep ==
    ASSUME Inv, NEW r \in Requests, Step(r), overlap' \in BOOLEAN
    PROVE  Inv'
<1> USE DEF Inv, In
<1>1. /\ record \in [Keys -> Record] /\ request \in [Requests -> Request]
      /\ intents \in SUBSET Requests /\ rows \in SUBSET Requests
      /\ active \in SUBSET rows /\ freeUsed \in Nat
    BY DEF TypeOK
<1>2. request[r].phase # "idle" => request[r].key \in Keys /\ request[r].body \in Bodies
    BY DEF Sent
<1>3. {"claimed", "eligible", "intended", "committed", "failing", "failed", "lost"}
        \subseteq (Started \cup {"failed"}) \cap (Phases \ {"made"})
    BY DEF Started, Working, Phases, Over
<1>4. record' = record => \A p : Releases(r, p)
    BY <1>1 DEF Releases
<1>6. CASE Reclaim(r)
    <2>1. Moves(r, "claimed")
        BY <1>3, <1>6, ToMoves DEF Reclaim
    <2>2. Releases(r, "claimed")
        <3> DEFINE row == [record[request[r].key] EXCEPT !.status = "PROCESSING",
                                                         !.body = request[r].body]
        <3>1. request[r].key \in Keys /\ request[r].body \in Bodies
            BY <1>2, <1>6 DEF Reclaim
        <3>2. row \in Record /\ row.status = "PROCESSING"
            BY <1>1, <3>1 DEF Record, RecordStatus
        <3>3. record' = [record EXCEPT ![request[r].key] = row]
            BY <1>6 DEF Reclaim
        <3> HIDE DEF row
        <3> QED BY <3>1, <3>2, <3>3, WriteReleases
    <2>3. request[r].phase = "reclaiming" /\ ~Unfailed(request[r].key)
        BY <1>6 DEF Reclaim, Traces
    <2> QED BY <1>1, <1>3, <1>6, <2>1, <2>2, <2>3, InvMoves DEF Reclaim, tables
<1>7. CASE CheckEligibility(r)
    <2>1. Moves(r, "eligible")
        BY <1>3, <1>7, ToMoves DEF CheckEligibility
    <2>2. request[r].phase = "claimed" /\ request[r].phase \in Started
        BY <1>7 DEF CheckEligibility, Started, Working
    <2> QED BY <1>1, <1>3, <1>4, <1>7, <2>1, <2>2, InvMoves DEF CheckEligibility, tables
<1>8. CASE CreatePaymentIntent(r)
    <2>1. Moves(r, "intended")
        BY <1>3, <1>8, ToMoves DEF CreatePaymentIntent
    <2>2. request[r].phase = "eligible" /\ request[r].phase \in Started
        BY <1>8 DEF CreatePaymentIntent, Started, Working
    <2> QED BY <1>1, <1>3, <1>4, <1>8, <2>1, <2>2, InvMoves DEF CreatePaymentIntent
<1>9. CASE CommitFree(r)
    <2>1. Moves(r, "committed")
        BY <1>3, <1>9, ToMoves DEF CommitFree
    <2>2. request[r].phase = "eligible" /\ request[r].phase \in Started
        BY <1>9 DEF CommitFree, Started, Working
    <2> QED BY <1>1, <1>3, <1>4, <1>9, <2>1, <2>2, InvMoves DEF CommitFree
<1>10. CASE CommitPaid(r)
    <2>1. Moves(r, "committed")
        BY <1>3, <1>10, ToMoves DEF CommitPaid
    <2>2. request[r].phase = "intended" /\ request[r].phase \in Started
        BY <1>10 DEF CommitPaid, Started, Working
    <2> QED BY <1>1, <1>3, <1>4, <1>10, <2>1, <2>2, InvMoves DEF CommitPaid
<1>11. CASE Complete(r)
    <2>1. Moves(r, "made")
        <3>1. request' = [request EXCEPT ![r] = [request[r] EXCEPT !.phase = "made", !.got = r]]
            BY <1>11 DEF Complete
        <3>2. request[r] \in Request
            BY <1>1
        <3>3. [request[r] EXCEPT !.phase = "made", !.got = r] \in Request
            BY <3>2 DEF Request, Phases, Over
        <3> QED BY <1>1, <3>1, <3>2, <3>3 DEF Moves, Request
    <2>2. request[r].phase = "committed" /\ request[r].phase \in Started /\ r \in rows
        BY <1>11 DEF Complete, Started, Working, Recorded
    <2>3. Releases(r, "made")
        <3> DEFINE row == [record[request[r].key] EXCEPT !.status = "COMPLETED", !.response = r]
        <3>1. request[r].key \in Keys
            BY <1>2, <2>2
        <3>2. row \in Record /\ row.status = "COMPLETED" /\ row.response = r
            BY <1>1, <3>1 DEF Record, RecordStatus
        <3>3. record' = [record EXCEPT ![request[r].key] = row]
            BY <1>11 DEF Complete
        <3> HIDE DEF row
        <3> QED BY <2>2, <3>1, <3>2, <3>3, WriteReleases
    <2>4. "made" \in Started
        BY DEF Started
    <2> QED BY <1>1, <1>11, <2>1, <2>2, <2>3, <2>4, InvMoves DEF Complete, tables
<1>12. CASE Throw(r)
    <2>1. Moves(r, "failing")
        BY <1>3, <1>12, ToMoves DEF Throw
    <2>2. request[r].phase \notin {"idle", "failed"} /\ request[r].phase \in Started
        BY <1>12 DEF Throw, Started, Working
    <2> QED BY <1>1, <1>3, <1>4, <1>12, <2>1, <2>2, InvMoves DEF Throw, tables
<1>13. CASE ReleaseFailed(r)
    <2>1. Moves(r, "failed")
        BY <1>3, <1>13, ToMoves DEF ReleaseFailed
    <2>2. request[r].phase = "failing" /\ request[r].phase \in Started
        BY <1>13 DEF ReleaseFailed, Started, Working
    <2>3. Releases(r, "failed")
        <3> DEFINE row == [record[request[r].key] EXCEPT !.status = "FAILED", !.response = None]
        <3>1. request[r].key \in Keys
            BY <1>2, <2>2
        <3>2. row \in Record /\ row.status = "FAILED"
            BY <1>1, <3>1 DEF Record, RecordStatus
        <3>3. record' = [record EXCEPT ![request[r].key] = row] \/ record' = record
            BY <1>13 DEF ReleaseFailed
        <3> HIDE DEF row
        <3> QED BY <1>4, <3>1, <3>2, <3>3, WriteReleases
    <2> QED BY <1>1, <1>3, <1>13, <2>1, <2>2, <2>3, InvMoves DEF ReleaseFailed, tables
<1>14. CASE Die(r)
    <2>1. Moves(r, "lost")
        BY <1>3, <1>14, ToMoves DEF Die
    <2>2. /\ request[r].phase \notin {"idle", "failed"}
          /\ request[r].phase \in Started \/ ~Unfailed(request[r].key)
        BY <1>14 DEF Die, Started, Working, Traces
    <2> QED BY <1>1, <1>3, <1>4, <1>14, <2>1, <2>2, InvMoves DEF Die, tables
<1>15. CASE LeaveLine(r)
    BY <1>15 DEF LeaveLine, TypeOK, Sent, Recorded, AnswersAreReal, Traces, OneClaimant,
                 Unfailed, With
<1> QED BY <1>6, <1>7, <1>8, <1>9, <1>10, <1>11, <1>12, <1>13, <1>14, <1>15 DEF Step

LEMMA InvNext == Inv /\ [Next]_vars => Inv'
<1>1. ASSUME Inv, UNCHANGED vars PROVE Inv'
    BY <1>1 DEF Inv, vars, tables, TypeOK, Sent, Recorded, AnswersAreReal, Traces, OneClaimant,
                Unfailed, With
<1>2. ASSUME Inv, NEW r \in Requests, Send(r) PROVE Inv'
    <2>1. overlap' \in BOOLEAN
        BY <1>2 DEF Send
    <2> QED BY <1>2, <2>1, InvClaim DEF Send
<1>3. ASSUME Inv, NEW r \in Requests, Proceed(r) PROVE Inv'
    <2>1. overlap' \in BOOLEAN
        BY <1>3 DEF Proceed, Inv, TypeOK
    <2> QED BY <1>3, <2>1, InvStep DEF Proceed
<1> QED BY <1>1, <1>2, <1>3 DEF Next

LEMMA InvAlways == Spec => []Inv
BY InvInit, InvNext, PTL DEF Spec

-----------------------------------------------------------------------------
(* The theorems *)

\* The idempotency records, the requests and the rows keep their types.
THEOREM Typed == Spec => []TypeOK
BY InvAlways, PTL DEF Inv

\* Whatever requests race, fail or die, an answer names a submission that
\* was committed under the key of the request that gets it.
THEOREM OnlyRealAnswers == Spec => []AnswersAreReal
BY InvAlways, PTL DEF Inv

\* A set whose elements are all equal has at most one.
LEMMA AtMostOne ==
    ASSUME NEW S, \A x, y \in S : x = y
    PROVE  Cardinality(S) <= 1
<1>1. CASE S = {}
    BY <1>1, FS_EmptySet
<1>2. CASE S # {}
    <2>1. PICK x : x \in S
        BY <1>2
    <2>2. S = {x}
        BY <2>1
    <2> QED BY <2>2, FS_Singleton
<1> QED BY <1>1, <1>2

\* Until a request with the key has failed, one request at most works under
\* a key, asks Stripe for money or makes a submission.
THEOREM OneClaimUntilFailure == Spec => []FirstClaimExclusive
<1>1. Inv => FirstClaimExclusive
    <2> SUFFICES ASSUME Inv, NEW k \in Keys, \A r \in With(k) : request[r].phase # "failed"
                 PROVE  /\ Cardinality(Holders(k)) <= 1
                        /\ Cardinality(intents \cap With(k)) <= 1
                        /\ Cardinality(rows \cap With(k)) <= 1
        BY DEF FirstClaimExclusive
    <2>1. \A q, r \in With(k) :
            request[q].phase \in Started /\ request[r].phase \in Started => q = r
        BY DEF Inv, OneClaimant, Unfailed
    <2>2. \A r \in (intents \cup rows) \cap With(k) : request[r].phase \in Started
        BY DEF Inv, Traces
    <2>3. \A q, r \in Holders(k) : q = r
        BY <2>1 DEF Holders, Started
    <2>4. \A q, r \in (intents \cup rows) \cap With(k) : q = r
        BY <2>1, <2>2
    <2> QED BY <2>3, <2>4, AtMostOne
<1> QED BY <1>1, InvAlways, PTL

-----------------------------------------------------------------------------
(* A client that waits for its answers *)

\* Phases of a request that is not over, and of one before its transaction.
Busy  == Working \cup {"reclaiming"}
Fresh == {"claimed", "eligible", "intended"}

\* Submissions whose request was not told that it failed.
Kept == {r \in rows : request[r].phase # "failed"}

FreshHasNoRow == \A r \in Requests : request[r].phase \in Fresh => r \notin rows

\* One request is busy at a time, and the record of its key is PROCESSING
\* once it claimed it.
OneBusy ==
    /\ \A q, r \in Requests :
          request[q].phase \in Busy /\ request[r].phase \in Busy => q = r
    /\ \A r \in Requests :
          request[r].phase \in Working => record[request[r].key].status = "PROCESSING"

\* Under the key of a submission that is kept no other request makes one,
\* nor will: its record turns every request away.
KeptAlone ==
    \A r \in Kept :
        /\ record[request[r].key].status \in {"PROCESSING", "COMPLETED"}
        /\ \A q \in Requests :
              request[q].key = request[r].key /\ (q \in Kept \/ request[q].phase \in Busy) => q = r

Sequential == FreshHasNoRow /\ (~overlap => OneBusy /\ KeptAlone)

\* A request is sent when all others are over.
LEMMA SequentialSend ==
    ASSUME Inv, Sequential, NEW r \in Requests, Send(r)
    PROVE  Sequential'
<1>1. PICK k \in Keys, b \in Bodies : Claim(r, k, b)
    BY DEF Send
<1>2. PICK new \in Request :
        /\ new.key = k /\ request' = [request EXCEPT ![r] = new]
        /\ \/ /\ new.phase = "claimed" /\ record[k].status = "NONE"
              /\ record'[k].status = "PROCESSING"
              /\ \A l \in Keys \ {k} : record'[l] = record[l]
           \/ new.phase = "reclaiming" /\ record[k].status = "FAILED" /\ record' = record
           \/ new.phase \in Over /\ record' = record
    <2>1. record \in [Keys -> Record] /\ request \in [Requests -> Request] /\ request' \in [Requests -> Request]
        BY <1>1, InvClaim DEF Inv, TypeOK, Send
    <2>2. request'[r] \in Request /\ request' = [request EXCEPT ![r] = request'[r]]
          /\ request'[r].key = k
        BY <1>1, <2>1 DEF Claim, ClaimNew, MeetProcessing, MeetFailed, MeetCompleted, Enters
    <2>3. \/ /\ request'[r].phase = "claimed" /\ record[k].status = "NONE"
             /\ record'[k].status = "PROCESSING"
             /\ \A l \in Keys \ {k} : record'[l] = record[l]
          \/ request'[r].phase = "reclaiming" /\ record[k].status = "FAILED" /\ record' = record
          \/ request'[r].phase \in Over /\ record' = record
        BY <1>1, <2>1 DEF Claim, ClaimNew, MeetProcessing, MeetFailed, MeetCompleted, Enters, Over
    <2> QED BY <2>2, <2>3
<1>3. /\ request \in [Requests -> Request] /\ request'[r] = new
      /\ \A q \in Requests \ {r} : request'[q] = request[q]
      /\ request[r].phase = "idle" /\ rows' = rows /\ rows \subseteq Requests
    BY <1>1, <1>2 DEF Inv, TypeOK, Claim, ClaimNew, MeetProcessing, MeetFailed, MeetCompleted,
                      Enters, In, tables
<1>4. r \notin rows
    BY <1>3 DEF Inv, Traces, Started, Working
<1>5. Kept' = Kept /\ r \notin Kept
    BY <1>3, <1>4 DEF Kept
<1>6. FreshHasNoRow'
    BY <1>3, <1>4 DEF Sequential, FreshHasNoRow
<1>7. ASSUME ~overlap' PROVE OneBusy' /\ KeptAlone'
    <2>1. /\ ~overlap /\ OneBusy /\ KeptAlone
          /\ \A q \in Requests : request[q].phase \notin Busy
        BY <1>7 DEF Send, Quiet, Over, Busy, Working, Sequential
    <2>2. OneBusy'
        BY <1>2, <1>3, <2>1 DEF OneBusy, Busy, Over, Working
    <2>3. \A q \in Kept : q \in Requests /\ request[q].key \in Keys
        BY <1>3 DEF Kept, Inv, Traces, Sent, Started, Working
    <2>4. \A q \in Kept : request[q].key = k => record' = record /\ new.phase \in Over
        BY <1>2, <2>1 DEF KeptAlone
    <2>5. \A q \in Kept : record'[request[q].key].status \in {"PROCESSING", "COMPLETED"}
        BY <1>2, <2>1, <2>3, <2>4 DEF KeptAlone
    <2>6. KeptAlone'
        BY <1>2, <1>3, <1>5, <2>1, <2>4, <2>5 DEF KeptAlone, Kept, Over, Busy, Working
    <2> QED BY <2>2, <2>6
<1> QED BY <1>6, <1>7 DEF Sequential

\* What a step of the busy request keeps.
LEMMA SequentialMoves ==
    ASSUME Inv, Sequential, NEW r \in Requests, NEW phase, Moves(r, phase),
           overlap' = overlap, request[r].phase \in Busy, phase \notin {"idle", "reclaiming"},
           \A l \in Keys \ {request[r].key} : record'[l] = record[l],
           phase \in Working =>
              \/ record'[request[r].key].status = "PROCESSING"
              \/ record' = record /\ request[r].phase \in Working,
           phase # "failed" =>
              \/ record'[request[r].key].status \in {"PROCESSING", "COMPLETED"}
              \/ record' = record,
           phase \in Fresh => request[r].phase \in Fresh \cup {"reclaiming"},
           rows' = rows \/ (rows' = rows \cup {r} /\ request[r].phase \in Fresh /\ phase = "committed")
    PROVE  Sequential'
<1>1. /\ request \in [Requests -> Request] /\ rows \subseteq Requests
      /\ request'[r].phase = phase /\ request'[r].key = request[r].key
      /\ \A q \in Requests \ {r} : request'[q] = request[q]
    BY DEF Inv, TypeOK, Moves
<1>2. request[r].phase = "reclaiming" => r \notin rows
    BY DEF Inv, Traces, Started, Working
<1>3. FreshHasNoRow'
    BY <1>1, <1>2 DEF Sequential, FreshHasNoRow, Fresh
<1>4. ASSUME ~overlap PROVE OneBusy' /\ KeptAlone'
    <2>1. OneBusy /\ KeptAlone
        BY <1>4 DEF Sequential
    <2>2. \A q \in Requests : q # r => request[q].phase \notin Busy /\ request'[q].phase \notin Busy
        BY <1>1, <2>1 DEF OneBusy
    <2>3. request[r].phase \in Working => record[request[r].key].status = "PROCESSING"
        BY <2>1 DEF OneBusy
    <2>4. phase \in Working => record'[request[r].key].status = "PROCESSING"
        BY <2>3 DEF Busy
    <2>5. OneBusy'
        BY <1>1, <2>2, <2>4 DEF OneBusy, Busy
    <2>6. \A q \in Kept : q # r => request[q].key # request[r].key
        BY <2>1 DEF KeptAlone
    <2>7. \A q \in Kept' : q # r => q \in Kept
        BY <1>1 DEF Kept
    <2>8. \A q \in Kept : q \in Requests /\ request[q].key \in Keys
        BY <1>1 DEF Kept, Inv, Traces, Sent, Started, Working
    <2>9. r \in Kept' => record'[request[r].key].status \in {"PROCESSING", "COMPLETED"}
        BY <1>1, <1>2, <2>1, <2>3 DEF Kept, KeptAlone, Busy, Working
    <2>10. \A q \in Kept' : record'[request'[q].key].status \in {"PROCESSING", "COMPLETED"}
        BY <1>1, <2>1, <2>6, <2>7, <2>8, <2>9 DEF KeptAlone
    <2>11. ASSUME NEW p \in Kept', NEW q \in Requests, request'[q].key = request'[p].key,
                  q \in Kept' \/ request'[q].phase \in Busy, q # p
           PROVE  FALSE
        <3>1. CASE p = r
            BY <1>1, <2>2, <2>6, <2>7, <2>11, <3>1
        <3>2. CASE q = r
            BY <1>1, <2>6, <2>7, <2>8, <2>11, <3>2
        <3>3. CASE p # r /\ q # r
            BY <1>1, <2>1, <2>7, <2>8, <2>11, <3>3 DEF KeptAlone
        <3> QED BY <3>1, <3>2, <3>3
    <2>12. KeptAlone'
        BY <2>10, <2>11 DEF KeptAlone
    <2> QED BY <2>5, <2>12
<1> QED BY <1>3, <1>4 DEF Sequential

LEMMA SequentialStep ==
    ASSUME Inv, Sequential, NEW r \in Requests, Proceed(r)
    PROVE  Sequential'
<1> USE DEF In, tables
<1>1. /\ TypeOK /\ overlap' = overlap
      /\ record \in [Keys -> Record] /\ request \in [Requests -> Request]
      /\ request[r].phase # "idle" => request[r].key \in Keys /\ request[r].body \in Bodies
    BY DEF Inv, TypeOK, Sent, Proceed
<1>2. \A l \in Keys \ {request[r].key} : record'[l] = record[l]
    BY <1>1 DEF Proceed, Step, Reclaim, CheckEligibility, CreatePaymentIntent, CommitFree,
                CommitPaid, Complete, Throw, ReleaseFailed, Die, LeaveLine
<1>3. {"claimed", "eligible", "intended", "committed", "failing", "failed", "lost"}
        \subseteq Phases \ {"made", "idle", "reclaiming"}
    BY DEF Working, Phases, Over
<1>4. CASE Reclaim(r)
    <2>1. Moves(r, "claimed")
        BY <1>1, <1>3, <1>4, ToMoves DEF Reclaim
    <2>2. record'[request[r].key].status = "PROCESSING"
        BY <1>1, <1>4 DEF Reclaim, Record
    <2> QED BY <1>1, <1>2, <1>4, <2>1, <2>2, SequentialMoves DEF Reclaim, Busy, Fresh
<1>5. CASE CheckEligibility(r)
    <2>1. Moves(r, "eligible")
        BY <1>1, <1>3, <1>5, ToMoves DEF CheckEligibility
    <2> QED BY <1>1, <1>2, <1>5, <2>1, SequentialMoves DEF CheckEligibility, Busy, Fresh, Working
<1>6. CASE CreatePaymentIntent(r)
    <2>1. Moves(r, "intended")
        BY <1>1, <1>3, <1>6, ToMoves DEF CreatePaymentIntent
    <2> QED BY <1>1, <1>2, <1>6, <2>1, SequentialMoves DEF CreatePaymentIntent, Busy, Fresh, Working
<1>7. CASE CommitFree(r) \/ CommitPaid(r)
    <2>1. Moves(r, "committed")
        BY <1>1, <1>3, <1>7, ToMoves DEF CommitFree, CommitPaid
    <2> QED BY <1>1, <1>2, <1>7, <2>1, SequentialMoves DEF CommitFree, CommitPaid, Busy, Fresh, Working
<1>8. CASE Complete(r)
    <2>1. Moves(r, "made")
        <3>1. request' = [request EXCEPT ![r] = [request[r] EXCEPT !.phase = "made", !.got = r]]
            BY <1>8 DEF Complete
        <3>2. [request[r] EXCEPT !.phase = "made", !.got = r] \in Request
            BY <1>1 DEF Request, Phases, Over
        <3> QED BY <1>1, <3>1, <3>2 DEF Moves, Request
    <2>2. record'[request[r].key].status = "COMPLETED"
        BY <1>1, <1>8 DEF Complete, Record
    <2> QED BY <1>1, <1>2, <1>8, <2>1, <2>2, SequentialMoves DEF Complete, Busy, Fresh, Working
<1>9. CASE Throw(r)
    <2>1. Moves(r, "failing")
        BY <1>1, <1>3, <1>9, ToMoves DEF Throw
    <2> QED BY <1>1, <1>2, <1>9, <2>1, SequentialMoves DEF Throw, Busy, Fresh, Working
<1>10. CASE ReleaseFailed(r)
    <2>1. Moves(r, "failed")
        BY <1>1, <1>3, <1>10, ToMoves DEF ReleaseFailed
    <2> QED BY <1>1, <1>2, <1>10, <2>1, SequentialMoves DEF ReleaseFailed, Busy, Fresh, Working
<1>11. CASE Die(r)
    <2>1. Moves(r, "lost")
        BY <1>1, <1>3, <1>11, ToMoves DEF Die
    <2> QED BY <1>1, <1>2, <1>11, <2>1, SequentialMoves DEF Die, Busy, Fresh, Working
<1>12. CASE LeaveLine(r)
    BY <1>1, <1>12 DEF LeaveLine, Sequential, FreshHasNoRow, OneBusy, KeptAlone, Kept
<1> QED BY <1>4, <1>5, <1>6, <1>7, <1>8, <1>9, <1>10, <1>11, <1>12 DEF Proceed, Step

\* The free line holds finitely many entries, and a request found eligible
\* finds the room it was promised when it commits.
Room ==
    /\ IsFiniteSet(active)
    /\ ~overlap =>
        /\ Within(freeUsed, MaxFree) /\ Within(Cardinality(active), MaxActive)
        /\ \A r \in Requests :
              request[r].phase = "eligible" /\ request[r].body = Free =>
                 Below(freeUsed, MaxFree) /\ Below(Cardinality(active), MaxActive)

\* A step that leaves the line alone or takes an entry out, and finds no
\* request eligible without looking.
LEMMA RoomKeeps ==
    ASSUME TypeOK, Room, active' \in SUBSET active, freeUsed' = freeUsed, overlap' = FALSE => ~overlap,
           overlap' \in BOOLEAN,
           \A r \in Requests :
              request'[r].phase = "eligible" /\ request'[r].body = Free =>
                 \/ request[r].phase = "eligible" /\ request[r].body = Free
                 \/ Below(freeUsed, MaxFree) /\ Below(Cardinality(active), MaxActive)
    PROVE  Room'
<1>1. IsFiniteSet(active') /\ Cardinality(active') <= Cardinality(active)
    BY FS_Subset DEF Room
<1>2. Cardinality(active) \in Nat /\ Cardinality(active') \in Nat
    BY <1>1, FS_CardinalityType DEF Room
<1>3. ~overlap' => Within(freeUsed', MaxFree) /\ Within(Cardinality(active'), MaxActive)
    BY <1>1, <1>2, LimitsAssumption DEF Room, Within
<1>4. \A r \in Requests :
         ~overlap' /\ request'[r].phase = "eligible" /\ request'[r].body = Free =>
            Below(freeUsed', MaxFree) /\ Below(Cardinality(active'), MaxActive)
    BY <1>1, <1>2, LimitsAssumption DEF Room, Below
<1> QED BY <1>1, <1>3, <1>4 DEF Room

LEMMA RoomStep ==
    ASSUME Inv, Sequential, Room, NEW r \in Requests, Proceed(r)
    PROVE  Room'
<1> USE DEF In, tables
<1>1. /\ TypeOK /\ overlap' = overlap /\ overlap \in BOOLEAN
      /\ request \in [Requests -> Request]
    BY DEF Inv, TypeOK, Proceed
<1>2. CASE CommitFree(r)
    <2>1. Moves(r, "committed")
        BY <1>1, <1>2, ToMoves DEF CommitFree, Phases, Working
    <2>2. /\ active' = active \cup {r} /\ freeUsed' = freeUsed + 1
          /\ request[r].phase = "eligible" /\ request[r].body = Free
        BY <1>2 DEF CommitFree
    <2>3. /\ IsFiniteSet(active') /\ Cardinality(active) \in Nat
          /\ Cardinality(active') <= Cardinality(active) + 1
        <3>1. IsFiniteSet(active) /\ Cardinality(active) \in Nat
            BY FS_CardinalityType DEF Room
        <3>2. /\ IsFiniteSet(active \cup {r})
              /\ Cardinality(active \cup {r}) \in {Cardinality(active), Cardinality(active) + 1}
            BY <3>1, FS_AddElement
        <3> QED BY <2>2, <3>1, <3>2
    <2>4. ASSUME ~overlap, NEW q \in Requests, request'[q].phase = "eligible" PROVE FALSE
        <3>1. q # r /\ request[q].phase = "eligible"
            BY <2>1, <2>4 DEF Moves
        <3> QED BY <2>2, <2>4, <3>1 DEF Sequential, OneBusy, Busy, Working
    <2>5. ~overlap => Within(freeUsed, MaxFree)' /\ Within(Cardinality(active), MaxActive)'
        <3>1. Cardinality(active') \in Nat
            BY <2>3, FS_CardinalityType
        <3>2. /\ freeUsed \in Nat
              /\ ~overlap => Below(freeUsed, MaxFree) /\ Below(Cardinality(active), MaxActive)
            BY <1>1, <2>2 DEF Room, TypeOK
        <3> QED BY <2>2, <2>3, <3>1, <3>2, LimitsAssumption DEF Within, Below
    <2> QED BY <1>1, <2>3, <2>4, <2>5 DEF Room
<1>3. CASE CheckEligibility(r)
    <2>1. Moves(r, "eligible")
        BY <1>1, <1>3, ToMoves DEF CheckEligibility, Phases, Working
    <2>2. \A q \in Requests :
            request'[q].phase = "eligible" /\ request'[q].body = Free =>
                 \/ request[q].phase = "eligible" /\ request[q].body = Free
                 \/ Below(freeUsed, MaxFree) /\ Below(Cardinality(active), MaxActive)
        BY <1>3, <2>1 DEF CheckEligibility, Moves
    <2> QED BY <1>1, <1>3, <2>2, RoomKeeps DEF CheckEligibility
<1>4. CASE ~CommitFree(r) /\ ~CheckEligibility(r)
    <2>1. active' \in SUBSET active /\ freeUsed' = freeUsed
        BY <1>4 DEF Proceed, Step, Reclaim, CreatePaymentIntent, CommitPaid, Complete, Throw,
                    ReleaseFailed, Die, LeaveLine
    <2>2. \A q \in Requests :
            request'[q].phase = "eligible" => request'[q] = request[q]
        BY <1>1, <1>4 DEF Proceed, Step, Reclaim, CreatePaymentIntent, CommitPaid, Complete,
                          Throw, ReleaseFailed, Die, LeaveLine, To, Request
    <2> QED BY <1>1, <2>1, <2>2, RoomKeeps
<1> QED BY <1>2, <1>3, <1>4

LEMMA RoomSend ==
    ASSUME Inv, Room, NEW r \in Requests, Send(r)
    PROVE  Room'
<1>1. PICK k \in Keys, b \in Bodies : Claim(r, k, b)
    BY DEF Send
<1>2. /\ TypeOK /\ active' = active /\ freeUsed' = freeUsed
      /\ request \in [Requests -> Request] /\ overlap \in BOOLEAN
    BY <1>1 DEF Claim, ClaimNew, MeetProcessing, MeetFailed, MeetCompleted, Enters, tables,
                Inv, TypeOK
<1>3. \A q \in Requests : request'[q].phase = "eligible" => request'[q] = request[q]
    BY <1>1, <1>2 DEF Claim, ClaimNew, MeetProcessing, MeetFailed, MeetCompleted, Enters
<1>4. overlap' \in BOOLEAN /\ (~overlap' => ~overlap)
    BY <1>2 DEF Send
<1> QED BY <1>2, <1>3, <1>4, RoomKeeps

LEMMA WaitingInvariance == Spec => [](Inv /\ Sequential /\ Room)
<1>1. Init => Inv /\ Sequential /\ Room
    <2>1. Init => Sequential
        <3>1. "idle" \notin Busy \cup Fresh
            BY DEF Busy, Fresh, Working
        <3> QED BY <3>1 DEF Init, Sequential, FreshHasNoRow, OneBusy, KeptAlone, Kept, Busy
    <2>2. Init => Room
        BY FS_EmptySet, LimitsAssumption DEF Init, Room, Within
    <2> QED BY <2>1, <2>2, InvInit
<1>2. Inv /\ Sequential /\ Room /\ [Next]_vars => (Inv /\ Sequential /\ Room)'
    <2> SUFFICES ASSUME Inv, Sequential, Room, [Next]_vars PROVE (Inv /\ Sequential /\ Room)'
        OBVIOUS
    <2>1. Inv'
        BY InvNext
    <2>2. ASSUME NEW r \in Requests, Send(r) PROVE Sequential' /\ Room'
        BY <2>2, SequentialSend, RoomSend
    <2>3. ASSUME NEW r \in Requests, Proceed(r) PROVE Sequential' /\ Room'
        BY <2>3, SequentialStep, RoomStep
    <2>4. CASE UNCHANGED vars
        BY <2>1, <2>4 DEF vars, tables, Sequential, FreshHasNoRow, OneBusy, KeptAlone, Kept, Room
    <2> QED BY <2>1, <2>2, <2>3, <2>4 DEF Next
<1> QED BY <1>1, <1>2, PTL DEF Spec

\* A client that waits for its answers makes at most one submission with a
\* key, whatever fails or dies in between and however often it retries.
THEOREM OneSubmissionPerKey == Spec => []OncePerKey
<1>1. Inv /\ Sequential => OncePerKey
    <2> SUFFICES ASSUME Sequential, ~overlap, NEW k \in Keys
                 PROVE  Cardinality({r \in rows \cap With(k) :
                                        ~In(r, "failing") /\ ~In(r, "failed")}) <= 1
        BY DEF OncePerKey
    <2> DEFINE S == {r \in rows \cap With(k) : ~In(r, "failing") /\ ~In(r, "failed")}
    <2>1. \A q, r \in S : q = r
        BY DEF Sequential, KeptAlone, Kept, With, In
    <2> HIDE DEF S
    <2>2. Cardinality(S) <= 1
        BY <2>1, AtMostOne
    <2> QED BY <2>2 DEF S
<1> QED BY <1>1, WaitingInvariance, PTL

\* A client that waits for its answers never gets past the free line's
\* limits: what its eligibility check read still holds when it commits.
THEOREM WithinFreeLimits == Spec => []FreeLimits
<1>1. Room => FreeLimits
    BY DEF Room, FreeLimits
<1> QED BY <1>1, WaitingInvariance, PTL

=============================================================================
