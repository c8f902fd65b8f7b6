----------------------------- MODULE LiveQueue -----------------------------
(***************************************************************************)
(* The queue of one live session: the host's player operations, the        *)
(* submissions that fill the queue, the Stripe webhooks that activate and  *)
(* upgrade them, and the admin's moderation.                               *)
(*                                                                         *)
(* Transactions run at READ COMMITTED.  A host operation on the player or  *)
(* on an entry's place locks the session row, reads the entries into       *)
(* `seen' and later writes columns computed from what it saw; the lock     *)
(* keeps out every transaction that inserts a row referring to the session *)
(* or appends a queue event, and lets in tier changes, rejections and      *)
(* restrictions, which touch neither.  Host operations that write without  *)
(* regard to what they read are one step.  Tier changes, free submissions  *)
(* and webhooks are two steps, a read that puts the writes in `inflight'   *)
(* and a commit.                                                           *)
(*                                                                         *)
(* A submission and its queue entry are created together and are one to    *)
(* one (queue_entries.submissionId is unique), so both tables are indexed  *)
(* by submission.  sortOrder counts in units of the service's SPACING of   *)
(* 1000: every order this module's operations compute is a multiple of it. *)
(***************************************************************************)
EXTENDS Integers, FiniteSets

CONSTANTS
    Submissions,     \* ids of the submissions users may make
    None,            \* the database's NULL
    MaxTier,         \* ranks of the paid tiers are 1..MaxTier; 0 is Free
    QualifyTicks,    \* clock ticks in the 120 seconds of a qualifying play
    MaxRevision,     \* bound on queueRevision
    MinOrder, MaxOrder,  \* bounds on sortOrder
    MaxInflight      \* bound on unlocked transactions open at once

ASSUME NoneAssumption == None \notin Submissions /\ None \notin Int
ASSUME BoundsAssumption ==
    /\ MaxTier \in Nat /\ QualifyTicks \in Nat \ {0}
    /\ MaxRevision \in Nat /\ MinOrder \in Int /\ MaxOrder \in Int /\ MaxInflight \in Nat

VARIABLES
    sessionStatus,        \* LiveSession.status
    queueRevision,        \* LiveSession.queueRevision
    currentQueueEntryId,  \* LiveSession.currentQueueEntryId
    entry,                \* the queue_entries table
    submission,           \* the submissions table: queue status and tier
    plays,                \* qualifying plays recorded, per submission
    open,                 \* PaymentIntents not settled yet
    settled,              \* PaymentIntents whose success was processed
    seen,                 \* queue_entries as read under the session's lock
    inflight              \* writes of the unlocked transactions now open

session == <<sessionStatus, queueRevision, currentQueueEntryId>>
rows    == <<entry, submission>>
money   == <<open, settled>>
vars    == <<session, rows, plays, money, seen, inflight>>

-----------------------------------------------------------------------------
(* Rows *)

QueueStatus == {"NONE", "AWAITING_PAYMENT", "QUEUED", "PLAYING", "SKIPPED",
                "REJECTED", "REMOVED", "MOVED_TO_HISTORY"}
Finished    == {"SKIPPED", "REMOVED", "MOVED_TO_HISTORY"}

Ranks == 0..MaxTier
Tiers == 1..MaxTier

Place == [priorityRank : Ranks, sortOrder : Int]

ASSUME PlaceAssumption == None \notin Place   \* a saved place is not NULL

EntryRow == [status       : QueueStatus,
             priorityRank : Ranks,
             sortOrder    : Int,
             origin       : Place \cup {None},    \* originPriorityRank/-SortOrder
             tierOrigin   : Int \cup {None},      \* tierOriginSortOrder
             loaded       : 0..QualifyTicks \cup {None}]  \* age of loadedIntoPlayerAt

NoEntry == [status |-> "NONE", priorityRank |-> 0, sortOrder |-> 0,
            origin |-> None, tierOrigin |-> None, loaded |-> None]

SubmissionRow == [status : QueueStatus, tier : Ranks]   \* tier 0: not isPriority

PaymentIntent == [submission : Submissions, tier : Tiers, upgrade : BOOLEAN]

\* What an unlocked transaction will write when it commits.
Write ==
    LET Of(ops, tiers) == [op : ops, submission : Submissions, tier : tiers,
                           order : Int, tierOrigin : Int \cup {None}]
    IN  Of({"SubmitFree", "ChangeTier"}, Ranks) \cup Of({"Activate", "Upgrade", "Reject"}, Tiers)

-----------------------------------------------------------------------------
(* QueueOrderingService and the queries it is fed with, over a table t *)

Queued(t)   == {e \in Submissions : t[e].status = "QUEUED"}
Group(t, r) == {e \in Queued(t) : t[e].priorityRank = r}

\* ORDER BY sortOrder says nothing of equal keys: any least row may come first.
Firsts(t, G) == {e \in G : \A f \in G : t[e].sortOrder <= t[f].sortOrder}
Lasts(t, G)  == {e \in G : \A f \in G : t[f].sortOrder <= t[e].sortOrder}

\* calculateNewSortOrder(BOTTOM, group of rank r): SPACING in an empty group.
BottomOrders(t, r) ==
    IF Group(t, r) = {} THEN {1}
    ELSE {t[e].sortOrder + 1 : e \in Lasts(t, Group(t, r))}

\* calculateNewSortOrder(TOP, G) for a group that is not empty.
TopOrders(t, G) == {t[e].sortOrder - 1 : e \in Firsts(t, G)}

\* The entries ORDER BY priorityRank DESC, sortOrder ASC may return first.
Heads(t) ==
    LET Best == {e \in Queued(t) :
                    \A f \in Queued(t) : t[f].priorityRank <= t[e].priorityRank}
    IN  Firsts(t, Best)

-----------------------------------------------------------------------------
(* The player *)

\* hasQualifyingDuration
Qualifies(row) == row.loaded # None /\ row.loaded = QualifyTicks

Origin(row) ==
    IF row.origin # None THEN row.origin
    ELSE [priorityRank |-> row.priorityRank, sortOrder |-> row.sortOrder]

ToHistory(row) == [row EXCEPT !.status = "MOVED_TO_HISTORY",
                              !.loaded = None, !.origin = None]

BackInQueue(row, rank, order) ==
    [row EXCEPT !.status = "QUEUED", !.priorityRank = rank,
                !.sortOrder = order, !.loaded = None, !.origin = None]

\* The row that was read tells the place to come back to.
InPlayer(row, read) ==
    [row EXCEPT !.status = "PLAYING", !.loaded = 0,
                !.origin = [priorityRank |-> read.priorityRank,
                            sortOrder    |-> read.sortOrder]]

\* What qualifyAndDisplaceCurrentPlayer makes of the row of the playing entry e.
DisplacedRow(row, e) ==
    LET place == Origin(seen[e])
    IN  IF Qualifies(seen[e]) THEN ToHistory(row)
        ELSE BackInQueue(row, place.priorityRank,
                         IF Group(seen, place.priorityRank) = {} THEN 1 ELSE place.sortOrder)

Occupied(e) == e # None /\ seen[e].status = "PLAYING"

\* Mutant: the playing entry is not displaced.
MutEntriesDisplaced(t, e) == t

\* qualifyAndDisplaceCurrentPlayer on e: its writes to a table t of entries,
\* to the submissions and to the plays.
EntriesDisplaced(t, e) ==
    IF Occupied(e) THEN [t EXCEPT ![e] = DisplacedRow(@, e)] ELSE t
SubmissionsDisplaced(e) ==
    IF Occupied(e) THEN [submission EXCEPT ![e].status = DisplacedRow(seen[e], e).status]
    ELSE submission
PlaysDisplaced(e) ==
    IF Occupied(e) /\ Qualifies(seen[e]) THEN [plays EXCEPT ![e] = @ + 1]
    ELSE plays

-----------------------------------------------------------------------------
(* Bounds on the model; the code has none. *)

RevisionRoom == queueRevision < MaxRevision
OrderRoom(o) == o \in MinOrder..MaxOrder
InflightRoom == Cardinality(inflight) < MaxInflight

Init ==
    /\ sessionStatus = "LIVE"
    /\ queueRevision = 0
    /\ currentQueueEntryId = None
    /\ entry = [s \in Submissions |-> NoEntry]
    /\ submission = [s \in Submissions |-> [status |-> "NONE", tier |-> 0]]
    /\ plays = [s \in Submissions |-> 0]
    /\ open = {}
    /\ settled = {}
    /\ seen = None
    /\ inflight = {}

-----------------------------------------------------------------------------
(* The session row's lock *)

\* Transactions that inserted a row referring to the session before they
\* read the line (a submission, a host earning) hold the session row's key
\* share lock, which a host operation's FOR UPDATE waits for.
Shared == \E w \in inflight : w.op \in {"SubmitFree", "Activate", "Upgrade"}

SessionFree == seen = None /\ ~Shared

\* SELECT ... FOR UPDATE, the revision the caller expects, and the reads.
LockSession ==
    /\ SessionFree /\ RevisionRoom
    /\ seen' = entry
    /\ UNCHANGED <<session, rows, plays, money, inflight>>

\* The operation is refused, has nothing to do or is rolled back.
ReleaseSession ==
    /\ seen # None
    /\ seen' = None
    /\ UNCHANGED <<session, rows, plays, money, inflight>>

NextRevision == RevisionRoom /\ queueRevision' = queueRevision + 1

\* A host operation that commits what it computed from `seen', and one that
\* does not depend on the entries it read.
HoldsSession == seen # None /\ seen' = None /\ NextRevision
TakesSession == SessionFree /\ seen' = None /\ NextRevision

-----------------------------------------------------------------------------
(* Host: lifecycle of the running session *)

PauseLiveSession ==
    /\ sessionStatus = "LIVE" /\ TakesSession
    /\ sessionStatus' = "PAUSED"
    /\ UNCHANGED <<currentQueueEntryId, rows, plays, money, inflight>>

ResumeLiveSession ==
    /\ sessionStatus = "PAUSED" /\ TakesSession
    /\ sessionStatus' = "LIVE"
    /\ UNCHANGED <<currentQueueEntryId, rows, plays, money, inflight>>

EndLiveSession ==
    /\ sessionStatus \in {"LIVE", "PAUSED"} /\ TakesSession
    /\ sessionStatus' = "ENDED"
    /\ UNCHANGED <<currentQueueEntryId, rows, plays, money, inflight>>

-----------------------------------------------------------------------------
(* Host: the player.  None of these looks at sessionStatus. *)

\* The entry e, read in the table t, takes the player.
Enters(e, t) ==
    /\ currentQueueEntryId' = e
    /\ entry' = [EntriesDisplaced(entry, currentQueueEntryId) EXCEPT ![e] = InPlayer(@, t[e])]
    /\ submission' = [SubmissionsDisplaced(currentQueueEntryId)
                          EXCEPT ![e].status = "PLAYING"]

PlayNext ==
    /\ HoldsSession
    /\ plays' = PlaysDisplaced(currentQueueEntryId)
    /\ LET t == EntriesDisplaced(seen, currentQueueEntryId)
       IN  \/ /\ Queued(t) = {}
              /\ currentQueueEntryId' = None
              /\ entry' = EntriesDisplaced(entry, currentQueueEntryId)
              /\ submission' = SubmissionsDisplaced(currentQueueEntryId)
           \/ \E e \in Heads(t) : Enters(e, t)
    /\ UNCHANGED <<sessionStatus, money, inflight>>

\* Mutant: any entry that is not playing may be loaded.
MutLoadQueueEntry(e) ==
    /\ HoldsSession
    /\ seen[e].status \notin {"NONE", "PLAYING"}
    /\ plays' = PlaysDisplaced(currentQueueEntryId)
    /\ Enters(e, seen)
    /\ UNCHANGED <<sessionStatus, money, inflight>>

LoadQueueEntry(e) ==
    /\ HoldsSession
    /\ seen[e].status = "QUEUED"
    /\ plays' = PlaysDisplaced(currentQueueEntryId)
    /\ Enters(e, seen)
    /\ UNCHANGED <<sessionStatus, money, inflight>>

\* Gives the entry back its place, whatever its clock says.
ClearPlayer ==
    /\ HoldsSession
    /\ currentQueueEntryId # None
    /\ currentQueueEntryId' = None
    /\ LET e == currentQueueEntryId
           place == Origin(seen[e])
       IN  IF Occupied(e)
           THEN /\ entry' = [entry EXCEPT ![e] =
                                BackInQueue(@, place.priorityRank, place.sortOrder)]
                /\ submission' = [submission EXCEPT ![e].status = "QUEUED"]
           ELSE UNCHANGED rows
    /\ UNCHANGED <<sessionStatus, plays, money, inflight>>

-----------------------------------------------------------------------------
(* Host: the entries *)

\* isNoOp(TOP): the entry already comes first in its group.
MoveToNext(e) ==
    /\ HoldsSession
    /\ seen[e].status = "QUEUED"
    /\ LET G == Group(seen, seen[e].priorityRank)
       IN  /\ \E f \in G \ {e} : seen[f].sortOrder <= seen[e].sortOrder
           /\ \E o \in TopOrders(seen, G) :
                 OrderRoom(o) /\ entry' = [entry EXCEPT ![e].sortOrder = o]
    /\ UNCHANGED <<sessionStatus, currentQueueEntryId, submission, plays, money, inflight>>

\* Mutants: the submission, the clock or the pointer is forgotten.
MutFinishEntryOnly(e, outcome) ==
    /\ entry[e].status # "NONE"
    /\ TakesSession
    /\ entry' = [entry EXCEPT ![e] = [@ EXCEPT !.status = outcome, !.loaded = None]]
    /\ currentQueueEntryId' = IF currentQueueEntryId = e THEN None ELSE currentQueueEntryId
    /\ UNCHANGED <<sessionStatus, submission, money, inflight>>

MutFinishClockRuns(e, outcome) ==
    /\ entry[e].status # "NONE"
    /\ TakesSession
    /\ entry' = [entry EXCEPT ![e].status = outcome]
    /\ submission' = [submission EXCEPT ![e].status = outcome]
    /\ currentQueueEntryId' = IF currentQueueEntryId = e THEN None ELSE currentQueueEntryId
    /\ UNCHANGED <<sessionStatus, money, inflight>>

\* Skip, complete and remove take an entry of the session in any status.
Finish(e, outcome) ==
    /\ entry[e].status # "NONE"
    /\ TakesSession
    /\ entry' = [entry EXCEPT ![e] = [@ EXCEPT !.status = outcome, !.loaded = None]]
    /\ submission' = [submission EXCEPT ![e].status = outcome]
    /\ currentQueueEntryId' = IF currentQueueEntryId = e THEN None ELSE currentQueueEntryId
    /\ UNCHANGED <<sessionStatus, money, inflight>>

SkipQueueEntry(e)   == Finish(e, "SKIPPED") /\ UNCHANGED plays
RemoveQueueEntry(e) == Finish(e, "REMOVED") /\ UNCHANGED plays

\* Mutant: completing counts whatever the clock says.
MutCompleteQueueEntry(e) ==
    Finish(e, "MOVED_TO_HISTORY") /\ plays' = [plays EXCEPT ![e] = @ + 1]

CompleteQueueEntry(e) ==
    /\ Finish(e, "MOVED_TO_HISTORY")
    /\ plays' = IF Qualifies(entry[e]) THEN [plays EXCEPT ![e] = @ + 1] ELSE plays

-----------------------------------------------------------------------------
(* Unlocked transactions: a read decides the writes, a commit applies them. *)

Begin(w) == InflightRoom /\ inflight' = inflight \cup {w}

\* changeEntryTier looks at no status and takes no lock.  Tier 0 is FREE:
\* there the place saved on the way out is restored.
ReadChangeTier(e, t) ==
    /\ entry[e].status # "NONE"
    /\ submission[e].tier # t
    /\ LET restores == t = 0 /\ entry[e].tierOrigin # None
           saves    == submission[e].tier = 0 /\ entry[e].tierOrigin = None
       IN  \E o \in IF restores THEN {entry[e].tierOrigin} ELSE BottomOrders(entry, t) :
             /\ OrderRoom(o)
             /\ Begin([op |-> "ChangeTier", submission |-> e, tier |-> t, order |-> o,
                       tierOrigin |-> IF saves THEN entry[e].sortOrder ELSE None])
    /\ UNCHANGED <<session, rows, plays, money, seen>>

CommitChangeTier(w) ==
    /\ LET saved == IF w.tierOrigin # None THEN w.tierOrigin
                    ELSE entry[w.submission].tierOrigin
       IN  entry' = [entry EXCEPT ![w.submission] =
                        [@ EXCEPT !.priorityRank = w.tier, !.sortOrder = w.order,
                                  !.tierOrigin = saved]]
    /\ submission' = [submission EXCEPT ![w.submission].tier = w.tier]
    /\ UNCHANGED <<session, plays, money, seen>>

\* createSubmission without a tier.  Eligibility, which requires a LIVE
\* session, was checked at some time before the transaction: the session may
\* be paused or over by now.  The submission's insert locks the session.
ReadSubmitFree(s) ==
    /\ seen = None
    /\ submission[s].status = "NONE"
    /\ \A w \in inflight : w.submission # s
    /\ \E o \in BottomOrders(entry, 0) :
          /\ OrderRoom(o)
          /\ Begin([op |-> "SubmitFree", submission |-> s, tier |-> 0, order |-> o,
                    tierOrigin |-> None])
    /\ UNCHANGED <<session, rows, plays, money, seen>>

CommitSubmitFree(w) ==
    /\ NextRevision
    /\ entry' = [entry EXCEPT ![w.submission] =
                    [NoEntry EXCEPT !.status = "QUEUED", !.sortOrder = w.order]]
    /\ submission' = [submission EXCEPT ![w.submission] = [status |-> "QUEUED", tier |-> 0]]
    /\ UNCHANGED <<sessionStatus, currentQueueEntryId, plays, money, seen>>

\* createSubmission for a paid tier: rows and payment, before any money moved
\* and some time after eligibility was checked.
SubmitPaid(s, t) ==
    /\ seen = None
    /\ submission[s].status = "NONE"
    /\ \A w \in inflight : w.submission # s
    /\ entry' = [entry EXCEPT ![s] =
                    [NoEntry EXCEPT !.status = "AWAITING_PAYMENT", !.priorityRank = t]]
    /\ submission' = [submission EXCEPT ![s] = [status |-> "AWAITING_PAYMENT", tier |-> t]]
    /\ open' = open \cup {[submission |-> s, tier |-> t, upgrade |-> FALSE]}
    /\ UNCHANGED <<session, plays, settled, seen, inflight>>

\* upgradeSubmission.  The payment row is written some time after the checks,
\* but nothing reads it before the webhook does.
\* Bound: one upgrade PaymentIntent per submission and tier.
RequestUpgrade(s, t) ==
    LET intent == [submission |-> s, tier |-> t, upgrade |-> TRUE]
    IN  /\ sessionStatus = "LIVE"
        /\ submission[s] = [status |-> "QUEUED", tier |-> 0]
        /\ entry[s].status = "QUEUED"
        /\ intent \notin open \cup settled
        /\ open' = open \cup {intent}
        /\ UNCHANGED <<session, rows, plays, settled, seen, inflight>>

-----------------------------------------------------------------------------
(* Webhooks.  Payments models deliveries and the money; here an intent     *)
(* settles once and may be reported failed until then.                     *)

\* No other delivery of the intent's success is being processed.
Undelivered(p) ==
    LET op == IF p.upgrade THEN "Upgrade" ELSE "Activate"
    IN  ~\E w \in inflight : w.op = op /\ w.submission = p.submission /\ w.tier = p.tier

\* handlePaymentIntentSucceeded: the order is the bottom of the group read.
\* The host earning is inserted before the read and locks the session.
ReadActivation(p) ==
    /\ seen = None
    /\ ~p.upgrade /\ Undelivered(p)
    /\ \E o \in BottomOrders(entry, entry[p.submission].priorityRank) :
          /\ OrderRoom(o)
          /\ Begin([op |-> "Activate", submission |-> p.submission, tier |-> p.tier,
                    order |-> o, tierOrigin |-> None])
    /\ UNCHANGED <<session, rows, plays, money, seen>>

ReadUpgrade(p) ==
    /\ seen = None
    /\ p.upgrade /\ Undelivered(p)
    /\ \E o \in BottomOrders(entry, p.tier) :
          /\ OrderRoom(o)
          /\ Begin([op |-> "Upgrade", submission |-> p.submission, tier |-> p.tier,
                    order |-> o, tierOrigin |-> None])
    /\ UNCHANGED <<session, rows, plays, money, seen>>

Settle(w, upgrade) ==
    LET intent == [submission |-> w.submission, tier |-> w.tier, upgrade |-> upgrade]
    IN  open' = open \ {intent} /\ settled' = settled \cup {intent}

\* Mutant: the activation does not bump the revision.
MutCommitActivation(w) ==
    /\ Settle(w, FALSE)
    /\ entry' = [entry EXCEPT ![w.submission] =
                    [@ EXCEPT !.status = "QUEUED", !.sortOrder = w.order]]
    /\ submission' = [submission EXCEPT ![w.submission].status = "QUEUED"]
    /\ UNCHANGED <<session, plays, seen>>

CommitActivation(w) ==
    /\ NextRevision
    /\ Settle(w, FALSE)
    /\ entry' = [entry EXCEPT ![w.submission] =
                    [@ EXCEPT !.status = "QUEUED", !.sortOrder = w.order]]
    /\ submission' = [submission EXCEPT ![w.submission].status = "QUEUED"]
    /\ UNCHANGED <<sessionStatus, currentQueueEntryId, plays, seen>>

\* Writes QUEUED whatever the entry is doing, and leaves loaded and origin.
CommitUpgrade(w) ==
    /\ NextRevision
    /\ Settle(w, TRUE)
    /\ entry' = [entry EXCEPT ![w.submission] =
                    [@ EXCEPT !.status = "QUEUED", !.priorityRank = w.tier,
                              !.sortOrder = w.order]]
    /\ submission' = [submission EXCEPT ![w.submission] = [status |-> "QUEUED", tier |-> w.tier]]
    /\ UNCHANGED <<sessionStatus, currentQueueEntryId, plays, seen>>

\* handlePaymentIntentFailed: only a submission read as AWAITING_PAYMENT is
\* rejected; the intent stays open, a later attempt may still succeed.
ReadRejection(p) ==
    /\ ~p.upgrade
    /\ submission[p.submission].status = "AWAITING_PAYMENT"
    /\ Begin([op |-> "Reject", submission |-> p.submission, tier |-> p.tier, order |-> 0,
              tierOrigin |-> None])
    /\ UNCHANGED <<session, rows, plays, money, seen>>

\* Mutant: the submission falls back to the free line.
MutCommitRejection(w) ==
    /\ submission' = [submission EXCEPT ![w.submission] = [status |-> "QUEUED", tier |-> 0]]
    /\ entry' = [entry EXCEPT ![w.submission] = [@ EXCEPT !.status = "QUEUED", !.priorityRank = 0]]
    /\ UNCHANGED <<session, plays, money, seen>>

CommitRejection(w) ==
    /\ submission' = [submission EXCEPT ![w.submission].status = "REJECTED"]
    /\ entry' = [entry EXCEPT ![w.submission].status = "REMOVED"]
    /\ UNCHANGED <<session, plays, money, seen>>

-----------------------------------------------------------------------------
(* Admin moderation, and time *)

\* REMOVE: its queue event updates the session row.
AdminRemove(s) ==
    /\ seen = None
    /\ submission[s].status # "NONE"
    /\ submission' = [submission EXCEPT ![s].status = "REMOVED"]
    /\ entry' = [entry EXCEPT ![s].status = "REMOVED"]
    /\ UNCHANGED <<session, plays, money, seen, inflight>>

\* RESTRICT touches the submission only.
AdminRestrict(s) ==
    /\ submission[s].status # "NONE"
    /\ submission' = [submission EXCEPT ![s].status = "REJECTED"]
    /\ UNCHANGED <<session, entry, plays, money, seen, inflight>>

\* Ages saturate at QualifyTicks: nothing tells longer plays apart.  A host
\* operation is short against a tick.
Tick ==
    /\ seen = None
    /\ entry' = [s \in Submissions |->
                   IF entry[s].loaded = None \/ entry[s].loaded = QualifyTicks THEN entry[s]
                   ELSE [entry[s] EXCEPT !.loaded = @ + 1]]
    /\ UNCHANGED <<session, submission, plays, money, seen, inflight>>

-----------------------------------------------------------------------------
(* The specifications *)

Host ==
    \/ LockSession \/ ReleaseSession
    \/ PauseLiveSession \/ ResumeLiveSession \/ EndLiveSession
    \/ PlayNext \/ ClearPlayer
    \/ \E e \in Submissions :
          \/ LoadQueueEntry(e) \/ MoveToNext(e)
          \/ SkipQueueEntry(e) \/ CompleteQueueEntry(e) \/ RemoveQueueEntry(e)
          \/ \E t \in Ranks : ReadChangeTier(e, t)

Submit ==
    \E s \in Submissions : ReadSubmitFree(s) \/ \E t \in Tiers : SubmitPaid(s, t)

Webhook == \E p \in open : ReadActivation(p)

Commit ==
    \E w \in inflight :
        /\ inflight' = inflight \ {w}
        /\ \/ w.op = "ChangeTier" /\ CommitChangeTier(w)
           \/ w.op = "SubmitFree" /\ CommitSubmitFree(w)
           \/ w.op = "Activate"   /\ CommitActivation(w)

StationNext == Host \/ Submit \/ Webhook \/ Commit \/ Tick

\* What can take an entry out of the player behind the host's back.
Override ==
    \/ \E s \in Submissions :
          \/ AdminRemove(s) \/ AdminRestrict(s)
          \/ \E t \in Tiers : RequestUpgrade(s, t)
    \/ \E p \in open : ReadUpgrade(p) \/ ReadRejection(p)
    \/ \E w \in inflight :
          /\ inflight' = inflight \ {w}
          /\ \/ w.op = "Upgrade" /\ CommitUpgrade(w)
             \/ w.op = "Reject"  /\ CommitRejection(w)

Next == StationNext \/ Override

\* A station with no failed payment, no paid upgrade and no admin; and the
\* whole system.
StationSpec == Init /\ [][StationNext]_vars
Spec        == Init /\ [][Next]_vars

-----------------------------------------------------------------------------
(* Properties *)

\* Every row and counter keeps the type of its column.
TypeOK ==
    /\ sessionStatus \in {"LIVE", "PAUSED", "ENDED"}
    /\ queueRevision \in Nat
    /\ currentQueueEntryId \in Submissions \cup {None}
    /\ entry \in [Submissions -> EntryRow]
    /\ submission \in [Submissions -> SubmissionRow]
    /\ plays \in [Submissions -> Nat]
    /\ open \in SUBSET PaymentIntent
    /\ settled \in SUBSET PaymentIntent
    /\ seen \in [Submissions -> EntryRow] \cup {None}
    /\ inflight \in SUBSET Write

\* An entry marked PLAYING is the one the session points at, so two entries
\* never play at once, whatever webhook or admin writes land between the
\* host's operations (playNext and loadQueueEntry displace only the entry the
\* session points at: a second PLAYING row would stay there forever).
PlayingIsCurrent ==
    \A e \in Submissions : entry[e].status = "PLAYING" => currentQueueEntryId = e

\* A paid submission is neither in the queue nor in the player until its
\* PaymentIntent settled: a failed attempt, a tier change to FREE while the
\* payment is pending, or any host operation on the waiting entry does not
\* let it in.
UnpaidNeverQueued ==
    \A p \in open : ~p.upgrade => entry[p.submission].status \notin {"QUEUED", "PLAYING"}

\* The status kept on the submission and the one kept on its queue entry
\* agree, except that a rejected submission may keep its entry (admin
\* RESTRICT, and the failed-payment webhook that removes the entry).
StatusesAgree ==
    \A s \in Submissions :
        submission[s].status \in {entry[s].status, "REJECTED"}

\* The revision steps by one, and a step that leaves it alone puts no entry
\* into the queue or the player and counts nothing as played: what clients
\* can miss is an entry removed, one awaiting payment, or a changed place.
QuietChangesOnlyRemove ==
    [][ /\ queueRevision' \in {queueRevision, queueRevision + 1}
        /\ queueRevision' = queueRevision =>
             /\ plays' = plays /\ currentQueueEntryId' = currentQueueEntryId
             /\ \A e \in Submissions :
                  entry'[e].status \in {entry[e].status, "REMOVED", "AWAITING_PAYMENT"} ]_vars

\* An entry that was skipped, removed or moved to history comes back only in
\* the commit that settles a payment for it, or when a late failed payment
\* removed it while the host operation that had read it was running.
FinishedReturnsOnlyPaid ==
    [][\A e \in Submissions :
          entry[e].status \in Finished /\ entry'[e].status \notin Finished =>
            \/ \E p \in settled' \ settled : p.submission = e
            \/ entry[e].status = "REMOVED" /\ seen # None /\ seen[e].status \notin Finished]_vars

\* The play clock runs exactly while the entry is in the player, and an
\* entry in the player remembers the place it was taken from.
ClockOnlyInPlayer ==
    \A e \in Submissions :
        /\ entry[e].loaded # None <=> entry[e].status = "PLAYING"
        /\ entry[e].status = "PLAYING" => entry[e].origin # None

\* Without upgrades and admin the queue's tables implement a player that
\* holds one track, where each stay in it earns at most one play.
Player == INSTANCE SinglePlayer WITH
              Tracks <- Submissions, Empty <- None,
              slot <- currentQueueEntryId, plays <- plays
ImplementsPlayer == Player!Spec

=============================================================================
