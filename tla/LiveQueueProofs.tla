-------------------------- MODULE LiveQueueProofs --------------------------
(* Theorems about LiveQueue, for every value of its constants. *)
EXTENDS LiveQueue, TLAPS

USE NoneAssumption, BoundsAssumption

-----------------------------------------------------------------------------
(* Rows *)

\* Ranks are integers, and None is neither an integer nor a submission.
LEMMA RankType == Ranks \subseteq Int /\ Tiers \subseteq Ranks /\ 0 \in Ranks
BY DEF Ranks, Tiers

\* The place a row would go back to is a place.
LEMMA OriginType == \A row \in EntryRow : Origin(row) \in Place
BY DEF EntryRow, Origin, Place

\* Each way the player rewrites a row keeps the columns' types.
LEMMA RowTypes ==
    \A row, read \in EntryRow :
        /\ ToHistory(row) \in EntryRow
        /\ InPlayer(row, read) \in EntryRow
        /\ \A r \in Ranks, o \in Int : BackInQueue(row, r, o) \in EntryRow
<1> SUFFICES ASSUME NEW row \in EntryRow, NEW read \in EntryRow
             PROVE  /\ ToHistory(row) \in EntryRow
                    /\ InPlayer(row, read) \in EntryRow
                    /\ \A r \in Ranks, o \in Int : BackInQueue(row, r, o) \in EntryRow
    OBVIOUS
<1>1. ToHistory(row) \in EntryRow
    BY DEF ToHistory, EntryRow, QueueStatus
<1>2. InPlayer(row, read) \in EntryRow
    <2> DEFINE place == [priorityRank |-> read.priorityRank, sortOrder |-> read.sortOrder]
    <2>1. place \in Place
        BY DEF EntryRow, Place
    <2>2. 0 \in 0..QualifyTicks
        OBVIOUS
    <2> HIDE DEF place
    <2>3. [row EXCEPT !.status = "PLAYING", !.loaded = 0, !.origin = place] \in EntryRow
        BY <2>1, <2>2 DEF EntryRow, QueueStatus
    <2> QED BY <2>3 DEF InPlayer, place
<1>3. ASSUME NEW r \in Ranks, NEW o \in Int PROVE BackInQueue(row, r, o) \in EntryRow
    BY DEF BackInQueue, EntryRow, QueueStatus
<1> QED BY <1>1, <1>2, <1>3

LEMMA NoEntryType == NoEntry \in EntryRow
BY RankType DEF NoEntry, EntryRow, QueueStatus

-----------------------------------------------------------------------------
(* Types *)

\* The orders the ordering service computes from a typed table are integers.
LEMMA OrderTypes ==
    ASSUME NEW t \in [Submissions -> EntryRow]
    PROVE  /\ \A r : BottomOrders(t, r) \subseteq Int
           /\ \A G \in SUBSET Submissions : TopOrders(t, G) \subseteq Int
BY DEF BottomOrders, TopOrders, Firsts, Lasts, Group, Queued, EntryRow

\* The row of a displaced entry keeps its columns' types, and goes to the
\* queue or to history.
LEMMA DisplacedRowType ==
    ASSUME TypeOK, seen # None, NEW e \in Submissions, NEW row \in EntryRow
    PROVE  /\ DisplacedRow(row, e) \in EntryRow
           /\ DisplacedRow(row, e).status = DisplacedRow(seen[e], e).status
           /\ DisplacedRow(row, e).status \in {"QUEUED", "MOVED_TO_HISTORY"}
<1>1. seen[e] \in EntryRow
    BY DEF TypeOK
<1> DEFINE rank == Origin(seen[e]).priorityRank
           order == IF Group(seen, rank) = {} THEN 1 ELSE Origin(seen[e]).sortOrder
<1>2. rank \in Ranks /\ order \in Int
    BY <1>1, OriginType DEF Place
<1>3. \A r \in EntryRow : DisplacedRow(r, e) = IF Qualifies(seen[e]) THEN ToHistory(r)
                                                ELSE BackInQueue(r, rank, order)
    BY DEF DisplacedRow
<1> HIDE DEF rank, order
<1>4. \A r \in EntryRow : /\ ToHistory(r).status = "MOVED_TO_HISTORY"
                          /\ BackInQueue(r, rank, order).status = "QUEUED"
    BY DEF ToHistory, BackInQueue, EntryRow
<1> QED BY <1>1, <1>2, <1>3, <1>4, RowTypes

\* Displacing the playing entry leaves typed tables.
LEMMA DisplacedTypes ==
    ASSUME TypeOK, seen # None, NEW e \in Submissions \cup {None},
           NEW t \in [Submissions -> EntryRow]
    PROVE  /\ EntriesDisplaced(t, e) \in [Submissions -> EntryRow]
           /\ SubmissionsDisplaced(e) \in [Submissions -> SubmissionRow]
           /\ PlaysDisplaced(e) \in [Submissions -> Nat]
<1>1. CASE ~Occupied(e)
    BY <1>1 DEF EntriesDisplaced, SubmissionsDisplaced, PlaysDisplaced, TypeOK
<1>2. CASE Occupied(e)
    <2>1. e \in Submissions /\ t[e] \in EntryRow /\ seen[e] \in EntryRow
        BY <1>2 DEF Occupied, TypeOK
    <2>2. DisplacedRow(t[e], e) \in EntryRow /\ DisplacedRow(seen[e], e) \in EntryRow
        BY <2>1, DisplacedRowType
    <2>3. DisplacedRow(seen[e], e).status \in QueueStatus
        BY <2>2 DEF EntryRow
    <2>4. EntriesDisplaced(t, e) \in [Submissions -> EntryRow]
        BY <1>2, <2>1, <2>2 DEF EntriesDisplaced
    <2>5. SubmissionsDisplaced(e) \in [Submissions -> SubmissionRow]
        BY <1>2, <2>1, <2>3 DEF SubmissionsDisplaced, SubmissionRow, TypeOK
    <2>6. PlaysDisplaced(e) \in [Submissions -> Nat]
        BY <2>1 DEF PlaysDisplaced, TypeOK
    <2> QED BY <2>4, <2>5, <2>6
<1> QED BY <1>1, <1>2

\* An entry read in a typed table takes the player.
LEMMA EntersTypes ==
    ASSUME TypeOK, seen # None, NEW t \in [Submissions -> EntryRow],
           NEW e \in Submissions, Enters(e, t)
    PROVE  /\ currentQueueEntryId' \in Submissions
           /\ entry' \in [Submissions -> EntryRow]
           /\ submission' \in [Submissions -> SubmissionRow]
<1> DEFINE w == EntriesDisplaced(entry, currentQueueEntryId)
           sub == SubmissionsDisplaced(currentQueueEntryId)
<1>1. w \in [Submissions -> EntryRow] /\ sub \in [Submissions -> SubmissionRow]
    BY DisplacedTypes DEF TypeOK
<1>2. /\ currentQueueEntryId' = e
      /\ entry' = [w EXCEPT ![e] = InPlayer(@, t[e])]
      /\ submission' = [sub EXCEPT ![e].status = "PLAYING"]
    BY DEF Enters
<1> HIDE DEF w, sub
<1>3. InPlayer(w[e], t[e]) \in EntryRow
    BY <1>1, RowTypes
<1>4. entry' \in [Submissions -> EntryRow]
    BY <1>1, <1>2, <1>3
<1>5. submission' \in [Submissions -> SubmissionRow]
    BY <1>1, <1>2 DEF SubmissionRow, QueueStatus
<1> QED BY <1>2, <1>4, <1>5

LEMMA TypeInit == Init => TypeOK
BY NoEntryType, RankType DEF Init, TypeOK, SubmissionRow, QueueStatus

\* A host operation keeps the types.
LEMMA TypeHost == TypeOK /\ Host => TypeOK'
<1> SUFFICES ASSUME TypeOK, Host PROVE TypeOK'
    OBVIOUS
<1> USE DEF TypeOK, HoldsSession, TakesSession, NextRevision, RevisionRoom, rows, money, session
<1>0. CASE LockSession \/ ReleaseSession
    BY <1>0 DEF LockSession, ReleaseSession
<1>1. CASE PauseLiveSession \/ ResumeLiveSession \/ EndLiveSession
    BY <1>1 DEF PauseLiveSession, ResumeLiveSession, EndLiveSession
<1>2. CASE PlayNext
    <2> DEFINE t == EntriesDisplaced(seen, currentQueueEntryId)
               w == EntriesDisplaced(entry, currentQueueEntryId)
               sub == SubmissionsDisplaced(currentQueueEntryId)
    <2>1. /\ t \in [Submissions -> EntryRow]
          /\ w \in [Submissions -> EntryRow]
          /\ sub \in [Submissions -> SubmissionRow]
          /\ plays' \in [Submissions -> Nat]
        BY <1>2, DisplacedTypes DEF PlayNext
    <2> HIDE DEF t, w, sub
    <2>2. CASE currentQueueEntryId' = None /\ entry' = w /\ submission' = sub
        BY <1>2, <2>1, <2>2 DEF PlayNext
    <2>3. ASSUME NEW e \in Heads(t), Enters(e, t) PROVE TypeOK'
        <3>1. e \in Submissions
            BY DEF Heads, Firsts, Queued
        <3>2. /\ currentQueueEntryId' \in Submissions
              /\ entry' \in [Submissions -> EntryRow]
              /\ submission' \in [Submissions -> SubmissionRow]
            BY <1>2, <2>1, <2>3, <3>1, EntersTypes DEF PlayNext
        <3> QED BY <1>2, <2>1, <3>2 DEF PlayNext
    <2> QED BY <1>2, <2>2, <2>3 DEF PlayNext, t, w, sub
<1>3. ASSUME NEW e \in Submissions, LoadQueueEntry(e) PROVE TypeOK'
    <2>1. plays' \in [Submissions -> Nat]
        BY <1>3, DisplacedTypes DEF LoadQueueEntry
    <2>2. /\ currentQueueEntryId' \in Submissions
          /\ entry' \in [Submissions -> EntryRow]
          /\ submission' \in [Submissions -> SubmissionRow]
        BY <1>3, EntersTypes DEF LoadQueueEntry
    <2> QED BY <1>3, <2>1, <2>2 DEF LoadQueueEntry
<1>4. CASE ClearPlayer
    <2> DEFINE c == currentQueueEntryId
               place == Origin(seen[c])
    <2>1. c \in Submissions /\ entry[c] \in EntryRow /\ seen[c] \in EntryRow
        BY <1>4 DEF ClearPlayer
    <2>2. BackInQueue(entry[c], place.priorityRank, place.sortOrder) \in EntryRow
        BY <2>1, OriginType, RowTypes DEF Place
    <2>3. entry' \in [Submissions -> EntryRow]
        BY <1>4, <2>1, <2>2 DEF ClearPlayer
    <2>4. submission' \in [Submissions -> SubmissionRow]
        BY <1>4, <2>1 DEF ClearPlayer, SubmissionRow, QueueStatus
    <2> QED BY <1>4, <2>3, <2>4 DEF ClearPlayer
<1>5. ASSUME NEW e \in Submissions, MoveToNext(e) PROVE TypeOK'
    <2> DEFINE G == Group(seen, seen[e].priorityRank)
    <2>1. PICK o \in TopOrders(seen, G) : entry' = [entry EXCEPT ![e].sortOrder = o]
        BY <1>5 DEF MoveToNext
    <2>2. o \in Int
        BY <1>5, OrderTypes DEF MoveToNext, Group, Queued
    <2>3. entry' \in [Submissions -> EntryRow]
        BY <2>1, <2>2 DEF EntryRow
    <2> QED BY <1>5, <2>3 DEF MoveToNext
<1>6. ASSUME NEW e \in Submissions,
             SkipQueueEntry(e) \/ CompleteQueueEntry(e) \/ RemoveQueueEntry(e)
      PROVE  TypeOK'
    <2>1. PICK outcome \in Finished : Finish(e, outcome)
        BY <1>6 DEF SkipQueueEntry, CompleteQueueEntry, RemoveQueueEntry, Finished
    <2>2. entry' \in [Submissions -> EntryRow]
        BY <2>1 DEF Finish, Finished, EntryRow, QueueStatus
    <2>3. submission' \in [Submissions -> SubmissionRow]
        BY <2>1 DEF Finish, Finished, SubmissionRow, QueueStatus
    <2>4. plays' \in [Submissions -> Nat]
        BY <1>6 DEF SkipQueueEntry, CompleteQueueEntry, RemoveQueueEntry
    <2> QED BY <2>1, <2>2, <2>3, <2>4 DEF Finish
<1>7. ASSUME NEW e \in Submissions, NEW t \in Ranks, ReadChangeTier(e, t) PROVE TypeOK'
    <2> DEFINE orders == IF t = 0 /\ entry[e].tierOrigin # None
                         THEN {entry[e].tierOrigin} ELSE BottomOrders(entry, t)
               saved == IF submission[e].tier = 0 /\ entry[e].tierOrigin = None
                        THEN entry[e].sortOrder ELSE None
    <2>1. PICK o \in orders :
             inflight' = inflight \cup {[op |-> "ChangeTier", submission |-> e, tier |-> t,
                                         order |-> o, tierOrigin |-> saved]}
        BY <1>7 DEF ReadChangeTier, Begin
    <2>2. o \in Int
        BY OrderTypes DEF EntryRow
    <2>3. saved \in Int \cup {None}
        BY DEF EntryRow
    <2> HIDE DEF saved
    <2>4. inflight' \in SUBSET Write
        BY <2>1, <2>2, <2>3 DEF Write
    <2> QED BY <1>7, <2>4 DEF ReadChangeTier
<1> QED BY <1>0, <1>1, <1>2, <1>3, <1>4, <1>5, <1>6, <1>7 DEF Host

\* A submission, a webhook or the clock keeps the types.
LEMMA TypeOutside == TypeOK /\ (Submit \/ Webhook \/ Tick) => TypeOK'
<1> SUFFICES ASSUME TypeOK, Submit \/ Webhook \/ Tick PROVE TypeOK'
    OBVIOUS
<1> USE DEF TypeOK, rows, money, session
<1>1. ASSUME NEW s \in Submissions, ReadSubmitFree(s) PROVE TypeOK'
    <2>1. PICK o \in BottomOrders(entry, 0) :
             inflight' = inflight \cup {[op |-> "SubmitFree", submission |-> s, tier |-> 0,
                                         order |-> o, tierOrigin |-> None]}
        BY <1>1 DEF ReadSubmitFree, Begin
    <2>2. inflight' \in SUBSET Write
        BY <2>1, OrderTypes, RankType DEF Write
    <2> QED BY <1>1, <2>2 DEF ReadSubmitFree
<1>2. ASSUME NEW s \in Submissions, NEW t \in Tiers, SubmitPaid(s, t) PROVE TypeOK'
    <2>1. [NoEntry EXCEPT !.status = "AWAITING_PAYMENT", !.priorityRank = t] \in EntryRow
        BY RankType DEF NoEntry, EntryRow, QueueStatus
    <2>2. [status |-> "AWAITING_PAYMENT", tier |-> t] \in SubmissionRow
        BY RankType DEF SubmissionRow, QueueStatus
    <2>3. [submission |-> s, tier |-> t, upgrade |-> FALSE] \in PaymentIntent
        BY DEF PaymentIntent
    <2> QED BY <1>2, <2>1, <2>2, <2>3 DEF SubmitPaid
<1>3. ASSUME NEW p \in open, ReadActivation(p) PROVE TypeOK'
    <2>1. PICK o \in BottomOrders(entry, entry[p.submission].priorityRank) :
             inflight' = inflight \cup {[op |-> "Activate", submission |-> p.submission,
                                         tier |-> p.tier, order |-> o, tierOrigin |-> None]}
        BY <1>3 DEF ReadActivation, Begin
    <2>2. o \in Int
        BY OrderTypes
    <2>3. p.submission \in Submissions /\ p.tier \in Tiers
        BY DEF PaymentIntent
    <2>4. inflight' \in SUBSET Write
        BY <2>1, <2>2, <2>3 DEF Write
    <2> QED BY <1>3, <2>4 DEF ReadActivation
<1>4. CASE Tick
    <2> SUFFICES ASSUME NEW s \in Submissions
                 PROVE  entry'[s] \in EntryRow /\ entry' = [x \in Submissions |-> entry'[x]]
        BY <1>4 DEF Tick
    <2>1. CASE entry[s].loaded = None \/ entry[s].loaded = QualifyTicks
        BY <1>4, <2>1 DEF Tick
    <2>2. CASE ~(entry[s].loaded = None \/ entry[s].loaded = QualifyTicks)
        <3>1. entry[s].loaded \in 0..QualifyTicks \cup {None}
            BY DEF EntryRow
        <3>2. \A n \in 0..QualifyTicks : n # QualifyTicks => n + 1 \in 0..QualifyTicks
            OBVIOUS
        <3>3. entry[s].loaded + 1 \in 0..QualifyTicks
            BY <2>2, <3>1, <3>2
        <3> QED BY <1>4, <2>2, <3>3 DEF Tick, EntryRow
    <2> QED BY <2>1, <2>2
<1> QED BY <1>1, <1>2, <1>3, <1>4 DEF Submit, Webhook

\* Settling a typed intent keeps the sets of intents typed.
LEMMA SettleType ==
    ASSUME TypeOK, NEW w \in inflight, w.op \in {"Activate", "Upgrade"},
           NEW upgrade \in BOOLEAN, Settle(w, upgrade)
    PROVE  open' \in SUBSET PaymentIntent /\ settled' \in SUBSET PaymentIntent
<1> DEFINE intent == [submission |-> w.submission, tier |-> w.tier, upgrade |-> upgrade]
<1>1. w.submission \in Submissions /\ w.tier \in Tiers
    BY DEF TypeOK, Write
<1>2. intent \in PaymentIntent
    BY <1>1 DEF PaymentIntent
<1>3. open' = open \ {intent} /\ settled' = settled \cup {intent}
    BY DEF Settle
<1> HIDE DEF intent
<1> QED BY <1>2, <1>3 DEF TypeOK

\* What an unlocked transaction commits keeps the types.
LEMMA TypeCommit ==
    ASSUME TypeOK, NEW w \in inflight, inflight' = inflight \ {w},
           \/ CommitChangeTier(w) \/ CommitSubmitFree(w)
           \/ w.op = "Activate" /\ CommitActivation(w)
           \/ w.op = "Upgrade" /\ CommitUpgrade(w)
           \/ CommitRejection(w)
    PROVE  TypeOK'
<1> USE DEF TypeOK, rows, money, session, NextRevision, RevisionRoom
<1>1. /\ w.submission \in Submissions /\ w.tier \in Ranks /\ w.order \in Int
      /\ w.tierOrigin \in Int \cup {None}
    BY RankType DEF Write
<1>2. CASE CommitChangeTier(w)
    <2> DEFINE saved == IF w.tierOrigin # None THEN w.tierOrigin
                        ELSE entry[w.submission].tierOrigin
    <2>3. saved \in Int \cup {None}
        BY <1>1 DEF EntryRow
    <2>4. entry' = [entry EXCEPT ![w.submission] =
                      [@ EXCEPT !.priorityRank = w.tier, !.sortOrder = w.order,
                                !.tierOrigin = saved]]
        BY <1>2 DEF CommitChangeTier
    <2> HIDE DEF saved
    <2>1. entry' \in [Submissions -> EntryRow]
        BY <1>1, <2>3, <2>4 DEF EntryRow
    <2>2. submission' \in [Submissions -> SubmissionRow]
        BY <1>1, <1>2 DEF CommitChangeTier, SubmissionRow
    <2> QED BY <1>2, <2>1, <2>2 DEF CommitChangeTier
<1>3. CASE CommitSubmitFree(w)
    <2>1. [NoEntry EXCEPT !.status = "QUEUED", !.sortOrder = w.order] \in EntryRow
        BY <1>1, NoEntryType DEF NoEntry, EntryRow, QueueStatus
    <2>2. [status |-> "QUEUED", tier |-> 0] \in SubmissionRow
        BY RankType DEF SubmissionRow, QueueStatus
    <2> QED BY <1>1, <1>3, <2>1, <2>2 DEF CommitSubmitFree
<1>4. CASE w.op = "Activate" /\ CommitActivation(w)
    <2>1. entry' \in [Submissions -> EntryRow]
        BY <1>1, <1>4 DEF CommitActivation, EntryRow, QueueStatus
    <2>2. submission' \in [Submissions -> SubmissionRow]
        BY <1>1, <1>4 DEF CommitActivation, SubmissionRow, QueueStatus
    <2>4. open' \in SUBSET PaymentIntent /\ settled' \in SUBSET PaymentIntent
        BY <1>4, SettleType DEF CommitActivation
    <2>5. queueRevision' \in Nat
        BY <1>4 DEF CommitActivation
    <2> QED BY <1>4, <2>1, <2>2, <2>4, <2>5 DEF CommitActivation
<1>5. CASE w.op = "Upgrade" /\ CommitUpgrade(w)
    <2>1. entry' \in [Submissions -> EntryRow]
        BY <1>1, <1>5 DEF CommitUpgrade, EntryRow, QueueStatus
    <2>2. [status |-> "QUEUED", tier |-> w.tier] \in SubmissionRow
        BY <1>1 DEF SubmissionRow, QueueStatus
    <2>4. open' \in SUBSET PaymentIntent /\ settled' \in SUBSET PaymentIntent
        BY <1>5, SettleType DEF CommitUpgrade
    <2>5. queueRevision' \in Nat
        BY <1>5 DEF CommitUpgrade
    <2> QED BY <1>5, <2>1, <2>2, <2>4, <2>5 DEF CommitUpgrade
<1>6. CASE CommitRejection(w)
    <2>1. entry' \in [Submissions -> EntryRow]
        BY <1>1, <1>6 DEF CommitRejection, EntryRow, QueueStatus
    <2>2. submission' \in [Submissions -> SubmissionRow]
        BY <1>1, <1>6 DEF CommitRejection, SubmissionRow, QueueStatus
    <2> QED BY <1>6, <2>1, <2>2 DEF CommitRejection
<1> QED BY <1>2, <1>3, <1>4, <1>5, <1>6

\* Moderation, upgrades and failed payments keep the types.
LEMMA TypeOverride == TypeOK /\ Override => TypeOK'
<1> SUFFICES ASSUME TypeOK, Override PROVE TypeOK'
    OBVIOUS
<1>1. ASSUME NEW s \in Submissions, AdminRemove(s) \/ AdminRestrict(s) PROVE TypeOK'
    <2> USE DEF TypeOK, money, session
    <2>1. entry' \in [Submissions -> EntryRow]
        <3>1. CASE AdminRemove(s)
            BY <3>1 DEF AdminRemove, EntryRow, QueueStatus
        <3>2. CASE AdminRestrict(s)
            BY <3>2 DEF AdminRestrict
        <3> QED BY <1>1, <3>1, <3>2
    <2>2. submission' \in [Submissions -> SubmissionRow]
        BY <1>1 DEF AdminRemove, AdminRestrict, SubmissionRow, QueueStatus
    <2> QED BY <1>1, <2>1, <2>2 DEF AdminRemove, AdminRestrict
<1>2. ASSUME NEW s \in Submissions, NEW t \in Tiers, RequestUpgrade(s, t) PROVE TypeOK'
    <2>1. [submission |-> s, tier |-> t, upgrade |-> TRUE] \in PaymentIntent
        BY DEF PaymentIntent
    <2> QED BY <1>2, <2>1 DEF RequestUpgrade, TypeOK, rows, session
<1>3. ASSUME NEW p \in open, ReadUpgrade(p) \/ ReadRejection(p) PROVE TypeOK'
    <2>1. PICK o \in Int, op \in {"Upgrade", "Reject"} :
             inflight' = inflight \cup {[op |-> op, submission |-> p.submission,
                                         tier |-> p.tier, order |-> o, tierOrigin |-> None]}
        <3>1. CASE ReadUpgrade(p)
            BY <3>1, OrderTypes DEF ReadUpgrade, Begin, TypeOK
        <3>2. CASE ReadRejection(p)
            BY <3>2 DEF ReadRejection, Begin
        <3> QED BY <1>3, <3>1, <3>2
    <2>2. p.submission \in Submissions /\ p.tier \in Tiers
        BY DEF PaymentIntent, TypeOK
    <2>3. inflight' \in SUBSET Write
        BY <2>1, <2>2 DEF Write, TypeOK
    <2> QED BY <1>3, <2>3 DEF ReadUpgrade, ReadRejection, TypeOK, rows, money, session
<1>4. ASSUME NEW w \in inflight, inflight' = inflight \ {w},
             \/ w.op = "Upgrade" /\ CommitUpgrade(w)
             \/ w.op = "Reject" /\ CommitRejection(w)
      PROVE  TypeOK'
    <2>1. CASE w.op = "Upgrade" /\ CommitUpgrade(w)
        BY <1>4, <2>1, TypeCommit
    <2>2. CASE CommitRejection(w)
        BY <1>4, <2>2, TypeCommit
    <2> QED BY <1>4, <2>1, <2>2
<1> QED BY <1>1, <1>2, <1>3, <1>4 DEF Override

\* Every step of the whole system, stutters included, keeps the types.
LEMMA TypeNext == TypeOK /\ [Next]_vars => TypeOK'
<1> SUFFICES ASSUME TypeOK, [Next]_vars PROVE TypeOK'
    OBVIOUS
<1>1. CASE Host
    BY <1>1, TypeHost
<1>2. CASE Submit \/ Webhook \/ Tick
    BY <1>2, TypeOutside
<1>3. CASE Commit
    BY <1>3, TypeCommit DEF Commit
<1>4. CASE Override
    BY <1>4, TypeOverride
<1>5. CASE UNCHANGED vars
    BY <1>5 DEF vars, TypeOK, session, rows, money
<1> QED BY <1>1, <1>2, <1>3, <1>4, <1>5 DEF Next, StationNext

\* Every column keeps its type, whatever host, users, webhooks and admin do.
THEOREM Typed == Spec => []TypeOK
BY TypeInit, TypeNext, PTL DEF Spec

-----------------------------------------------------------------------------
(* One playing entry, agreeing statuses, and no unpaid entry in the line *)

InLine == {"QUEUED", "PLAYING"}

\* The rows of a submission exist together.
RowsTogether ==
    \A s \in Submissions : submission[s].status = "NONE" <=> entry[s].status = "NONE"

\* Nothing is written for a submission before it exists except its creation,
\* and a creation has no rival.
CreatedOnce ==
    \A w \in inflight :
        IF w.op = "SubmitFree"
        THEN /\ submission[w.submission].status = "NONE"
             /\ \A v \in inflight : v.submission = w.submission => v = w
        ELSE submission[w.submission].status # "NONE"

\* While a first payment is pending it is the submission's only intent, no
\* upgrade of that submission is being processed, and every success being
\* processed for it is that payment's own.
PendingAlone ==
    /\ \A p \in open : submission[p.submission].status # "NONE"
    /\ \A p, q \in open : p.submission = q.submission /\ ~p.upgrade => p = q
    /\ \A w \in inflight, p \in open :
          p.submission = w.submission /\ ~p.upgrade =>
             /\ w.op # "Upgrade"
             /\ w.op = "Activate" => p.tier = w.tier

\* What a host operation read still holds but for entries removed since: the
\* transactions that could let an entry into the line wait for its lock.
SeenIsRecent ==
    seen # None =>
        /\ ~Shared
        /\ \A e \in Submissions :
              /\ entry[e].status \in {seen[e].status, "REMOVED"}
              /\ seen[e].status = "NONE" <=> entry[e].status = "NONE"
        /\ \A p \in open : ~p.upgrade => seen[p.submission].status \notin InLine

\* The inductive invariant.
Inv ==
    /\ TypeOK
    /\ PlayingIsCurrent
    /\ StatusesAgree
    /\ RowsTogether
    /\ CreatedOnce
    /\ PendingAlone
    /\ SeenIsRecent
    /\ UnpaidNeverQueued

\* A step that lets nothing into the line but what a host operation saw
\* there, and creates no rows.
Gentle ==
    /\ \A e \in Submissions :
          /\ entry'[e].status \in InLine =>
                entry[e].status \in InLine \/ (seen # None /\ seen[e].status \in InLine)
          /\ entry'[e].status = "NONE" <=> entry[e].status = "NONE"
          /\ submission'[e].status = "NONE" <=> submission[e].status = "NONE"
    /\ open' = open

LEMMA InvInit == Init => Inv
BY TypeInit DEF Init, Inv, PlayingIsCurrent, StatusesAgree, RowsTogether, CreatedOnce,
                PendingAlone, SeenIsRecent, UnpaidNeverQueued, NoEntry

\* What displacing e does to the statuses: e leaves the player for the queue
\* or for history, and nothing else changes.
LEMMA DisplacedStatus ==
    ASSUME TypeOK, seen # None, NEW e \in Submissions \cup {None},
           NEW t \in [Submissions -> EntryRow], NEW x \in Submissions
    PROVE  /\ Occupied(e) /\ x = e =>
                /\ EntriesDisplaced(t, e)[x].status \in {"QUEUED", "MOVED_TO_HISTORY"}
                /\ SubmissionsDisplaced(e)[x].status = EntriesDisplaced(t, e)[x].status
           /\ ~(Occupied(e) /\ x = e) =>
                /\ EntriesDisplaced(t, e)[x] = t[x]
                /\ SubmissionsDisplaced(e)[x] = submission[x]
<1>1. CASE ~Occupied(e)
    BY <1>1 DEF EntriesDisplaced, SubmissionsDisplaced
<1>2. CASE Occupied(e)
    <2>1. e \in Submissions /\ t[e] \in EntryRow
        BY <1>2 DEF Occupied
    <2>2. /\ DisplacedRow(t[e], e).status \in {"QUEUED", "MOVED_TO_HISTORY"}
          /\ DisplacedRow(t[e], e).status = DisplacedRow(seen[e], e).status
        BY <2>1, DisplacedRowType
    <2>3. /\ EntriesDisplaced(t, e) = [t EXCEPT ![e] = DisplacedRow(t[e], e)]
          /\ SubmissionsDisplaced(e) =
                [submission EXCEPT ![e].status = DisplacedRow(seen[e], e).status]
        BY <1>2 DEF EntriesDisplaced, SubmissionsDisplaced
    <2>4. submission \in [Submissions -> SubmissionRow]
        BY DEF TypeOK
    <2> QED BY <1>2, <2>1, <2>2, <2>3, <2>4 DEF SubmissionRow
<1> QED BY <1>1, <1>2

\* After a displacement nothing plays, the two columns agree, and what is in
\* the line was there or was seen there.
LEMMA DisplacedEffect ==
    ASSUME TypeOK, PlayingIsCurrent, StatusesAgree, RowsTogether, SeenIsRecent, seen # None,
           NEW x \in Submissions
    PROVE  LET c == currentQueueEntryId
               w == EntriesDisplaced(entry, c)[x]
               sub == SubmissionsDisplaced(c)[x]
           IN  /\ w.status # "PLAYING"
               /\ sub.status \in {w.status, "REJECTED"}
               /\ w.status \in InLine => entry[x].status \in InLine \/ seen[x].status \in InLine
               /\ w.status = "NONE" <=> entry[x].status = "NONE"
               /\ sub.status = "NONE" <=> submission[x].status = "NONE"
<1> DEFINE c == currentQueueEntryId
<1>1. c \in Submissions \cup {None} /\ entry \in [Submissions -> EntryRow]
    BY DEF TypeOK
<1>2. CASE Occupied(c) /\ x = c
    <2>1. seen[x].status = "PLAYING" /\ entry[x].status # "NONE" /\ submission[x].status # "NONE"
        BY <1>2 DEF Occupied, SeenIsRecent, RowsTogether
    <2> QED BY <1>1, <1>2, <2>1, DisplacedStatus DEF InLine
<1>3. CASE ~(Occupied(c) /\ x = c)
    <2>1. entry[x].status # "PLAYING"
        BY <1>1, <1>3 DEF Occupied, SeenIsRecent, PlayingIsCurrent
    <2> QED BY <1>1, <1>3, <2>1, DisplacedStatus DEF StatusesAgree
<1> QED BY <1>2, <1>3

\* An entry seen in the line takes the player.
LEMMA EntersEffect ==
    ASSUME TypeOK, PlayingIsCurrent, StatusesAgree, RowsTogether, SeenIsRecent, seen # None,
           NEW t \in [Submissions -> EntryRow], NEW e \in Submissions,
           seen[e].status \in InLine, Enters(e, t), open' = open
    PROVE  PlayingIsCurrent' /\ StatusesAgree' /\ Gentle
<1> DEFINE w == EntriesDisplaced(entry, currentQueueEntryId)
           sub == SubmissionsDisplaced(currentQueueEntryId)
<1>1. w \in [Submissions -> EntryRow] /\ sub \in [Submissions -> SubmissionRow]
    BY DisplacedTypes DEF TypeOK
<1>2. \A x \in Submissions :
         /\ w[x].status # "PLAYING"
         /\ sub[x].status \in {w[x].status, "REJECTED"}
         /\ w[x].status \in InLine => entry[x].status \in InLine \/ seen[x].status \in InLine
         /\ w[x].status = "NONE" <=> entry[x].status = "NONE"
         /\ sub[x].status = "NONE" <=> submission[x].status = "NONE"
    BY DisplacedEffect
<1>3. /\ currentQueueEntryId' = e
      /\ entry' = [w EXCEPT ![e] = InPlayer(@, t[e])]
      /\ submission' = [sub EXCEPT ![e].status = "PLAYING"]
    BY DEF Enters
<1> HIDE DEF w, sub
<1>4. ASSUME NEW x \in Submissions, x # e
      PROVE  entry'[x] = w[x] /\ submission'[x] = sub[x]
    BY <1>1, <1>3, <1>4
<1>5. entry'[e].status = "PLAYING" /\ submission'[e].status = "PLAYING"
    BY <1>1, <1>3 DEF InPlayer, EntryRow, SubmissionRow
<1>6. entry[e].status # "NONE" /\ submission[e].status # "NONE"
    BY DEF SeenIsRecent, RowsTogether, InLine
<1> QED BY <1>2, <1>3, <1>4, <1>5, <1>6 DEF PlayingIsCurrent, StatusesAgree, Gentle, InLine

\* The player operations keep at most one entry playing, keep the two status
\* columns equal and let nothing into the line but what they saw there.
LEMMA PlayerEffect ==
    ASSUME TypeOK, PlayingIsCurrent, StatusesAgree, RowsTogether, SeenIsRecent,
           PlayNext \/ ClearPlayer \/ \E e \in Submissions : LoadQueueEntry(e)
    PROVE  PlayingIsCurrent' /\ StatusesAgree' /\ Gentle
<1> DEFINE c == currentQueueEntryId
           t == EntriesDisplaced(seen, c)
<1>1. /\ seen # None /\ open' = open
      /\ seen \in [Submissions -> EntryRow]
      /\ c \in Submissions \cup {None}
    BY DEF PlayNext, ClearPlayer, LoadQueueEntry, HoldsSession, money, TypeOK
<1>5. CASE PlayNext
    <2>1. CASE /\ currentQueueEntryId' = None
               /\ entry' = EntriesDisplaced(entry, c)
               /\ submission' = SubmissionsDisplaced(c)
        BY <1>1, <2>1, DisplacedEffect DEF PlayingIsCurrent, StatusesAgree, Gentle
    <2>2. ASSUME NEW e \in Heads(t), Enters(e, t)
          PROVE  PlayingIsCurrent' /\ StatusesAgree' /\ Gentle
        <3>1. e \in Submissions /\ t[e].status = "QUEUED"
            BY DEF Heads, Firsts, Queued
        <3>2. seen[e].status \in InLine
            BY <1>1, <3>1, DisplacedStatus DEF Occupied, InLine
        <3>3. t \in [Submissions -> EntryRow]
            BY <1>1, DisplacedTypes
        <3> HIDE DEF t
        <3> QED BY <1>1, <2>2, <3>1, <3>2, <3>3, EntersEffect
    <2> QED BY <1>5, <2>1, <2>2 DEF PlayNext
<1>6. ASSUME NEW e \in Submissions, LoadQueueEntry(e)
      PROVE  PlayingIsCurrent' /\ StatusesAgree' /\ Gentle
    BY <1>1, <1>6, EntersEffect DEF LoadQueueEntry, InLine
<1>7. CASE ClearPlayer
    <2>1. c \in Submissions /\ currentQueueEntryId' = None
        BY <1>1, <1>7 DEF ClearPlayer
    <2>2. CASE Occupied(c)
        <3>1. ASSUME NEW x \in Submissions, x # c
              PROVE  entry'[x] = entry[x] /\ submission'[x] = submission[x]
            BY <1>7, <2>1, <2>2, <3>1 DEF ClearPlayer, TypeOK
        <3>2. entry'[c].status = "QUEUED" /\ submission'[c].status = "QUEUED"
            <4> DEFINE place == Origin(seen[c])
            <4>1. BackInQueue(entry[c], place.priorityRank, place.sortOrder).status = "QUEUED"
                BY <2>1 DEF BackInQueue, TypeOK, EntryRow
            <4>2. entry'[c] = BackInQueue(entry[c], place.priorityRank, place.sortOrder)
                BY <1>7, <2>1, <2>2 DEF ClearPlayer, TypeOK
            <4>3. submission'[c].status = "QUEUED"
                BY <1>7, <2>1, <2>2 DEF ClearPlayer, TypeOK, SubmissionRow
            <4> QED BY <4>1, <4>2, <4>3
        <3>3. /\ seen[c].status = "PLAYING"
              /\ entry[c].status # "NONE" /\ submission[c].status # "NONE"
            BY <1>1, <2>1, <2>2 DEF Occupied, SeenIsRecent, RowsTogether
        <3> QED BY <1>1, <2>1, <3>1, <3>2, <3>3
                DEF PlayingIsCurrent, StatusesAgree, Gentle, InLine
    <2>3. CASE ~Occupied(c)
        <3>1. entry[c].status # "PLAYING" /\ UNCHANGED rows
            BY <1>1, <1>7, <2>1, <2>3 DEF ClearPlayer, Occupied, SeenIsRecent
        <3> QED BY <1>1, <2>1, <3>1 DEF PlayingIsCurrent, StatusesAgree, Gentle, rows
    <2> QED BY <2>2, <2>3
<1> QED BY <1>5, <1>6, <1>7

\* The host's other operations, and the clock, have the same effect.
LEMMA QuietEffect ==
    ASSUME TypeOK, PlayingIsCurrent, StatusesAgree, RowsTogether,
           \/ LockSession \/ ReleaseSession
           \/ PauseLiveSession \/ ResumeLiveSession \/ EndLiveSession \/ Tick
           \/ \E e \in Submissions :
                 \/ MoveToNext(e)
                 \/ SkipQueueEntry(e) \/ CompleteQueueEntry(e) \/ RemoveQueueEntry(e)
                 \/ \E t \in Ranks : ReadChangeTier(e, t)
    PROVE  PlayingIsCurrent' /\ StatusesAgree' /\ Gentle
<1> USE DEF PlayingIsCurrent, StatusesAgree, Gentle, RowsTogether, rows, money, session, TypeOK
<1>1. ASSUME /\ UNCHANGED <<currentQueueEntryId, submission, open>>
             /\ \A x \in Submissions : entry'[x].status = entry[x].status
      PROVE  PlayingIsCurrent' /\ StatusesAgree' /\ Gentle
    BY <1>1
<1>2. CASE \/ LockSession \/ ReleaseSession
           \/ PauseLiveSession \/ ResumeLiveSession \/ EndLiveSession
    BY <1>1, <1>2
       DEF LockSession, ReleaseSession, PauseLiveSession, ResumeLiveSession, EndLiveSession
<1>3. CASE Tick
    <2>1. ASSUME NEW x \in Submissions PROVE entry'[x].status = entry[x].status
        BY <1>3 DEF Tick, EntryRow
    <2> QED BY <1>1, <1>3, <2>1 DEF Tick
<1>4. ASSUME NEW e \in Submissions, MoveToNext(e)
      PROVE  PlayingIsCurrent' /\ StatusesAgree' /\ Gentle
    <2>1. ASSUME NEW x \in Submissions PROVE entry'[x].status = entry[x].status
        BY <1>4 DEF MoveToNext, EntryRow
    <2> QED BY <1>1, <1>4, <2>1 DEF MoveToNext
<1>5. ASSUME NEW e \in Submissions,
             SkipQueueEntry(e) \/ CompleteQueueEntry(e) \/ RemoveQueueEntry(e)
      PROVE  PlayingIsCurrent' /\ StatusesAgree' /\ Gentle
    <2>1. PICK outcome \in Finished : Finish(e, outcome)
        BY <1>5 DEF SkipQueueEntry, CompleteQueueEntry, RemoveQueueEntry, Finished
    <2>2. ASSUME NEW x \in Submissions, x # e
          PROVE  entry'[x] = entry[x] /\ submission'[x] = submission[x]
        BY <2>1, <2>2 DEF Finish
    <2>3. entry'[e].status = outcome /\ submission'[e].status = outcome
        BY <2>1 DEF Finish, EntryRow, SubmissionRow
    <2>4. outcome \notin InLine /\ outcome # "NONE" /\ entry[e].status # "NONE"
        BY <2>1 DEF Finished, InLine, Finish
    <2>5. /\ currentQueueEntryId' = IF currentQueueEntryId = e THEN None ELSE currentQueueEntryId
          /\ open' = open
        BY <2>1 DEF Finish
    <2> QED BY <2>2, <2>3, <2>4, <2>5 DEF InLine
<1>6. ASSUME NEW e \in Submissions, NEW t \in Ranks, ReadChangeTier(e, t)
      PROVE  PlayingIsCurrent' /\ StatusesAgree' /\ Gentle
    BY <1>1, <1>6 DEF ReadChangeTier
<1> QED BY <1>2, <1>3, <1>4, <1>5, <1>6

\* A gentle step that opens no transaction keeps the whole invariant, if
\* what a host operation saw stays recent.
LEMMA GentleKeeps ==
    ASSUME Inv, TypeOK', PlayingIsCurrent', StatusesAgree', SeenIsRecent', Gentle,
           inflight' = inflight
    PROVE  Inv'
<1> USE DEF Inv, TypeOK, Gentle
<1>1. RowsTogether'
    BY DEF RowsTogether
<1>2. ASSUME NEW w \in inflight
      PROVE  w.submission \in Submissions
    BY DEF Write
<1>3. ASSUME NEW p \in open
      PROVE  p.submission \in Submissions
    BY DEF PaymentIntent
<1>4. CreatedOnce'
    BY <1>2 DEF CreatedOnce
<1>5. PendingAlone'
    BY <1>3 DEF PendingAlone
<1>6. UnpaidNeverQueued'
    BY <1>3 DEF UnpaidNeverQueued, SeenIsRecent, InLine
<1> QED BY <1>1, <1>4, <1>5, <1>6

\* A step that only opens a transaction for a submission that exists, and
\* that is not one its pending payment excludes, keeps the invariant.
LEMMA OpeningKeeps ==
    ASSUME Inv, TypeOK', NEW w \in Write, inflight' = inflight \cup {w},
           UNCHANGED <<session, rows, plays, money, seen>>,
           w.op \in {"SubmitFree", "Activate", "Upgrade"} => seen = None,
           IF w.op = "SubmitFree"
           THEN /\ submission[w.submission].status = "NONE"
                /\ \A v \in inflight : v.submission # w.submission
           ELSE submission[w.submission].status # "NONE",
           w.op \in {"Activate", "Upgrade"} =>
               \E p \in open : /\ p.submission = w.submission /\ p.tier = w.tier
                               /\ p.upgrade = (w.op = "Upgrade")
    PROVE  Inv'
<1> USE DEF Inv, session, rows, money
<1>1. PlayingIsCurrent' /\ StatusesAgree' /\ RowsTogether' /\ UnpaidNeverQueued'
    BY DEF PlayingIsCurrent, StatusesAgree, RowsTogether, UnpaidNeverQueued
<1>2. CreatedOnce'
    BY DEF CreatedOnce
<1>3. PendingAlone'
    <2>1. ASSUME NEW p \in open, p.submission = w.submission, ~p.upgrade
          PROVE  w.op # "Upgrade" /\ (w.op = "Activate" => p.tier = w.tier)
        BY <2>1 DEF PendingAlone
    <2> QED BY <2>1 DEF PendingAlone
<1>4. SeenIsRecent'
    BY DEF SeenIsRecent, Shared
<1> QED BY <1>1, <1>2, <1>3, <1>4

\* Host operations, submissions and webhook reads keep the invariant.
LEMMA InvHost == Inv /\ (Host \/ Tick) => Inv'
<1> SUFFICES ASSUME Inv, Host \/ Tick PROVE Inv'
    OBVIOUS
<1>1. TypeOK'
    BY TypeHost, TypeOutside DEF Inv
<1>2. CASE PlayNext \/ ClearPlayer \/ \E e \in Submissions : LoadQueueEntry(e)
    <2>1. PlayingIsCurrent' /\ StatusesAgree' /\ Gentle
        BY <1>2, PlayerEffect DEF Inv
    <2>2. inflight' = inflight /\ seen' = None
        BY <1>2 DEF PlayNext, ClearPlayer, LoadQueueEntry, HoldsSession
    <2> QED BY <1>1, <2>1, <2>2, GentleKeeps DEF SeenIsRecent
<1>3. CASE \/ ReleaseSession
           \/ PauseLiveSession \/ ResumeLiveSession \/ EndLiveSession \/ Tick
           \/ \E e \in Submissions :
                 \/ MoveToNext(e)
                 \/ SkipQueueEntry(e) \/ CompleteQueueEntry(e) \/ RemoveQueueEntry(e)
    <2>1. PlayingIsCurrent' /\ StatusesAgree' /\ Gentle
        BY <1>3, QuietEffect DEF Inv
    <2>2. inflight' = inflight /\ seen' = None
        BY <1>3 DEF ReleaseSession, PauseLiveSession, ResumeLiveSession, EndLiveSession, Tick,
                    MoveToNext, SkipQueueEntry, CompleteQueueEntry, RemoveQueueEntry, Finish,
                    HoldsSession, TakesSession
    <2> QED BY <1>1, <2>1, <2>2, GentleKeeps DEF SeenIsRecent
<1>5. CASE LockSession
    <2>1. PlayingIsCurrent' /\ StatusesAgree' /\ Gentle
        BY <1>5, QuietEffect DEF Inv
    <2>2. /\ seen' = entry /\ inflight' = inflight /\ ~Shared
          /\ UNCHANGED <<rows, money>>
        BY <1>5 DEF LockSession, SessionFree
    <2>3. SeenIsRecent'
        BY <2>2 DEF SeenIsRecent, Shared, Inv, UnpaidNeverQueued, InLine, rows, money
    <2> QED BY <1>1, <2>1, <2>2, <2>3, GentleKeeps
<1>4. ASSUME NEW e \in Submissions, NEW t \in Ranks, ReadChangeTier(e, t) PROVE Inv'
    <2>1. PICK o, saved :
             inflight' = inflight \cup {[op |-> "ChangeTier", submission |-> e, tier |-> t,
                                         order |-> o, tierOrigin |-> saved]}
        BY <1>4 DEF ReadChangeTier, Begin
    <2> DEFINE w == [op |-> "ChangeTier", submission |-> e, tier |-> t,
                     order |-> o, tierOrigin |-> saved]
    <2>2. w \in Write /\ inflight' = inflight \cup {w}
        BY <1>1, <2>1 DEF TypeOK
    <2>3. w.op = "ChangeTier" /\ w.submission = e
        OBVIOUS
    <2>5. UNCHANGED <<session, rows, plays, money, seen>>
        BY <1>4 DEF ReadChangeTier
    <2>4. submission[e].status # "NONE"
        BY <1>4 DEF ReadChangeTier, Inv, RowsTogether
    <2> HIDE DEF w
    <2> QED BY <1>1, <2>2, <2>3, <2>4, <2>5, OpeningKeeps
<1> QED BY <1>2, <1>3, <1>4, <1>5 DEF Host

LEMMA InvSubmit == Inv /\ Submit => Inv'
<1> SUFFICES ASSUME Inv, Submit PROVE Inv'
    OBVIOUS
<1>1. TypeOK'
    BY TypeOutside DEF Inv
<1>2. ASSUME NEW s \in Submissions, ReadSubmitFree(s) PROVE Inv'
    <2>1. PICK o :
             inflight' = inflight \cup {[op |-> "SubmitFree", submission |-> s, tier |-> 0,
                                         order |-> o, tierOrigin |-> None]}
        BY <1>2 DEF ReadSubmitFree, Begin
    <2> DEFINE w == [op |-> "SubmitFree", submission |-> s, tier |-> 0,
                     order |-> o, tierOrigin |-> None]
    <2>2. w \in Write /\ inflight' = inflight \cup {w}
        BY <1>1, <2>1 DEF TypeOK
    <2>3. w.op = "SubmitFree" /\ w.submission = s
        OBVIOUS
    <2> HIDE DEF w
    <2> QED BY <1>1, <1>2, <2>2, <2>3, OpeningKeeps DEF ReadSubmitFree
<1>3. ASSUME NEW s \in Submissions, NEW t \in Tiers, SubmitPaid(s, t) PROVE Inv'
    <2> DEFINE p == [submission |-> s, tier |-> t, upgrade |-> FALSE]
    <2>1. /\ open' = open \cup {p} /\ inflight' = inflight
          /\ currentQueueEntryId' = currentQueueEntryId
          /\ \A w \in inflight : w.submission # s
          /\ submission[s].status = "NONE" /\ entry[s].status = "NONE"
          /\ seen' = None
        BY <1>3 DEF SubmitPaid, session, Inv, RowsTogether
    <2>2. p.submission = s
        OBVIOUS
    <2>3. ASSUME NEW x \in Submissions, x # s
          PROVE  entry'[x] = entry[x] /\ submission'[x] = submission[x]
        BY <1>3, <2>3 DEF SubmitPaid, Inv, TypeOK
    <2>4. entry'[s].status = "AWAITING_PAYMENT" /\ submission'[s].status = "AWAITING_PAYMENT"
        BY <1>3 DEF SubmitPaid, Inv, TypeOK, NoEntry
    <2>5. \A q \in open : q.submission \in Submissions \ {s}
        BY <2>1 DEF Inv, TypeOK, PaymentIntent, PendingAlone
    <2>6. \A w \in inflight : w.submission \in Submissions \ {s}
        BY <2>1 DEF Inv, TypeOK, Write
    <2> HIDE DEF p
    <2>7. PlayingIsCurrent' /\ StatusesAgree' /\ RowsTogether'
        BY <2>1, <2>3, <2>4 DEF Inv, PlayingIsCurrent, StatusesAgree, RowsTogether
    <2>8. CreatedOnce'
        BY <2>1, <2>3, <2>6 DEF Inv, CreatedOnce
    <2>9. PendingAlone'
        BY <2>1, <2>2, <2>3, <2>4, <2>5, <2>6 DEF Inv, PendingAlone
    <2>10. UnpaidNeverQueued'
        BY <2>1, <2>2, <2>3, <2>4, <2>5 DEF Inv, UnpaidNeverQueued
    <2> QED BY <1>1, <2>1, <2>7, <2>8, <2>9, <2>10 DEF Inv, SeenIsRecent
<1> QED BY <1>2, <1>3 DEF Submit

LEMMA InvWebhook ==
    ASSUME Inv, NEW p \in open, ReadActivation(p) \/ ReadUpgrade(p) \/ ReadRejection(p)
    PROVE  Inv'
<1>1. TypeOK'
    <2>1. Webhook \/ Override
        BY DEF Webhook, Override
    <2> QED BY <2>1, TypeOutside, TypeOverride DEF Inv
<1>2. PICK op \in {"Activate", "Upgrade", "Reject"} :
        /\ \E o : inflight' = inflight \cup {[op |-> op, submission |-> p.submission,
                                             tier |-> p.tier, order |-> o,
                                             tierOrigin |-> None]}
        /\ op = "Upgrade" => p.upgrade /\ seen = None
        /\ op = "Activate" => ~p.upgrade /\ seen = None
    BY DEF ReadActivation, ReadUpgrade, ReadRejection, Begin
<1> PICK o : inflight' = inflight \cup {[op |-> op, submission |-> p.submission,
                                         tier |-> p.tier, order |-> o, tierOrigin |-> None]}
    BY <1>2
<1> DEFINE w == [op |-> op, submission |-> p.submission,
                 tier |-> p.tier, order |-> o, tierOrigin |-> None]
<1>3. w \in Write /\ inflight' = inflight \cup {w}
    BY <1>1 DEF TypeOK
<1>4. w.op = op /\ w.submission = p.submission /\ w.tier = p.tier
    OBVIOUS
<1> HIDE DEF w
<1>5. op \in {"Activate", "Upgrade"} => p.upgrade = (op = "Upgrade")
    BY <1>2 DEF Inv, TypeOK, PaymentIntent
<1>6. UNCHANGED <<session, rows, plays, money, seen>>
    BY DEF ReadActivation, ReadUpgrade, ReadRejection
<1>8. op \in {"Activate", "Upgrade"} => seen = None
    BY <1>2
<1>7. submission[p.submission].status # "NONE"
    BY DEF Inv, PendingAlone
<1> QED BY <1>1, <1>2, <1>3, <1>4, <1>5, <1>6, <1>7, <1>8, OpeningKeeps

\* A commit that rewrites one submission's rows, puts nothing in the player,
\* and lets the entry into the line only when no first payment of it stays
\* pending, keeps the invariant.
LEMMA CommitKeeps ==
    ASSUME Inv, TypeOK', NEW w \in inflight, inflight' = inflight \ {w},
           currentQueueEntryId' = currentQueueEntryId, open' \subseteq open, seen' = seen,
           entry'[w.submission].status \in {entry[w.submission].status, "REMOVED"} \/ seen = None,
           entry[w.submission].status # "NONE" \/ seen = None,
           \A x \in Submissions \ {w.submission} :
              entry'[x].status = entry[x].status /\ submission'[x].status = submission[x].status,
           entry'[w.submission].status \in {entry[w.submission].status, "QUEUED", "REMOVED"},
           submission'[w.submission].status \in {entry'[w.submission].status, "REJECTED"},
           entry'[w.submission].status # "NONE" /\ submission'[w.submission].status # "NONE",
           entry'[w.submission].status \in InLine =>
              \A p \in open' : p.submission = w.submission => p.upgrade
    PROVE  Inv'
<1> USE DEF Inv
<1>1. w.submission \in Submissions
    BY DEF TypeOK, Write
<1>2. /\ \A v \in inflight : v.submission \in Submissions
      /\ \A p \in open : p.submission \in Submissions
    BY DEF TypeOK, Write, PaymentIntent
<1>3. PlayingIsCurrent' /\ StatusesAgree' /\ RowsTogether'
    BY <1>1 DEF PlayingIsCurrent, StatusesAgree, RowsTogether
<1>4. CreatedOnce'
    <2> SUFFICES ASSUME NEW v \in inflight, v # w
                 PROVE  IF v.op = "SubmitFree"
                        THEN /\ submission'[v.submission].status = "NONE"
                             /\ \A u \in inflight' : u.submission = v.submission => u = v
                        ELSE submission'[v.submission].status # "NONE"
        BY DEF CreatedOnce
    <2>1. CASE v.submission = w.submission
        BY <2>1 DEF CreatedOnce
    <2>2. CASE v.submission # w.submission
        BY <1>2, <2>2 DEF CreatedOnce
    <2> QED BY <2>1, <2>2
<1>5. PendingAlone'
    <2>1. \A p \in open' : submission'[p.submission].status # "NONE"
        BY <1>2 DEF PendingAlone
    <2> QED BY <2>1 DEF PendingAlone
<1>6. UnpaidNeverQueued'
    <2> SUFFICES ASSUME NEW p \in open', ~p.upgrade
                 PROVE  entry'[p.submission].status \notin InLine
        BY DEF UnpaidNeverQueued, InLine
    <2>1. CASE p.submission = w.submission
        BY <2>1
    <2>2. CASE p.submission # w.submission
        BY <1>2, <2>2 DEF UnpaidNeverQueued, InLine
    <2> QED BY <2>1, <2>2
<1>7. SeenIsRecent'
    BY <1>1 DEF SeenIsRecent, Shared
<1> QED BY <1>3, <1>4, <1>5, <1>6, <1>7

LEMMA InvCommit ==
    ASSUME Inv, NEW w \in inflight, inflight' = inflight \ {w},
           \/ w.op = "ChangeTier" /\ CommitChangeTier(w)
           \/ w.op = "SubmitFree" /\ CommitSubmitFree(w)
           \/ w.op = "Activate" /\ CommitActivation(w)
           \/ w.op = "Upgrade" /\ CommitUpgrade(w)
           \/ w.op = "Reject" /\ CommitRejection(w)
    PROVE  Inv'
<1> DEFINE s == w.submission
<1>1. TypeOK'
    BY TypeCommit DEF Inv
<1>2. /\ s \in Submissions
      /\ entry \in [Submissions -> EntryRow]
      /\ submission \in [Submissions -> SubmissionRow]
    BY DEF Inv, TypeOK, Write
<1>8. w.op \in {"SubmitFree", "Activate", "Upgrade"} => seen = None
    BY DEF Inv, SeenIsRecent, Shared
<1>3. CASE w.op = "ChangeTier" /\ CommitChangeTier(w)
    <2>1. \A x \in Submissions : /\ entry'[x].status = entry[x].status
                                 /\ submission'[x].status = submission[x].status
        BY <1>2, <1>3 DEF CommitChangeTier, EntryRow, SubmissionRow
    <2>2. currentQueueEntryId' = currentQueueEntryId /\ open' = open /\ seen' = seen
        BY <1>3 DEF CommitChangeTier, session, money
    <2>3. submission[s].status # "NONE" /\ entry[s].status # "NONE"
        BY <1>2, <1>3 DEF Inv, CreatedOnce, RowsTogether
    <2>4. /\ submission'[s].status \in {entry'[s].status, "REJECTED"}
          /\ entry'[s].status \in InLine =>
                \A p \in open' : p.submission = s => p.upgrade
        BY <1>2, <2>1, <2>2 DEF Inv, StatusesAgree, UnpaidNeverQueued, InLine
    <2> QED BY <1>1, <1>2, <2>1, <2>2, <2>3, <2>4, CommitKeeps
<1>4. CASE w.op = "SubmitFree" /\ CommitSubmitFree(w)
    <2>1. entry'[s].status = "QUEUED" /\ submission'[s].status = "QUEUED"
        BY <1>2, <1>4 DEF CommitSubmitFree, NoEntry
    <2>2. \A x \in Submissions \ {s} : entry'[x] = entry[x] /\ submission'[x] = submission[x]
        BY <1>2, <1>4 DEF CommitSubmitFree
    <2>3. currentQueueEntryId' = currentQueueEntryId /\ open' = open /\ seen' = seen
        BY <1>4 DEF CommitSubmitFree, money
    <2>4. \A p \in open' : p.submission # s
        BY <1>4, <2>3 DEF Inv, CreatedOnce, PendingAlone
    <2> QED BY <1>1, <1>2, <1>4, <1>8, <2>1, <2>2, <2>3, <2>4, CommitKeeps
<1>5. CASE w.op = "Activate" /\ CommitActivation(w)
    <2>1. entry'[s].status = "QUEUED" /\ submission'[s].status = "QUEUED"
        BY <1>2, <1>5 DEF CommitActivation, EntryRow, SubmissionRow
    <2>2. \A x \in Submissions \ {s} : entry'[x] = entry[x] /\ submission'[x] = submission[x]
        BY <1>2, <1>5 DEF CommitActivation
    <2>3. /\ currentQueueEntryId' = currentQueueEntryId /\ seen' = seen
          /\ open' = open \ {[submission |-> s, tier |-> w.tier, upgrade |-> FALSE]}
        BY <1>5 DEF CommitActivation, Settle
    <2>4. ASSUME NEW p \in open, p.submission = s, ~p.upgrade
          PROVE  p = [submission |-> s, tier |-> w.tier, upgrade |-> FALSE]
        <3>1. p.tier = w.tier
            BY <1>5, <2>4 DEF Inv, PendingAlone
        <3>2. p.upgrade = FALSE
            BY <2>4 DEF Inv, TypeOK, PaymentIntent
        <3> QED BY <2>4, <3>1, <3>2 DEF Inv, TypeOK, PaymentIntent
    <2>5. \A p \in open' : p.submission = s => p.upgrade
        BY <2>3, <2>4
    <2> QED BY <1>1, <1>2, <1>5, <1>8, <2>1, <2>2, <2>3, <2>5, CommitKeeps
<1>6. CASE w.op = "Upgrade" /\ CommitUpgrade(w)
    <2>1. entry'[s].status = "QUEUED" /\ submission'[s].status = "QUEUED"
        BY <1>2, <1>6 DEF CommitUpgrade, EntryRow, SubmissionRow
    <2>2. \A x \in Submissions \ {s} : entry'[x] = entry[x] /\ submission'[x] = submission[x]
        BY <1>2, <1>6 DEF CommitUpgrade
    <2>3. currentQueueEntryId' = currentQueueEntryId /\ open' \subseteq open /\ seen' = seen
        BY <1>6 DEF CommitUpgrade, Settle
    <2>4. \A p \in open' : p.submission = s => p.upgrade
        BY <1>6, <2>3 DEF Inv, PendingAlone
    <2> QED BY <1>1, <1>2, <1>6, <1>8, <2>1, <2>2, <2>3, <2>4, CommitKeeps
<1>7. CASE w.op = "Reject" /\ CommitRejection(w)
    <2>1. entry'[s].status = "REMOVED" /\ submission'[s].status = "REJECTED"
        BY <1>2, <1>7 DEF CommitRejection, EntryRow, SubmissionRow
    <2>2. \A x \in Submissions \ {s} : entry'[x] = entry[x] /\ submission'[x] = submission[x]
        BY <1>2, <1>7 DEF CommitRejection
    <2>3. currentQueueEntryId' = currentQueueEntryId /\ open' = open /\ seen' = seen
        BY <1>7 DEF CommitRejection, session, money
    <2>4. entry[s].status # "NONE"
        BY <1>2, <1>7 DEF Inv, CreatedOnce, RowsTogether
    <2> QED BY <1>1, <1>2, <2>1, <2>2, <2>3, <2>4, CommitKeeps DEF InLine
<1> QED BY <1>3, <1>4, <1>5, <1>6, <1>7

LEMMA InvOverride == Inv /\ Override => Inv'
<1> SUFFICES ASSUME Inv, Override PROVE Inv'
    OBVIOUS
<1>1. TypeOK'
    BY TypeOverride DEF Inv
<1>2. ASSUME NEW s \in Submissions, AdminRemove(s) \/ AdminRestrict(s) PROVE Inv'
    <2>1. submission[s].status # "NONE" /\ entry[s].status # "NONE"
        BY <1>2 DEF AdminRemove, AdminRestrict, Inv, RowsTogether
    <2>2. \A x \in Submissions \ {s} : entry'[x] = entry[x] /\ submission'[x] = submission[x]
        BY <1>2 DEF AdminRemove, AdminRestrict, Inv, TypeOK
    <2>3. /\ entry'[s].status \in {entry[s].status, "REMOVED"}
          /\ submission'[s].status \in {entry'[s].status, "REJECTED"} \ {"NONE"}
        BY <1>2 DEF AdminRemove, AdminRestrict, Inv, TypeOK, EntryRow, SubmissionRow
    <2>4. UNCHANGED <<currentQueueEntryId, open, inflight>>
        BY <1>2 DEF AdminRemove, AdminRestrict, session, money
    <2>5. PlayingIsCurrent' /\ StatusesAgree' /\ Gentle
        BY <2>1, <2>2, <2>3, <2>4
           DEF Inv, PlayingIsCurrent, StatusesAgree, Gentle, InLine
    <2>6. SeenIsRecent'
        <3>1. CASE AdminRemove(s)
            BY <3>1 DEF AdminRemove, SeenIsRecent
        <3>2. CASE AdminRestrict(s)
            BY <3>2 DEF AdminRestrict, Inv, SeenIsRecent, Shared, money
        <3> QED BY <1>2, <3>1, <3>2
    <2> QED BY <1>1, <2>4, <2>5, <2>6, GentleKeeps
<1>3. ASSUME NEW s \in Submissions, NEW t \in Tiers, RequestUpgrade(s, t) PROVE Inv'
    <2> DEFINE p == [submission |-> s, tier |-> t, upgrade |-> TRUE]
    <2>1. /\ open' = open \cup {p}
          /\ UNCHANGED <<session, rows, seen, inflight>>
          /\ submission[s].status # "NONE" /\ entry[s].status = "QUEUED"
        BY <1>3 DEF RequestUpgrade
    <2>2. p.submission = s /\ p.upgrade = TRUE
        OBVIOUS
    <2> HIDE DEF p
    <2>3. PlayingIsCurrent' /\ StatusesAgree' /\ RowsTogether' /\ CreatedOnce'
        BY <2>1 DEF Inv, PlayingIsCurrent, StatusesAgree, RowsTogether, CreatedOnce, rows, session
    <2>4. \A q \in open : q.submission = s => q.upgrade
        BY <2>1 DEF Inv, UnpaidNeverQueued
    <2>5. PendingAlone'
        BY <2>1, <2>2, <2>4 DEF Inv, PendingAlone, rows
    <2>6. UnpaidNeverQueued'
        BY <2>1, <2>2 DEF Inv, UnpaidNeverQueued, rows
    <2>7. SeenIsRecent'
        BY <2>1, <2>2 DEF Inv, SeenIsRecent, Shared, rows
    <2> QED BY <1>1, <2>3, <2>5, <2>6, <2>7 DEF Inv
<1>4. ASSUME NEW p \in open, ReadUpgrade(p) \/ ReadRejection(p) PROVE Inv'
    BY <1>4, InvWebhook
<1>5. ASSUME NEW w \in inflight, inflight' = inflight \ {w},
             \/ w.op = "Upgrade" /\ CommitUpgrade(w)
             \/ w.op = "Reject" /\ CommitRejection(w)
      PROVE  Inv'
    BY <1>5, InvCommit
<1> QED BY <1>2, <1>3, <1>4, <1>5 DEF Override

LEMMA InvNext == Inv /\ [Next]_vars => Inv'
<1> SUFFICES ASSUME Inv, [Next]_vars PROVE Inv'
    OBVIOUS
<1>1. CASE Host \/ Tick
    BY <1>1, InvHost
<1>2. CASE Submit
    BY <1>2, InvSubmit
<1>3. CASE Webhook
    BY <1>3, InvWebhook DEF Webhook
<1>4. CASE Commit
    BY <1>4, InvCommit DEF Commit
<1>5. CASE Override
    BY <1>5, InvOverride
<1>6. CASE UNCHANGED vars
    BY <1>6 DEF vars, session, rows, money, Inv, TypeOK, PlayingIsCurrent, StatusesAgree,
                RowsTogether, CreatedOnce, PendingAlone, SeenIsRecent, Shared, UnpaidNeverQueued
<1> QED BY <1>1, <1>2, <1>3, <1>4, <1>5, <1>6 DEF Next, StationNext

LEMMA Invariance == Spec => []Inv
BY InvInit, InvNext, PTL DEF Spec

\* At most one entry plays, and it is the one the session points at.
THEOREM OnePlaying == Spec => []PlayingIsCurrent
<1>1. Inv => PlayingIsCurrent
    BY DEF Inv
<1> QED BY <1>1, Invariance, PTL

\* The two status columns never disagree but for rejected submissions.
THEOREM StatusColumnsAgree == Spec => []StatusesAgree
<1>1. Inv => StatusesAgree
    BY DEF Inv
<1> QED BY <1>1, Invariance, PTL

\* No entry whose first payment is pending is in the queue or the player,
\* however many unlocked transactions are open and in whatever order they
\* commit.
THEOREM NoUnpaidInLine == Spec => []UnpaidNeverQueued
<1>1. Inv => UnpaidNeverQueued
    BY DEF Inv
<1> QED BY <1>1, Invariance, PTL

-----------------------------------------------------------------------------
(* What a step that leaves the revision alone may do *)

Quiet ==
    /\ queueRevision' \in {queueRevision, queueRevision + 1}
    /\ queueRevision' = queueRevision =>
         /\ plays' = plays /\ currentQueueEntryId' = currentQueueEntryId
         /\ \A e \in Submissions :
              entry'[e].status \in {entry[e].status, "REMOVED", "AWAITING_PAYMENT"}

\* A step that bumps the revision is not quiet: the revision is a number.
LEMMA BumpIsLoud == ASSUME TypeOK, NextRevision PROVE Quiet
BY DEF TypeOK, NextRevision, Quiet

\* The operations that write nothing a client waits for.
LEMMA QuietRead ==
    ASSUME UNCHANGED <<queueRevision, currentQueueEntryId, plays>>,
           \A e \in Submissions :
              entry'[e].status \in {entry[e].status, "REMOVED", "AWAITING_PAYMENT"}
    PROVE  Quiet
BY DEF Quiet

LEMMA QuietNext == ASSUME TypeOK, [Next]_vars PROVE Quiet
<1> USE DEF session, rows, money
<1>1. CASE Host
    <2>1. CASE LockSession \/ ReleaseSession \/ \E e \in Submissions, t \in Ranks : ReadChangeTier(e, t)
        BY <2>1, QuietRead DEF LockSession, ReleaseSession, ReadChangeTier
    <2>2. CASE ~(LockSession \/ ReleaseSession
                   \/ \E e \in Submissions, t \in Ranks : ReadChangeTier(e, t))
        <3>1. NextRevision
            BY <1>1, <2>2
               DEF Host, PauseLiveSession, ResumeLiveSession, EndLiveSession, PlayNext,
                   ClearPlayer, LoadQueueEntry, MoveToNext, SkipQueueEntry, CompleteQueueEntry,
                   RemoveQueueEntry, Finish, HoldsSession, TakesSession
        <3> QED BY <3>1, BumpIsLoud
    <2> QED BY <2>1, <2>2
<1>2. ASSUME NEW s \in Submissions,
             ReadSubmitFree(s) \/ \E t \in Tiers : SubmitPaid(s, t)
      PROVE  Quiet
    <2>1. CASE ReadSubmitFree(s)
        BY <2>1, QuietRead DEF ReadSubmitFree
    <2>2. ASSUME NEW t \in Tiers, SubmitPaid(s, t) PROVE Quiet
        <3>1. \A e \in Submissions : entry'[e].status \in {entry[e].status, "AWAITING_PAYMENT"}
            BY <2>2 DEF SubmitPaid, TypeOK, NoEntry
        <3> QED BY <2>2, <3>1, QuietRead DEF SubmitPaid
    <2> QED BY <1>2, <2>1, <2>2
<1>3. CASE Webhook
    BY <1>3, QuietRead DEF Webhook, ReadActivation
<1>4. CASE Commit
    <2>1. ASSUME NEW w \in inflight, CommitChangeTier(w) PROVE Quiet
        <3>1. \A e \in Submissions : entry'[e].status = entry[e].status
            BY <2>1 DEF CommitChangeTier, TypeOK, EntryRow
        <3> QED BY <2>1, <3>1, QuietRead DEF CommitChangeTier
    <2>2. ASSUME NEW w \in inflight, CommitSubmitFree(w) \/ CommitActivation(w) PROVE Quiet
        BY <2>2, BumpIsLoud DEF CommitSubmitFree, CommitActivation
    <2> QED BY <1>4, <2>1, <2>2 DEF Commit
<1>5. CASE Tick
    <2>1. \A e \in Submissions : entry'[e].status = entry[e].status
        BY <1>5 DEF Tick, TypeOK, EntryRow
    <2> QED BY <1>5, <2>1, QuietRead DEF Tick
<1>6. CASE Override
    <2>1. ASSUME NEW s \in Submissions, AdminRemove(s) \/ AdminRestrict(s) PROVE Quiet
        <3>1. \A e \in Submissions : entry'[e].status \in {entry[e].status, "REMOVED"}
            BY <2>1 DEF AdminRemove, AdminRestrict, TypeOK, EntryRow
        <3> QED BY <2>1, <3>1, QuietRead DEF AdminRemove, AdminRestrict
    <2>2. ASSUME NEW s \in Submissions, NEW t \in Tiers, RequestUpgrade(s, t) PROVE Quiet
        BY <2>2, QuietRead DEF RequestUpgrade
    <2>3. ASSUME NEW p \in open, ReadUpgrade(p) \/ ReadRejection(p) PROVE Quiet
        BY <2>3, QuietRead DEF ReadUpgrade, ReadRejection
    <2>4. ASSUME NEW w \in inflight, CommitUpgrade(w) PROVE Quiet
        BY <2>4, BumpIsLoud DEF CommitUpgrade
    <2>5. ASSUME NEW w \in inflight, CommitRejection(w) PROVE Quiet
        <3>1. \A e \in Submissions : entry'[e].status \in {entry[e].status, "REMOVED"}
            BY <2>5 DEF CommitRejection, TypeOK, EntryRow
        <3> QED BY <2>5, <3>1, QuietRead DEF CommitRejection
    <2> QED BY <1>6, <2>1, <2>2, <2>3, <2>4, <2>5 DEF Override
<1>7. CASE UNCHANGED vars
    BY <1>7, QuietRead DEF vars
<1> QED BY <1>1, <1>2, <1>3, <1>4, <1>5, <1>6, <1>7 DEF Next, StationNext, Submit

\* A client that goes by the revision misses no entry that joins the queue or
\* the player, and no play: steps without a new revision only remove entries,
\* leave them waiting for payment or move them.
THEOREM QuietSteps == Spec => QuietChangesOnlyRemove
<1>1. TypeOK /\ [Next]_vars => [Quiet]_vars
    BY QuietNext
<1>2. Spec => [][Quiet]_vars
    BY <1>1, Typed, PTL DEF Spec
<1> QED BY <1>2 DEF QuietChangesOnlyRemove, Quiet

-----------------------------------------------------------------------------
(* Every intent settles once *)

\* The PaymentIntent whose success a webhook's transaction processes.
Settling  == {"Activate", "Upgrade"}
Intent(w) == [submission |-> w.submission, tier |-> w.tier, upgrade |-> w.op = "Upgrade"]

\* An intent is open or settled, a settled one belongs to a submission that
\* exists, and a success being processed is the only one of an open intent.
SettledOnce ==
    /\ open \cap settled = {}
    /\ \A p \in settled : submission[p.submission].status # "NONE"
    /\ \A w \in inflight : w.op \in Settling => Intent(w) \in open
    /\ \A v, w \in inflight :
          v.op \in Settling /\ w.op \in Settling /\ Intent(v) = Intent(w) => v = w

\* No step deletes a submission.
RowsStay == \A s \in Submissions : submission[s].status # "NONE" => submission'[s].status # "NONE"

\* A settled intent names a submission.
LEMMA IntentTypes ==
    ASSUME TypeOK
    PROVE  /\ \A p \in open \cup settled : p.submission \in Submissions
           /\ \A w \in inflight : w.submission \in Submissions
BY DEF TypeOK, PaymentIntent, Write

\* A step that moves no money and starts no webhook.
LEMMA SettledKeeps ==
    ASSUME TypeOK, SettledOnce, RowsStay, UNCHANGED money,
           \A w \in inflight' : w.op \in Settling => w \in inflight
    PROVE  SettledOnce'
BY IntentTypes DEF SettledOnce, RowsStay, money, Settling, Intent

\* A webhook starts to process an intent that is open and that no other
\* transaction processes.
LEMMA SettledBegins ==
    ASSUME TypeOK, SettledOnce, UNCHANGED <<submission, open, settled>>, NEW p \in open,
           ReadActivation(p) \/ ReadUpgrade(p)
    PROVE  SettledOnce'
<1>1. PICK op \in Settling :
        /\ \E o : inflight' = inflight \cup {[op |-> op, submission |-> p.submission,
                                             tier |-> p.tier, order |-> o,
                                             tierOrigin |-> None]}
        /\ p.upgrade <=> op = "Upgrade"
        /\ Undelivered(p)
    BY DEF ReadActivation, ReadUpgrade, Begin, Settling
<1> PICK o : inflight' = inflight \cup {[op |-> op, submission |-> p.submission,
                                         tier |-> p.tier, order |-> o, tierOrigin |-> None]}
    BY <1>1
<1> DEFINE w == [op |-> op, submission |-> p.submission, tier |-> p.tier,
                 order |-> o, tierOrigin |-> None]
<1>2. /\ w.op = op /\ w.submission = p.submission /\ w.tier = p.tier
      /\ inflight' = inflight \cup {w}
    BY <1>1
<1> HIDE DEF w
<1>3. Intent(w) = p
    BY <1>1, <1>2 DEF Intent, TypeOK, PaymentIntent
<1>4. ASSUME NEW v \in inflight, v.op \in Settling, Intent(v) = Intent(w) PROVE FALSE
    <2>1. v.submission = p.submission /\ v.tier = p.tier /\ (v.op = "Upgrade" <=> p.upgrade)
        BY <1>2, <1>4, <1>1 DEF Intent
    <2> QED BY <1>1, <1>4, <2>1 DEF Undelivered, Settling
<1> QED BY <1>2, <1>3, <1>4 DEF SettledOnce, Intent

\* A webhook's commit settles its intent and no other.
LEMMA SettledCommits ==
    ASSUME TypeOK, SettledOnce, RowsStay, NEW w \in inflight, inflight' = inflight \ {w},
           w.op \in Settling, Settle(w, w.op = "Upgrade"),
           submission[w.submission].status # "NONE"
    PROVE  SettledOnce'
<1>1. open' = open \ {Intent(w)} /\ settled' = settled \cup {Intent(w)}
    BY DEF Settle, Intent
<1>2. Intent(w) \in open /\ Intent(w).submission = w.submission
    BY DEF SettledOnce, Intent
<1>3. \A v \in inflight' : v.op \in Settling => Intent(v) \in open /\ Intent(v) # Intent(w)
    BY DEF SettledOnce
<1>4. \A p \in settled' : submission'[p.submission].status # "NONE"
    BY <1>1, <1>2, IntentTypes DEF SettledOnce, RowsStay
<1> QED BY <1>1, <1>3, <1>4 DEF SettledOnce

\* A submission that did not exist has settled no intent yet.
LEMMA SettledCreates ==
    ASSUME TypeOK, SettledOnce, RowsStay, inflight' = inflight, settled' = settled,
           NEW p, open' = open \cup {p}, p \notin settled
    PROVE  SettledOnce'
BY IntentTypes DEF SettledOnce, RowsStay, Settling, Intent

\* The rows of a submission stay, whatever the step.
LEMMA NoRowLost == ASSUME Inv, [Next]_vars PROVE RowsStay
<1> USE DEF RowsStay
<1>0. submission \in [Submissions -> SubmissionRow] /\ \A w \in inflight : w.submission \in Submissions
    BY IntentTypes DEF Inv, TypeOK
<1>1. CASE Host \/ Tick
    <2>1. Gentle
        BY <1>1, PlayerEffect, QuietEffect DEF Host, Inv
    <2> QED BY <2>1 DEF Gentle
<1>2. CASE Submit
    BY <1>0, <1>2 DEF Submit, ReadSubmitFree, SubmitPaid, rows
<1>3. CASE Webhook
    BY <1>3 DEF Webhook, ReadActivation, rows
<1>4. ASSUME NEW w \in inflight,
             \/ CommitChangeTier(w) \/ CommitSubmitFree(w) \/ CommitActivation(w)
             \/ CommitUpgrade(w) \/ CommitRejection(w)
      PROVE  RowsStay
    <2>1. CASE CommitChangeTier(w)
        BY <1>0, <2>1 DEF CommitChangeTier, SubmissionRow
    <2>2. CASE CommitSubmitFree(w)
        BY <1>0, <2>2 DEF CommitSubmitFree
    <2>3. CASE CommitActivation(w)
        BY <1>0, <2>3 DEF CommitActivation, SubmissionRow
    <2>4. CASE CommitUpgrade(w)
        BY <1>0, <2>4 DEF CommitUpgrade
    <2>5. CASE CommitRejection(w)
        BY <1>0, <2>5 DEF CommitRejection, SubmissionRow
    <2> QED BY <1>4, <2>1, <2>2, <2>3, <2>4, <2>5
<1>5. ASSUME NEW s \in Submissions, AdminRemove(s) \/ AdminRestrict(s) PROVE RowsStay
    BY <1>0, <1>5 DEF AdminRemove, AdminRestrict, SubmissionRow
<1>7. CASE Override
    BY <1>4, <1>5, <1>7 DEF Override, RequestUpgrade, ReadUpgrade, ReadRejection, rows
<1>6. CASE UNCHANGED vars
    BY <1>6 DEF vars, rows
<1> QED BY <1>1, <1>2, <1>3, <1>4, <1>6, <1>7 DEF Next, StationNext, Commit

LEMMA SettledInit == Init => SettledOnce
BY DEF Init, SettledOnce

LEMMA SettledNext == Inv /\ SettledOnce /\ [Next]_vars => SettledOnce'
<1> SUFFICES ASSUME Inv, SettledOnce, [Next]_vars PROVE SettledOnce'
    OBVIOUS
<1>1. RowsStay /\ TypeOK
    BY NoRowLost DEF Inv
<1>2. CASE Host \/ Tick
    <2>1. ASSUME NEW e \in Submissions, NEW t \in Ranks, ReadChangeTier(e, t)
          PROVE  UNCHANGED money /\ \A w \in inflight' : w \in inflight \/ w.op = "ChangeTier"
        BY <2>1 DEF ReadChangeTier, Begin
    <2>2. \/ UNCHANGED <<money, inflight>>
          \/ \E e \in Submissions, t \in Ranks : ReadChangeTier(e, t)
        BY <1>2 DEF Host, Tick, LockSession, ReleaseSession, PauseLiveSession,
                    ResumeLiveSession, EndLiveSession, PlayNext, ClearPlayer, LoadQueueEntry,
                    MoveToNext, SkipQueueEntry, CompleteQueueEntry, RemoveQueueEntry, Finish
    <2> QED BY <1>1, <2>1, <2>2, SettledKeeps DEF Settling
<1>3. ASSUME NEW s \in Submissions, ReadSubmitFree(s) PROVE SettledOnce'
    <2>1. UNCHANGED money /\ \A w \in inflight' : w \in inflight \/ w.op = "SubmitFree"
        BY <1>3 DEF ReadSubmitFree, Begin
    <2> QED BY <1>1, <2>1, SettledKeeps DEF Settling
<1>4. ASSUME NEW s \in Submissions, NEW t \in Tiers, SubmitPaid(s, t) PROVE SettledOnce'
    <2> DEFINE p == [submission |-> s, tier |-> t, upgrade |-> FALSE]
    <2>1. open' = open \cup {p} /\ settled' = settled /\ inflight' = inflight
        BY <1>4 DEF SubmitPaid
    <2>2. p \notin settled
        BY <1>4 DEF SubmitPaid, SettledOnce
    <2> HIDE DEF p
    <2> QED BY <1>1, <2>1, <2>2, SettledCreates
<1>5. ASSUME NEW p \in open, ReadActivation(p) \/ ReadUpgrade(p) PROVE SettledOnce'
    <2>1. UNCHANGED <<submission, open, settled>>
        BY <1>5 DEF ReadActivation, ReadUpgrade, rows, money
    <2> QED BY <1>1, <1>5, <2>1, SettledBegins
<1>6. ASSUME NEW p \in open, ReadRejection(p) PROVE SettledOnce'
    <2>1. UNCHANGED money /\ \A w \in inflight' : w \in inflight \/ w.op = "Reject"
        BY <1>6 DEF ReadRejection, Begin
    <2> QED BY <1>1, <2>1, SettledKeeps DEF Settling
<1>7. ASSUME NEW w \in inflight, inflight' = inflight \ {w},
             CommitChangeTier(w) \/ CommitSubmitFree(w) \/ CommitRejection(w)
      PROVE  SettledOnce'
    <2>1. UNCHANGED money
        BY <1>7 DEF CommitChangeTier, CommitSubmitFree, CommitRejection, money
    <2> QED BY <1>1, <1>7, <2>1, SettledKeeps
<1>8. ASSUME NEW w \in inflight, inflight' = inflight \ {w},
             \/ w.op = "Activate" /\ CommitActivation(w)
             \/ w.op = "Upgrade" /\ CommitUpgrade(w)
      PROVE  SettledOnce'
    <2>1. w.op \in Settling /\ Settle(w, w.op = "Upgrade")
        BY <1>8 DEF Settling, CommitActivation, CommitUpgrade
    <2>2. submission[w.submission].status # "NONE"
        BY <2>1 DEF Settling, Inv, CreatedOnce
    <2> QED BY <1>1, <1>8, <2>1, <2>2, SettledCommits
<1>9. ASSUME NEW s \in Submissions, AdminRemove(s) \/ AdminRestrict(s) PROVE SettledOnce'
    BY <1>1, <1>9, SettledKeeps DEF AdminRemove, AdminRestrict
<1>10. ASSUME NEW s \in Submissions, NEW t \in Tiers, RequestUpgrade(s, t) PROVE SettledOnce'
    <2> DEFINE p == [submission |-> s, tier |-> t, upgrade |-> TRUE]
    <2>1. /\ open' = open \cup {p} /\ settled' = settled /\ inflight' = inflight
          /\ p \notin settled
        BY <1>10 DEF RequestUpgrade
    <2> HIDE DEF p
    <2> QED BY <1>1, <2>1, SettledCreates
<1>11. CASE UNCHANGED vars
    <2>1. UNCHANGED <<money, inflight>>
        BY <1>11 DEF vars
    <2> QED BY <1>1, <2>1, SettledKeeps
<1> QED BY <1>2, <1>3, <1>4, <1>5, <1>6, <1>7, <1>8, <1>9, <1>10, <1>11
        DEF Next, StationNext, Submit, Webhook, Commit, Override

\* A webhook whose transaction commits settles an intent that was open.
LEMMA SettledInvariance == Spec => [](Inv /\ SettledOnce)
<1>1. Init => Inv /\ SettledOnce
    BY InvInit, SettledInit
<1>2. Inv /\ SettledOnce /\ [Next]_vars => (Inv /\ SettledOnce)'
    BY InvNext, SettledNext
<1> QED BY <1>1, <1>2, PTL DEF Spec

-----------------------------------------------------------------------------
(* How a finished entry comes back *)

ReturnsPaid(e) ==
    entry[e].status \in Finished /\ entry'[e].status \notin Finished =>
      \/ \E p \in settled' \ settled : p.submission = e
      \/ entry[e].status = "REMOVED" /\ seen # None /\ seen[e].status \notin Finished

\* A player operation changes only entries it saw playing or waiting: a
\* finished one among them was removed after the operation read it.
LEMMA PlayerReturns ==
    ASSUME Inv, PlayNext \/ ClearPlayer \/ \E e \in Submissions : LoadQueueEntry(e),
           NEW x \in Submissions
    PROVE  ReturnsPaid(x)
<1> DEFINE c == currentQueueEntryId
           t == EntriesDisplaced(seen, c)
           w == EntriesDisplaced(entry, c)
<1>1. /\ TypeOK /\ SeenIsRecent /\ seen # None
      /\ seen \in [Submissions -> EntryRow]
      /\ entry \in [Submissions -> EntryRow]
      /\ c \in Submissions \cup {None}
    BY DEF PlayNext, ClearPlayer, LoadQueueEntry, HoldsSession, Inv, TypeOK
<1>2. seen[x].status \in InLine => ReturnsPaid(x)
    BY <1>1 DEF ReturnsPaid, SeenIsRecent, Finished, InLine
<1>3. entry'[x] = entry[x] => ReturnsPaid(x)
    BY DEF ReturnsPaid
<1>4. w \in [Submissions -> EntryRow] /\ t \in [Submissions -> EntryRow]
    BY <1>1, DisplacedTypes
<1>5. ~(Occupied(c) /\ x = c) => w[x] = entry[x] /\ t[x] = seen[x]
    BY <1>1, DisplacedStatus
<1>6. Occupied(c) /\ x = c => seen[x].status \in InLine
    BY DEF Occupied, InLine
<1>7. ASSUME NEW e \in Submissions, NEW r \in [Submissions -> EntryRow], Enters(e, r),
             e = x => seen[x].status \in InLine
      PROVE  ReturnsPaid(x)
    <2> HIDE DEF w
    <2>1. entry' = [w EXCEPT ![e] = InPlayer(@, r[e])]
        BY <1>7 DEF Enters, w
    <2>2. e # x => entry'[x] = w[x]
        BY <1>4, <2>1
    <2> QED BY <1>2, <1>3, <1>5, <1>6, <1>7, <2>2
<1>8. CASE PlayNext
    <2>1. CASE entry' = w
        BY <1>2, <1>3, <1>5, <1>6, <2>1
    <2>2. ASSUME NEW e \in Heads(t), Enters(e, t) PROVE ReturnsPaid(x)
        <3>1. e \in Submissions /\ t[e].status = "QUEUED"
            BY DEF Heads, Firsts, Queued
        <3>2. e = x => seen[x].status \in InLine
            BY <1>5, <1>6, <3>1 DEF InLine
        <3> HIDE DEF t
        <3> QED BY <1>4, <1>7, <2>2, <3>1, <3>2
    <2> QED BY <1>8, <2>1, <2>2 DEF PlayNext
<1>9. ASSUME NEW e \in Submissions, LoadQueueEntry(e) PROVE ReturnsPaid(x)
    BY <1>1, <1>7, <1>9 DEF LoadQueueEntry, InLine
<1>10. CASE ClearPlayer
    <2>1. ~(Occupied(c) /\ x = c) => entry'[x] = entry[x]
        BY <1>1, <1>10 DEF ClearPlayer, rows
    <2> QED BY <1>2, <1>3, <1>6, <2>1
<1> QED BY <1>8, <1>9, <1>10

\* Only the commit of a success puts a finished entry back, among the steps
\* that are not the player's.
LEMMA OthersReturn ==
    ASSUME Inv, SettledOnce, [Next]_vars,
           ~(PlayNext \/ ClearPlayer \/ \E e \in Submissions : LoadQueueEntry(e)),
           NEW x \in Submissions
    PROVE  ReturnsPaid(x)
<1> USE DEF rows
<1>0. /\ entry \in [Submissions -> EntryRow]
      /\ \A w \in inflight : w.submission \in Submissions
    BY IntentTypes DEF Inv, TypeOK
<1>1. ASSUME entry'[x].status \in Finished \cup {entry[x].status}
      PROVE  ReturnsPaid(x)
    BY <1>1 DEF ReturnsPaid
<1>2. CASE Host
    <2>1. ASSUME NEW e \in Submissions, MoveToNext(e) PROVE ReturnsPaid(x)
        BY <1>0, <1>1, <2>1 DEF MoveToNext, EntryRow
    <2>2. ASSUME NEW e \in Submissions,
                 SkipQueueEntry(e) \/ CompleteQueueEntry(e) \/ RemoveQueueEntry(e)
          PROVE  ReturnsPaid(x)
        <3>1. PICK outcome \in Finished : Finish(e, outcome)
            BY <2>2 DEF SkipQueueEntry, CompleteQueueEntry, RemoveQueueEntry, Finished
        <3>2. e = x => entry'[x].status = outcome
            BY <1>0, <3>1 DEF Finish, EntryRow
        <3>3. e # x => entry'[x] = entry[x]
            BY <1>0, <3>1 DEF Finish
        <3> QED BY <1>1, <3>2, <3>3
    <2>3. ASSUME UNCHANGED entry PROVE ReturnsPaid(x)
        BY <1>1, <2>3
    <2> QED BY <1>2, <2>1, <2>2, <2>3
            DEF Host, LockSession, ReleaseSession, PauseLiveSession, ResumeLiveSession,
                EndLiveSession, ReadChangeTier
<1>3. CASE Tick
    BY <1>0, <1>1, <1>3 DEF Tick, EntryRow
<1>4. ASSUME NEW s \in Submissions,
             ReadSubmitFree(s) \/ \E t \in Tiers : SubmitPaid(s, t)
      PROVE  ReturnsPaid(x)
    <2>1. CASE ReadSubmitFree(s)
        BY <1>1, <2>1 DEF ReadSubmitFree
    <2>2. ASSUME NEW t \in Tiers, SubmitPaid(s, t) PROVE ReturnsPaid(x)
        <3>1. s # x => entry'[x] = entry[x]
            BY <1>0, <2>2 DEF SubmitPaid
        <3>2. entry[s].status = "NONE"
            BY <2>2 DEF SubmitPaid, Inv, RowsTogether
        <3> QED BY <1>1, <3>1, <3>2 DEF ReturnsPaid, Finished
    <2> QED BY <1>4, <2>1, <2>2
<1>5. ASSUME NEW w \in inflight, CommitChangeTier(w) \/ CommitRejection(w) PROVE ReturnsPaid(x)
    <2>1. CASE CommitChangeTier(w)
        BY <1>0, <1>1, <2>1 DEF CommitChangeTier, EntryRow
    <2>2. CASE CommitRejection(w)
        BY <1>0, <1>1, <2>2 DEF CommitRejection, EntryRow, Finished
    <2> QED BY <1>5, <2>1, <2>2
<1>6. ASSUME NEW w \in inflight, w.op = "SubmitFree", CommitSubmitFree(w) PROVE ReturnsPaid(x)
    <2>1. w.submission # x => entry'[x] = entry[x]
        BY <1>0, <1>6 DEF CommitSubmitFree
    <2>2. entry[w.submission].status = "NONE"
        BY <1>0, <1>6 DEF Inv, CreatedOnce, RowsTogether
    <2> QED BY <1>1, <2>1, <2>2 DEF ReturnsPaid, Finished
<1>7. ASSUME NEW w \in inflight,
             \/ w.op = "Activate" /\ CommitActivation(w)
             \/ w.op = "Upgrade" /\ CommitUpgrade(w)
      PROVE  ReturnsPaid(x)
    <2>1. w.submission # x => entry'[x] = entry[x]
        BY <1>0, <1>7 DEF CommitActivation, CommitUpgrade
    <2>2. Intent(w) \in settled'
        BY <1>7 DEF CommitActivation, CommitUpgrade, Settle, Intent
    <2>3. Intent(w) \notin settled
        BY <1>7 DEF SettledOnce, Settling
    <2>4. Intent(w).submission = w.submission
        BY DEF Intent
    <2> QED BY <1>1, <2>1, <2>2, <2>3, <2>4 DEF ReturnsPaid
<1>8. ASSUME NEW s \in Submissions, AdminRemove(s) \/ AdminRestrict(s) PROVE ReturnsPaid(x)
    BY <1>0, <1>1, <1>8 DEF AdminRemove, AdminRestrict, EntryRow, Finished
<1>9. ASSUME UNCHANGED entry PROVE ReturnsPaid(x)
    BY <1>1, <1>9
<1> QED BY <1>2, <1>3, <1>4, <1>5, <1>6, <1>7, <1>8, <1>9
        DEF Next, StationNext, Submit, Webhook, Commit, Override, ReadActivation, ReadUpgrade,
            ReadRejection, RequestUpgrade, vars

\* A finished entry comes back only for a payment that is settled in the same
\* commit, whatever free commits, tier changes or host operations overlap; the
\* exception is an entry removed under a host operation that had read it.
THEOREM ReturnsOnlyPaid == Spec => FinishedReturnsOnlyPaid
<1>1. Inv /\ SettledOnce /\ [Next]_vars => [\A e \in Submissions : ReturnsPaid(e)]_vars
    BY PlayerReturns, OthersReturn
<1>2. Spec => [][\A e \in Submissions : ReturnsPaid(e)]_vars
    BY <1>1, SettledInvariance, PTL DEF Spec
<1> QED BY <1>2 DEF FinishedReturnsOnlyPaid, ReturnsPaid

-----------------------------------------------------------------------------
(* The station without upgrades, failed payments and admin *)

\* The play clock of one row, and the rows the player writes.
ClockRow(row) ==
    /\ row.loaded # None <=> row.status = "PLAYING"
    /\ row.status = "PLAYING" => row.origin # None

\* Whatever row the player writes, its clock runs only while it plays.
LEMMA ClockRows ==
    ASSUME NEW row \in EntryRow
    PROVE  /\ ClockRow(ToHistory(row))
           /\ \A r \in Ranks, o \in Int : ClockRow(BackInQueue(row, r, o))
           /\ \A read \in EntryRow : ClockRow(InPlayer(row, read))
<1>1. ClockRow(ToHistory(row)) /\ \A r \in Ranks, o \in Int : ClockRow(BackInQueue(row, r, o))
    BY DEF ClockRow, ToHistory, BackInQueue, EntryRow
<1>2. ASSUME NEW read \in EntryRow PROVE ClockRow(InPlayer(row, read))
    <2> DEFINE place == [priorityRank |-> read.priorityRank, sortOrder |-> read.sortOrder]
               new   == [row EXCEPT !.status = "PLAYING", !.loaded = 0, !.origin = place]
    <2>1. place # None
        BY PlaceAssumption DEF EntryRow, Place
    <2>2. InPlayer(row, read) = new
        BY DEF InPlayer
    <2> HIDE DEF place
    <2>3. new.status = "PLAYING" /\ new.loaded = 0 /\ new.origin = place
        BY DEF EntryRow
    <2> HIDE DEF new
    <2> QED BY <2>1, <2>2, <2>3 DEF ClockRow
<1> QED BY <1>1, <1>2

\* A success being processed is that of an open intent, so the entry it lets
\* into the queue is not in the player.
LEMMA ActivatesOutside ==
    ASSUME Inv, SettledOnce, NEW w \in inflight, w.op = "Activate"
    PROVE  entry[w.submission].status \notin InLine
<1>1. Intent(w) \in open /\ Intent(w).submission = w.submission /\ ~Intent(w).upgrade
    BY DEF SettledOnce, Settling, Intent
<1> QED BY <1>1 DEF Inv, UnpaidNeverQueued, InLine

\* The player's operations keep every clock right.
LEMMA ClockPlayer ==
    ASSUME TypeOK, ClockOnlyInPlayer,
           PlayNext \/ ClearPlayer \/ \E e \in Submissions : LoadQueueEntry(e)
    PROVE  ClockOnlyInPlayer'
<1> DEFINE c == currentQueueEntryId
           t == EntriesDisplaced(seen, c)
           w == EntriesDisplaced(entry, c)
<1>1. /\ seen # None
      /\ seen \in [Submissions -> EntryRow] /\ entry \in [Submissions -> EntryRow]
      /\ c \in Submissions \cup {None}
    BY DEF PlayNext, ClearPlayer, LoadQueueEntry, HoldsSession, TypeOK
<1>2. w \in [Submissions -> EntryRow] /\ t \in [Submissions -> EntryRow]
    BY <1>1, DisplacedTypes
<1>3. \A x \in Submissions : ClockRow(w[x])
    <2> SUFFICES ASSUME NEW x \in Submissions PROVE ClockRow(w[x])
        OBVIOUS
    <2>1. CASE Occupied(c) /\ x = c
        <3>1. w[x] = DisplacedRow(entry[x], x)
            BY <1>1, <2>1 DEF EntriesDisplaced
        <3>2. Origin(seen[x]) \in Place
            BY <1>1, OriginType
        <3>3. Origin(seen[x]).priorityRank \in Ranks /\ Origin(seen[x]).sortOrder \in Int
            BY <3>2 DEF Place
        <3>4. \E r \in Ranks, o \in Int :
                 DisplacedRow(entry[x], x) \in {ToHistory(entry[x]), BackInQueue(entry[x], r, o)}
            BY <3>3 DEF DisplacedRow
        <3> QED BY <1>1, <3>1, <3>4, ClockRows
    <2>2. CASE ~(Occupied(c) /\ x = c)
        BY <1>1, <2>2, DisplacedStatus DEF ClockOnlyInPlayer, ClockRow
    <2> QED BY <2>1, <2>2
<1>4. ASSUME NEW e \in Submissions, NEW r \in [Submissions -> EntryRow], Enters(e, r)
      PROVE  ClockOnlyInPlayer'
    <2> HIDE DEF w
    <2>1. entry' = [w EXCEPT ![e] = InPlayer(@, r[e])]
        BY <1>4 DEF Enters, w
    <2>2. ClockRow(InPlayer(w[e], r[e]))
        BY <1>2, ClockRows
    <2>3. \A x \in Submissions : ClockRow(entry'[x])
        BY <1>2, <1>3, <2>1, <2>2
    <2> QED BY <2>3 DEF ClockOnlyInPlayer, ClockRow
<1>5. CASE PlayNext
    <2>1. CASE entry' = w
        BY <1>3, <2>1 DEF ClockOnlyInPlayer, ClockRow
    <2>2. ASSUME NEW e \in Heads(t), Enters(e, t) PROVE ClockOnlyInPlayer'
        <3>1. e \in Submissions
            BY DEF Heads, Firsts, Queued
        <3> HIDE DEF t
        <3> QED BY <1>2, <1>4, <2>2, <3>1
    <2> QED BY <1>5, <2>1, <2>2 DEF PlayNext
<1>6. ASSUME NEW e \in Submissions, LoadQueueEntry(e) PROVE ClockOnlyInPlayer'
    BY <1>1, <1>4, <1>6 DEF LoadQueueEntry
<1>7. CASE ClearPlayer
    <2> DEFINE place == Origin(seen[c])
    <2>1. CASE Occupied(c)
        <3>1. c \in Submissions /\ seen[c] \in EntryRow
            BY <1>1, <2>1 DEF Occupied
        <3>2. place.priorityRank \in Ranks /\ place.sortOrder \in Int
            BY <3>1, OriginType DEF Place
        <3>3. entry' = [entry EXCEPT ![c] = BackInQueue(@, place.priorityRank, place.sortOrder)]
            BY <1>7, <2>1 DEF ClearPlayer
        <3> HIDE DEF place
        <3>4. ClockRow(BackInQueue(entry[c], place.priorityRank, place.sortOrder))
            BY <1>1, <3>1, <3>2, ClockRows
        <3>5. \A x \in Submissions : ClockRow(entry'[x])
            BY <1>1, <3>1, <3>3, <3>4 DEF ClockOnlyInPlayer, ClockRow
        <3> QED BY <3>5 DEF ClockOnlyInPlayer, ClockRow
    <2>2. CASE ~Occupied(c)
        BY <1>7, <2>2 DEF ClearPlayer, rows, ClockOnlyInPlayer
    <2> QED BY <2>1, <2>2
<1> QED BY <1>5, <1>6, <1>7

\* So do the station's other operations, the activations because none of
\* them meets an entry in the player, and time.
LEMMA ClockOthers ==
    ASSUME Inv, SettledOnce, ClockOnlyInPlayer, [StationNext]_vars,
           ~(PlayNext \/ ClearPlayer \/ \E e \in Submissions : LoadQueueEntry(e))
    PROVE  ClockOnlyInPlayer'
<1> USE DEF rows
<1>0. /\ entry \in [Submissions -> EntryRow]
      /\ \A w \in inflight : w.submission \in Submissions
    BY IntentTypes DEF Inv, TypeOK
<1>1. ASSUME UNCHANGED entry PROVE ClockOnlyInPlayer'
    BY <1>1 DEF ClockOnlyInPlayer
<1>2. ASSUME NEW e \in Submissions,
             \A x \in Submissions \ {e} : entry'[x] = entry[x], ClockRow(entry'[e])
      PROVE  ClockOnlyInPlayer'
    BY <1>2 DEF ClockOnlyInPlayer, ClockRow
<1>3. \A e \in Submissions : ClockRow(entry[e])
    BY DEF ClockOnlyInPlayer, ClockRow
<1>4. CASE Host
    <2>1. ASSUME NEW e \in Submissions, MoveToNext(e) PROVE ClockOnlyInPlayer'
        <3>1. /\ \A x \in Submissions \ {e} : entry'[x] = entry[x]
              /\ ClockRow(entry'[e])
            BY <1>0, <1>3, <2>1 DEF MoveToNext, EntryRow, ClockRow
        <3> QED BY <1>2, <3>1
    <2>2. ASSUME NEW e \in Submissions,
                 SkipQueueEntry(e) \/ CompleteQueueEntry(e) \/ RemoveQueueEntry(e)
          PROVE  ClockOnlyInPlayer'
        <3>1. PICK outcome \in Finished : Finish(e, outcome)
            BY <2>2 DEF SkipQueueEntry, CompleteQueueEntry, RemoveQueueEntry, Finished
        <3>2. entry'[e].status = outcome /\ entry'[e].loaded = None
            BY <1>0, <3>1 DEF Finish, EntryRow
        <3>3. \A x \in Submissions \ {e} : entry'[x] = entry[x]
            BY <1>0, <3>1 DEF Finish
        <3> QED BY <1>2, <3>2, <3>3 DEF ClockRow, Finished
    <2> QED BY <1>1, <1>4, <2>1, <2>2
            DEF Host, LockSession, ReleaseSession, PauseLiveSession, ResumeLiveSession,
                EndLiveSession, ReadChangeTier
<1>5. CASE Tick
    <2>1. ASSUME NEW x \in Submissions PROVE ClockRow(entry'[x])
        <3>1. /\ entry'[x].status = entry[x].status /\ entry'[x].origin = entry[x].origin
              /\ entry'[x].loaded = None <=> entry[x].loaded = None
            <4>1. entry[x].loaded \in Int \cup {None}
                BY <1>0 DEF EntryRow
            <4>2. CASE entry[x].loaded = None \/ entry[x].loaded = QualifyTicks
                BY <1>5, <4>2 DEF Tick
            <4>3. CASE ~(entry[x].loaded = None \/ entry[x].loaded = QualifyTicks)
                <5>1. entry'[x] = [entry[x] EXCEPT !.loaded = entry[x].loaded + 1]
                    BY <1>5, <4>3 DEF Tick
                <5>2. /\ entry'[x].status = entry[x].status /\ entry'[x].origin = entry[x].origin
                      /\ entry'[x].loaded = entry[x].loaded + 1
                    BY <1>0, <5>1 DEF EntryRow
                <5>3. entry[x].loaded + 1 \in Int
                    BY <4>1, <4>3
                <5> QED BY <4>3, <5>2, <5>3
            <4> QED BY <4>2, <4>3
        <3> QED BY <1>3, <3>1 DEF ClockRow
    <2> QED BY <2>1 DEF ClockOnlyInPlayer, ClockRow
<1>6. ASSUME NEW s \in Submissions, NEW t \in Tiers, SubmitPaid(s, t) PROVE ClockOnlyInPlayer'
    <2>1. \A x \in Submissions \ {s} : entry'[x] = entry[x]
        BY <1>0, <1>6 DEF SubmitPaid
    <2>2. ClockRow(entry'[s])
        BY <1>0, <1>6 DEF SubmitPaid, NoEntry, ClockRow
    <2> QED BY <1>2, <2>1, <2>2
<1>7. ASSUME NEW w \in inflight,
             \/ CommitChangeTier(w)
             \/ CommitSubmitFree(w)
             \/ w.op = "Activate" /\ CommitActivation(w)
      PROVE  ClockOnlyInPlayer'
    <2>1. \A x \in Submissions \ {w.submission} : entry'[x] = entry[x]
        BY <1>0, <1>7 DEF CommitChangeTier, CommitSubmitFree, CommitActivation
    <2>2. ClockRow(entry'[w.submission])
        <3>1. CASE CommitChangeTier(w)
            BY <1>0, <1>3, <3>1 DEF CommitChangeTier, EntryRow, ClockRow
        <3>2. CASE CommitSubmitFree(w)
            BY <1>0, <3>2 DEF CommitSubmitFree, NoEntry, ClockRow
        <3>3. CASE w.op = "Activate" /\ CommitActivation(w)
            <4>1. entry'[w.submission].status = "QUEUED"
                BY <1>0, <3>3 DEF CommitActivation, EntryRow
            <4>2. entry'[w.submission].loaded = entry[w.submission].loaded
                BY <1>0, <3>3 DEF CommitActivation, EntryRow
            <4> QED BY <1>0, <1>3, <3>3, <4>1, <4>2, ActivatesOutside DEF ClockRow, InLine
        <3> QED BY <1>7, <3>1, <3>2, <3>3
    <2> QED BY <1>0, <1>2, <2>1, <2>2
<1> QED BY <1>1, <1>4, <1>5, <1>6, <1>7
        DEF StationNext, Submit, Webhook, Commit, ReadSubmitFree, ReadActivation, vars

-----------------------------------------------------------------------------
(* The station implements SinglePlayer *)

StationInv == Inv /\ SettledOnce /\ ClockOnlyInPlayer

LEMMA StationInvariance == StationSpec => []StationInv
<1>1. Init => StationInv
    BY InvInit, SettledInit DEF Init, StationInv, ClockOnlyInPlayer, NoEntry
<1>2. StationInv /\ [StationNext]_vars => StationInv'
    <2>1. [StationNext]_vars => [Next]_vars
        BY DEF Next
    <2> QED BY <2>1, InvNext, SettledNext, ClockPlayer, ClockOthers DEF StationInv, Inv
<1> QED BY <1>1, <1>2, PTL DEF StationSpec

\* A station without overrides never has a clock running outside the player,
\* nor a playing entry that has forgotten its place.
THEOREM StationClocks == StationSpec => []ClockOnlyInPlayer
<1>1. StationInv => ClockOnlyInPlayer
    BY DEF StationInv
<1> QED BY <1>1, StationInvariance, PTL

\* The steps of SinglePlayer, with the session's pointer for its slot.
PlayerStep == [Player!Next]_<<currentQueueEntryId, plays>>

\* What leaves the slot earns a play or not; what stays earns none.
LEMMA SlotSteps ==
    ASSUME currentQueueEntryId \in Submissions \cup {None},
           currentQueueEntryId' \in Submissions \cup {None},
           \/ plays' = plays
           \/ /\ currentQueueEntryId # None
              /\ currentQueueEntryId' # currentQueueEntryId
              /\ plays' = [plays EXCEPT ![currentQueueEntryId] = @ + 1]
    PROVE  PlayerStep
BY DEF PlayerStep, Player!Next, Player!Leave, Player!Enter

\* A player operation counts a play only of the entry that it takes out:
\* one that qualified goes to history, where nothing loads it from.
LEMMA PlayerSteps ==
    ASSUME Inv, PlayNext \/ ClearPlayer \/ \E e \in Submissions : LoadQueueEntry(e)
    PROVE  PlayerStep
<1> DEFINE c == currentQueueEntryId
           t == EntriesDisplaced(seen, c)
<1>1. /\ TypeOK /\ seen # None
      /\ seen \in [Submissions -> EntryRow]
      /\ c \in Submissions \cup {None}
    BY DEF PlayNext, ClearPlayer, LoadQueueEntry, HoldsSession, Inv, TypeOK
<1>2. currentQueueEntryId' \in Submissions \cup {None}
    BY InvHost DEF Host, Inv, TypeOK
<1>3. \/ PlaysDisplaced(c) = plays
      \/ /\ Occupied(c) /\ Qualifies(seen[c])
         /\ PlaysDisplaced(c) = [plays EXCEPT ![c] = @ + 1]
    BY DEF PlaysDisplaced
<1>4. CASE PlayNext
    <2>1. ASSUME Occupied(c), Qualifies(seen[c]), c \in Heads(t) PROVE FALSE
        <3>1. c \in Submissions /\ seen[c] \in EntryRow
            BY <1>1, <2>1 DEF Occupied
        <3>2. t[c] = ToHistory(seen[c])
            BY <1>1, <2>1, <3>1 DEF EntriesDisplaced, DisplacedRow
        <3>3. t[c].status = "MOVED_TO_HISTORY"
            BY <3>1, <3>2 DEF ToHistory, EntryRow
        <3> QED BY <2>1, <3>3 DEF Heads, Firsts, Queued
    <2>2. currentQueueEntryId' = None \/ currentQueueEntryId' \in Heads(t)
        BY <1>4 DEF PlayNext, Enters
    <2>3. plays' = PlaysDisplaced(c)
        BY <1>4 DEF PlayNext
    <2> HIDE DEF t
    <2> QED BY <1>1, <1>2, <1>3, <2>1, <2>2, <2>3, SlotSteps DEF Occupied
<1>5. ASSUME NEW e \in Submissions, LoadQueueEntry(e) PROVE PlayerStep
    <2>1. seen[e].status = "QUEUED" /\ currentQueueEntryId' = e /\ plays' = PlaysDisplaced(c)
        BY <1>5 DEF LoadQueueEntry, Enters
    <2> QED BY <1>1, <1>2, <1>3, <2>1, SlotSteps DEF Occupied
<1>6. CASE ClearPlayer
    BY <1>1, <1>2, <1>6, SlotSteps DEF ClearPlayer
<1> QED BY <1>4, <1>5, <1>6

\* Completing an entry counts a play only while its clock runs, that is while
\* it is in the player, and takes it out.
LEMMA CompleteSteps ==
    ASSUME StationInv, NEW e \in Submissions, CompleteQueueEntry(e)
    PROVE  PlayerStep
<1>1. /\ currentQueueEntryId \in Submissions \cup {None}
      /\ currentQueueEntryId' = IF currentQueueEntryId = e THEN None ELSE currentQueueEntryId
    BY DEF StationInv, Inv, TypeOK, CompleteQueueEntry, Finish
<1>2. CASE Qualifies(entry[e])
    <2>1. currentQueueEntryId = e
        BY <1>2 DEF Qualifies, StationInv, ClockOnlyInPlayer, Inv, PlayingIsCurrent
    <2>2. plays' = [plays EXCEPT ![e] = @ + 1]
        BY <1>2 DEF CompleteQueueEntry
    <2> QED BY <1>1, <2>1, <2>2, SlotSteps
<1>3. CASE ~Qualifies(entry[e])
    <2>1. plays' = plays
        BY <1>3 DEF CompleteQueueEntry
    <2> QED BY <1>1, <2>1, SlotSteps
<1> QED BY <1>2, <1>3

LEMMA StationSteps == StationInv /\ [StationNext]_vars => PlayerStep
<1> SUFFICES ASSUME StationInv, [StationNext]_vars PROVE PlayerStep
    OBVIOUS
<1> USE DEF session, rows, money
<1>1. currentQueueEntryId \in Submissions \cup {None}
    BY DEF StationInv, Inv, TypeOK
<1>2. CASE PlayNext \/ ClearPlayer \/ \E e \in Submissions : LoadQueueEntry(e)
    BY <1>2, PlayerSteps DEF StationInv
<1>3. ASSUME NEW e \in Submissions, CompleteQueueEntry(e) PROVE PlayerStep
    BY <1>3, CompleteSteps
<1>4. ASSUME NEW e \in Submissions, SkipQueueEntry(e) \/ RemoveQueueEntry(e) PROVE PlayerStep
    BY <1>1, <1>4, SlotSteps DEF SkipQueueEntry, RemoveQueueEntry, Finish
<1>5. ASSUME UNCHANGED <<currentQueueEntryId, plays>> PROVE PlayerStep
    BY <1>5 DEF PlayerStep
<1>6. CASE Host
    <2>1. \/ UNCHANGED <<currentQueueEntryId, plays>>
          \/ PlayNext \/ ClearPlayer
          \/ \E e \in Submissions : \/ LoadQueueEntry(e) \/ CompleteQueueEntry(e)
                                    \/ SkipQueueEntry(e) \/ RemoveQueueEntry(e)
        BY <1>6 DEF Host, LockSession, ReleaseSession, PauseLiveSession, ResumeLiveSession,
                    EndLiveSession, MoveToNext, ReadChangeTier
    <2> QED BY <1>2, <1>3, <1>4, <1>5, <2>1
<1>7. CASE Submit \/ Webhook \/ Commit \/ Tick \/ UNCHANGED vars
    <2>1. UNCHANGED <<currentQueueEntryId, plays>>
        BY <1>7 DEF Submit, ReadSubmitFree, SubmitPaid, Webhook, ReadActivation, Commit,
                    CommitChangeTier, CommitSubmitFree, CommitActivation, Tick, vars
    <2> QED BY <1>5, <2>1
<1> QED BY <1>6, <1>7 DEF StationNext

\* The queue's tables implement a player that holds one track: what the
\* pointer holds changes one track at a time, and each stay earns at most one
\* play, counted when the track leaves.
THEOREM StationImplementsPlayer == StationSpec => ImplementsPlayer
<1>1. Init => Player!Init
    BY DEF Init, Player!Init
<1>2. StationInv /\ [StationNext]_vars => [Player!Next]_<<currentQueueEntryId, plays>>
    BY StationSteps DEF PlayerStep
<1> QED BY <1>1, <1>2, StationInvariance, PTL DEF StationSpec, ImplementsPlayer, Player!Spec

=============================================================================
