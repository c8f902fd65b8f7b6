------------------------------ MODULE Checkout ------------------------------
(***************************************************************************)
(* Buying a place in a priority tier: the dialogs of the site, the two     *)
(* requests that open a checkout, the card payment, the webhooks that      *)
(* settle it, the tier's reservations and limits, and the administrator's  *)
(* repairs of what looks stuck.                                            *)
(*                                                                         *)
(* One session that is LIVE with one tier, and users who each have one     *)
(* track, already queued by a free submission.  The keys and the retries   *)
(* of a request are the subject of Submissions, the books of a payment     *)
(* that of Payments, the order of the line that of LiveQueue.              *)
(***************************************************************************)
EXTENDS Naturals, FiniteSets

CONSTANTS
    Users,
    Tabs,             \* the browser's tabs
    UserOf,           \* the user that each of them is logged in as
    Payments,         \* PaymentIntents, one for each checkout
    None,
    Prices,           \* what the host may ask for the tier
    MaxSimultaneous,  \* maxSimultaneousActiveEntries, 0 for no limit
    MaxPerUser,       \* maxPurchasesPerUserPerLive, 0 for no limit
    PerLive,          \* what maxPurchasesPerLive may be, 0 for no limit
    MaxEdits          \* bound on the host's edits of the tier and the repairs

ASSUME LimitsAssumption == MaxSimultaneous \in Nat /\ MaxPerUser \in Nat /\ PerLive \subseteq Nat
ASSUME BoundAssumption  == MaxEdits \in Nat
ASSUME PricesAssumption == Prices \subseteq Nat /\ Prices # {}
ASSUME TabsAssumption   == UserOf \in [Tabs -> Users]
ASSUME NoneAssumption   == None \notin Payments \cup Users \cup Prices

VARIABLES
    tier,      \* the tier's snapshot, and whether paid submissions are open
    edits,     \* the host's edits of it, and the repairs, so far
    song,      \* each user's free submission
    checkout,  \* each payment with its submission and its reservation
    modal,     \* each tab's dialog
    stale,     \* history: a checkout was committed between another's check and
               \* commit, or an upgrade settled after its reservation had ended
    double     \* history: an upgrade was checked while another one of the submission
               \* could still be paid, or had been and was not settled

server  == <<tier, edits, song, checkout>>
history == <<stale, double>>
vars    == <<server, modal, history>>

-----------------------------------------------------------------------------

Tier  == [price : Prices, open : BOOLEAN, maxPerLive : PerLive]
Kinds == {"new", "upgrade"}

\* A checkout's request, from the click to its commit, then Payment.status.
\* "over" is a request that was refused or failed.
Requested == {"check", "intent"}
Recorded  == {"CREATED", "SETTLED", "FAILED", "CANCELLED"}

Entry == {"AWAITING_PAYMENT", "QUEUED", "PLAYED", "REMOVED"}

Checkout == [owner : Users \cup {None}, kind : Kinds, price : Prices \cup {None},
             row : {"none", "over"} \cup Requested \cup Recorded,
             seen : SUBSET Payments,  \* history: the commits before its check
             entry : Entry \cup {None},
             held : {"none", "ACTIVE", "CONSUMED", "RELEASED", "EXPIRED"},
             fresh : BOOLEAN,         \* it was not ACTIVE when its 15 minutes were over
             charged : BOOLEAN,       \* at Stripe
             events : SUBSET {"succeeded", "failed"}]

\* The dialogs.  A tab shows the station's page or that of the user's own
\* submissions: SubmissionModal sells a new entry, UpgradeModal an upgrade.  The
\* steps in which the track and its artist are chosen are left out.
\* The clientSecret is forgotten with the payment step, whose form alone reads it;
\* a dialog that is closed with nothing under way is no page's.
Modal == [kind : Kinds \cup {None}, isOpen : BOOLEAN,
          step : {"SELECT", "PAYMENT", "SUCCESS"},
          shown : Prices \cup {None},        \* selectedTier.priceCents
          clientSecret : Payments \cup {None},
          request : Payments \cup {None}]    \* isSubmitting

Nowhere == [kind |-> None, isOpen |-> FALSE, step |-> "SELECT", shown |-> None,
            clientSecret |-> None, request |-> None]

Left(m) == IF ~m.isOpen /\ m.step = "SELECT" /\ m.request = None THEN Nowhere ELSE m

TypeOK ==
    /\ tier \in Tier
    /\ edits \in 0..MaxEdits
    /\ song \in [Users -> [isPriority : BOOLEAN, entry : {"QUEUED", "PLAYED"}]]
    /\ checkout \in [Payments -> Checkout]
    /\ modal \in [Tabs -> Modal]
    /\ stale \in BOOLEAN /\ double \in BOOLEAN

Init ==
    /\ tier \in [price : Prices, open : {TRUE}, maxPerLive : PerLive]
    /\ edits = 0
    /\ song = [u \in Users |-> [isPriority |-> FALSE, entry |-> "QUEUED"]]
    /\ checkout = [p \in Payments |->
                    [owner |-> None, kind |-> "new", price |-> None, row |-> "none", seen |-> {},
                     entry |-> None, held |-> "none", fresh |-> FALSE, charged |-> FALSE,
                     events |-> {}]]
    /\ modal = [b \in Tabs |-> Nowhere]
    /\ stale = FALSE /\ double = FALSE

-----------------------------------------------------------------------------
(* getEligibility: what counts against the tier's limits.                  *)

Committed == {p \in Payments : checkout[p].row \in Recorded}
Of(u)     == {p \in Committed : checkout[p].owner = u}

\* Submissions that name the tier, whatever became of them, and upgrades.
NewIn(S)      == {p \in S : checkout[p].kind = "new"}
UpgradesIn(S) == {p \in S : checkout[p].kind = "upgrade" /\ checkout[p].row = "SETTLED"}
Upgraded(U)   == {u \in U : song[u].isPriority}

Purchases(S, U) == Cardinality(NewIn(S)) + Cardinality(Upgraded(U)) + Cardinality(UpgradesIn(S))

\* Reservations that are ACTIVE and have not expired.
ReservedIn(S) == {p \in S : checkout[p].held = "ACTIVE" /\ checkout[p].fresh}

\* Mutant: reservations are left out of the counts.
MutReserved(S) == 0

Reserved(S) == Cardinality(ReservedIn(S))

ActiveEntries(u) ==
    Cardinality({p \in NewIn(Of(u)) : checkout[p].entry \in {"AWAITING_PAYMENT", "QUEUED"}})
    + Cardinality({v \in Upgraded({u}) : song[v].entry = "QUEUED"})

Reaches(n, limit) == limit # 0 /\ n >= limit

Available(u) ==
    /\ tier.open
    /\ ~Reaches(ActiveEntries(u) + Reserved(Of(u)), MaxSimultaneous)
    /\ ~Reaches(Purchases(Of(u), {u}), MaxPerUser)
    /\ ~Reaches(Purchases(Committed, Users) + Reserved(Committed), tier.maxPerLive)

-----------------------------------------------------------------------------
(* The dialogs.                                                            *)

\* The tier's card, if it may be chosen.  The free line's, which SubmissionModal
\* also offers, is the subject of Submissions.
TierCards(u) == {price \in {tier.price} : Available(u)}

\* Eligibility is read on opening.  Another page's dialog, and what it had under
\* way, is gone with its component.
Open(b, k) ==
    LET m == modal[b]
        mounted == IF m.kind = k THEN m ELSE [Nowhere EXCEPT !.kind = k]
    IN
    /\ ~m.isOpen
    /\ \E tierShown \in {None} \cup TierCards(UserOf[b]) :
         modal' = [modal EXCEPT ![b] = [mounted EXCEPT !.isOpen = TRUE, !.shown = tierShown]]
    /\ UNCHANGED <<server, history>>

\* "Submit Track to Queue" on a page of the session, and "Upgrade to Priority" on
\* that of the user's submissions, which shows the status it once had: a free
\* submission was QUEUED when it was made.
SessionPage(b)     == Open(b, "new")
SubmissionsPage(b) == Open(b, "upgrade")

\* The effect of isOpen resets the dialog, but not a request under way.
Close(b) ==
    /\ modal[b].isOpen
    /\ modal' = [modal EXCEPT ![b] = Left([@ EXCEPT !.isOpen = FALSE, !.step = "SELECT",
                                                  !.shown = None, !.clientSecret = None])]
    /\ UNCHANGED <<server, history>>

\* The button is enabled.
MayStart(m) == m.isOpen /\ m.step = "SELECT" /\ m.shown # None /\ m.request = None

\* "Proceed to Payment" and "Upgrade": every click has a key of its own.
Start(b, p) ==
    LET m == modal[b] IN
    /\ MayStart(m)
    /\ checkout[p].row = "none"
    /\ modal' = [modal EXCEPT ![b].request = p]
    /\ checkout' = [checkout EXCEPT ![p].owner = UserOf[b], ![p].kind = m.kind, ![p].row = "check"]
    /\ UNCHANGED <<tier, edits, song, history>>

\* The answer is taken by the dialog even if it was closed in the meantime.
Answer(b) ==
    LET p == modal[b].request IN
    /\ p # None
    /\ \/ /\ checkout[p].row \in Recorded
          /\ modal' = [modal EXCEPT ![b].request = None, ![b].clientSecret = p, ![b].step = "PAYMENT"]
       \/ /\ checkout[p].row = "over"
          /\ modal' = [modal EXCEPT ![b] = Left([@ EXCEPT !.request = None])]
    /\ UNCHANGED <<server, history>>

\* A connection that broke is an error, and the button is free again.
LoseAnswer(b) ==
    /\ modal[b].request # None
    /\ modal' = [modal EXCEPT ![b] = Left([@ EXCEPT !.request = None])]
    /\ UNCHANGED <<server, history>>

\* onCancel tells the server nothing.
Cancel(b) ==
    /\ modal[b].isOpen /\ modal[b].step = "PAYMENT"
    /\ modal' = [modal EXCEPT ![b].step = "SELECT", ![b].clientSecret = None]
    /\ UNCHANGED <<server, history>>

Paying(b) == modal[b].isOpen /\ modal[b].step = "PAYMENT" /\ modal[b].shown # None

\* confirmCardPayment: the card is charged or declined, and Stripe tells the
\* server.  A payment that is still processing is a success to the form
\* however it ends, an answer that is lost an error, which leaves the form
\* open to try again.
Pay(b) ==
    LET p == modal[b].clientSecret IN
    /\ Paying(b) /\ ~checkout[p].charged
    /\ \/ checkout' = [checkout EXCEPT ![p].charged = TRUE, ![p].events = @ \cup {"succeeded"}]
       \/ checkout' = [checkout EXCEPT ![p].events = @ \cup {"failed"}]
    /\ \/ modal' = [modal EXCEPT ![b].step = "SUCCESS", ![b].clientSecret = None]
       \/ UNCHANGED modal
    /\ UNCHANGED <<tier, edits, song, history>>

-----------------------------------------------------------------------------
(* The paid branch of createSubmission, and upgradeSubmission.             *)

\* Mutant: any QUEUED submission may be upgraded.
MutMayUpgrade(p) ==
    checkout[p].kind = "upgrade" => song[checkout[p].owner].entry = "QUEUED"

\* An upgrade is of a submission that is free and QUEUED.
MayUpgrade(p) ==
    checkout[p].kind = "upgrade" =>
        /\ ~song[checkout[p].owner].isPriority
        /\ song[checkout[p].owner].entry = "QUEUED"

\* A dialog waits for the checkout or has its payment form.
Held(q) == \E b \in Tabs : modal[b].request = q \/ modal[b].clientSecret = q

\* The upgrades of a user's free submission that may still be paid, or were and
\* are not settled.
OpenUpgrades(u) ==
    {q \in Payments : /\ checkout[q].owner = u /\ checkout[q].kind = "upgrade"
                      /\ checkout[q].row \in {"intent"} \cup Recorded
                      /\ Held(q) \/ "succeeded" \in checkout[q].events}

\* Nothing but its sender is left of a request that ended without a row.
Over(c) == [c EXCEPT !.row = "over", !.kind = "new", !.price = None, !.seen = {}]

\* Every check is a read outside of the transaction that follows.  The price
\* is that of the eligibility just read.
Check(p) ==
    LET u == checkout[p].owner IN
    /\ checkout[p].row = "check"
    /\ IF MayUpgrade(p) /\ Available(u)
       THEN /\ checkout' = [checkout EXCEPT ![p].row = "intent", ![p].price = tier.price,
                                            ![p].seen = Committed]
            /\ double' = (double \/ (checkout[p].kind = "upgrade" /\ OpenUpgrades(u) # {}))
       ELSE /\ checkout' = [checkout EXCEPT ![p] = Over(@)]
            /\ UNCHANGED double
    /\ UNCHANGED <<tier, edits, song, modal, stale>>

\* The PaymentIntent exists: one transaction writes the payment and the
\* reservation, and for a new submission its rows.
Commit(p) ==
    /\ checkout[p].row = "intent"
    /\ checkout' = [checkout EXCEPT ![p].row = "CREATED", ![p].held = "ACTIVE", ![p].fresh = TRUE,
                        ![p].entry = IF checkout[p].kind = "new" THEN "AWAITING_PAYMENT" ELSE None,
                        ![p].seen = {}]
    /\ stale' = (stale \/ checkout[p].seen # Committed)
    /\ UNCHANGED <<tier, edits, song, modal, double>>

\* Stripe or the database failed, or the process died: no row is left.
Abandon(p) ==
    /\ checkout[p].row \in Requested
    /\ checkout' = [checkout EXCEPT ![p] = Over(@)]
    /\ UNCHANGED <<tier, edits, song, modal, history>>

-----------------------------------------------------------------------------
(* The webhooks.                                                           *)

\* A user's reservations are found by user and track: all that are ACTIVE end
\* together, whichever of his payments the event is about.
End(c, u, how) ==
    [q \in Payments |-> IF c[q].owner = u /\ c[q].held = "ACTIVE"
                        THEN [c[q] EXCEPT !.held = how] ELSE c[q]]

\* payment_intent.succeeded, unless SETTLED.  The entry is QUEUED whatever its
\* status was.
Settle(p) ==
    LET u == checkout[p].owner
        paid == [checkout EXCEPT ![p].row = "SETTLED", ![p].events = @ \ {"succeeded"},
                     ![p].entry = IF checkout[p].kind = "new" THEN "QUEUED" ELSE None]
    IN
    /\ "succeeded" \in checkout[p].events /\ checkout[p].row # "SETTLED"
    /\ checkout' = End(paid, u, "CONSUMED")
    /\ song' = IF checkout[p].kind = "upgrade"
               THEN [song EXCEPT ![u] = [isPriority |-> TRUE, entry |-> "QUEUED"]] ELSE song
    /\ stale' = (stale \/ (checkout[p].kind = "upgrade" /\ p \notin ReservedIn({p})))
    /\ UNCHANGED <<tier, edits, modal, double>>

\* payment_intent.payment_failed, unless SETTLED.
Fail(p) ==
    LET u == checkout[p].owner
        failed == [checkout EXCEPT ![p].row = "FAILED", ![p].events = @ \ {"failed"},
                       ![p].entry = IF @ = "AWAITING_PAYMENT" THEN "REMOVED" ELSE @]
    IN
    /\ "failed" \in checkout[p].events
    /\ checkout' = IF checkout[p].row = "SETTLED"
                   THEN [checkout EXCEPT ![p].events = @ \ {"failed"}]
                   ELSE End(failed, u, "RELEASED")
    /\ UNCHANGED <<tier, edits, song, modal, history>>

-----------------------------------------------------------------------------
(* Time, the platform's administrator and the host.                        *)

\* A reservation's 15 minutes are over.
Expire(p) ==
    /\ p \in ReservedIn(Payments)
    /\ checkout' = [checkout EXCEPT ![p].fresh = FALSE]
    /\ UNCHANGED <<tier, edits, song, modal, history>>

Expired(p) == checkout[p].held = "ACTIVE" /\ ~checkout[p].fresh

cleanupExpiredReservations ==
    /\ \E p \in Payments : Expired(p)
    /\ checkout' = [p \in Payments |-> IF Expired(p) THEN [checkout[p] EXCEPT !.held = "EXPIRED"]
                                       ELSE checkout[p]]
    /\ UNCHANGED <<tier, edits, song, modal, history>>

\* scanDiscrepancies lists what it finds ACTIVE after its time, and what has been
\* CREATED for half an hour; by the time of a repair that may be long ago.
StaleReservation(p) ==
    checkout[p].held \in {"ACTIVE", "CONSUMED", "RELEASED"} /\ ~checkout[p].fresh

StuckPayment(p) == checkout[p].row \in Recorded

\* The repairs look at nothing again, and Stripe is not told.
repairReservation(p) ==
    /\ edits < MaxEdits /\ edits' = edits + 1
    /\ StaleReservation(p)
    /\ checkout' = [checkout EXCEPT ![p].held = "EXPIRED"]
    /\ UNCHANGED <<tier, song, modal, history>>

repairPayment(p) ==
    /\ edits < MaxEdits /\ edits' = edits + 1
    /\ StuckPayment(p)
    /\ checkout' = [checkout EXCEPT ![p].row = "CANCELLED"]
    /\ UNCHANGED <<tier, song, modal, history>>

\* The session's switches and the tier's snapshot, in the middle of the
\* broadcast.
updateConfiguration ==
    /\ edits < MaxEdits /\ edits' = edits + 1
    /\ tier' \in [price : Prices, open : BOOLEAN, maxPerLive : {tier.maxPerLive}] \ {tier}
    /\ UNCHANGED <<song, checkout, modal, history>>

\* The host plays and completes an entry of the line.
PlayFree(u) ==
    /\ song[u].entry = "QUEUED"
    /\ song' = [song EXCEPT ![u].entry = "PLAYED"]
    /\ UNCHANGED <<tier, edits, checkout, modal, history>>

PlayNew(p) ==
    /\ checkout[p].entry = "QUEUED"
    /\ checkout' = [checkout EXCEPT ![p].entry = "PLAYED"]
    /\ UNCHANGED <<tier, edits, song, modal, history>>

Dialog(b) == \/ SessionPage(b) \/ SubmissionsPage(b)
             \/ Close(b) \/ Answer(b) \/ LoseAnswer(b) \/ Cancel(b) \/ Pay(b)
             \/ \E p \in Payments : Start(b, p)

Request(p) == Check(p) \/ Commit(p) \/ Abandon(p)
Webhook(p) == Settle(p) \/ Fail(p)
Others     == \/ cleanupExpiredReservations \/ updateConfiguration
              \/ \E u \in Users : PlayFree(u)
              \/ \E p \in Payments : PlayNew(p) \/ Expire(p)
                                     \/ repairReservation(p) \/ repairPayment(p)

Next == Others \/ (\E b \in Tabs : Dialog(b)) \/ (\E p \in Payments : Request(p) \/ Webhook(p))

Spec == Init /\ [][Next]_vars

-----------------------------------------------------------------------------

Sold == {p \in Payments : checkout[p].row = "SETTLED"}

\* No more places of the tier are sold than maxPurchasesPerLive, unless two
\* checkouts were checked before either was committed, or a payment arrived
\* after its reservation had ended (submission-eligibility.service.ts
\* getEligibility, and the reservation's 15 minutes).
TierCapacity == tier.maxPerLive # 0 /\ Cardinality(Sold) > tier.maxPerLive => stale

ChargedUpgrades(u) ==
    {p \in Payments : /\ checkout[p].owner = u /\ checkout[p].kind = "upgrade"
                      /\ checkout[p].charged}

\* A submission is charged for two upgrades only if one was checked while the
\* other could still be paid or waited for its webhook: a checkout that failed,
\* expired, was repaired or was left by its dialog is never paid besides a later
\* one (upgradeSubmission's check of isPriority, the webhook that sets it, and
\* the dialogs' clientSecret).
ChargedOnce == \A u \in Users : \A p, q \in ChargedUpgrades(u) : p = q \/ double

=============================================================================
