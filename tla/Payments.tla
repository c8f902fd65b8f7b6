------------------------------ MODULE Payments ------------------------------
(***************************************************************************)
(* One paid submission's money: what Stripe does with the PaymentIntent,   *)
(* the events it sends about it, and what the webhook service writes.      *)
(*                                                                         *)
(* Stripe delivers an event again until it is answered, may deliver one    *)
(* twice at the same time, and in any order.  A delivery checks that its   *)
(* event is not COMPLETED, reads the payment without a lock, commits its   *)
(* writes in one transaction and then marks the event COMPLETED; it may    *)
(* crash between any two of these.  The commits of concurrent deliveries   *)
(* are ordered by the payment row's lock (succeeded, failed and dispute    *)
(* events write that row first) and by the unique providerRefundId.        *)
(***************************************************************************)
EXTENDS Integers, FiniteSets, FiniteSetsExt

CONSTANTS
    Workers,        \* deliveries that may be processed at the same time
    RefundIds,      \* Stripe refund ids
    Capture,        \* the capture's ledger idempotency key
    None,
    Gross,          \* grossAmountCents
    RefundAmounts,  \* amounts a refund may have
    MaxCrashes      \* bound on crashed deliveries

ASSUME CaptureAssumption == Capture \notin RefundIds
ASSUME AmountsAssumption ==
    /\ Gross \in Nat \ {0}
    /\ RefundAmounts \subseteq 1..Gross
    /\ MaxCrashes \in Nat

VARIABLES
    charge,       \* Stripe: did the PaymentIntent succeed
    issued,       \* Stripe: amount of each refund, 0 if there is none
    pending,      \* Stripe: refunds that are not paid out yet
    dispute,      \* Stripe: the charge's dispute
    events,       \* Stripe: the events there are to deliver
    completed,    \* events whose PaymentProviderEvent is COMPLETED
    worker,       \* what each delivery read, None when idle
    crashes,
    payment,      \* Payment: status and refundedAmountCents
    allocations,  \* PaymentAllocation rows of the payment, 2 meaning several
    earnings,     \* HostEarning rows of the payment, 2 meaning several
    earningStatus,
    refunds,      \* Refund rows
    posted,       \* idempotency keys of the posted ledger transactions
    queueStatus   \* Submission.currentQueueStatus as the webhooks leave it

stripe  == <<charge, issued, pending, dispute, events>>
tables  == <<payment, allocations, earnings, earningStatus, refunds, posted, queueStatus>>
control == <<completed, worker, crashes>>
vars    == <<stripe, tables, control>>

-----------------------------------------------------------------------------
(* Amounts *)

\* Mutant: the platform's share is truncated.
MutSplitPayment(cents) ==
    LET platform == (cents * 1500) \div 10000
    IN  [platform |-> platform, host |-> cents - platform]

\* Math.round(cents * 1500 / 10000), half up.
SplitPayment(cents) ==
    LET platform == (cents * 1500 + 5000) \div 10000
    IN  [platform |-> platform, host |-> cents - platform]

\* The lines of the ledger transaction posted under a key: debits positive.
Lines(key) ==
    LET cents == IF key = Capture THEN Gross ELSE issued[key]
        sign  == IF key = Capture THEN 1 ELSE -1
    IN  [PAYMENT_CLEARING    |-> sign * cents,
         HOST_PAYABLE        |-> -sign * SplitPayment(cents).host,
         PLATFORM_COMMISSION |-> -sign * SplitPayment(cents).platform]

Balance(account) == MapThenSumSet(LAMBDA key : Lines(key)[account], posted)

\* The amount refunded by a set of refunds: charge.amount_refunded.
Refunded(R) == MapThenSumSet(LAMBDA r : issued[r], R)
Issued      == {r \in RefundIds : issued[r] # 0}
PaidOut     == Issued \ pending

-----------------------------------------------------------------------------
(* Stripe.  An event's payload is a snapshot: charge.refunded counts the   *)
(* refunds there were when it was sent (amount_refunded) and lists those   *)
(* of them that had succeeded, unless its API version leaves the list out; *)
(* a dispute event tells the outcome.                                      *)

Kinds    == {"failed", "succeeded", "refunded", "opened", "closed"}
Outcomes == {"none", "open", "won", "lost"}
Event    == [kind : Kinds, refunds : SUBSET RefundIds, listed : SUBSET RefundIds,
             outcome : Outcomes]

OfDispute(kind, outcome) == [kind |-> kind, refunds |-> {}, listed |-> {}, outcome |-> outcome]
Simple(kind)             == OfDispute(kind, "none")
OfRefunds(all, listed)   == [kind |-> "refunded", refunds |-> all, listed |-> listed,
                             outcome |-> "none"]
Emit(e) == events' = events \cup {e}

\* A payment attempt fails; the customer may try again.
AttemptFails ==
    /\ charge = "pending"
    /\ Emit(Simple("failed"))
    /\ UNCHANGED <<charge, issued, pending, dispute, tables, control>>

ChargeSucceeds ==
    /\ charge = "pending"
    /\ charge' = "succeeded"
    /\ Emit(Simple("succeeded"))
    /\ UNCHANGED <<issued, pending, dispute, tables, control>>

IssueRefund(r, cents) ==
    /\ charge = "succeeded" /\ issued[r] = 0
    /\ Refunded(RefundIds) + cents <= Gross
    /\ issued' = [issued EXCEPT ![r] = cents]
    /\ pending' \in {pending, pending \cup {r}}
    /\ LET all == Issued \cup {r}
       IN  \E listed \in {{}, all \ pending'} : Emit(OfRefunds(all, listed))
    /\ UNCHANGED <<charge, dispute, tables, control>>

\* No event that the service handles tells of this.
RefundSucceeds(r) ==
    /\ r \in pending
    /\ pending' = pending \ {r}
    /\ UNCHANGED <<charge, issued, dispute, events, tables, control>>

OpenDispute ==
    /\ charge = "succeeded" /\ dispute = "none"
    /\ dispute' = "open"
    /\ Emit(OfDispute("opened", "open"))
    /\ UNCHANGED <<charge, issued, pending, tables, control>>

CloseDispute(outcome) ==
    /\ dispute = "open"
    /\ dispute' = outcome
    /\ Emit(OfDispute("closed", outcome))
    /\ UNCHANGED <<charge, issued, pending, tables, control>>

-----------------------------------------------------------------------------
(* A delivery *)

PaymentStatus == {"CREATED", "SETTLED", "FAILED", "PARTIALLY_REFUNDED", "REFUNDED",
                  "DISPUTED", "CHARGEBACK"}
EarningStatus == {"ALLOCATED_TO_STRIPE", "REFUNDED", "DISPUTED", "REVERSED"}

\* What a delivery holds: its event, how far it is, and the rows it read.
Delivery == [event   : Event,
             phase   : {"handling", "committed"},
             status  : PaymentStatus,
             known   : SUBSET RefundIds,
             waiting : BOOLEAN]

ASSUME NoneAssumption == None \notin Delivery

\* processEvent: not COMPLETED; then what the event's handler reads.
Read(d, e) ==
    /\ worker[d] = None
    /\ e \in events \ completed
    /\ worker' = [worker EXCEPT ![d] =
                     [event |-> e, phase |-> "handling", status |-> payment.status,
                      known   |-> IF e.kind = "refunded" THEN refunds ELSE {},
                      waiting |-> e.kind = "failed" /\ queueStatus = "AWAITING_PAYMENT"]]
    /\ UNCHANGED <<stripe, tables, completed, crashes>>

Handling(d, kind) ==
    worker[d] # None /\ worker[d].phase = "handling" /\ worker[d].event.kind = kind

\* What was read is of no use any more.
Committed(d) ==
    /\ worker' = [worker EXCEPT ![d] = [@ EXCEPT !.phase = "committed", !.status = "CREATED",
                                                !.known = {}, !.waiting = FALSE]]
    /\ UNCHANGED <<stripe, completed, crashes>>

\* Nothing tells two rows from more.
OneMore(rows) == IF rows = 2 THEN 2 ELSE rows + 1

\* updateMany on the payment's earnings.
MarkEarnings(status) ==
    earningStatus' = IF earnings = 0 THEN earningStatus ELSE status

\* Mutant: the earning is recorded without looking for one.
MutCommitSucceeded(d) ==
    /\ Handling(d, "succeeded") /\ Committed(d)
    /\ IF worker[d].status = "SETTLED" THEN UNCHANGED tables
       ELSE /\ payment' = [payment EXCEPT !.status = "SETTLED"]
            /\ allocations' = OneMore(allocations)
            /\ posted' = posted \cup {Capture}
            /\ earnings' = OneMore(earnings)
            /\ earningStatus' = "ALLOCATED_TO_STRIPE"
            /\ queueStatus' = "QUEUED"
            /\ UNCHANGED refunds

\* handlePaymentIntentSucceeded.  Only the status was read before the
\* payment's lock: the ledger and the earnings are looked up under it.
CommitSucceeded(d) ==
    /\ Handling(d, "succeeded") /\ Committed(d)
    /\ IF worker[d].status = "SETTLED" THEN UNCHANGED tables
       ELSE /\ payment' = [payment EXCEPT !.status = "SETTLED"]
            /\ allocations' = OneMore(allocations)
            /\ posted' = posted \cup {Capture}
            /\ earnings' = IF earnings = 0 THEN 1 ELSE earnings
            /\ earningStatus' = IF earnings = 0 THEN "ALLOCATED_TO_STRIPE" ELSE earningStatus
            /\ queueStatus' = "QUEUED"
            /\ UNCHANGED refunds

\* handlePaymentIntentFailed, also for canceled intents.
CommitFailed(d) ==
    /\ Handling(d, "failed") /\ Committed(d)
    /\ IF worker[d].status = "SETTLED" THEN UNCHANGED tables
       ELSE /\ payment' = [payment EXCEPT !.status = "FAILED"]
            /\ queueStatus' = IF worker[d].waiting THEN "REJECTED" ELSE queueStatus
            /\ UNCHANGED <<allocations, earnings, earningStatus, refunds, posted>>

\* handleChargeRefunded: the succeeded refunds of the payload's list that the
\* delivery did not know; the payment takes the payload's total.
Fresh(d) == worker[d].event.listed \ worker[d].known

\* Mutant: a refund of a payment that is not settled is ignored.
MutRefundNeedsSettled(d) ==
    LET total == Refunded(worker[d].event.refunds)
    IN  /\ Handling(d, "refunded") /\ Committed(d)
        /\ IF worker[d].status # "SETTLED" THEN UNCHANGED tables
           ELSE /\ refunds' = refunds \cup Fresh(d)
                /\ posted' = posted \cup Fresh(d)
                /\ payment' = [status |-> "REFUNDED", refunded |-> total]
                /\ MarkEarnings("REFUNDED")
                /\ UNCHANGED <<allocations, earnings, queueStatus>>

CommitRefunded(d) ==
    LET total == Refunded(worker[d].event.refunds)
    IN  /\ Handling(d, "refunded") /\ Committed(d)
        /\ Fresh(d) \cap refunds = {}
        /\ refunds' = refunds \cup Fresh(d)
        /\ posted' = posted \cup Fresh(d)
        /\ payment' = [status   |-> IF total >= Gross THEN "REFUNDED" ELSE "PARTIALLY_REFUNDED",
                       refunded |-> total]
        /\ IF total >= Gross THEN MarkEarnings("REFUNDED") ELSE UNCHANGED earningStatus
        /\ UNCHANGED <<allocations, earnings, queueStatus>>

\* providerRefundId is unique: the transaction fails, the event is written
\* FAILED, over the COMPLETED of another delivery too, and Stripe tries again.
RefundConflict(d) ==
    /\ Handling(d, "refunded")
    /\ Fresh(d) \cap refunds # {}
    /\ completed' = completed \ {worker[d].event}
    /\ worker' = [worker EXCEPT ![d] = None]
    /\ UNCHANGED <<stripe, tables, crashes>>

\* handleDispute.  Nothing is posted to the ledger.
CommitOpened(d) ==
    /\ Handling(d, "opened") /\ Committed(d)
    /\ payment' = [payment EXCEPT !.status = "DISPUTED"]
    /\ MarkEarnings("DISPUTED")
    /\ UNCHANGED <<allocations, earnings, refunds, posted, queueStatus>>

CommitClosed(d) ==
    /\ Handling(d, "closed") /\ Committed(d)
    /\ LET lost == worker[d].event.outcome = "lost"
       IN  /\ payment' = [payment EXCEPT !.status = IF lost THEN "CHARGEBACK" ELSE "SETTLED"]
           /\ MarkEarnings(IF lost THEN "REVERSED" ELSE "ALLOCATED_TO_STRIPE")
    /\ UNCHANGED <<allocations, earnings, refunds, posted, queueStatus>>

\* Mutant: the event is marked before the handler's transaction.
MutComplete(d) ==
    /\ worker[d] # None
    /\ completed' = completed \cup {worker[d].event}
    /\ worker' = [worker EXCEPT ![d] = None]
    /\ UNCHANGED <<stripe, tables, crashes>>

Complete(d) ==
    /\ worker[d] # None /\ worker[d].phase = "committed"
    /\ completed' = completed \cup {worker[d].event}
    /\ worker' = [worker EXCEPT ![d] = None]
    /\ UNCHANGED <<stripe, tables, crashes>>

\* The process dies, or an error is written as FAILED and answered with 500.
Crash(d) ==
    /\ worker[d] # None /\ crashes < MaxCrashes
    /\ crashes' = crashes + 1
    /\ completed' \in {completed, completed \ {worker[d].event}}
    /\ worker' = [worker EXCEPT ![d] = None]
    /\ UNCHANGED <<stripe, tables>>

-----------------------------------------------------------------------------
(* The specifications *)

Init ==
    /\ charge = "pending" /\ dispute = "none" /\ events = {}
    /\ issued = [r \in RefundIds |-> 0] /\ pending = {}
    /\ payment = [status |-> "CREATED", refunded |-> 0]
    /\ allocations = 0 /\ earnings = 0 /\ earningStatus = "ALLOCATED_TO_STRIPE"
    /\ refunds = {} /\ posted = {}
    /\ queueStatus = "AWAITING_PAYMENT"
    /\ completed = {} /\ worker = [d \in Workers |-> None] /\ crashes = 0

Handle(d) ==
    \/ CommitSucceeded(d) \/ CommitFailed(d) \/ CommitRefunded(d) \/ RefundConflict(d)
    \/ CommitOpened(d) \/ CommitClosed(d) \/ Complete(d)

Deliver == \E d \in Workers, e \in events : Read(d, e)

Next ==
    \/ AttemptFails \/ ChargeSucceeds
    \/ \E r \in RefundIds, cents \in RefundAmounts : IssueRefund(r, cents)
    \/ \E r \in RefundIds : RefundSucceeds(r)
    \/ Deliver
    \/ \E d \in Workers : Handle(d) \/ Crash(d)
    \/ OpenDispute \/ \E outcome \in {"won", "lost"} : CloseDispute(outcome)

\* Stripe delivers again what was not answered, and a delivery that does not
\* crash goes on.
Fairness == WF_vars(Deliver) /\ \A d \in Workers : WF_vars(Handle(d))

Spec == Init /\ [][Next]_vars /\ Fairness

-----------------------------------------------------------------------------
(* Properties *)

TypeOK ==
    /\ charge \in {"pending", "succeeded"}
    /\ issued \in [RefundIds -> {0} \cup RefundAmounts] /\ pending \in SUBSET RefundIds
    /\ dispute \in Outcomes
    /\ events \in SUBSET Event
    /\ completed \in SUBSET events
    /\ worker \in [Workers -> Delivery \cup {None}]
    /\ crashes \in 0..MaxCrashes
    /\ payment \in [status : PaymentStatus, refunded : 0..Gross]
    /\ allocations \in 0..2 /\ earnings \in 0..2 /\ earningStatus \in EarningStatus
    /\ refunds \in SUBSET RefundIds
    /\ posted \in SUBSET (RefundIds \cup {Capture})
    /\ queueStatus \in {"AWAITING_PAYMENT", "QUEUED", "REJECTED"}

\* However often and in whatever order events are delivered, the books hold
\* one capture and one earning if and only if the payment was captured, a
\* reversal for exactly the refunds on record, and none of money that Stripe
\* has not paid back; and the submission gets into the queue only for money
\* in the books.
BooksAgree ==
    /\ earnings = IF Capture \in posted THEN 1 ELSE 0
    /\ refunds = posted \ {Capture}
    /\ Capture \in posted => charge = "succeeded"
    /\ refunds \subseteq PaidOut
    /\ queueStatus = "QUEUED" => Capture \in posted

\* An event that was answered, and that Stripe will not send again, has done
\* its work: a success is captured unless a dispute got ahead of it, and every
\* refund the event lists as succeeded is reversed, whichever delivery did it
\* and wherever others crashed.
AnsweredIsPosted ==
    \A e \in completed :
        /\ e.kind = "succeeded" => Capture \in posted \/ dispute # "none"
        /\ e.kind = "refunded" => e.listed \subseteq posted

\* docs/financial-ledger.md:44: for a refund "we create a corresponding
\* reversal transaction".  So a refund that is paid out, and that was counted
\* by an event which was answered, has its reversal.
RefundsAreReversed ==
    \A e \in completed : e.refunds \cap PaidOut \subseteq posted

\* Rounding leaves at most half a cent per posting between the commission
\* and 15% of what the platform holds: |P - 15% C| <= n / 2.
RoundingBounded ==
    LET drift == 20 * Balance("PLATFORM_COMMISSION") + 3 * Balance("PAYMENT_CLEARING")
    IN  drift \in -(10 * Cardinality(posted))..(10 * Cardinality(posted))

\* A payment Stripe confirmed is captured in the ledger in the end unless a
\* dispute gets ahead of it, and every refund that an event lists as succeeded
\* is reversed, whatever crashes and conflicts the deliveries run into.
MovementsArePosted ==
    /\ charge = "succeeded" ~> Capture \in posted \/ dispute # "none"
    /\ \A r \in RefundIds : (\E e \in events : r \in e.listed) ~> r \in posted

=============================================================================
