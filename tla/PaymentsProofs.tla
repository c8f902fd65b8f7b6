--------------------------- MODULE PaymentsProofs ---------------------------
(* Theorems about Payments, for every value of its constants. *)
EXTENDS Payments, FiniteSetTheorems, WellFoundedInduction, TLAPS

-----------------------------------------------------------------------------
(* Rounding *)

\* The platform's share is within half a cent of 15%: twenty times the
\* share and three times the amount differ by at most ten.
THEOREM SplitIsFair ==
    ASSUME NEW cents \in Nat
    PROVE  /\ SplitPayment(cents).platform + SplitPayment(cents).host = cents
           /\ 20 * SplitPayment(cents).platform - 3 * cents \in -10..10
<1> DEFINE p == (cents * 1500 + 5000) \div 10000
<1>1. p \in Int /\ 10000 * p <= cents * 1500 + 5000 /\ cents * 1500 + 5000 < 10000 * p + 10000
    OBVIOUS
<1>2. SplitPayment(cents) = [platform |-> p, host |-> cents - p]
    BY DEF SplitPayment
<1> HIDE DEF p
<1>3. SplitPayment(cents).platform = p /\ SplitPayment(cents).host = cents - p
    BY <1>2
<1>4. 20 * p - 3 * cents \in -10..10
    BY <1>1
<1> QED BY <1>1, <1>3, <1>4

-----------------------------------------------------------------------------
(* The books *)

\* The shape of what the deliveries hold and of the payment row.
Shape ==
    /\ events \in SUBSET Event
    /\ worker \in [Workers -> Delivery \cup {None}]
    /\ issued \in [RefundIds -> Nat]
    /\ refunds \in SUBSET RefundIds
    /\ payment.status \in PaymentStatus
    /\ payment = [status |-> payment.status, refunded |-> payment.refunded]

\* Events tell of what Stripe did, and deliveries are of such events.
Genuine ==
    /\ pending \subseteq Issued
    /\ \A e \in events : /\ e.kind = "succeeded" => charge = "succeeded"
                         /\ e.listed \subseteq PaidOut
    /\ \A d \in Workers : worker[d] # None => worker[d].event \in events

\* The inductive invariant.
Inv == Shape /\ Genuine /\ BooksAgree

LEMMA InvInit == Init => Inv
BY CaptureAssumption
   DEF Init, Inv, Shape, Genuine, BooksAgree, PaymentStatus, Issued, PaidOut

\* What Stripe does.
Happens ==
    \/ AttemptFails \/ ChargeSucceeds \/ OpenDispute
    \/ \E r \in RefundIds, cents \in RefundAmounts : IssueRefund(r, cents)
    \/ \E r \in RefundIds : RefundSucceeds(r)
    \/ \E outcome \in {"won", "lost"} : CloseDispute(outcome)

\* It only adds events, of things that happened, and takes nothing back.
LEMMA StripeKeeps ==
    ASSUME Inv, Happens
    PROVE  /\ \A e \in events' \ events : /\ e \in Event
                                          /\ e.kind = "succeeded" => charge' = "succeeded"
                                          /\ e.listed \subseteq PaidOut'
           /\ events \subseteq events'
           /\ pending' \subseteq Issued' /\ PaidOut \subseteq PaidOut'
           /\ issued' \in [RefundIds -> Nat]
           /\ charge = "succeeded" => charge' = "succeeded"
           /\ UNCHANGED <<tables, control>>
<1> USE DEF Inv, tables, control
<1>1. CASE AttemptFails \/ ChargeSucceeds \/ OpenDispute
    BY <1>1 DEF AttemptFails, ChargeSucceeds, OpenDispute, Emit, Simple, OfDispute, Event, Kinds,
                Outcomes, Shape, Genuine, Issued, PaidOut
<1>2. ASSUME NEW outcome \in {"won", "lost"}, CloseDispute(outcome)
      PROVE  /\ \A e \in events' \ events : /\ e \in Event
                                            /\ e.kind = "succeeded" => charge' = "succeeded"
                                            /\ e.listed \subseteq PaidOut'
             /\ events \subseteq events'
             /\ UNCHANGED <<charge, issued, pending, tables, control>>
    BY <1>2 DEF CloseDispute, Emit, OfDispute, Event, Kinds, Outcomes
<1>3. ASSUME NEW r \in RefundIds, NEW cents \in RefundAmounts, IssueRefund(r, cents)
      PROVE  /\ \A e \in events' \ events : /\ e \in Event
                                            /\ e.kind = "succeeded" => charge' = "succeeded"
                                            /\ e.listed \subseteq PaidOut'
             /\ events \subseteq events'
             /\ pending' \subseteq Issued' /\ PaidOut \subseteq PaidOut'
             /\ issued' \in [RefundIds -> Nat]
             /\ UNCHANGED <<charge, tables, control>>
    <2>1. cents \in Nat /\ cents # 0
        BY AmountsAssumption
    <2>2. issued' = [issued EXCEPT ![r] = cents] /\ issued' \in [RefundIds -> Nat] /\ issued[r] = 0
        BY <1>3, <2>1 DEF IssueRefund, Shape
    <2>3. Issued' = Issued \cup {r} /\ r \notin Issued
        BY <2>1, <2>2 DEF Issued, Shape
    <2>4. pending' \in {pending, pending \cup {r}} /\ pending \subseteq Issued
        BY <1>3 DEF IssueRefund, Genuine
    <2>5. /\ pending' \subseteq Issued' /\ PaidOut \subseteq PaidOut'
          /\ PaidOut' = (Issued \cup {r}) \ pending'
        BY <2>3, <2>4 DEF PaidOut
    <2>6. PICK listed \in {{}, (Issued \cup {r}) \ pending'} :
            events' = events \cup {OfRefunds(Issued \cup {r}, listed)}
        BY <1>3 DEF IssueRefund, Emit
    <2> DEFINE e == OfRefunds(Issued \cup {r}, listed)
    <2>7. /\ events' = events \cup {e}
          /\ e \in Event /\ e.kind # "succeeded" /\ e.listed = listed
        BY <2>6 DEF OfRefunds, Event, Kinds, Outcomes, Issued
    <2>8. UNCHANGED <<charge, tables, control>>
        BY <1>3 DEF IssueRefund
    <2> HIDE DEF e
    <2> QED BY <2>2, <2>5, <2>7, <2>8
<1>4. ASSUME NEW r \in RefundIds, RefundSucceeds(r)
      PROVE  /\ pending' = pending \ {r} /\ UNCHANGED <<charge, issued, events, tables, control>>
    BY <1>4 DEF RefundSucceeds
<1>5. CASE \E r \in RefundIds : RefundSucceeds(r)
    BY <1>4, <1>5 DEF Shape, Genuine, Issued, PaidOut
<1>6. CASE \E outcome \in {"won", "lost"} : CloseDispute(outcome)
    BY <1>2, <1>6 DEF Shape, Genuine, Issued, PaidOut
<1> QED BY <1>1, <1>3, <1>5, <1>6 DEF Happens

LEMMA InvStripe ==
    ASSUME Inv, Happens
    PROVE  Inv'
<1>0. /\ \A e \in events' \ events : /\ e \in Event
                                     /\ e.kind = "succeeded" => charge' = "succeeded"
                                     /\ e.listed \subseteq PaidOut'
      /\ pending' \subseteq Issued' /\ PaidOut \subseteq PaidOut'
      /\ issued' \in [RefundIds -> Nat]
      /\ charge = "succeeded" => charge' = "succeeded"
      /\ events \subseteq events'
      /\ UNCHANGED <<tables, control>>
    BY StripeKeeps
<1> USE DEF Inv, tables, control
<1>1. Shape'
    BY <1>0 DEF Shape
<1>2. Genuine'
    BY <1>0 DEF Genuine
<1>3. BooksAgree'
    BY <1>0 DEF BooksAgree
<1> QED BY <1>1, <1>2, <1>3

\* A delivery that takes an event, commits, gives up or finishes keeps the
\* deliveries genuine.
LEMMA WorkerKeeps ==
    ASSUME Shape, Genuine, UNCHANGED stripe, NEW d \in Workers,
           \/ \E e \in events : Read(d, e)
           \/ worker[d] # None /\ Committed(d)
           \/ worker' = [worker EXCEPT ![d] = None]
    PROVE  Genuine' /\ worker' \in [Workers -> Delivery \cup {None}]
<1> USE DEF Shape, stripe
<1>1. ASSUME NEW x, x \in Delivery \cup {None}, worker' = [worker EXCEPT ![d] = x],
             x # None => x.event \in events
      PROVE  Genuine' /\ worker' \in [Workers -> Delivery \cup {None}]
    BY <1>1 DEF Genuine, Issued, PaidOut
<1>2. ASSUME NEW e \in events, Read(d, e)
      PROVE  Genuine' /\ worker' \in [Workers -> Delivery \cup {None}]
    <2> DEFINE x == [event |-> e, phase |-> "handling", status |-> payment.status,
                     known   |-> IF e.kind = "refunded" THEN refunds ELSE {},
                     waiting |-> e.kind = "failed" /\ queueStatus = "AWAITING_PAYMENT"]
    <2>1. (e.kind = "failed" /\ queueStatus = "AWAITING_PAYMENT") \in BOOLEAN
        OBVIOUS
    <2>2. x \in Delivery
        BY <2>1 DEF Delivery
    <2>3. worker' = [worker EXCEPT ![d] = x] /\ x.event = e
        BY <1>2 DEF Read
    <2> HIDE DEF x
    <2> QED BY <1>1, <2>2, <2>3
<1>3. CASE worker[d] # None /\ Committed(d)
    <2> DEFINE x == [worker[d] EXCEPT !.phase = "committed", !.status = "CREATED",
                                      !.known = {}, !.waiting = FALSE]
    <2>1. worker[d] \in Delivery
        BY <1>3
    <2>2. x \in Delivery /\ x.event = worker[d].event
        BY <2>1 DEF Delivery, PaymentStatus
    <2>3. worker' = [worker EXCEPT ![d] = x]
        BY <1>3 DEF Committed
    <2>4. worker[d].event \in events
        BY <1>3 DEF Genuine
    <2> HIDE DEF x
    <2> QED BY <1>1, <2>2, <2>3, <2>4
<1>4. CASE worker' = [worker EXCEPT ![d] = None]
    BY <1>1, <1>4
<1> QED BY <1>2, <1>3, <1>4

\* Deliveries keep the books.
LEMMA InvDelivery ==
    ASSUME Inv, NEW d \in Workers,
           \/ \E e \in events : Read(d, e)
           \/ Handle(d) \/ Crash(d)
    PROVE  Inv'
<1> USE DEF Inv
<1>1. CASE \/ \E e \in events : Read(d, e)
           \/ RefundConflict(d) \/ Complete(d) \/ Crash(d)
    <2>1. UNCHANGED <<stripe, tables>>
        BY <1>1 DEF Read, RefundConflict, Complete, Crash
    <2>2. Genuine' /\ worker' \in [Workers -> Delivery \cup {None}]
        BY <1>1, <2>1, WorkerKeeps DEF RefundConflict, Complete, Crash
    <2> QED BY <2>1, <2>2 DEF Shape, BooksAgree, Issued, PaidOut, stripe, tables
<1>2. ASSUME NEW kind, Handling(d, kind), Committed(d)
      PROVE  /\ Genuine' /\ worker' \in [Workers -> Delivery \cup {None}]
             /\ UNCHANGED stripe
             /\ worker[d].event \in events /\ worker[d].event.kind = kind
    <2>1. UNCHANGED stripe
        BY <1>2 DEF Committed, stripe
    <2> QED BY <1>2, <2>1, WorkerKeeps DEF Handling, Genuine
<1>3. CASE CommitSucceeded(d)
    <2>1. charge = "succeeded"
        BY <1>2, <1>3 DEF CommitSucceeded, Genuine
    <2>2. CASE UNCHANGED tables
        BY <1>2, <1>3, <2>2 DEF CommitSucceeded, Shape, BooksAgree, Issued, PaidOut,
                                stripe, tables
    <2>3. CASE ~UNCHANGED tables
        <3>1. /\ payment' = [payment EXCEPT !.status = "SETTLED"]
              /\ posted' = posted \cup {Capture}
              /\ earnings' = IF earnings = 0 THEN 1 ELSE earnings
              /\ refunds' = refunds
            BY <1>3, <2>3 DEF CommitSucceeded
        <3>2. payment'.status \in PaymentStatus
              /\ payment' = [status |-> payment'.status, refunded |-> payment'.refunded]
            BY <3>1 DEF Shape, PaymentStatus
        <3> QED BY <1>2, <1>3, <2>1, <3>1, <3>2
                DEF CommitSucceeded, Shape, BooksAgree, Issued, PaidOut, stripe
    <2> QED BY <2>2, <2>3
<1>4. CASE CommitFailed(d)
    <2>1. /\ payment'.status \in PaymentStatus
          /\ payment' = [status |-> payment'.status, refunded |-> payment'.refunded]
        BY <1>4 DEF CommitFailed, Shape, PaymentStatus, tables
    <2>2. queueStatus' = "QUEUED" => queueStatus = "QUEUED"
        BY <1>4 DEF CommitFailed, tables
    <2>3. UNCHANGED <<earnings, refunds, posted>>
        BY <1>4 DEF CommitFailed, tables
    <2> QED BY <1>2, <1>4, <2>1, <2>2, <2>3
            DEF CommitFailed, Shape, BooksAgree, Issued, PaidOut, stripe
<1>5. CASE CommitRefunded(d)
    <2>1. /\ payment'.status \in PaymentStatus
          /\ payment' = [status |-> payment'.status, refunded |-> payment'.refunded]
        BY <1>5 DEF CommitRefunded, PaymentStatus
    <2>2. /\ refunds' = refunds \cup Fresh(d) /\ posted' = posted \cup Fresh(d)
          /\ UNCHANGED <<earnings, queueStatus>>
        BY <1>5 DEF CommitRefunded
    <2>3. Fresh(d) \subseteq PaidOut
        BY <1>2, <1>5 DEF CommitRefunded, Genuine, Fresh
    <2>4. Fresh(d) \subseteq RefundIds /\ Capture \notin Fresh(d)
        BY <2>3, CaptureAssumption DEF Issued, PaidOut
    <2> QED BY <1>2, <1>5, <2>1, <2>2, <2>3, <2>4
            DEF CommitRefunded, Shape, BooksAgree, Issued, PaidOut, stripe
<1>6. CASE CommitOpened(d) \/ CommitClosed(d)
    <2>1. /\ payment'.status \in PaymentStatus
          /\ payment' = [status |-> payment'.status, refunded |-> payment'.refunded]
        BY <1>6 DEF CommitOpened, CommitClosed, Shape, PaymentStatus
    <2> QED BY <1>2, <1>6, <2>1
            DEF CommitOpened, CommitClosed, Shape, BooksAgree, Issued, PaidOut, stripe
<1> QED BY <1>1, <1>3, <1>4, <1>5, <1>6 DEF Handle

LEMMA InvNext == Inv /\ [Next]_vars => Inv'
<1> SUFFICES ASSUME Inv, [Next]_vars PROVE Inv'
    OBVIOUS
<1>1. CASE Happens
    BY <1>1, InvStripe
<1>2. CASE Deliver \/ \E d \in Workers : Handle(d) \/ Crash(d)
    BY <1>2, InvDelivery DEF Deliver
<1>3. CASE UNCHANGED vars
    BY <1>3 DEF vars, stripe, tables, control, Inv, Shape, Genuine, BooksAgree, Issued, PaidOut
<1> QED BY <1>1, <1>2, <1>3 DEF Next, Happens

\* Whatever is duplicated, reordered, retried or crashes, the books hold one
\* capture and one earning or neither, a reversal for exactly the refunds on
\* record, and nothing Stripe did not do.
THEOREM BooksAlwaysAgree == Spec => []BooksAgree
<1>1. Inv => BooksAgree
    BY DEF Inv
<1> QED BY <1>1, InvInit, InvNext, PTL DEF Spec

-----------------------------------------------------------------------------
(* What was answered *)

Captured == Capture \in posted \/ dispute # "none"

\* An event's work is done.
Done(e) == /\ e.kind = "succeeded" => Captured
           /\ e.kind = "refunded" => e.listed \subseteq posted

\* What a delivery holds: once it committed its event is done; before, the
\* refunds it knew are in the ledger, and a payment it saw settled was
\* captured, or won back from a dispute.
Honest(x) == /\ x.phase = "committed" => Done(x.event)
             /\ x.status = "SETTLED" => Captured
             /\ x.known \subseteq posted

\* The strengthening of AnsweredIsPosted, next to Inv.
Answered ==
    /\ \A e \in completed : Done(e)
    /\ \A e \in events : e.kind \in {"opened", "closed"} => dispute # "none"
    /\ payment.status = "SETTLED" => Captured
    /\ \A d \in Workers : worker[d] # None => Honest(worker[d])

LEMMA AnsweredInit == Init => Answered
BY DEF Init, Answered

\* Nothing leaves the ledger, and a dispute is not forgotten.
LEMMA NothingUndone ==
    ASSUME posted \subseteq posted', dispute # "none" => dispute' # "none"
    PROVE  /\ Captured => Captured'
           /\ \A e : Done(e) => Done(e)'
           /\ \A x : Honest(x) => Honest(x)'
BY DEF Captured, Done, Honest

LEMMA AnsweredStripe ==
    ASSUME Inv, Answered, Happens
    PROVE  Answered'
<1>1. /\ UNCHANGED <<completed, worker, payment, posted>>
      /\ dispute # "none" => dispute' # "none"
      /\ \A e \in events' \ events : e.kind \in {"opened", "closed"} => dispute' # "none"
    BY DEF Happens, AttemptFails, ChargeSucceeds, OpenDispute, IssueRefund, RefundSucceeds,
           CloseDispute, Emit, Simple, OfDispute, OfRefunds, tables, control
<1> QED BY <1>1, NothingUndone DEF Answered

\* A step of a delivery that leaves it idle or holding what is honest.
LEMMA AnsweredKept ==
    ASSUME Inv, Answered, NEW d \in Workers, NEW x,
           UNCHANGED stripe, worker' = [worker EXCEPT ![d] = x],
           posted \subseteq posted',
           x # None => Honest(x)',
           \A e \in completed' \ completed : Done(e),
           payment'.status = "SETTLED" => Captured'
    PROVE  Answered'
<1>1. UNCHANGED <<events, dispute>> /\ (dispute # "none" => dispute' # "none")
    BY DEF stripe
<1>2. /\ \A e : Done(e) => Done(e)'
      /\ \A y : Honest(y) => Honest(y)'
    BY <1>1, NothingUndone
<1>3. ASSUME NEW c \in Workers, worker'[c] # None PROVE Honest(worker[c])'
    <2>1. PICK y : y = worker'[c]
        OBVIOUS
    <2>2. Honest(y)'
        <3>1. CASE c = d
            BY <1>3, <2>1, <3>1 DEF Inv, Shape
        <3>2. CASE c # d
            BY <1>2, <1>3, <2>1, <3>2 DEF Answered, Inv, Shape
        <3> QED BY <3>1, <3>2
    <2> QED BY <2>1, <2>2 DEF Honest, Done, Captured
<1>4. \A e \in completed' : Done(e)'
    BY <1>2 DEF Answered
<1> QED BY <1>1, <1>3, <1>4 DEF Answered

LEMMA AnsweredDelivery ==
    ASSUME Inv, Answered, NEW d \in Workers,
           \/ \E e \in events : Read(d, e)
           \/ Handle(d) \/ Crash(d)
    PROVE  Answered'
<1>1. ASSUME NEW e \in events, Read(d, e) PROVE Answered'
    <2>1. PICK x : /\ UNCHANGED <<stripe, tables, completed>>
                   /\ worker' = [worker EXCEPT ![d] = x]
                   /\ x.phase = "handling" /\ x.status = payment.status
                   /\ x.known = IF e.kind = "refunded" THEN refunds ELSE {}
        <3> DEFINE y == [event |-> e, phase |-> "handling", status |-> payment.status,
                         known   |-> IF e.kind = "refunded" THEN refunds ELSE {},
                         waiting |-> e.kind = "failed" /\ queueStatus = "AWAITING_PAYMENT"]
        <3>1. UNCHANGED <<stripe, tables, completed>> /\ worker' = [worker EXCEPT ![d] = y]
            BY <1>1 DEF Read
        <3>2. /\ y.phase = "handling" /\ y.status = payment.status
              /\ y.known = IF e.kind = "refunded" THEN refunds ELSE {}
            OBVIOUS
        <3> HIDE DEF y
        <3> QED BY <3>1, <3>2
    <2>2. x.status = "SETTLED" => Captured
        BY <2>1 DEF Answered
    <2>3. x.known \subseteq posted
        BY <2>1 DEF Inv, BooksAgree
    <2>4. Honest(x)
        BY <2>1, <2>2, <2>3 DEF Honest
    <2>5. Honest(x)' /\ (payment'.status = "SETTLED" => Captured')
        BY <2>1, <2>4 DEF Honest, Done, Captured, Answered, stripe, tables
    <2> QED BY <2>1, <2>5, AnsweredKept DEF tables
<1>2. CASE RefundConflict(d) \/ Complete(d) \/ Crash(d)
    <2>1. /\ UNCHANGED <<stripe, tables>>
          /\ worker' = [worker EXCEPT ![d] = None]
        BY <1>2 DEF RefundConflict, Complete, Crash
    <2>2. \A e \in completed' \ completed : Done(e)
        BY <1>2 DEF RefundConflict, Complete, Crash, Answered, Honest
    <2>3. payment'.status = "SETTLED" => Captured'
        BY <2>1 DEF Captured, Answered, stripe, tables
    <2> QED BY <2>1, <2>2, <2>3, AnsweredKept DEF tables
<1>3. ASSUME NEW kind, Handling(d, kind), Committed(d), posted \subseteq posted',
             NEW e, e = worker[d].event, Done(e)',
             payment'.status = "SETTLED" => Captured'
      PROVE  Answered'
    <2>1. worker[d] \in Delivery
        BY <1>3 DEF Handling, Inv, Shape
    <2>2. PICK x : /\ x.event = e /\ x.status = "CREATED" /\ x.known = {}
                   /\ UNCHANGED <<stripe, completed>>
                   /\ worker' = [worker EXCEPT ![d] = x]
        BY <1>3, <2>1 DEF Committed, Delivery
    <2>3. Honest(x)'
        BY <1>3, <2>2 DEF Honest, Done, Captured
    <2> QED BY <1>3, <2>2, <2>3, AnsweredKept
<1>4. ASSUME NEW kind, Handling(d, kind)
      PROVE  /\ worker[d].event \in events /\ worker[d].event.kind = kind
             /\ Honest(worker[d]) /\ worker[d] \in Delivery
    BY <1>4 DEF Handling, Answered, Inv, Shape, Genuine
<1>5. CASE CommitSucceeded(d)
    <2> PICK e : e = worker[d].event
        OBVIOUS
    <2>1. CASE worker[d].status = "SETTLED"
        <3>1. Captured /\ UNCHANGED <<dispute, posted>>
            BY <1>4, <1>5, <2>1 DEF CommitSucceeded, Honest, tables, Committed, stripe
        <3>2. Captured'
            BY <3>1 DEF Captured
        <3> QED BY <1>3, <1>4, <1>5, <3>1, <3>2 DEF CommitSucceeded, Done
    <2>2. CASE worker[d].status # "SETTLED"
        <3>1. posted' = posted \cup {Capture}
            BY <1>5, <2>2 DEF CommitSucceeded
        <3>2. Captured'
            BY <3>1 DEF Captured
        <3> QED BY <1>3, <1>4, <1>5, <3>1, <3>2 DEF CommitSucceeded, Done
    <2> QED BY <2>1, <2>2
<1>6. CASE CommitFailed(d)
    <2> PICK e : e = worker[d].event
        OBVIOUS
    <2>1. UNCHANGED <<dispute, posted>>
        BY <1>6 DEF CommitFailed, tables, Committed, stripe
    <2>2. payment'.status = "SETTLED" => payment.status = "SETTLED"
        BY <1>6 DEF CommitFailed, tables, Inv, Shape
    <2>3. payment'.status = "SETTLED" => Captured'
        BY <2>1, <2>2 DEF Answered, Captured
    <2> QED BY <1>3, <1>4, <1>6, <2>1, <2>3 DEF CommitFailed, Done
<1>7. CASE CommitRefunded(d)
    <2> PICK e : e = worker[d].event
        OBVIOUS
    <2>1. posted' = posted \cup Fresh(d) /\ payment'.status # "SETTLED"
        BY <1>7 DEF CommitRefunded
    <2>2. e.listed \subseteq posted' /\ e.kind = "refunded"
        BY <1>4, <1>7, <2>1 DEF CommitRefunded, Fresh, Honest
    <2> QED BY <1>3, <1>4, <1>7, <2>1, <2>2 DEF CommitRefunded, Done
<1>8. CASE CommitOpened(d) \/ CommitClosed(d)
    <2> PICK e : e = worker[d].event
        OBVIOUS
    <2>1. UNCHANGED <<dispute, posted>>
        BY <1>8 DEF CommitOpened, CommitClosed, Committed, stripe
    <2>2. e.kind \in {"opened", "closed"} /\ dispute # "none"
        BY <1>4, <1>8 DEF CommitOpened, CommitClosed, Answered
    <2>3. Captured' /\ Done(e)'
        BY <2>1, <2>2 DEF Captured, Done
    <2> QED BY <1>3, <1>8, <2>1, <2>3 DEF CommitOpened, CommitClosed
<1> QED BY <1>1, <1>2, <1>5, <1>6, <1>7, <1>8 DEF Handle

LEMMA AnsweredNext == Inv /\ Answered /\ [Next]_vars => Answered'
<1> SUFFICES ASSUME Inv, Answered, [Next]_vars PROVE Answered'
    OBVIOUS
<1>1. CASE Happens
    BY <1>1, AnsweredStripe
<1>2. CASE Deliver \/ \E d \in Workers : Handle(d) \/ Crash(d)
    BY <1>2, AnsweredDelivery DEF Deliver
<1>3. CASE UNCHANGED vars
    BY <1>3 DEF vars, stripe, tables, control, Answered, Honest, Done, Captured
<1> QED BY <1>1, <1>2, <1>3 DEF Next, Happens

\* An event Stripe will not send again has done its work, wherever deliveries
\* of it raced, repeated or crashed.
THEOREM AnsweredStaysPosted == Spec => []AnsweredIsPosted
<1>1. Answered => AnsweredIsPosted
    BY DEF Answered, AnsweredIsPosted, Done, Captured
<1> QED BY <1>1, InvInit, InvNext, AnsweredInit, AnsweredNext, PTL DEF Spec

-----------------------------------------------------------------------------
(* The balances.  A sum over a set is a recursive function, and that there *)
(* is one is shown by a least counterexample: a function that agrees with  *)
(* the recursion on sets of at most n keys yields one for n + 1.           *)

LEMMA LeastNumber ==
    ASSUME NEW T \in SUBSET Nat, T # {}
    PROVE  \E n \in T : \A m \in T : n <= m
<1> DEFINE R == OpToRel(<, Nat)
<1>1. IsWellFoundedOn(R, Nat)
    BY NatLessThanWellFounded
<1>2. \A m, n \in Nat : <<m, n>> \in R <=> m < n
    BY DEF OpToRel
<1> HIDE DEF R
<1>3. PICK n \in T : \A m \in T : <<m, n>> \notin R
    BY <1>1, WFMin
<1>4. ASSUME NEW m \in T PROVE n <= m
    <2>1. m \in Nat /\ n \in Nat /\ ~(m < n)
        BY <1>2, <1>3
    <2> QED BY <2>1
<1> QED BY <1>4

\* The recursion that Balance unfolds to.
Some(s)             == CHOOSE key \in s : TRUE
Step(account, g, s) == IF s = {} THEN 0 ELSE Lines(Some(s))[account] + g[s \ {Some(s)}]
Sums(account)       == CHOOSE g : g = [s \in SUBSET posted |-> Step(account, g, s)]

LEMMA BalanceIs ==
    ASSUME NEW account
    PROVE  Balance(account) = Sums(account)[posted]
BY DEF Balance, MapThenSumSet, MapThenFoldSet, Sums, Step, Some

\* What is left when one key is taken out.
LEMMA OneLess ==
    ASSUME IsFiniteSet(posted), NEW s \in SUBSET posted
    PROVE  /\ IsFiniteSet(s) /\ Cardinality(s) \in Nat
           /\ s # {} => /\ Some(s) \in posted /\ s \ {Some(s)} \in SUBSET posted
                        /\ Cardinality(s \ {Some(s)}) = Cardinality(s) - 1
                        /\ Cardinality(s) >= 1
           /\ Cardinality(s) <= Cardinality(posted)
<1>1. IsFiniteSet(s) /\ Cardinality(s) \in Nat /\ Cardinality(s) <= Cardinality(posted)
    BY FS_Subset, FS_CardinalityType
<1>2. ASSUME s # {}
      PROVE  /\ Some(s) \in s /\ Cardinality(s \ {Some(s)}) = Cardinality(s) - 1
             /\ Cardinality(s) >= 1
    <2>1. Some(s) \in s
        BY <1>2 DEF Some
    <2>2. Cardinality(s \ {Some(s)}) = Cardinality(s) - 1
        BY <1>1, <2>1, FS_RemoveElement
    <2>3. Cardinality(s) # 0
        BY <1>1, <1>2, FS_EmptySet
    <2> QED BY <1>1, <2>1, <2>2, <2>3
<1> QED BY <1>1, <1>2

LEMMA SumsDefined ==
    ASSUME IsFiniteSet(posted), NEW account, \A key \in posted : Lines(key)[account] \in Int
    PROVE  /\ Sums(account) \in [SUBSET posted -> Int]
           /\ \A s \in SUBSET posted : Sums(account)[s] = Step(account, Sums(account), s)
<1> DEFINE Fits(g, n) == \A s \in SUBSET posted : Cardinality(s) <= n => g[s] = Step(account, g, s)
           Sound(n)   == \E g \in [SUBSET posted -> Int] : Fits(g, n)
<1>1. ASSUME NEW g \in [SUBSET posted -> Int], NEW s \in SUBSET posted
      PROVE  Step(account, g, s) \in Int
    <2> HIDE DEF Fits, Sound
    <2>1. CASE s = {}
        BY <2>1 DEF Step
    <2>2. CASE s # {}
        <3>1. Some(s) \in posted /\ s \ {Some(s)} \in SUBSET posted
            BY <2>2, OneLess
        <3>2. Lines(Some(s))[account] \in Int /\ g[s \ {Some(s)}] \in Int
            BY <1>1, <3>1
        <3> QED BY <2>2, <3>2 DEF Step
    <2> QED BY <2>1, <2>2
<1>2. Sound(0)
    <2> DEFINE g == [s \in SUBSET posted |-> 0]
    <2>1. ASSUME NEW s \in SUBSET posted, Cardinality(s) <= 0 PROVE s = {}
        <3> HIDE DEF Fits, Sound, g
        <3>1. Cardinality(s) \in Nat /\ (s # {} => Cardinality(s) >= 1)
            BY OneLess
        <3> QED BY <2>1, <3>1
    <2>2. Fits(g, 0)
        <3> SUFFICES ASSUME NEW s \in SUBSET posted, Cardinality(s) <= 0
                     PROVE  g[s] = Step(account, g, s)
            OBVIOUS
        <3>1. s = {}
            BY <2>1
        <3> QED BY <3>1 DEF Step
    <2>3. g \in [SUBSET posted -> Int]
        OBVIOUS
    <2> HIDE DEF Fits, g
    <2> QED BY <2>2, <2>3
<1>3. ASSUME NEW n \in Nat, Sound(n) PROVE Sound(n + 1)
    <2>1. PICK g \in [SUBSET posted -> Int] : Fits(g, n)
        BY <1>3
    <2> DEFINE h == [s \in SUBSET posted |-> Step(account, g, s)]
    <2>2. h \in [SUBSET posted -> Int]
        BY <1>1
    <2>3. ASSUME NEW s \in SUBSET posted, Cardinality(s) <= n + 1
          PROVE  h[s] = Step(account, h, s)
        <3>1. h[s] = Step(account, g, s)
            OBVIOUS
        <3>2. ASSUME s # {} PROVE h[s \ {Some(s)}] = g[s \ {Some(s)}]
            <4>1. s \ {Some(s)} \in SUBSET posted /\ Cardinality(s \ {Some(s)}) <= n
                BY <2>3, <3>2, OneLess
            <4> HIDE DEF Sound
            <4> QED BY <2>1, <4>1
        <3> HIDE DEF h
        <3> QED BY <3>1, <3>2 DEF Step
    <2>4. Fits(h, n + 1)
        BY <2>3
    <2> HIDE DEF Fits, h
    <2> QED BY <2>2, <2>4
<1>4. \A n \in Nat : Sound(n)
    <2> SUFFICES ASSUME {n \in Nat : ~Sound(n)} # {} PROVE FALSE
        OBVIOUS
    <2> HIDE DEF Sound
    <2>1. PICK n \in {m \in Nat : ~Sound(m)} : \A m \in {m \in Nat : ~Sound(m)} : n <= m
        BY LeastNumber
    <2>2. n # 0
        BY <1>2, <2>1
    <2>3. n - 1 \in Nat /\ Sound(n - 1)
        BY <2>1, <2>2
    <2>4. Sound((n - 1) + 1)
        BY <1>3, <2>3
    <2> QED BY <2>1, <2>4
<1>5. PICK g \in [SUBSET posted -> Int] : Fits(g, Cardinality(posted))
    BY <1>4, FS_CardinalityType
<1>6. \A s \in SUBSET posted : g[s] = Step(account, g, s)
    BY <1>5, OneLess
<1>7. g = [s \in SUBSET posted |-> Step(account, g, s)]
    BY <1>6
<1>8. Sums(account) = [s \in SUBSET posted |-> Step(account, Sums(account), s)]
    BY <1>7 DEF Sums
<1>9. \A s \in SUBSET posted : Sums(account)[s] = Step(account, Sums(account), s)
    BY <1>8
<1>10. ASSUME NEW s \in SUBSET posted PROVE Sums(account)[s] = g[s]
    <2> DEFINE Wrong == {n \in Nat : \E u \in SUBSET posted :
                                        Cardinality(u) = n /\ Sums(account)[u] # g[u]}
    <2> SUFFICES ASSUME Wrong # {} PROVE FALSE
        BY OneLess
    <2>1. PICK n \in Wrong : \A m \in Wrong : n <= m
        BY LeastNumber
    <2>2. PICK u \in SUBSET posted : Cardinality(u) = n /\ Sums(account)[u] # g[u]
        BY <2>1
    <2>3. u # {}
        BY <1>6, <1>9, <2>2 DEF Step
    <2>4. /\ u \ {Some(u)} \in SUBSET posted /\ Cardinality(u \ {Some(u)}) \in Nat
          /\ Cardinality(u \ {Some(u)}) < n
        BY <2>2, <2>3, OneLess
    <2>5. Sums(account)[u \ {Some(u)}] = g[u \ {Some(u)}]
        BY <2>1, <2>4
    <2> QED BY <1>6, <1>9, <2>2, <2>3, <2>5 DEF Step
<1> QED BY <1>8, <1>9, <1>10

\* One posting's rounding.
LEMMA LineDrift ==
    ASSUME NEW key, key = Capture \/ issued[key] \in Nat
    PROVE  /\ Lines(key)["PLATFORM_COMMISSION"] \in Int /\ Lines(key)["PAYMENT_CLEARING"] \in Int
           /\ 20 * Lines(key)["PLATFORM_COMMISSION"] + 3 * Lines(key)["PAYMENT_CLEARING"] \in -10..10
<1> DEFINE cents == IF key = Capture THEN Gross ELSE issued[key]
           sign  == IF key = Capture THEN 1 ELSE -1
           share == SplitPayment(cents).platform
<1>1. cents \in Nat
    BY AmountsAssumption
<1>2. 20 * share - 3 * cents \in -10..10
    BY <1>1, SplitIsFair
<1>3. share \in Int
    BY <1>1 DEF SplitPayment
<1>4. /\ Lines(key)["PLATFORM_COMMISSION"] = -sign * share
      /\ Lines(key)["PAYMENT_CLEARING"] = sign * cents
    BY DEF Lines
<1> HIDE DEF cents, share
<1>5. CASE sign = 1
    <2>1. /\ Lines(key)["PLATFORM_COMMISSION"] = -share
          /\ Lines(key)["PAYMENT_CLEARING"] = cents
        BY <1>1, <1>3, <1>4, <1>5
    <2> QED BY <1>1, <1>2, <1>3, <2>1
<1>6. CASE sign = -1
    <2>1. /\ Lines(key)["PLATFORM_COMMISSION"] = share
          /\ Lines(key)["PAYMENT_CLEARING"] = -cents
        BY <1>1, <1>3, <1>4, <1>6
    <2> QED BY <1>1, <1>2, <1>3, <2>1
<1> QED BY <1>5, <1>6

LEMMA DriftBounded ==
    ASSUME IsFiniteSet(posted), \A key \in posted : key = Capture \/ issued[key] \in Nat
    PROVE  RoundingBounded
<1> DEFINE P == Sums("PLATFORM_COMMISSION")
           C == Sums("PAYMENT_CLEARING")
           Bad == {n \in Nat : \E s \in SUBSET posted :
                      /\ Cardinality(s) = n
                      /\ ~(20 * P[s] + 3 * C[s] \in -(10 * n)..(10 * n))}
<1>1. /\ P \in [SUBSET posted -> Int]
      /\ \A s \in SUBSET posted : P[s] = Step("PLATFORM_COMMISSION", P, s)
    BY SumsDefined, LineDrift
<1>2. /\ C \in [SUBSET posted -> Int]
      /\ \A s \in SUBSET posted : C[s] = Step("PAYMENT_CLEARING", C, s)
    BY SumsDefined, LineDrift
<1> HIDE DEF P, C
<1>3. Bad = {}
    <2> SUFFICES ASSUME Bad # {} PROVE FALSE
        OBVIOUS
    <2>1. PICK n \in Bad : \A m \in Bad : n <= m
        BY LeastNumber
    <2>2. PICK s \in SUBSET posted :
            Cardinality(s) = n /\ ~(20 * P[s] + 3 * C[s] \in -(10 * n)..(10 * n))
        BY <2>1
    <2>3. s # {}
        <3> SUFFICES ASSUME s = {} PROVE FALSE
            OBVIOUS
        <3>1. P[s] = 0 /\ C[s] = 0 /\ n = 0
            BY <1>1, <1>2, <2>2, FS_EmptySet DEF Step
        <3> QED BY <2>2, <3>1
    <2> DEFINE key == Some(s)
               u   == s \ {Some(s)}
    <2>4. key \in posted /\ u \in SUBSET posted /\ n \in Nat /\ Cardinality(u) = n - 1 /\ n >= 1
        BY <2>2, <2>3, OneLess
    <2>5. /\ P[s] = Lines(key)["PLATFORM_COMMISSION"] + P[u]
          /\ C[s] = Lines(key)["PAYMENT_CLEARING"] + C[u]
        BY <1>1, <1>2, <2>2, <2>3 DEF Step
    <2> HIDE DEF key, u
    <2>6. 20 * P[u] + 3 * C[u] \in -(10 * (n - 1))..(10 * (n - 1))
        <3>1. n - 1 \in Nat /\ ~(n <= n - 1)
            BY <2>4
        <3> QED BY <2>1, <2>4, <3>1
    <2>7. /\ Lines(key)["PLATFORM_COMMISSION"] \in Int /\ Lines(key)["PAYMENT_CLEARING"] \in Int
          /\ 20 * Lines(key)["PLATFORM_COMMISSION"] + 3 * Lines(key)["PAYMENT_CLEARING"] \in -10..10
        BY <2>4, LineDrift
    <2>8. P[u] \in Int /\ C[u] \in Int
        BY <1>1, <1>2, <2>4
    <2>9. 20 * P[s] + 3 * C[s] \in -(10 * n)..(10 * n)
        BY <2>4, <2>5, <2>6, <2>7, <2>8
    <2> QED BY <2>2, <2>9
<1>4. Cardinality(posted) \in Nat
    BY FS_CardinalityType
<1>5. 20 * P[posted] + 3 * C[posted] \in -(10 * Cardinality(posted))..(10 * Cardinality(posted))
    BY <1>3, <1>4
<1>6. Balance("PLATFORM_COMMISSION") = P[posted] /\ Balance("PAYMENT_CLEARING") = C[posted]
    BY BalanceIs DEF P, C
<1> QED BY <1>5, <1>6 DEF RoundingBounded

\* Stripe issues refunds one by one, so that there are finitely many.
LEMMA FinitelyIssued ==
    ASSUME Inv, IsFiniteSet(Issued), [Next]_vars
    PROVE  IsFiniteSet(Issued')
<1>1. CASE UNCHANGED issued
    BY <1>1 DEF Issued
<1>2. ASSUME NEW r \in RefundIds, NEW cents \in RefundAmounts, IssueRefund(r, cents)
      PROVE  IsFiniteSet(Issued')
    <2>1. cents # 0 /\ issued' = [issued EXCEPT ![r] = cents] /\ issued \in [RefundIds -> Nat]
        BY <1>2, AmountsAssumption DEF IssueRefund, Inv, Shape
    <2>2. Issued' = Issued \cup {r}
        BY <2>1 DEF Issued
    <2> QED BY <2>2, FS_AddElement
<1>3. UNCHANGED issued \/ \E r \in RefundIds, cents \in RefundAmounts : IssueRefund(r, cents)
    BY DEF Next, AttemptFails, ChargeSucceeds, OpenDispute, CloseDispute, RefundSucceeds, Deliver, Read, Handle,
           CommitSucceeded, CommitFailed, CommitRefunded, RefundConflict, CommitOpened, CommitClosed,
           Complete, Crash, Committed, vars, stripe
<1> QED BY <1>1, <1>2, <1>3

\* Rounding leaves at most half a cent per posting between the commission and
\* 15% of what the platform holds, for any amounts and any number of refunds.
THEOREM RoundingStaysBounded == Spec => []RoundingBounded
<1>1. Init => IsFiniteSet(Issued)
    <2>1. Init => Issued = {}
        BY DEF Init, Issued
    <2> QED BY <2>1, FS_EmptySet
<1>2. Inv /\ IsFiniteSet(Issued) => RoundingBounded
    <2> SUFFICES ASSUME Inv, IsFiniteSet(Issued) PROVE RoundingBounded
        OBVIOUS
    <2>1. posted \subseteq Issued \cup {Capture} /\ issued \in [RefundIds -> Nat]
        BY DEF Inv, Shape, BooksAgree, PaidOut
    <2>2. IsFiniteSet(Issued \cup {Capture})
        BY FS_AddElement
    <2>3. IsFiniteSet(posted)
        BY <2>1, <2>2, FS_Subset
    <2> QED BY <2>1, <2>3, DriftBounded DEF Issued
<1>3. Inv /\ IsFiniteSet(Issued) /\ [Next]_vars => IsFiniteSet(Issued)'
    BY FinitelyIssued
<1> QED BY <1>1, <1>2, <1>3, InvInit, InvNext, PTL DEF Spec

=============================================================================
