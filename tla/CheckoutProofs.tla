--------------------------- MODULE CheckoutProofs ---------------------------
(* Theorems about Checkout, for every value of its constants. *)
EXTENDS Checkout, FiniteSetTheorems, TLAPS

USE LimitsAssumption, BoundAssumption, PricesAssumption, TabsAssumption, NoneAssumption

-----------------------------------------------------------------------------
(* Types *)

\* A checkout that was started has an owner; only one that was committed is
\* charged or heard of; the check saw commits that are still there.
Rooted ==
    \A p \in Payments :
        /\ checkout[p].row # "none" => checkout[p].owner \in Users
        /\ checkout[p].charged \/ checkout[p].events # {} => checkout[p].row \in Recorded
        /\ checkout[p].seen \subseteq Committed

\* An open dialog is some page's, and the payment it shows was committed.
Dialogs ==
    \A b \in Tabs :
        /\ modal[b].isOpen => modal[b].kind \in Kinds
        /\ modal[b].step = "PAYMENT" => modal[b].clientSecret # None
        /\ modal[b].clientSecret # None => checkout[modal[b].clientSecret].row \in Recorded

Shape == TypeOK /\ Rooted /\ Dialogs

-----------------------------------------------------------------------------
(* What a step does to the checkouts *)

Reserving(c) == c.held = "ACTIVE" /\ c.fresh

\* From c to d nothing is undone and no reservation comes back.
Keeps(c, d) == /\ d.owner = c.owner /\ d.kind = c.kind /\ d.seen = c.seen
               /\ Reserving(d) => Reserving(c)

Untouched(p) ==
    /\ Keeps(checkout[p], checkout'[p])
    /\ checkout'[p].row = checkout[p].row
    /\ checkout'[p].charged = checkout[p].charged
    /\ checkout'[p].events = checkout[p].events

\* A request before its commit: it starts, is checked, or is refused.
Begins(p) ==
    /\ checkout[p].row = "none" /\ checkout'[p].row = "check"
    /\ checkout'[p].owner \in Users /\ checkout'[p].seen = checkout[p].seen
Checks(p) ==
    /\ checkout[p].row = "check" /\ checkout'[p].row = "intent"
    /\ checkout'[p].owner = checkout[p].owner /\ checkout'[p].kind = checkout[p].kind
    /\ checkout'[p].seen = Committed
    /\ MayUpgrade(p) /\ Available(checkout[p].owner)
    /\ double' = (double \/ (checkout[p].kind = "upgrade" /\ OpenUpgrades(checkout[p].owner) # {}))
Refuses(p) ==
    /\ checkout[p].row \in Requested /\ checkout'[p].row = "over"
    /\ checkout'[p].owner = checkout[p].owner /\ checkout'[p].seen = {}
Commits(p) ==
    /\ checkout[p].row = "intent" /\ checkout'[p].row = "CREATED"
    /\ checkout'[p].owner = checkout[p].owner /\ checkout'[p].kind = checkout[p].kind
    /\ checkout'[p].seen = {}
    /\ stale' = (stale \/ checkout[p].seen # Committed)

\* A committed checkout: it is sold by its webhook alone.
Sells(p) ==
    /\ checkout'[p].row = "SETTLED"
    /\ checkout[p].kind = "upgrade" =>
          /\ song' = [song EXCEPT ![checkout[p].owner] = [isPriority |-> TRUE, entry |-> "QUEUED"]]
          /\ stale' = (stale \/ p \notin ReservedIn({p}))

\* A payment is charged by a dialog that holds it, and Stripe's word of it lasts
\* until it is sold.
Pays(p) ==
    /\ checkout'[p].charged => \/ checkout[p].charged
                               \/ Held(p) /\ "succeeded" \in checkout'[p].events
    /\ "succeeded" \in checkout'[p].events => "succeeded" \in checkout[p].events \/ Held(p)
    /\ "succeeded" \in checkout[p].events => "succeeded" \in checkout'[p].events \/ Sells(p)

Proceeds(p) ==
    /\ Keeps(checkout[p], checkout'[p]) /\ Pays(p)
    /\ checkout[p].row \in Recorded /\ checkout'[p].row \in Recorded
    /\ \/ checkout'[p].row \in {checkout[p].row} \cup (Recorded \ {"SETTLED"})
       \/ Sells(p)

\* What has not been committed is neither charged nor heard of.
About(p) ==
    \/ /\ Begins(p) \/ Checks(p) \/ Refuses(p) \/ Commits(p)
       /\ checkout'[p].charged = checkout[p].charged /\ checkout'[p].events = checkout[p].events
       /\ Reserving(checkout'[p]) => Reserving(checkout[p]) \/ checkout'[p].row = "CREATED"
    \/ Proceeds(p)

Effect == \/ \A q \in Payments : Untouched(q)
          \/ \E p \in Payments : About(p) /\ \A q \in Payments \ {p} : Untouched(q)

\* Ending a user's reservations ends them and does nothing else.
LEMMA EndKeeps ==
    ASSUME NEW c \in [Payments -> Checkout], NEW u, NEW how \in {"CONSUMED", "RELEASED"}
    PROVE  /\ End(c, u, how) \in [Payments -> Checkout]
           /\ \A q \in Payments :
                 LET d == End(c, u, how)[q]
                 IN  /\ Keeps(c[q], d) /\ d.row = c[q].row
                     /\ d.charged = c[q].charged /\ d.events = c[q].events
<1>1. ASSUME NEW q \in Payments
      PROVE  /\ [c[q] EXCEPT !.held = how] \in Checkout
             /\ Keeps(c[q], [c[q] EXCEPT !.held = how])
             /\ [c[q] EXCEPT !.held = how].row = c[q].row
             /\ [c[q] EXCEPT !.held = how].charged = c[q].charged
             /\ [c[q] EXCEPT !.held = how].events = c[q].events
    BY DEF Checkout, Keeps, Reserving
<1>2. \A q \in Payments : /\ c[q] \in Checkout
                          /\ Keeps(c[q], c[q])
                          /\ End(c, u, how)[q] \in {c[q], [c[q] EXCEPT !.held = how]}
    BY DEF End, Keeps
<1>3. \A q \in Payments : End(c, u, how)[q] \in Checkout
    BY <1>1, <1>2
<1>4. End(c, u, how) = [q \in Payments |-> End(c, u, how)[q]]
    BY DEF End
<1>5. End(c, u, how) \in [Payments -> Checkout]
    BY <1>3, <1>4
<1>6. ASSUME NEW q \in Payments
      PROVE  LET d == End(c, u, how)[q]
             IN  /\ Keeps(c[q], d) /\ d.row = c[q].row
                 /\ d.charged = c[q].charged /\ d.events = c[q].events
    BY <1>1, <1>2
<1> QED BY <1>5, <1>6

\* Rewriting one row leaves the others untouched.
LEMMA OneRow ==
    ASSUME TypeOK, NEW p \in Payments, NEW row \in Checkout,
           checkout' = [checkout EXCEPT ![p] = row]
    PROVE  /\ checkout' \in [Payments -> Checkout] /\ checkout'[p] = row
           /\ \A q \in Payments \ {p} : Untouched(q)
BY DEF TypeOK, Untouched, Keeps

LEMMA StartEffect ==
    ASSUME Shape, NEW b \in Tabs, NEW p \in Payments, Start(b, p)
    PROVE  checkout' \in [Payments -> Checkout] /\ Effect
<1> DEFINE row == [checkout[p] EXCEPT !.owner = UserOf[b], !.kind = modal[b].kind, !.row = "check"]
<1>1. checkout[p] \in Checkout /\ modal[b].kind \in Kinds /\ TypeOK
    BY DEF Shape, TypeOK, Dialogs, Start, MayStart
<1>2. checkout' = [checkout EXCEPT ![p] = row] /\ checkout[p].row = "none"
    BY DEF Start
<1>3. row \in Checkout
    BY <1>1 DEF Checkout, Requested
<1>4. /\ row.owner = UserOf[b] /\ row.row = "check" /\ row.seen = checkout[p].seen
      /\ row.charged = checkout[p].charged /\ row.events = checkout[p].events
      /\ row.held = checkout[p].held /\ row.fresh = checkout[p].fresh
    BY <1>1 DEF Checkout
<1> HIDE DEF row
<1>5. About(p)
    BY <1>1, <1>2, <1>3, <1>4, OneRow DEF About, Begins, Reserving
<1> QED BY <1>1, <1>2, <1>3, <1>5, OneRow DEF Effect

LEMMA RequestEffect ==
    ASSUME Shape, NEW p \in Payments, Request(p)
    PROVE  checkout' \in [Payments -> Checkout] /\ Effect
<1>1. checkout[p] \in Checkout /\ TypeOK /\ Committed \in SUBSET Payments /\ tier.price \in Prices
    BY DEF Shape, TypeOK, Committed, Tier
<1>2. ASSUME checkout' = [checkout EXCEPT ![p] = Over(@)], checkout[p].row \in Requested
      PROVE  checkout' \in [Payments -> Checkout] /\ Effect
    <2>1. Over(checkout[p]) \in Checkout
        BY <1>1 DEF Over, Checkout, Kinds
    <2>2. LET row == Over(checkout[p])
          IN  /\ row.owner = checkout[p].owner /\ row.row = "over" /\ row.seen = {}
              /\ row.charged = checkout[p].charged /\ row.events = checkout[p].events
              /\ row.held = checkout[p].held /\ row.fresh = checkout[p].fresh
        BY <1>1 DEF Over, Checkout
    <2>3. About(p)
        BY <1>1, <1>2, <2>1, <2>2, OneRow DEF About, Refuses, Reserving
    <2> QED BY <1>1, <1>2, <2>1, <2>3, OneRow DEF Effect
<1>3. ASSUME Check(p), MayUpgrade(p) /\ Available(checkout[p].owner)
      PROVE  checkout' \in [Payments -> Checkout] /\ Effect
    <2> DEFINE row == [checkout[p] EXCEPT !.row = "intent", !.price = tier.price, !.seen = Committed]
    <2>1. checkout' = [checkout EXCEPT ![p] = row] /\ checkout[p].row = "check"
        BY <1>3 DEF Check
    <2>2. row \in Checkout
        BY <1>1 DEF Checkout, Requested
    <2>3. /\ row.owner = checkout[p].owner /\ row.kind = checkout[p].kind
          /\ row.row = "intent" /\ row.seen = Committed
          /\ row.charged = checkout[p].charged /\ row.events = checkout[p].events
          /\ row.held = checkout[p].held /\ row.fresh = checkout[p].fresh
        BY <1>1 DEF Checkout
    <2> HIDE DEF row
    <2>4. Checks(p)
        BY <1>1, <1>3, <2>1, <2>2, <2>3, OneRow DEF Checks, Check
    <2>5. About(p)
        BY <1>1, <2>1, <2>2, <2>3, <2>4, OneRow DEF About, Reserving
    <2> QED BY <1>1, <2>1, <2>2, <2>5, OneRow DEF Effect
<1>4. CASE Check(p)
    BY <1>2, <1>3, <1>4 DEF Check, Requested
<1>5. CASE Abandon(p)
    BY <1>2, <1>5 DEF Abandon
<1>6. CASE Commit(p)
    <2> DEFINE e == IF checkout[p].kind = "new" THEN "AWAITING_PAYMENT" ELSE None
               row == [checkout[p] EXCEPT !.row = "CREATED", !.held = "ACTIVE", !.fresh = TRUE,
                                          !.entry = e, !.seen = {}]
    <2>1. checkout' = [checkout EXCEPT ![p] = row] /\ checkout[p].row = "intent"
        BY <1>6 DEF Commit
    <2>2. e \in Entry \cup {None}
        BY DEF Entry
    <2> HIDE DEF e
    <2>3. row \in Checkout
        BY <1>1, <2>2 DEF Checkout, Recorded
    <2>4. /\ row.owner = checkout[p].owner /\ row.kind = checkout[p].kind
          /\ row.row = "CREATED" /\ row.seen = {}
          /\ row.charged = checkout[p].charged /\ row.events = checkout[p].events
        BY <1>1 DEF Checkout
    <2> HIDE DEF row
    <2>5. About(p)
        BY <1>1, <1>6, <2>1, <2>3, <2>4, OneRow DEF About, Commits, Commit
    <2> QED BY <1>1, <2>1, <2>3, <2>5, OneRow DEF Effect
<1> QED BY <1>4, <1>5, <1>6 DEF Request

\* A webhook rewrites the row it is about and ends reservations.
LEMMA EndEffect ==
    ASSUME TypeOK, NEW p \in Payments, NEW row \in Checkout, NEW u, NEW how \in {"CONSUMED", "RELEASED"},
           checkout' = End([checkout EXCEPT ![p] = row], u, how),
           Keeps(checkout[p], row)
    PROVE  /\ checkout' \in [Payments -> Checkout]
           /\ Keeps(checkout[p], checkout'[p]) /\ checkout'[p].row = row.row
           /\ checkout'[p].charged = row.charged /\ checkout'[p].events = row.events
           /\ \A q \in Payments \ {p} : Untouched(q)
<1> DEFINE c == [checkout EXCEPT ![p] = row]
<1>1. /\ c \in [Payments -> Checkout] /\ c[p] = row
      /\ \A q \in Payments \ {p} : c[q] = checkout[q]
    BY DEF TypeOK
<1>2. checkout' = End(c, u, how)
    OBVIOUS
<1> HIDE DEF c
<1>3. /\ End(c, u, how) \in [Payments -> Checkout]
      /\ \A q \in Payments : /\ Keeps(c[q], End(c, u, how)[q])
                             /\ End(c, u, how)[q].row = c[q].row
                             /\ End(c, u, how)[q].charged = c[q].charged
                             /\ End(c, u, how)[q].events = c[q].events
    BY <1>1, EndKeeps
<1>4. /\ Keeps(checkout[p], checkout'[p]) /\ checkout'[p].row = row.row
      /\ checkout'[p].charged = row.charged /\ checkout'[p].events = row.events
    <2>1. Keeps(row, checkout'[p])
        BY <1>1, <1>2, <1>3
    <2> QED BY <1>1, <1>2, <1>3, <2>1 DEF Keeps
<1>5. ASSUME NEW q \in Payments \ {p} PROVE Untouched(q)
    BY <1>1, <1>2, <1>3 DEF Untouched
<1> QED BY <1>2, <1>3, <1>4, <1>5

LEMMA WebhookEffect ==
    ASSUME Shape, NEW p \in Payments, Webhook(p)
    PROVE  checkout' \in [Payments -> Checkout] /\ Effect
<1>1. checkout[p] \in Checkout /\ TypeOK
    BY DEF Shape, TypeOK
<1>2. checkout[p].row \in Recorded
    BY DEF Shape, Rooted, Webhook, Settle, Fail
<1>3. CASE Settle(p)
    <2> DEFINE e == IF checkout[p].kind = "new" THEN "QUEUED" ELSE None
               row == [checkout[p] EXCEPT !.row = "SETTLED", !.events = @ \ {"succeeded"}, !.entry = e]
    <2>1. e \in Entry \cup {None}
        BY DEF Entry
    <2>2. checkout' = End([checkout EXCEPT ![p] = row], checkout[p].owner, "CONSUMED")
        BY <1>1, <1>3 DEF Settle, TypeOK
    <2> HIDE DEF e
    <2>3. row \in Checkout
        BY <1>1, <2>1 DEF Checkout, Recorded
    <2>4. /\ Keeps(checkout[p], row) /\ row.row = "SETTLED"
          /\ row.charged = checkout[p].charged /\ row.events = checkout[p].events \ {"succeeded"}
        BY <1>1 DEF Keeps, Reserving, Checkout
    <2> HIDE DEF row
    <2>5. /\ checkout' \in [Payments -> Checkout]
          /\ Keeps(checkout[p], checkout'[p]) /\ checkout'[p].row = "SETTLED"
          /\ checkout'[p].charged = checkout[p].charged
          /\ checkout'[p].events = checkout[p].events \ {"succeeded"}
          /\ \A q \in Payments \ {p} : Untouched(q)
        BY <1>1, <2>2, <2>3, <2>4, EndEffect
    <2>6. Sells(p)
        BY <1>3, <2>5 DEF Sells, Settle
    <2>7. Pays(p)
        BY <2>5, <2>6 DEF Pays
    <2>8. Proceeds(p)
        BY <1>2, <2>5, <2>6, <2>7 DEF Proceeds, Recorded
    <2> QED BY <2>5, <2>8 DEF Effect, About
<1>4. CASE Fail(p)
    <2> DEFINE e == IF checkout[p].entry = "AWAITING_PAYMENT" THEN "REMOVED" ELSE checkout[p].entry
               row == [checkout[p] EXCEPT !.row = "FAILED", !.events = @ \ {"failed"}, !.entry = e]
               heard == [checkout[p] EXCEPT !.events = @ \ {"failed"}]
    <2>1. e \in Entry \cup {None}
        BY <1>1 DEF Entry, Checkout
    <2> HIDE DEF e
    <2>2. CASE checkout[p].row = "SETTLED"
        <3>1. checkout' = [checkout EXCEPT ![p] = heard]
            BY <1>4, <2>2 DEF Fail
        <3>2. /\ heard \in Checkout /\ Keeps(checkout[p], heard) /\ heard.row = checkout[p].row
              /\ heard.charged = checkout[p].charged
              /\ heard.events = checkout[p].events \ {"failed"}
            BY <1>1 DEF Checkout, Keeps, Reserving
        <3> HIDE DEF heard
        <3>3. Proceeds(p)
            BY <1>1, <1>2, <3>1, <3>2, OneRow DEF Proceeds, Pays
        <3> QED BY <1>1, <3>1, <3>2, <3>3, OneRow DEF Effect, About
    <2>3. CASE checkout[p].row # "SETTLED"
        <3>1. checkout' = End([checkout EXCEPT ![p] = row], checkout[p].owner, "RELEASED")
            BY <1>1, <1>4, <2>3 DEF Fail, TypeOK, e
        <3>2. row \in Checkout
            BY <1>1, <2>1 DEF Checkout, Recorded
        <3>3. /\ Keeps(checkout[p], row) /\ row.row = "FAILED"
              /\ row.charged = checkout[p].charged /\ row.events = checkout[p].events \ {"failed"}
            BY <1>1 DEF Keeps, Reserving, Checkout
        <3> HIDE DEF row
        <3>4. /\ checkout' \in [Payments -> Checkout]
              /\ Keeps(checkout[p], checkout'[p]) /\ checkout'[p].row = "FAILED"
              /\ checkout'[p].charged = checkout[p].charged
              /\ checkout'[p].events = checkout[p].events \ {"failed"}
              /\ \A q \in Payments \ {p} : Untouched(q)
            BY <1>1, <3>1, <3>2, <3>3, EndEffect
        <3>5. Proceeds(p)
            BY <1>2, <3>4 DEF Proceeds, Pays, Recorded
        <3> QED BY <3>4, <3>5 DEF Effect, About
    <2> QED BY <2>2, <2>3
<1> QED BY <1>3, <1>4 DEF Webhook

LEMMA PayEffect ==
    ASSUME Shape, NEW b \in Tabs, Pay(b)
    PROVE  checkout' \in [Payments -> Checkout] /\ Effect
<1>1. PICK p \in Payments : p = modal[b].clientSecret /\ checkout[p].row \in Recorded /\ Held(p)
    BY DEF Shape, TypeOK, Modal, Dialogs, Pay, Paying, Held
<1>2. checkout[p] \in Checkout /\ TypeOK
    BY DEF Shape, TypeOK
<1> DEFINE charged  == [checkout[p] EXCEPT !.charged = TRUE, !.events = @ \cup {"succeeded"}]
           declined == [checkout[p] EXCEPT !.events = @ \cup {"failed"}]
<1>3. \/ checkout' = [checkout EXCEPT ![p] = charged]
      \/ checkout' = [checkout EXCEPT ![p] = declined]
    BY <1>1, <1>2 DEF Pay, TypeOK
<1>4. /\ charged \in Checkout /\ Keeps(checkout[p], charged) /\ charged.row = checkout[p].row
      /\ charged.events = checkout[p].events \cup {"succeeded"}
      /\ declined \in Checkout /\ Keeps(checkout[p], declined) /\ declined.row = checkout[p].row
      /\ declined.charged = checkout[p].charged
      /\ declined.events = checkout[p].events \cup {"failed"}
    BY <1>2 DEF Checkout, Keeps, Reserving
<1> HIDE DEF charged, declined
<1>5. PICK row \in {charged, declined} : checkout' = [checkout EXCEPT ![p] = row]
    BY <1>3
<1>6. row \in Checkout /\ Keeps(checkout[p], row) /\ row.row = checkout[p].row
    BY <1>4
<1>7. checkout'[p] = row
    BY <1>2, <1>5, <1>6, OneRow
<1>8. Proceeds(p)
    <2>1. /\ row.charged => checkout[p].charged \/ "succeeded" \in row.events
          /\ "succeeded" \in checkout[p].events => "succeeded" \in row.events
        BY <1>4, <1>5
    <2>2. Pays(p)
        BY <1>1, <1>7, <2>1 DEF Pays
    <2> QED BY <1>1, <1>6, <1>7, <2>2 DEF Proceeds
<1> QED BY <1>2, <1>5, <1>6, <1>8, OneRow DEF Effect, About

\* Time, the repairs and the host touch no more than a row's status, its
\* place in the line or its reservation.
LEMMA OthersEffect ==
    ASSUME Shape, Others
    PROVE  checkout' \in [Payments -> Checkout] /\ Effect
<1>1. TypeOK /\ checkout \in [Payments -> Checkout]
    BY DEF Shape, TypeOK
<1>2. ASSUME UNCHANGED checkout
      PROVE  checkout' \in [Payments -> Checkout] /\ Effect
    BY <1>1, <1>2 DEF Effect, Untouched, Keeps
<1>3. ASSUME NEW p \in Payments, NEW row \in Checkout, checkout' = [checkout EXCEPT ![p] = row],
             Keeps(checkout[p], row), row.row = checkout[p].row, row.charged = checkout[p].charged,
             row.events = checkout[p].events
      PROVE  checkout' \in [Payments -> Checkout] /\ Effect
    BY <1>1, <1>3, OneRow DEF Effect, Untouched
<1>4. CASE cleanupExpiredReservations
    <2>1. ASSUME NEW q \in Payments PROVE checkout'[q] \in Checkout /\ Untouched(q)
        <3>1. checkout'[q] \in {checkout[q], [checkout[q] EXCEPT !.held = "EXPIRED"]}
            BY <1>4 DEF cleanupExpiredReservations
        <3>2. [checkout[q] EXCEPT !.held = "EXPIRED"] \in Checkout
            BY <1>1 DEF Checkout
        <3>3. Keeps(checkout[q], [checkout[q] EXCEPT !.held = "EXPIRED"])
            BY <1>1 DEF Checkout, Keeps, Reserving
        <3> QED BY <1>1, <3>1, <3>2, <3>3 DEF Untouched, Keeps, Checkout
    <2>2. checkout' = [q \in Payments |-> checkout'[q]]
        BY <1>4 DEF cleanupExpiredReservations
    <2> QED BY <2>1, <2>2 DEF Effect
<1>5. ASSUME NEW p \in Payments, Expire(p) \/ repairReservation(p) \/ PlayNew(p)
      PROVE  checkout' \in [Payments -> Checkout] /\ Effect
    <2>1. PICK row \in {[checkout[p] EXCEPT !.fresh = FALSE], [checkout[p] EXCEPT !.held = "EXPIRED"],
                       [checkout[p] EXCEPT !.entry = "PLAYED"]} :
             checkout' = [checkout EXCEPT ![p] = row]
        BY <1>5 DEF Expire, repairReservation, PlayNew
    <2>2. /\ row \in Checkout /\ Keeps(checkout[p], row) /\ row.row = checkout[p].row
          /\ row.charged = checkout[p].charged /\ row.events = checkout[p].events
        <3>1. checkout[p] \in Checkout
            BY <1>1
        <3> QED BY <2>1, <3>1 DEF Checkout, Keeps, Reserving, Entry
    <2> QED BY <1>3, <2>1, <2>2
<1>6. ASSUME NEW p \in Payments, repairPayment(p)
      PROVE  checkout' \in [Payments -> Checkout] /\ Effect
    <2> DEFINE row == [checkout[p] EXCEPT !.row = "CANCELLED"]
    <2>1. /\ checkout' = [checkout EXCEPT ![p] = row]
          /\ checkout[p].row \in Recorded
        BY <1>6 DEF repairPayment, StuckPayment
    <2>2. /\ row \in Checkout /\ Keeps(checkout[p], row) /\ row.row = "CANCELLED"
          /\ row.charged = checkout[p].charged /\ row.events = checkout[p].events
        BY <1>1 DEF Checkout, Keeps, Reserving, Recorded
    <2> HIDE DEF row
    <2>3. Proceeds(p)
        BY <1>1, <2>1, <2>2, OneRow DEF Proceeds, Pays, Recorded
    <2> QED BY <1>1, <2>1, <2>2, <2>3, OneRow DEF Effect, About
<1> QED BY <1>2, <1>4, <1>5, <1>6 DEF Others, updateConfiguration, PlayFree

\* Every step has one of these effects.
LEMMA StepEffect ==
    ASSUME Shape, [Next]_vars
    PROVE  checkout' \in [Payments -> Checkout] /\ Effect
<1>1. ASSUME UNCHANGED checkout
      PROVE  checkout' \in [Payments -> Checkout] /\ Effect
    BY <1>1 DEF Shape, TypeOK, Effect, Untouched, Keeps
<1>2. ASSUME NEW b \in Tabs, Dialog(b)
      PROVE  checkout' \in [Payments -> Checkout] /\ Effect
    <2>1. \/ UNCHANGED checkout \/ Pay(b) \/ \E p \in Payments : Start(b, p)
        BY <1>2 DEF Dialog, SessionPage, SubmissionsPage, Open, Close, Answer, LoseAnswer, Cancel,
                    server
    <2> QED BY <1>1, <2>1, PayEffect, StartEffect
<1> QED BY <1>1, <1>2, OthersEffect, RequestEffect, WebhookEffect DEF Next, vars, server

-----------------------------------------------------------------------------
(* The shape of the state is invariant *)

\* A commit is never undone.
LEMMA CommitsStay ==
    ASSUME Effect
    PROVE  \A q \in Payments : checkout[q].row \in Recorded => checkout'[q].row \in Recorded
<1>1. Recorded \cap ({"none", "over"} \cup Requested) = {}
    BY DEF Recorded, Requested
<1>2. \A q \in Payments : Untouched(q) => checkout'[q].row = checkout[q].row
    BY DEF Untouched
<1>3. \A q \in Payments :
        About(q) /\ checkout[q].row \in Recorded => checkout'[q].row \in Recorded
    BY <1>1 DEF About, Begins, Checks, Refuses, Commits, Proceeds, Requested, Recorded
<1> QED BY <1>2, <1>3 DEF Effect

LEMMA RootedNext ==
    ASSUME Rooted, Effect
    PROVE  Rooted'
<1>1. Committed \subseteq Committed'
    BY CommitsStay DEF Committed
<1>2. ASSUME NEW q \in Payments, Untouched(q)
      PROVE  /\ checkout'[q].row # "none" => checkout'[q].owner \in Users
             /\ checkout'[q].charged \/ checkout'[q].events # {} => checkout'[q].row \in Recorded
             /\ checkout'[q].seen \subseteq Committed'
    BY <1>1, <1>2 DEF Untouched, Keeps, Rooted
<1>3. ASSUME NEW q \in Payments, Proceeds(q)
      PROVE  /\ checkout'[q].row # "none" => checkout'[q].owner \in Users
             /\ checkout'[q].charged \/ checkout'[q].events # {} => checkout'[q].row \in Recorded
             /\ checkout'[q].seen \subseteq Committed'
    BY <1>1, <1>3 DEF Proceeds, Keeps, Rooted, Recorded
<1>4. ASSUME NEW q \in Payments, Begins(q) \/ Checks(q) \/ Refuses(q) \/ Commits(q),
             checkout'[q].charged = checkout[q].charged,
             checkout'[q].events = checkout[q].events
      PROVE  /\ checkout'[q].row # "none" => checkout'[q].owner \in Users
             /\ checkout'[q].charged \/ checkout'[q].events # {} => checkout'[q].row \in Recorded
             /\ checkout'[q].seen \subseteq Committed'
    <2>1. checkout[q].row \notin Recorded
        BY <1>4 DEF Begins, Checks, Refuses, Commits, Requested, Recorded
    <2>2. ~checkout'[q].charged /\ checkout'[q].events = {}
        BY <1>4, <2>1 DEF Rooted
    <2>3. checkout'[q].owner \in Users
        BY <1>4 DEF Begins, Checks, Refuses, Commits, Requested, Rooted
    <2>4. checkout'[q].seen \in {checkout[q].seen, Committed, {}}
        BY <1>4 DEF Begins, Checks, Refuses, Commits
    <2>5. checkout[q].seen \subseteq Committed
        BY DEF Rooted
    <2> QED BY <1>1, <2>2, <2>3, <2>4, <2>5
<1> QED BY <1>2, <1>3, <1>4 DEF Effect, About, Rooted

\* What an open dialog shows is there.
Proper(m) ==
    /\ m.isOpen => m.kind \in Kinds
    /\ m.step = "PAYMENT" => m.clientSecret # None
    /\ m.clientSecret # None => checkout[m.clientSecret].row \in Recorded

LEMMA OneDialog ==
    ASSUME Shape, Effect, NEW b \in Tabs, NEW m \in Modal, Proper(m),
           modal' = [modal EXCEPT ![b] = m]
    PROVE  modal' \in [Tabs -> Modal] /\ Dialogs'
<1>1. modal \in [Tabs -> Modal] /\ \A v \in Tabs : Proper(modal[v])
    BY DEF Shape, TypeOK, Dialogs, Proper
<1>2. modal' \in [Tabs -> Modal] /\ \A v \in Tabs : Proper(modal'[v])
    BY <1>1
<1>3. \A v \in Tabs : modal'[v].clientSecret \in Payments \cup {None}
    BY <1>2 DEF Modal
<1> QED BY <1>2, <1>3, CommitsStay DEF Dialogs, Proper

LEMMA Leaving ==
    ASSUME NEW m \in Modal, Proper(m)
    PROVE  Left(m) \in Modal /\ Proper(Left(m))
<1>1. Nowhere \in Modal /\ Proper(Nowhere)
    BY DEF Nowhere, Modal, Proper
<1> QED BY <1>1 DEF Left

LEMMA DialogShape ==
    ASSUME Shape, Effect, NEW b \in Tabs, Dialog(b)
    PROVE  modal' \in [Tabs -> Modal] /\ Dialogs'
<1>1. /\ modal \in [Tabs -> Modal] /\ modal[b] \in Modal /\ Proper(modal[b])
      /\ checkout \in [Payments -> Checkout]
    BY DEF Shape, TypeOK, Dialogs, Proper
<1>2. ASSUME UNCHANGED modal
      PROVE  modal' \in [Tabs -> Modal] /\ Dialogs'
    <2>1. \A v \in Tabs : modal[v].clientSecret \in Payments \cup {None}
        BY <1>1 DEF Modal
    <2> QED BY <1>1, <1>2, <2>1, CommitsStay DEF Shape, Dialogs
<1>3. ASSUME NEW k \in Kinds, Open(b, k)
      PROVE  modal' \in [Tabs -> Modal] /\ Dialogs'
    <2> DEFINE mounted == IF modal[b].kind = k THEN modal[b] ELSE [Nowhere EXCEPT !.kind = k]
    <2>1. mounted \in Modal /\ Proper(mounted) /\ mounted.kind = k
        BY <1>1 DEF Nowhere, Modal, Proper
    <2>2. PICK shown \in {None} \cup TierCards(UserOf[b]) :
            modal' = [modal EXCEPT ![b] = [mounted EXCEPT !.isOpen = TRUE, !.shown = shown]]
        BY <1>3 DEF Open
    <2>3. shown \in Prices \cup {None}
        BY DEF TierCards, Shape, TypeOK, Tier
    <2> HIDE DEF mounted
    <2>4. [mounted EXCEPT !.isOpen = TRUE, !.shown = shown] \in Modal
        BY <2>1, <2>3 DEF Modal
    <2>5. Proper([mounted EXCEPT !.isOpen = TRUE, !.shown = shown])
        BY <2>1 DEF Modal, Proper
    <2> QED BY <2>2, <2>4, <2>5, OneDialog
<1>4. CASE Close(b)
    <2> DEFINE m == [modal[b] EXCEPT !.isOpen = FALSE, !.step = "SELECT", !.shown = None,
                                     !.clientSecret = None]
    <2>1. m \in Modal /\ Proper(m)
        BY <1>1 DEF Modal, Proper
    <2>2. modal' = [modal EXCEPT ![b] = Left(m)]
        BY <1>4 DEF Close
    <2> HIDE DEF m
    <2> QED BY <2>1, <2>2, Leaving, OneDialog
<1>5. ASSUME NEW p \in Payments \cup {None}, modal' = [modal EXCEPT ![b].request = p]
      PROVE  modal' \in [Tabs -> Modal] /\ Dialogs'
    <2> DEFINE m == [modal[b] EXCEPT !.request = p]
    <2>1. m \in Modal /\ Proper(m)
        BY <1>1 DEF Modal, Proper
    <2>2. modal' = [modal EXCEPT ![b] = m]
        BY <1>1, <1>5
    <2> HIDE DEF m
    <2> QED BY <2>1, <2>2, OneDialog
<1>6. ASSUME modal' = [modal EXCEPT ![b] = Left([@ EXCEPT !.request = None])]
      PROVE  modal' \in [Tabs -> Modal] /\ Dialogs'
    <2> DEFINE m == [modal[b] EXCEPT !.request = None]
    <2>1. m \in Modal /\ Proper(m)
        BY <1>1 DEF Modal, Proper
    <2>2. modal' = [modal EXCEPT ![b] = Left(m)]
        BY <1>1, <1>6
    <2> HIDE DEF m
    <2> QED BY <2>1, <2>2, Leaving, OneDialog
<1>7. ASSUME NEW p \in Payments, checkout[p].row \in Recorded,
             modal' = [modal EXCEPT ![b].request = None, ![b].clientSecret = p, ![b].step = "PAYMENT"]
      PROVE  modal' \in [Tabs -> Modal] /\ Dialogs'
    <2> DEFINE m == [modal[b] EXCEPT !.request = None, !.clientSecret = p, !.step = "PAYMENT"]
    <2>1. m \in Modal
        BY <1>1 DEF Modal
    <2>2. Proper(m)
        BY <1>1, <1>7, NoneAssumption DEF Modal, Proper
    <2>3. modal' = [modal EXCEPT ![b] = m]
        BY <1>1, <1>7
    <2> HIDE DEF m
    <2> QED BY <2>1, <2>2, <2>3, OneDialog
<1>8. ASSUME NEW s \in {"SELECT", "SUCCESS"},
             modal' = [modal EXCEPT ![b].step = s, ![b].clientSecret = None]
      PROVE  modal' \in [Tabs -> Modal] /\ Dialogs'
    <2> DEFINE m == [modal[b] EXCEPT !.step = s, !.clientSecret = None]
    <2>1. m \in Modal /\ Proper(m)
        BY <1>1 DEF Modal, Proper
    <2>2. modal' = [modal EXCEPT ![b] = m]
        BY <1>1, <1>8
    <2> HIDE DEF m
    <2> QED BY <2>1, <2>2, OneDialog
<1>9. CASE Answer(b)
    <2>1. modal[b].request \in Payments
        BY <1>1, <1>9 DEF Answer, Modal
    <2> QED BY <1>6, <1>7, <1>9, <2>1 DEF Answer
<1>10. CASE Cancel(b) \/ Pay(b)
    BY <1>2, <1>8, <1>10 DEF Cancel, Pay
<1>11. CASE LoseAnswer(b) \/ \E p \in Payments : Start(b, p)
    BY <1>5, <1>6, <1>11 DEF LoseAnswer, Start
<1> QED BY <1>3, <1>4, <1>9, <1>10, <1>11 DEF Dialog, SessionPage, SubmissionsPage, Kinds

LEMMA DialogsNext ==
    ASSUME Shape, Effect, [Next]_vars
    PROVE  modal' \in [Tabs -> Modal] /\ Dialogs'
<1>1. ASSUME UNCHANGED modal
      PROVE  modal' \in [Tabs -> Modal] /\ Dialogs'
    <2>1. modal \in [Tabs -> Modal] /\ \A v \in Tabs : modal[v].clientSecret \in Payments \cup {None}
        BY DEF Shape, TypeOK, Modal
    <2> QED BY <1>1, <2>1, CommitsStay DEF Shape, Dialogs
<1>2. ASSUME NEW p \in Payments, Request(p) \/ Webhook(p) PROVE UNCHANGED modal
    BY <1>2 DEF Request, Webhook, Check, Commit, Abandon, Settle, Fail
<1>3. ASSUME Others PROVE UNCHANGED modal
    BY <1>3 DEF Others, cleanupExpiredReservations, updateConfiguration, PlayFree, PlayNew, Expire,
                repairReservation, repairPayment
<1>4. CASE UNCHANGED vars
    BY <1>1, <1>4 DEF vars
<1> QED BY <1>1, <1>2, <1>3, <1>4, DialogShape DEF Next

\* The tier, the free submissions and the counters.
LEMMA RestNext ==
    ASSUME Shape, [Next]_vars
    PROVE  /\ tier' \in Tier /\ tier'.maxPerLive = tier.maxPerLive
           /\ edits' \in 0..MaxEdits
           /\ song' \in [Users -> [isPriority : BOOLEAN, entry : {"QUEUED", "PLAYED"}]]
           /\ stale' \in BOOLEAN /\ double' \in BOOLEAN
<1>1. /\ tier \in Tier /\ edits \in 0..MaxEdits /\ stale \in BOOLEAN /\ double \in BOOLEAN
      /\ song \in [Users -> [isPriority : BOOLEAN, entry : {"QUEUED", "PLAYED"}]]
    BY DEF Shape, TypeOK
<1> DEFINE Same == UNCHANGED <<tier, edits, song>>
<1>2. ASSUME NEW b \in Tabs, Dialog(b)
      PROVE  Same /\ UNCHANGED history
    BY <1>2 DEF Dialog, SessionPage, SubmissionsPage, Open, Close, Start, Answer, LoseAnswer, Cancel,
                Pay, server
<1>3. ASSUME NEW p \in Payments, Request(p)
      PROVE  Same /\ stale' \in BOOLEAN /\ double' \in BOOLEAN
    BY <1>1, <1>3 DEF Request, Check, Commit, Abandon, history
<1>4. ASSUME NEW p \in Payments, Webhook(p)
      PROVE  /\ UNCHANGED <<tier, edits>> /\ stale' \in BOOLEAN /\ double' \in BOOLEAN
             /\ song' \in [Users -> [isPriority : BOOLEAN, entry : {"QUEUED", "PLAYED"}]]
    <2>1. CASE Settle(p)
        <3>1. /\ UNCHANGED <<tier, edits, double>> /\ stale' \in BOOLEAN
              /\ \/ song' = song
                 \/ song' = [song EXCEPT ![checkout[p].owner] = [isPriority |-> TRUE, entry |-> "QUEUED"]]
            BY <1>1, <2>1 DEF Settle
        <3>2. checkout[p].owner \in Users
            BY <2>1 DEF Shape, Rooted, Settle, Recorded
        <3>3. [isPriority |-> TRUE, entry |-> "QUEUED"] \in [isPriority : BOOLEAN, entry : {"QUEUED", "PLAYED"}]
            OBVIOUS
        <3> QED BY <1>1, <3>1, <3>2, <3>3
    <2>2. CASE Fail(p)
        BY <1>1, <2>2 DEF Fail, history
    <2> QED BY <1>4, <2>1, <2>2 DEF Webhook
<1>5. CASE updateConfiguration
    <2>1. tier' \in Tier /\ tier'.maxPerLive = tier.maxPerLive
        BY <1>1, <1>5 DEF updateConfiguration, Tier
    <2> QED BY <1>1, <1>5, <2>1, BoundAssumption DEF updateConfiguration, history
<1>6. ASSUME NEW p \in Payments, repairReservation(p) \/ repairPayment(p)
      PROVE  UNCHANGED <<tier, song, history>> /\ edits' \in 0..MaxEdits
    BY <1>1, <1>6, BoundAssumption DEF repairReservation, repairPayment
<1>7. ASSUME NEW u \in Users, PlayFree(u)
      PROVE  /\ UNCHANGED <<tier, edits, history>>
             /\ song' \in [Users -> [isPriority : BOOLEAN, entry : {"QUEUED", "PLAYED"}]]
    <2>1. song' = [song EXCEPT ![u] = [song[u] EXCEPT !.entry = "PLAYED"]]
        BY <1>1, <1>7 DEF PlayFree
    <2>2. [song[u] EXCEPT !.entry = "PLAYED"] \in [isPriority : BOOLEAN, entry : {"QUEUED", "PLAYED"}]
        BY <1>1
    <2> QED BY <1>1, <1>7, <2>1, <2>2 DEF PlayFree
<1>8. ASSUME cleanupExpiredReservations \/ (\E p \in Payments : PlayNew(p) \/ Expire(p))
      PROVE  Same /\ UNCHANGED history
    BY <1>8 DEF cleanupExpiredReservations, PlayNew, Expire
<1>9. CASE UNCHANGED vars
    BY <1>1, <1>9 DEF vars, server, history
<1>10. CASE Others
    BY <1>1, <1>5, <1>6, <1>7, <1>8, <1>10 DEF Others, history
<1> QED BY <1>1, <1>2, <1>3, <1>4, <1>9, <1>10 DEF Next, history

LEMMA ShapeNext ==
    ASSUME Shape, [Next]_vars
    PROVE  Shape'
<1>1. checkout' \in [Payments -> Checkout] /\ Effect
    BY StepEffect
<1>2. Rooted'
    BY <1>1, RootedNext DEF Shape
<1>3. modal' \in [Tabs -> Modal] /\ Dialogs'
    BY <1>1, DialogsNext
<1> QED BY <1>1, <1>2, <1>3, RestNext DEF Shape, TypeOK

LEMMA ShapeInit ==
    ASSUME Init
    PROVE  Shape
<1>1. tier \in Tier
    BY DEF Init, Tier
<1>2. \A p \in Payments : /\ checkout[p] \in Checkout /\ checkout[p].row = "none"
                          /\ ~checkout[p].charged /\ checkout[p].events = {} /\ checkout[p].seen = {}
    BY DEF Init, Checkout, Kinds
<1>3. checkout \in [Payments -> Checkout]
    BY <1>2 DEF Init
<1>4. Nowhere \in Modal /\ ~Nowhere.isOpen /\ Nowhere.step = "SELECT" /\ Nowhere.clientSecret = None
    BY DEF Nowhere, Modal
<1>5. modal \in [Tabs -> Modal] /\ Dialogs
    BY <1>4 DEF Init, Dialogs
<1>6. song \in [Users -> [isPriority : BOOLEAN, entry : {"QUEUED", "PLAYED"}]]
    BY DEF Init
<1>7. edits \in 0..MaxEdits /\ stale \in BOOLEAN /\ double \in BOOLEAN
    <2>1. edits = 0 /\ stale = FALSE /\ double = FALSE
        BY DEF Init
    <2>2. 0 \in 0..MaxEdits
        BY BoundAssumption
    <2> QED BY <2>1, <2>2
<1>8. TypeOK
    BY <1>1, <1>3, <1>5, <1>6, <1>7 DEF TypeOK
<1> QED BY <1>2, <1>5, <1>8 DEF Shape, Rooted

LEMMA ShapeInvariance == Spec => []Shape
<1> QED BY ShapeInit, ShapeNext, PTL DEF Spec

-----------------------------------------------------------------------------
(* What a step never undoes *)

\* An upgraded submission stays one, at most one more is upgraded, and the
\* history is not forgotten.
LEMMA Grows ==
    ASSUME Shape, [Next]_vars
    PROVE  /\ \A u \in Users : song[u].isPriority => song'[u].isPriority
           /\ \E w : Upgraded(Users)' \subseteq Upgraded(Users) \cup {w}
           /\ (stale => stale') /\ (double => double')
<1> DEFINE Goal == /\ \A u \in Users : song[u].isPriority => song'[u].isPriority
                   /\ \E w : Upgraded(Users)' \subseteq Upgraded(Users) \cup {w}
                   /\ (stale => stale') /\ (double => double')
<1> SUFFICES Goal
    OBVIOUS
<1>1. song \in [Users -> [isPriority : BOOLEAN, entry : {"QUEUED", "PLAYED"}]]
    BY DEF Shape, TypeOK
<1>2. ASSUME UNCHANGED song, stale => stale', double => double'
      PROVE  Goal
    BY <1>2 DEF Upgraded
<1>3. ASSUME NEW p \in Payments, Settle(p)
      PROVE  Goal
    <2> DEFINE w == checkout[p].owner
    <2>1. (stale => stale') /\ UNCHANGED double
        BY <1>3 DEF Settle
    <2>2. song' \in {song, [song EXCEPT ![w] = [isPriority |-> TRUE, entry |-> "QUEUED"]]}
        BY <1>3 DEF Settle
    <2> HIDE DEF w
    <2>3. \A u \in Users : IF u = w THEN song'[u] = song[u] \/ song'[u].isPriority
                           ELSE song'[u] = song[u]
        BY <1>1, <2>2
    <2>4. Upgraded(Users)' \subseteq Upgraded(Users) \cup {w}
        BY <2>3 DEF Upgraded
    <2> QED BY <2>1, <2>3, <2>4
<1>4. ASSUME NEW u \in Users, PlayFree(u)
      PROVE  Goal
    <2>1. song' = [song EXCEPT ![u] = [song[u] EXCEPT !.entry = "PLAYED"]]
        BY <1>1, <1>4 DEF PlayFree
    <2>2. \A v \in Users : song'[v].isPriority = song[v].isPriority
        BY <1>1, <2>1
    <2>3. Upgraded(Users)' \subseteq Upgraded(Users) \cup {None}
        BY <2>2 DEF Upgraded
    <2> QED BY <1>4, <2>2, <2>3 DEF PlayFree, history
<1> HIDE DEF Goal
<1>5. ASSUME NEW b \in Tabs, Dialog(b) PROVE Goal
    BY <1>2, <1>5 DEF Dialog, SessionPage, SubmissionsPage, Open, Close, Start, Answer, LoseAnswer,
                      Cancel, Pay, server, history
<1>6. ASSUME NEW p \in Payments, Request(p) PROVE Goal
    BY <1>2, <1>6 DEF Request, Check, Commit, Abandon, history
<1>7. ASSUME NEW p \in Payments, Fail(p) PROVE Goal
    BY <1>2, <1>7 DEF Fail, history
<1>8. CASE Others
    <2>1. ASSUME ~\E u \in Users : PlayFree(u)
          PROVE  UNCHANGED <<song, stale, double>>
        BY <1>8, <2>1 DEF Others, cleanupExpiredReservations, updateConfiguration, PlayNew, Expire,
                          repairReservation, repairPayment, history
    <2>2. CASE \E u \in Users : PlayFree(u)
        BY <1>4, <2>2
    <2>3. CASE ~\E u \in Users : PlayFree(u)
        <3>1. UNCHANGED song /\ (stale => stale') /\ (double => double')
            BY <2>1, <2>3
        <3> QED BY <1>2, <3>1
    <2> QED BY <2>2, <2>3
<1>9. CASE UNCHANGED vars
    <2>1. UNCHANGED song /\ (stale => stale') /\ (double => double')
        BY <1>9 DEF vars, server, history
    <2> QED BY <1>2, <2>1
<1> QED BY <1>3, <1>5, <1>6, <1>7, <1>8, <1>9 DEF Next, Webhook

-----------------------------------------------------------------------------
(* A submission is charged once *)

\* The checkouts of an upgrade that may be paid, or were.
LiveUpgrades(u) == OpenUpgrades(u) \cup ChargedUpgrades(u)

\* An upgrade that was paid is settled or waits for its webhook, so that the
\* submission is checked out again only while another one is open.
OneUpgrade ==
    \A u \in Users :
        /\ \A q \in ChargedUpgrades(u) : "succeeded" \in checkout[q].events \/ song[u].isPriority
        /\ ~double => \A p, q \in LiveUpgrades(u) : p = q

\* A dialog that lets go of a payment does not come back to it.
LEMMA HeldStays ==
    ASSUME Shape, [Next]_vars, NEW q \in Payments, Held(q)', checkout[q].row # "none"
    PROVE  Held(q)
<1>1. modal \in [Tabs -> Modal] /\ q # None /\ Nowhere.request = None /\ Nowhere.clientSecret = None
    BY NoneAssumption DEF Shape, TypeOK, Nowhere
<1>2. CASE UNCHANGED modal
    BY <1>2 DEF Held
<1>3. ASSUME NEW b \in Tabs, NEW m, modal' = [modal EXCEPT ![b] = m],
             m.request = q \/ m.clientSecret = q => Held(q)
      PROVE  Held(q)
    <2>1. PICK c \in Tabs : modal'[c].request = q \/ modal'[c].clientSecret = q
        BY DEF Held
    <2> QED BY <1>1, <1>3, <2>1 DEF Held
<1>4. ASSUME NEW b \in Tabs, Dialog(b) PROVE Held(q)
    <2> DEFINE m == modal[b]
    <2>1. m \in Modal
        BY <1>1
    <2>2. m.request = q \/ m.clientSecret = q => Held(q)
        BY DEF Held
    <2>3. ASSUME NEW k \in Kinds, Open(b, k) PROVE Held(q)
        <3> DEFINE mounted == IF m.kind = k THEN m ELSE [Nowhere EXCEPT !.kind = k]
        <3>1. mounted \in Modal
            BY <2>1 DEF Nowhere, Modal
        <3>2. mounted.request \in {m.request, None} /\ mounted.clientSecret \in {m.clientSecret, None}
            BY DEF Nowhere
        <3>3. PICK shown : modal' = [modal EXCEPT ![b] = [mounted EXCEPT !.isOpen = TRUE, !.shown = shown]]
            BY <2>3 DEF Open
        <3> DEFINE n == [mounted EXCEPT !.isOpen = TRUE, !.shown = shown]
        <3> HIDE DEF mounted
        <3>4. n.request = mounted.request /\ n.clientSecret = mounted.clientSecret
            BY <3>1 DEF Modal
        <3>5. modal' = [modal EXCEPT ![b] = n]
            BY <3>3
        <3> HIDE DEF n, m
        <3> QED BY <1>1, <1>3, <2>2, <3>2, <3>4, <3>5
    <2>4. ASSUME NEW n \in Modal, modal' = [modal EXCEPT ![b] = n] \/ modal' = [modal EXCEPT ![b] = Left(n)],
                 n.request \in {m.request, None}, n.clientSecret \in {m.request, m.clientSecret, None}
          PROVE  Held(q)
        <3> HIDE DEF m
        <3>1. Left(n).request \in {n.request, None} /\ Left(n).clientSecret \in {n.clientSecret, None}
            BY <1>1 DEF Left
        <3> QED BY <1>1, <1>3, <2>2, <2>4, <3>1
    <2>5. CASE Close(b)
        <3> DEFINE n == [m EXCEPT !.isOpen = FALSE, !.step = "SELECT", !.shown = None, !.clientSecret = None]
        <3>1. n \in Modal /\ n.request = m.request /\ n.clientSecret = None
            BY <2>1 DEF Modal
        <3>2. modal' = [modal EXCEPT ![b] = Left(n)]
            BY <1>1, <2>5 DEF Close
        <3> HIDE DEF n, m
        <3> QED BY <2>4, <3>1, <3>2
    <2>6. CASE \E p \in Payments : Start(b, p)
        <3>1. PICK p \in Payments : Start(b, p)
            BY <2>6
        <3> DEFINE n == [m EXCEPT !.request = p]
        <3>2. n.request = p /\ n.clientSecret = m.clientSecret /\ p # q
            BY <2>1, <3>1 DEF Start, Modal
        <3>3. modal' = [modal EXCEPT ![b] = n]
            BY <1>1, <3>1 DEF Start
        <3> HIDE DEF n, m
        <3> QED BY <1>3, <2>2, <3>2, <3>3
    <2>7. CASE LoseAnswer(b) \/ (Answer(b) /\ modal' = [modal EXCEPT ![b] = Left([@ EXCEPT !.request = None])])
        <3> DEFINE n == [m EXCEPT !.request = None]
        <3>1. n \in Modal /\ n.request = None /\ n.clientSecret = m.clientSecret
            BY <2>1 DEF Modal
        <3>2. modal' = [modal EXCEPT ![b] = Left(n)]
            BY <1>1, <2>7 DEF LoseAnswer
        <3> HIDE DEF n, m
        <3> QED BY <2>4, <3>1, <3>2
    <2>8. CASE Answer(b) /\ modal' = [modal EXCEPT ![b].request = None, ![b].clientSecret = m.request,
                                                  ![b].step = "PAYMENT"]
        <3> DEFINE n == [m EXCEPT !.request = None, !.clientSecret = m.request, !.step = "PAYMENT"]
        <3>1. n \in Modal /\ n.request = None /\ n.clientSecret = m.request
            BY <2>1 DEF Modal
        <3>2. modal' = [modal EXCEPT ![b] = n]
            BY <1>1, <2>8
        <3> HIDE DEF n, m
        <3> QED BY <2>4, <3>1, <3>2
    <2>9. ASSUME NEW s \in {"SELECT", "SUCCESS"},
                 modal' = [modal EXCEPT ![b].step = s, ![b].clientSecret = None]
          PROVE  Held(q)
        <3> DEFINE n == [m EXCEPT !.step = s, !.clientSecret = None]
        <3>1. n \in Modal /\ n.request = m.request /\ n.clientSecret = None
            BY <2>1 DEF Modal
        <3>2. modal' = [modal EXCEPT ![b] = n]
            BY <1>1, <2>9
        <3> HIDE DEF n, m
        <3> QED BY <2>4, <3>1, <3>2
    <2>10. CASE Answer(b)
        BY <2>7, <2>8, <2>10 DEF Answer
    <2>11. CASE Cancel(b) \/ Pay(b)
        BY <1>2, <2>9, <2>11 DEF Cancel, Pay
    <2> QED BY <1>4, <2>3, <2>5, <2>6, <2>7, <2>10, <2>11
            DEF Dialog, SessionPage, SubmissionsPage, Kinds
<1>5. ASSUME NEW p \in Payments, Request(p) \/ Webhook(p) PROVE UNCHANGED modal
    BY <1>5 DEF Request, Webhook, Check, Commit, Abandon, Settle, Fail
<1>6. ASSUME Others PROVE UNCHANGED modal
    BY <1>6 DEF Others, cleanupExpiredReservations, updateConfiguration, PlayFree, PlayNew, Expire,
                repairReservation, repairPayment
<1>7. UNCHANGED vars => UNCHANGED modal
    BY DEF vars
<1> QED BY <1>2, <1>4, <1>5, <1>6, <1>7 DEF Next

\* What a step does to the upgrades' money.
LEMMA MoneyStays ==
    ASSUME Shape, [Next]_vars, NEW q \in Payments, Untouched(q) \/ About(q)
    PROVE  Pays(q)
<1>1. CASE Untouched(q)
    BY <1>1 DEF Untouched, Pays
<1>2. CASE checkout'[q].charged = checkout[q].charged /\ checkout'[q].events = checkout[q].events
    BY <1>2 DEF Pays
<1> QED BY <1>1, <1>2 DEF About, Proceeds

\* Only a check adds an upgrade to those that are live.
LEMMA LiveStays ==
    ASSUME Shape, [Next]_vars, NEW q \in Payments, NEW u, q \in LiveUpgrades(u)',
           Untouched(q) \/ (About(q) /\ ~Checks(q))
    PROVE  q \in LiveUpgrades(u)
<1>1. Shape'
    BY ShapeNext
<1>2. /\ checkout'[q].owner = u /\ checkout'[q].kind = "upgrade"
      /\ checkout'[q].row \in {"intent"} \cup Recorded
    BY <1>1 DEF LiveUpgrades, OpenUpgrades, ChargedUpgrades, Shape, Rooted
<1>3. /\ checkout[q].owner = u /\ checkout[q].kind = "upgrade"
      /\ checkout[q].row \in {"intent"} \cup Recorded
    <2>1. ~Begins(q) /\ ~Refuses(q)
        BY <1>2 DEF Begins, Refuses, Recorded
    <2> QED BY <1>2, <2>1 DEF Untouched, Keeps, About, Proceeds, Commits
<1>4. Pays(q)
    BY MoneyStays
<1>5. Held(q)' => Held(q)
    BY <1>3, HeldStays DEF Recorded
<1> QED BY <1>2, <1>3, <1>4, <1>5 DEF LiveUpgrades, OpenUpgrades, ChargedUpgrades, Pays

LEMMA OneUpgradeNext ==
    ASSUME Shape, OneUpgrade, [Next]_vars
    PROVE  OneUpgrade'
<1>1. Effect /\ Shape'
    BY StepEffect, ShapeNext
<1>2. /\ \A u \in Users : song[u].isPriority => song'[u].isPriority
      /\ double => double'
    BY Grows
<1>3. song \in [Users -> [isPriority : BOOLEAN, entry : {"QUEUED", "PLAYED"}]]
    BY DEF Shape, TypeOK
<1>4. ASSUME NEW q \in Payments PROVE Untouched(q) \/ About(q)
    BY <1>1 DEF Effect
<1>5. ASSUME NEW u \in Users, NEW q \in ChargedUpgrades(u)'
      PROVE  "succeeded" \in checkout'[q].events \/ song'[u].isPriority
    <2>1. /\ q \in Payments /\ checkout'[q].owner = u /\ checkout'[q].kind = "upgrade"
          /\ checkout'[q].charged /\ checkout'[q].row \in Recorded
        BY <1>1, <1>5 DEF ChargedUpgrades, Shape, Rooted
    <2>2. Pays(q)
        BY <1>4, <2>1, MoneyStays
    <2>3. CASE ~checkout[q].charged
        BY <2>1, <2>2, <2>3 DEF Pays
    <2>4. CASE checkout[q].charged
        <3>1. checkout[q].row \in Recorded
            BY <2>1, <2>4 DEF Shape, Rooted
        <3>2. checkout[q].owner = u /\ checkout[q].kind = "upgrade"
            <4>1. ~Begins(q) /\ ~Checks(q) /\ ~Refuses(q) /\ ~Commits(q)
                BY <3>1 DEF Begins, Checks, Refuses, Commits, Recorded, Requested
            <4> QED BY <1>4, <2>1, <4>1 DEF Untouched, Keeps, About, Proceeds
        <3>3. q \in ChargedUpgrades(u)
            BY <2>1, <2>4, <3>2 DEF ChargedUpgrades
        <3>4. CASE song[u].isPriority
            BY <1>2, <3>4
        <3>5. CASE "succeeded" \in checkout[q].events
            <4>1. CASE Sells(q)
                BY <1>3, <3>2, <4>1 DEF Sells
            <4> QED BY <2>2, <3>5, <4>1 DEF Pays
        <3> QED BY <3>3, <3>4, <3>5 DEF OneUpgrade
    <2> QED BY <2>3, <2>4
<1>6. ASSUME NEW u \in Users, ~double', NEW p \in LiveUpgrades(u)', NEW q \in LiveUpgrades(u)', p # q
      PROVE  FALSE
    <2>1. p \in Payments /\ q \in Payments
        BY <1>6 DEF LiveUpgrades, OpenUpgrades, ChargedUpgrades
    <2>2. ASSUME NEW s \in LiveUpgrades(u)', NEW r \in LiveUpgrades(u)', s # r, Checks(s)
          PROVE  FALSE
        <3>1. s \in Payments /\ r \in Payments
            BY <2>2 DEF LiveUpgrades, OpenUpgrades, ChargedUpgrades
        <3>2. Untouched(r)
            <4>1. \A z \in Payments : Untouched(z) => ~Checks(z)
                BY DEF Untouched, Checks
            <4> QED BY <1>1, <2>2, <3>1, <4>1 DEF Effect
        <3>3. r \in LiveUpgrades(u)
            BY <2>2, <3>1, <3>2, LiveStays
        <3>4. checkout[s].owner = u /\ checkout[s].kind = "upgrade"
            <4>1. checkout'[s].owner = u /\ checkout'[s].kind = "upgrade"
                BY <2>2 DEF LiveUpgrades, OpenUpgrades, ChargedUpgrades
            <4> QED BY <2>2, <4>1 DEF Checks
        <3>5. OpenUpgrades(u) = {} /\ ~song[u].isPriority
            BY <1>6, <2>2, <3>4 DEF Checks, MayUpgrade
        <3>6. r \in ChargedUpgrades(u) /\ r \notin OpenUpgrades(u)
            BY <3>3, <3>5 DEF LiveUpgrades
        <3>7. "succeeded" \in checkout[r].events
            BY <3>5, <3>6 DEF OneUpgrade
        <3>8. checkout[r].row \in Recorded
            BY <3>1, <3>7 DEF Shape, Rooted
        <3> QED BY <3>6, <3>7, <3>8 DEF ChargedUpgrades, OpenUpgrades
    <2>3. ~Checks(p) /\ ~Checks(q)
        BY <1>6, <2>2
    <2>4. p \in LiveUpgrades(u) /\ q \in LiveUpgrades(u)
        BY <1>4, <1>6, <2>1, <2>3, LiveStays
    <2> QED BY <1>2, <1>6, <2>4 DEF OneUpgrade
<1> QED BY <1>5, <1>6 DEF OneUpgrade

LEMMA OneUpgradeInvariance == Spec => []OneUpgrade
<1>1. Init => OneUpgrade
    BY DEF Init, OneUpgrade, LiveUpgrades, OpenUpgrades, ChargedUpgrades, Recorded
<1> QED BY <1>1, OneUpgradeNext, ShapeInvariance, PTL DEF Spec

\* A submission is charged for two upgrades only if one was checked while the
\* other could still be paid or waited for its webhook: a dialog does not come
\* back to a payment it let go of, and a payment that was charged waits for its
\* webhook or has made the submission a priority one.
THEOREM UpgradeChargedOnce == Spec => []ChargedOnce
<1>1. OneUpgrade => ChargedOnce
    BY DEF OneUpgrade, ChargedOnce, LiveUpgrades
<1> QED BY <1>1, OneUpgradeInvariance, PTL

-----------------------------------------------------------------------------
(* The tier's places *)

\* What a checkout takes of maxPurchasesPerLive: a new submission from its commit
\* on, an upgrade while its reservation lasts and when it is settled.
Takes(c) == c.row \in Recorded /\ (c.kind = "new" \/ c.row = "SETTLED" \/ Reserving(c))

Places == {p \in Payments : Takes(checkout[p])}

\* There is room for what is sold and reserved, and for the checkout of a check
\* that saw every commit.
Room ==
    /\ IsFiniteSet(Committed) /\ IsFiniteSet(Upgraded(Users))
    /\ ~stale /\ tier.maxPerLive # 0 =>
          /\ Cardinality(Places) <= tier.maxPerLive
          /\ \A p \in Payments : checkout[p].row = "intent" /\ checkout[p].seen = Committed
                                   => Cardinality(Places) < tier.maxPerLive

LEMMA PlacesFinite ==
    ASSUME IsFiniteSet(Committed)
    PROVE  IsFiniteSet(Places) /\ Cardinality(Places) \in Nat
<1>1. Places \subseteq Committed
    BY DEF Places, Takes, Committed
<1> QED BY <1>1, FS_Subset, FS_CardinalityType

\* What getEligibility counts is at least the places that are taken.
LEMMA AvailableRoom ==
    ASSUME Shape, Room, NEW u, Available(u), tier.maxPerLive # 0
    PROVE  Cardinality(Places) < tier.maxPerLive
<1> DEFINE N == NewIn(Committed)
           G == UpgradesIn(Committed)
           R == ReservedIn(Committed)
<1>1. tier.maxPerLive \in Nat
    BY DEF Shape, TypeOK, Tier
<1>2. /\ IsFiniteSet(N) /\ IsFiniteSet(G) /\ IsFiniteSet(R)
      /\ IsFiniteSet(N \cup G) /\ IsFiniteSet((N \cup G) \cup R)
    <2>1. N \subseteq Committed /\ G \subseteq Committed /\ R \subseteq Committed
        BY DEF NewIn, UpgradesIn, ReservedIn
    <2>2. (N \cup G) \subseteq Committed /\ ((N \cup G) \cup R) \subseteq Committed
        BY <2>1
    <2> QED BY <2>1, <2>2, FS_Subset DEF Room
<1>3. Places \subseteq (N \cup G) \cup R
    BY DEF Shape, TypeOK, Checkout, Kinds, Places, Takes, Reserving, NewIn, UpgradesIn, ReservedIn, Committed
<1> HIDE DEF N, G, R
<1>4. /\ Cardinality(N) \in Nat /\ Cardinality(G) \in Nat /\ Cardinality(R) \in Nat
      /\ Cardinality(N \cup G) \in Nat
      /\ Cardinality(N \cap G) \in Nat /\ Cardinality((N \cup G) \cap R) \in Nat
    <2>1. (N \cap G) \subseteq N /\ ((N \cup G) \cap R) \subseteq R
        OBVIOUS
    <2>2. IsFiniteSet(N \cap G) /\ IsFiniteSet((N \cup G) \cap R)
        BY <1>2, <2>1, FS_Subset
    <2> QED BY <1>2, <2>2, FS_CardinalityType
<1>5. Cardinality(N \cup G) <= Cardinality(N) + Cardinality(G)
    <2>1. Cardinality(N \cup G) = Cardinality(N) + Cardinality(G) - Cardinality(N \cap G)
        BY <1>2, FS_Union
    <2> QED BY <1>4, <2>1
<1>6. Cardinality((N \cup G) \cup R) <= Cardinality(N \cup G) + Cardinality(R)
    <2>1. Cardinality((N \cup G) \cup R)
            = Cardinality(N \cup G) + Cardinality(R) - Cardinality((N \cup G) \cap R)
        BY <1>2, FS_Union
    <2> QED BY <1>4, <2>1
<1>7. Cardinality(Places) <= Cardinality((N \cup G) \cup R)
    BY <1>2, <1>3, FS_Subset
<1>8. Cardinality(Places) \in Nat /\ Cardinality((N \cup G) \cup R) \in Nat
    BY <1>2, PlacesFinite, FS_CardinalityType DEF Room
<1>9. Cardinality(Upgraded(Users)) \in Nat
    BY FS_CardinalityType DEF Room
<1>10. ~((Cardinality(N) + Cardinality(Upgraded(Users)) + Cardinality(G)) + Cardinality(R)
           >= tier.maxPerLive)
    BY DEF Available, Reaches, Purchases, Reserved, N, G, R
<1> QED BY <1>1, <1>4, <1>5, <1>6, <1>7, <1>8, <1>9, <1>10

\* A step adds at most the checkout that it commits.
LEMMA CommittedNext ==
    ASSUME Effect
    PROVE  \E p : /\ Committed' \subseteq Committed \cup {p}
                  /\ Committed' # Committed => p \in Payments /\ Commits(p)
<1>1. ASSUME NEW q \in Payments, Untouched(q)
      PROVE  q \in Committed' <=> q \in Committed
    BY <1>1 DEF Untouched, Committed
<1>2. ASSUME NEW q \in Payments, About(q), ~Commits(q)
      PROVE  q \in Committed' <=> q \in Committed
    <2>1. \/ checkout[q].row \in Recorded /\ checkout'[q].row \in Recorded
          \/ checkout[q].row \notin Recorded /\ checkout'[q].row \notin Recorded
        BY <1>2 DEF About, Begins, Checks, Refuses, Proceeds, Requested, Recorded
    <2> QED BY <2>1 DEF Committed
<1>3. CASE \A q \in Payments : Untouched(q)
    <2>1. Committed' = Committed
        BY <1>1, <1>3 DEF Committed
    <2> QED BY <2>1
<1>4. ASSUME NEW p \in Payments, About(p), \A q \in Payments \ {p} : Untouched(q)
      PROVE  /\ Committed' \subseteq Committed \cup {p}
             /\ Committed' # Committed => Commits(p)
    <2>1. \A q \in Payments \ {p} : q \in Committed' <=> q \in Committed
        BY <1>1, <1>4
    <2>2. Committed \subseteq Payments /\ Committed' \subseteq Payments
        BY DEF Committed
    <2>3. CASE Commits(p)
        BY <2>1, <2>2, <2>3
    <2>4. CASE ~Commits(p)
        <3>1. p \in Committed' <=> p \in Committed
            BY <1>2, <1>4, <2>4
        <3> QED BY <2>1, <2>2, <3>1
    <2> QED BY <2>3, <2>4
<1> QED BY <1>3, <1>4 DEF Effect

\* No row takes a place but by its commit, or by a settlement that is stale.
LEMMA PlaceStays ==
    ASSUME Shape, NEW p \in Payments, Untouched(p) \/ (About(p) /\ ~Commits(p)),
           Takes(checkout'[p]), ~stale'
    PROVE  Takes(checkout[p])
<1>1. checkout[p] \in Checkout
    BY DEF Shape, TypeOK
<1>2. checkout'[p].row \in Recorded
    BY DEF Takes
<1>3. ~Begins(p) /\ ~Checks(p) /\ ~Refuses(p)
    BY <1>2 DEF Begins, Checks, Refuses, Recorded
<1>4. CASE Untouched(p)
    BY <1>4 DEF Untouched, Keeps, Takes
<1>5. CASE Proceeds(p)
    <2>1. /\ checkout[p].row \in Recorded
          /\ checkout[p].kind = checkout'[p].kind
          /\ Reserving(checkout'[p]) => Reserving(checkout[p])
        BY <1>5 DEF Proceeds, Keeps
    <2>2. CASE Sells(p) /\ checkout[p].kind = "upgrade"
        <3>1. p \in ReservedIn({p})
            BY <2>2 DEF Sells
        <3> QED BY <2>1, <3>1 DEF Takes, Reserving, ReservedIn
    <2>3. CASE checkout[p].kind = "new"
        BY <2>1, <2>3 DEF Takes
    <2>4. CASE checkout'[p].row \in {checkout[p].row} \cup (Recorded \ {"SETTLED"})
        BY <2>1, <2>4 DEF Takes
    <2> QED BY <1>1, <1>5, <2>2, <2>3, <2>4 DEF Proceeds, Checkout, Kinds
<1> QED BY <1>3, <1>4, <1>5 DEF About

LEMMA RoomNext ==
    ASSUME Shape, Room, [Next]_vars
    PROVE  Room'
<1>1. Effect /\ checkout' \in [Payments -> Checkout]
    BY StepEffect
<1>2. (stale => stale') /\ \E w : Upgraded(Users)' \subseteq Upgraded(Users) \cup {w}
    BY Grows
<1>3. tier'.maxPerLive = tier.maxPerLive /\ tier.maxPerLive \in Nat
    BY RestNext DEF Shape, TypeOK, Tier
<1>4. IsFiniteSet(Committed') /\ IsFiniteSet(Upgraded(Users)')
    <2>1. ASSUME NEW S, NEW T, NEW w, IsFiniteSet(S), T \subseteq S \cup {w}
          PROVE  IsFiniteSet(T)
        <3>1. IsFiniteSet(S \cup {w})
            BY <2>1, FS_AddElement
        <3> QED BY <2>1, <3>1, FS_Subset
    <2>2. PICK p : Committed' \subseteq Committed \cup {p}
        BY <1>1, CommittedNext
    <2>3. PICK w : Upgraded(Users)' \subseteq Upgraded(Users) \cup {w}
        BY <1>2
    <2>4. IsFiniteSet(Committed')
        BY <2>1, <2>2 DEF Room
    <2>5. IsFiniteSet(Upgraded(Users)')
        BY <2>1, <2>3 DEF Room
    <2> QED BY <2>4, <2>5
<1>5. IsFiniteSet(Places) /\ Cardinality(Places) \in Nat
    BY PlacesFinite DEF Room
<1> SUFFICES ASSUME ~stale', tier'.maxPerLive # 0
             PROVE  /\ Cardinality(Places') <= tier'.maxPerLive
                    /\ \A q \in Payments :
                          checkout'[q].row = "intent" /\ checkout'[q].seen = Committed'
                            => Cardinality(Places') < tier'.maxPerLive
    BY <1>4 DEF Room
<1>6. /\ ~stale /\ Cardinality(Places) <= tier.maxPerLive
      /\ \A q \in Payments : checkout[q].row = "intent" /\ checkout[q].seen = Committed
                               => Cardinality(Places) < tier.maxPerLive
    BY <1>2, <1>3 DEF Room
<1>7. CASE \A q \in Payments : Untouched(q) \/ (About(q) /\ ~Commits(q))
    <2>1. Places' \subseteq Places
        BY <1>7, PlaceStays DEF Places
    <2>2. Cardinality(Places') <= Cardinality(Places) /\ Cardinality(Places') \in Nat
        BY <1>5, <2>1, FS_Subset, FS_CardinalityType
    <2>3. Cardinality(Places') <= tier'.maxPerLive
        BY <1>3, <1>5, <1>6, <2>2
    <2>4. Committed' = Committed
        <3>1. \A q \in Payments : ~Commits(q)
            <4>1. ASSUME NEW q \in Payments, Commits(q), Untouched(q) PROVE FALSE
                BY <4>1 DEF Commits, Untouched
            <4> QED BY <1>7, <4>1
        <3> QED BY <1>1, <3>1, CommittedNext
    <2>5. ASSUME NEW q \in Payments, checkout'[q].row = "intent", checkout'[q].seen = Committed'
          PROVE  Cardinality(Places) < tier.maxPerLive
        <3>1. CASE Untouched(q)
            BY <1>6, <2>4, <2>5, <3>1 DEF Untouched, Keeps
        <3>2. CASE Checks(q)
            BY <1>3, <3>2, AvailableRoom DEF Checks
        <3>3. ~Begins(q) /\ ~Refuses(q) /\ ~Proceeds(q)
            BY <2>5 DEF Begins, Refuses, Proceeds, Recorded
        <3> QED BY <1>7, <3>1, <3>2, <3>3 DEF About
    <2> QED BY <1>3, <1>5, <2>2, <2>3, <2>5
<1>8. ASSUME NEW p \in Payments, Commits(p), \A q \in Payments \ {p} : Untouched(q)
      PROVE  /\ Cardinality(Places') <= tier'.maxPerLive
             /\ \A q \in Payments :
                   ~(checkout'[q].row = "intent" /\ checkout'[q].seen = Committed')
    <2>1. Cardinality(Places) < tier.maxPerLive
        BY <1>6, <1>8 DEF Commits
    <2>2. Places' \subseteq Places \cup {p}
        BY <1>8, PlaceStays DEF Places
    <2>3. /\ IsFiniteSet(Places \cup {p}) /\ Cardinality(Places \cup {p}) \in Nat
          /\ Cardinality(Places \cup {p}) <= Cardinality(Places) + 1
        <3>1. /\ IsFiniteSet(Places \cup {p})
              /\ \/ Cardinality(Places \cup {p}) = Cardinality(Places)
                 \/ Cardinality(Places \cup {p}) = Cardinality(Places) + 1
            BY <1>5, FS_AddElement
        <3> QED BY <1>5, <3>1
    <2>4. Cardinality(Places') <= Cardinality(Places \cup {p}) /\ Cardinality(Places') \in Nat
        BY <2>2, <2>3, FS_Subset, FS_CardinalityType
    <2>5. Cardinality(Places') <= tier'.maxPerLive
        BY <1>3, <1>5, <2>1, <2>3, <2>4
    <2>6. p \in Committed' /\ p \notin Committed
        BY <1>8 DEF Commits, Committed, Recorded
    <2>7. ASSUME NEW q \in Payments, checkout'[q].row = "intent", checkout'[q].seen = Committed'
          PROVE  FALSE
        <3>1. q # p
            BY <1>8, <2>7 DEF Commits
        <3>2. checkout'[q].seen = checkout[q].seen
            BY <1>8, <3>1 DEF Untouched, Keeps
        <3>3. checkout[q].seen \subseteq Committed
            BY DEF Shape, Rooted
        <3> QED BY <2>6, <2>7, <3>2, <3>3
    <2> QED BY <2>5, <2>7
<1> QED BY <1>1, <1>7, <1>8 DEF Effect

LEMMA RoomInvariance == Spec => []Room
<1>1. ASSUME Init
      PROVE  Room
    <2>1. Committed = {} /\ Places = {} /\ Upgraded(Users) = {}
        BY <1>1 DEF Init, Committed, Places, Takes, Upgraded, Recorded
    <2>2. \A p \in Payments : checkout[p].row = "none"
        BY <1>1 DEF Init
    <2>3. tier.maxPerLive \in Nat
        BY <1>1 DEF Init
    <2>4. IsFiniteSet({}) /\ Cardinality({}) = 0
        BY FS_EmptySet
    <2> QED BY <2>1, <2>2, <2>3, <2>4 DEF Room
<1> QED BY <1>1, RoomNext, ShapeInvariance, PTL DEF Spec

\* No more places of the tier are sold than maxPurchasesPerLive, unless two
\* checkouts were checked before either was committed, or a payment arrived
\* after its reservation had ended.
THEOREM TierSoldWithinLimit == Spec => []TierCapacity
<1>1. Shape /\ Room => TierCapacity
    <2> SUFFICES ASSUME Shape, Room, tier.maxPerLive # 0, Cardinality(Sold) > tier.maxPerLive, ~stale
                 PROVE  FALSE
        BY DEF TierCapacity
    <2>1. Sold \subseteq Places
        BY DEF Sold, Places, Takes, Recorded
    <2>2. IsFiniteSet(Places) /\ Cardinality(Places) \in Nat
        BY PlacesFinite DEF Room
    <2>3. Cardinality(Sold) <= Cardinality(Places) /\ Cardinality(Sold) \in Nat
        BY <2>1, <2>2, FS_Subset, FS_CardinalityType
    <2>4. Cardinality(Places) <= tier.maxPerLive /\ tier.maxPerLive \in Nat
        BY DEF Room, Shape, TypeOK, Tier
    <2> QED BY <2>2, <2>3, <2>4
<1> QED BY <1>1, ShapeInvariance, RoomInvariance, PTL

\* Every state of a checkout is one of those its variables describe, what is
\* charged was committed, and a dialog asks to pay a payment that is there.
THEOREM CheckoutTyped == Spec => [](TypeOK /\ Rooted /\ Dialogs)
<1> QED BY ShapeInvariance, PTL DEF Shape

=============================================================================
