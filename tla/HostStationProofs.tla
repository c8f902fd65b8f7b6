------------------------- MODULE HostStationProofs -------------------------
(***************************************************************************)
(* Theorems about HostStation and StationTiers, for every value of their   *)
(* constants.  T is StationTiers' instance in MCHostStation, which has its *)
(* own variables and constants.                                            *)
(***************************************************************************)
EXTENDS MCHostStation, FiniteSetTheorems, WellFoundedInduction, TLAPS

-----------------------------------------------------------------------------
(* The application: types *)

\* An application a request decides was made, an account it synchronises is one.
Rooted ==
    \A r \in Requests :
        /\ request[r].step \in {"approve", "approving", "rejecting"} => request[r].app \in Made
        /\ At(r, "syncing") => request[r].account \in Accounts

Shape == TypeOK /\ Rooted

\* Applications are numbered in their order, so any that there are have a latest.
LEMMA LatestIs ==
    ASSUME NEW S \in SUBSET Applications, S # {}
    PROVE  Latest(S) \in S /\ \A b \in S : b <= Latest(S)
<1> DEFINE Left == {MaxApplications - a : a \in S}
           R == OpToRel(<, Nat)
<1>1. Left \subseteq Nat /\ Left # {}
    <2>1. \A a \in S : MaxApplications - a \in Nat
        BY BoundsAssumption DEF Applications
    <2>2. PICK a \in S : TRUE
        OBVIOUS
    <2>3. MaxApplications - a \in Left
        BY <2>2
    <2> QED BY <2>1, <2>3
<1>2. IsWellFoundedOn(R, Nat)
    BY NatLessThanWellFounded
<1>3. \A x \in Nat, y \in Nat : <<y, x>> \in R <=> y < x
    BY DEF OpToRel
<1> HIDE DEF R
<1>4. PICK x \in Left : \A y \in Left : <<y, x>> \notin R
    BY <1>1, <1>2, WFMin
<1>5. PICK a \in S : x = MaxApplications - a
    BY <1>4
<1>6. \A b \in S : b <= a
    <2>1. ASSUME NEW b \in S PROVE ~(MaxApplications - b < MaxApplications - a)
        BY <1>1, <1>3, <1>4, <1>5
    <2> QED BY <2>1, BoundsAssumption DEF Applications
<1> QED BY <1>6 DEF Latest

\* A request about to decide or to synchronise knows of what.
Ready(q) ==
    /\ q.step \in {"approve", "approving", "rejecting"} => q.app \in Made
    /\ q.step = "syncing" => q.account \in Accounts

Moves(r, q) == request' = [request EXCEPT ![r] = q] /\ q \in Request /\ Ready(q)

LEMMA IdleMove ==
    ASSUME NEW r \in Requests, request' = [request EXCEPT ![r] = Idle]
    PROVE  Moves(r, Idle)
BY DEF Moves, Idle, Request, Steps, Ready

LEMMA GoMove ==
    ASSUME Shape, NEW r \in Requests, NEW step \in Steps, Go(r, step),
           step \in {"approve", "approving", "rejecting"} => request[r].app \in Made,
           step # "syncing"
    PROVE  /\ Moves(r, [request[r] EXCEPT !.step = step])
           /\ [request[r] EXCEPT !.step = step].step = step
           /\ [request[r] EXCEPT !.step = step].app = request[r].app
<1>1. request[r] \in Request /\ request \in [Requests -> Request]
    BY DEF Shape, TypeOK
<1>2. /\ [request[r] EXCEPT !.step = step] \in Request
      /\ [request[r] EXCEPT !.step = step].step = step
      /\ [request[r] EXCEPT !.step = step].app = request[r].app
    BY <1>1 DEF Request
<1>3. request' = [request EXCEPT ![r] = [request[r] EXCEPT !.step = step]]
    BY <1>1 DEF Go
<1> QED BY <1>2, <1>3 DEF Moves, Ready

\* What a step does to the requests: one moves at most.
OneMove == UNCHANGED request \/ \E r \in Requests, q \in Request : Moves(r, q)

LEMMA RequestsTyped ==
    ASSUME Shape, OneMove, Made \subseteq Made'
    PROVE  request' \in [Requests -> Request] /\ Rooted'
<1>1. request \in [Requests -> Request] /\ Rooted
    BY DEF Shape, TypeOK
<1>2. CASE UNCHANGED request
    BY <1>1, <1>2 DEF Rooted, At
<1>3. ASSUME NEW r \in Requests, NEW q \in Request, Moves(r, q)
      PROVE  request' \in [Requests -> Request] /\ Rooted'
    BY <1>1, <1>3 DEF Rooted, At, Moves, Ready
<1> QED BY <1>2, <1>3 DEF OneMove

-----------------------------------------------------------------------------
(* What a step does *)

\* An application may be written, not unmade; the profile is approved or
\* suspended with it.
Writes ==
    \/ UNCHANGED <<application, profile>>
    \/ /\ UNCHANGED <<application, station>> /\ profile' = [profile EXCEPT !.suspended = FALSE]
    \/ /\ UNCHANGED profile
       /\ \/ \E a \in Applications :
                application[a] = "NONE" /\ application' = [application EXCEPT ![a] = "SUBMITTED"]
          \/ \E a \in Made : application' = [application EXCEPT ![a] = "REJECTED"]
    \/ \E a \in Made :
          /\ application' = [application EXCEPT ![a] = "APPROVED"]
          /\ profile' = [isApproved |-> TRUE, suspended |-> FALSE]
    \/ \E a \in Made :
          /\ application' = [application EXCEPT ![a] = "SUSPENDED"]
          /\ profile' = [isApproved |-> FALSE, suspended |-> TRUE]

\* The rest of the state.
Rest ==
    /\ station' \in {"NONE", "ACTIVE", "INACTIVE"}
    /\ account' \in [Accounts -> Account]
    /\ manual' \in BOOLEAN
    /\ events' \subseteq Accounts \X BOOLEAN
    /\ changes' \in 0..MaxChanges
    /\ failed' \in BOOLEAN

Step == OneMove /\ Writes /\ Rest

LEMMA FinishStep ==
    ASSUME Shape, NEW r \in Requests, Finish(r) \/ Refuse(r)
    PROVE  Moves(r, Idle) /\ events' \subseteq Accounts \X BOOLEAN
<1>1. events' \subseteq events
    BY DEF Finish, Refuse
<1>2. events \subseteq Accounts \X BOOLEAN
    BY DEF Shape, TypeOK
<1> QED BY <1>1, <1>2, IdleMove DEF Finish, Refuse

LEMMA IdleRequest == Idle \in Request
BY DEF Idle, Request, Steps

\* A request begins: it is the applicant's page, the administrator's, or Stripe's.
LEMMA BeginStep ==
    ASSUME Shape, NEW r \in Requests, OnboardingPage(r) \/ AdminHostsPage(r) \/ Deliver(r)
    PROVE  Step
<1> USE IdleRequest
<1>1. TypeOK /\ request[r] \in Request /\ request \in [Requests -> Request]
    BY DEF Shape, TypeOK
<1>2. ASSUME UNCHANGED <<data, failed>>, OneMove
      PROVE  Step
    BY <1>1, <1>2 DEF Step, Writes, Rest, TypeOK, data
<1>3. CASE Apply(r) \/ Connect(r)
    <2>1. PICK step \in {"applying", "connecting"} : Go(r, step)
        BY <1>3 DEF Apply, Connect
    <2>2. step \in Steps
        BY DEF Steps
    <2>3. OneMove
        BY <2>1, <2>2, GoMove DEF OneMove, Moves
    <2> QED BY <1>2, <1>3, <2>3 DEF Apply, Connect
<1>4. CASE Sync(r) \/ Deliver(r)
    <2>1. CASE Sync(r)
        <3>1. PICK k \in Connected :
                request' = [request EXCEPT ![r] = [Idle EXCEPT !.step = "syncing", !.account = k,
                                                      !.complete = account[k].complete]]
            BY <2>1 DEF Sync
        <3>2. k \in Accounts /\ account[k].complete \in BOOLEAN
            BY <1>1 DEF Connected, TypeOK, Account
        <3> DEFINE q == [Idle EXCEPT !.step = "syncing", !.account = k,
                                     !.complete = account[k].complete]
        <3>3. q \in Request /\ q.step = "syncing" /\ q.account = k
            BY <3>2 DEF Idle, Request, Steps
        <3>4. Moves(r, q)
            BY <3>1, <3>2, <3>3 DEF Moves, Ready
        <3> HIDE DEF q
        <3> QED BY <1>2, <2>1, <3>3, <3>4 DEF Sync, OneMove, data
    <2>2. CASE Deliver(r)
        <3>1. PICK e \in events :
                request' = [request EXCEPT ![r] = [Idle EXCEPT !.step = "syncing",
                                !.account = e[1], !.complete = e[2], !.hook = TRUE]]
            BY <2>2 DEF Deliver
        <3>2. e[1] \in Accounts /\ e[2] \in BOOLEAN
            BY <1>1 DEF TypeOK
        <3> DEFINE q == [Idle EXCEPT !.step = "syncing", !.account = e[1],
                                     !.complete = e[2], !.hook = TRUE]
        <3>3. q \in Request /\ q.step = "syncing" /\ q.account = e[1]
            BY <3>2 DEF Idle, Request, Steps
        <3>4. Moves(r, q)
            BY <3>1, <3>2, <3>3 DEF Moves, Ready
        <3> HIDE DEF q
        <3> QED BY <1>2, <2>2, <3>3, <3>4 DEF Deliver, OneMove, data
    <2> QED BY <1>4, <2>1, <2>2
<1>5. CASE Approve(r) \/ Reject(r)
    <2>1. PICK a \in Made, step \in {"approve", "rejecting"} :
            request' = [request EXCEPT ![r].step = step, ![r].app = a]
        BY <1>5 DEF Approve, Reject, Pending, Made
    <2> DEFINE q == [request[r] EXCEPT !.step = step, !.app = a]
    <2>2. q \in Request /\ q.step = step /\ q.app = a
        BY <1>1 DEF Request, Steps, Made
    <2>3. request' = [request EXCEPT ![r] = q]
        BY <1>1, <2>1
    <2> HIDE DEF q
    <2>4. Moves(r, q)
        BY <2>1, <2>2, <2>3 DEF Moves, Ready
    <2> QED BY <1>2, <1>5, <2>2, <2>4 DEF Approve, Reject, OneMove
<1>6. CASE UpdateSettings(r)
    <2>1. PICK on \in BOOLEAN : manual' = on /\ Go(r, IF on THEN "idle" ELSE "listing")
        BY <1>6 DEF UpdateSettings
    <2>2. (IF on THEN "idle" ELSE "listing") \in Steps
        BY DEF Steps
    <2>3. OneMove
        BY <2>1, <2>2, GoMove DEF OneMove, Moves
    <2> QED BY <1>1, <1>6, <2>1, <2>3 DEF Step, Writes, Rest, TypeOK, UpdateSettings
<1> QED BY <1>3, <1>4, <1>5, <1>6 DEF OnboardingPage, AdminHostsPage

\* It goes on.
LEMMA ProceedStep ==
    ASSUME Shape, NEW r \in Requests, Proceed(r) \/ Die(r)
    PROVE  Step
<1> USE IdleRequest
<1>1. TypeOK /\ request[r] \in Request /\ request \in [Requests -> Request]
    BY DEF Shape, TypeOK
<1>2. ASSUME UNCHANGED <<application, profile, station, account, manual, changes, failed>>,
             OneMove, events' \subseteq Accounts \X BOOLEAN
      PROVE  Step
    BY <1>1, <1>2 DEF Step, Writes, Rest, TypeOK
<1>3. ASSUME Finish(r) \/ Refuse(r)
      PROVE  OneMove /\ events' \subseteq Accounts \X BOOLEAN
    BY <1>3, FinishStep DEF OneMove
<1>4. ASSUME NEW step \in Steps \ {"approve", "rejecting", "syncing"}, Go(r, step),
             step = "approving" => request[r].app \in Made
      PROVE  OneMove
    BY <1>4, GoMove DEF OneMove, Moves
<1>5. UNCHANGED events => events' \subseteq Accounts \X BOOLEAN
    BY <1>1 DEF TypeOK
<1>6. CASE CommitApply(r)
    <2>1. PICK a \in Applications :
            application[a] = "NONE" /\ application' = [application EXCEPT ![a] = "SUBMITTED"]
        BY <1>6 DEF CommitApply
    <2>2. OneMove
        BY <1>4, <1>6 DEF CommitApply, Steps
    <2> QED BY <1>1, <1>6, <2>1, <2>2 DEF Step, Writes, Rest, TypeOK, CommitApply
<1>7. CASE ReadSettings(r)
    BY <1>2, <1>3, <1>4, <1>5, <1>7 DEF ReadSettings, Steps
<1>8. CASE FindPending(r)
    <2>1. CASE Finish(r)
        BY <1>2, <1>3, <1>8, <2>1 DEF FindPending
    <2>2. CASE /\ Pending # {} /\ UNCHANGED events
               /\ request' = [request EXCEPT ![r].step = "approve", ![r].app = Latest(Pending)]
        <3> DEFINE q == [request[r] EXCEPT !.step = "approve", !.app = Latest(Pending)]
        <3>1. Latest(Pending) \in Made /\ Latest(Pending) \in Applications
            <4>1. Pending \in SUBSET Applications
                BY DEF Pending
            <4>2. Latest(Pending) \in Pending
                BY <2>2, <4>1, LatestIs
            <4> QED BY <4>2 DEF Pending, Made
        <3>2. q \in Request /\ q.step = "approve" /\ q.app = Latest(Pending)
            BY <1>1, <3>1 DEF Request, Steps
        <3>3. request' = [request EXCEPT ![r] = q]
            BY <1>1, <2>2
        <3> HIDE DEF q
        <3>4. OneMove
            BY <3>1, <3>2, <3>3 DEF Moves, Ready, OneMove
        <3> QED BY <1>2, <1>5, <1>8, <2>2, <3>4 DEF FindPending
    <2> QED BY <1>8, <2>1, <2>2 DEF FindPending
<1>9. CASE CheckApproval(r)
    <2>1. request[r].app \in Made
        BY <1>9 DEF Shape, Rooted, CheckApproval, At
    <2> QED BY <1>2, <1>3, <1>4, <1>5, <1>9, <2>1 DEF CheckApproval, Steps
<1>10. CASE CommitApproval(r)
    <2>1. request[r].app \in Made
        BY <1>10 DEF Shape, Rooted, CommitApproval, At
    <2> QED BY <1>1, <1>3, <1>10, <2>1 DEF Step, Writes, Rest, TypeOK, CommitApproval
<1>11. CASE CommitRejection(r)
    <2>1. request[r].app \in Made
        BY <1>11 DEF Shape, Rooted, CommitRejection, At
    <2> QED BY <1>1, <1>3, <1>11, <2>1 DEF Step, Writes, Rest, TypeOK, CommitRejection
<1>12. CASE ListApplications(r)
    BY <1>2, <1>3, <1>4, <1>5, <1>12 DEF ListApplications, Steps
<1>13. ASSUME NEW k \in Accounts, NEW row \in {"NONE", "IN_PROGRESS", "COMPLETED"},
              account' = [account EXCEPT ![k].row = row]
       PROVE  account' \in [Accounts -> Account]
    <2>1. [account[k] EXCEPT !.row = row] \in Account
        BY <1>1 DEF TypeOK, Account
    <2>2. account' = [account EXCEPT ![k] = [account[k] EXCEPT !.row = row]]
        BY <1>1, <1>13 DEF TypeOK
    <2> QED BY <1>1, <2>1, <2>2 DEF TypeOK
<1>14. CASE CommitConnect(r)
    <2>1. account' \in [Accounts -> Account]
        BY <1>13, <1>14 DEF CommitConnect
    <2> QED BY <1>1, <1>3, <1>14, <2>1 DEF Step, Writes, Rest, TypeOK, CommitConnect
<1>15. CASE ApplyStripeAccountState(r)
    <2>1. request[r].account \in Accounts
        BY <1>15 DEF Shape, Rooted, ApplyStripeAccountState
    <2>2. account' \in [Accounts -> Account]
        BY <1>13, <1>15, <2>1 DEF ApplyStripeAccountState
    <2>3. OneMove
        BY <1>4, <1>15 DEF ApplyStripeAccountState, Steps
    <2> QED BY <1>1, <1>15, <2>2, <2>3 DEF Step, Writes, Rest, TypeOK, ApplyStripeAccountState
<1>16. CASE Die(r)
    <2>1. OneMove
        BY <1>16, IdleMove DEF Die, OneMove
    <2> QED BY <1>1, <1>16, <2>1 DEF Step, Writes, Rest, TypeOK, Die, data
<1> QED BY <1>6, <1>7, <1>8, <1>9, <1>10, <1>11, <1>12, <1>14, <1>15, <1>16 DEF Proceed

LEMMA AnyStep ==
    ASSUME Shape, [Next]_vars
    PROVE  Step
<1>1. TypeOK
    BY DEF Shape
<1>2. ASSUME NEW a \in Made, SuspendHost(a)
      PROVE  Step
    BY <1>1, <1>2 DEF Step, OneMove, Writes, Rest, TypeOK, SuspendHost
<1>3. CASE ReinstateHost
    BY <1>1, <1>3 DEF Step, OneMove, Writes, Rest, TypeOK, ReinstateHost
<1>4. ASSUME NEW k \in Accounts, ChangeAtStripe(k)
      PROVE  Step
    <2>1. account[k] \in Account /\ account \in [Accounts -> Account]
        BY <1>1 DEF TypeOK
    <2>2. [account[k] EXCEPT !.complete = ~@] \in Account /\ (~account[k].complete) \in BOOLEAN
        BY <2>1 DEF Account
    <2>3. account' \in [Accounts -> Account]
        BY <1>4, <2>1, <2>2 DEF ChangeAtStripe
    <2>4. events' \subseteq Accounts \X BOOLEAN
        <3>1. <<k, ~account[k].complete>> \in Accounts \X BOOLEAN
            BY <2>2
        <3> QED BY <1>1, <1>4, <3>1 DEF ChangeAtStripe, TypeOK
    <2>5. changes' \in 0..MaxChanges
        BY <1>1, <1>4, BoundsAssumption DEF ChangeAtStripe, TypeOK
    <2> QED BY <1>1, <1>4, <2>3, <2>4, <2>5 DEF Step, OneMove, Writes, Rest, TypeOK, ChangeAtStripe
<1>5. CASE UNCHANGED vars
    BY <1>1, <1>5 DEF Step, OneMove, Writes, Rest, TypeOK, vars, data
<1> QED BY <1>2, <1>3, <1>4, <1>5, BeginStep, ProceedStep DEF Next

\* Applications stay made.
LEMMA MadeStays ==
    ASSUME Shape, Writes
    PROVE  /\ application' \in [Applications -> Status] /\ profile' \in Profile
           /\ Made \subseteq Made'
<1>1. application \in [Applications -> Status] /\ profile \in Profile
    BY DEF Shape, TypeOK
<1>2. ASSUME NEW a \in Applications, NEW status \in Status \ {"NONE"},
             application' = [application EXCEPT ![a] = status]
      PROVE  application' \in [Applications -> Status] /\ Made \subseteq Made'
    BY <1>1, <1>2 DEF Made
<1>3. application' \in [Applications -> Status] /\ Made \subseteq Made'
    <2>1. CASE UNCHANGED application
        BY <1>1, <2>1 DEF Made
    <2>2. CASE ~UNCHANGED application
        <3>1. \E a \in Applications, status \in Status \ {"NONE"} :
                application' = [application EXCEPT ![a] = status]
            BY <2>2 DEF Writes, Made, Status
        <3> QED BY <1>2, <3>1
    <2> QED BY <2>1, <2>2
<1>4. profile' \in Profile
    <2>1. /\ [profile EXCEPT !.suspended = FALSE] \in Profile
          /\ [isApproved |-> TRUE, suspended |-> FALSE] \in Profile
          /\ [isApproved |-> FALSE, suspended |-> TRUE] \in Profile
        BY <1>1 DEF Profile
    <2> QED BY <1>1, <2>1 DEF Writes
<1> QED BY <1>3, <1>4

LEMMA ShapeNext ==
    ASSUME Shape, [Next]_vars
    PROVE  Shape'
<1>1. Step
    BY AnyStep
<1>2. /\ application' \in [Applications -> Status] /\ profile' \in Profile
      /\ Made \subseteq Made'
    BY <1>1, MadeStays DEF Step
<1>3. request' \in [Requests -> Request] /\ Rooted'
    BY <1>1, <1>2, RequestsTyped DEF Step
<1> QED BY <1>1, <1>2, <1>3 DEF Shape, TypeOK, Step, Rest

LEMMA ShapeInit == Init => Shape
<1> SUFFICES ASSUME Init PROVE Shape
    OBVIOUS
<1>1. application \in [Applications -> Status] /\ account \in [Accounts -> Account]
    BY DEF Init, Status, Account
<1>2. request \in [Requests -> Request] /\ \A r \in Requests : request[r].step = "idle"
    BY IdleRequest DEF Init, Idle
<1>3. profile \in Profile /\ changes \in 0..MaxChanges
    BY BoundsAssumption DEF Init, Profile
<1>4. TypeOK
    BY <1>1, <1>2, <1>3 DEF Init, TypeOK
<1>5. Rooted
    BY <1>2 DEF Rooted, At
<1> QED BY <1>4, <1>5 DEF Shape

LEMMA ShapeInvariance == Spec => []Shape
<1> QED BY ShapeInit, ShapeNext, PTL DEF Spec

\* Every row is of the kind its columns allow, and a request that decides on an
\* application decides on one that was made.
THEOREM StationTyped == Spec => [](TypeOK /\ Rooted)
<1> QED BY ShapeInvariance, PTL DEF Shape

-----------------------------------------------------------------------------
(* The applicant who waits *)

\* The application that counts waits for nothing but a request: the settings
\* allow the approval, the accounts are complete, nothing died on the way.
Due ==
    /\ ~failed /\ ~manual /\ Made # {} /\ StripeComplete
    /\ application[Latest(Made)] = "SUBMITTED"

\* A request that is going to find it, or that has.
OnTheWay(q) ==
    \/ q.step \in {"settings", "pending", "listing"}
    \/ q.step \in {"approve", "approving"} /\ q.app = Latest(Made)

Waiting == Due => \E r \in Requests : OnTheWay(request[r])

IInv == Shape /\ Waiting

\* The latest application is among the pending ones if it is pending.
LEMMA LatestPending ==
    ASSUME Shape, Due
    PROVE  Pending # {} /\ Latest(Pending) = Latest(Made)
<1>1. Made \in SUBSET Applications /\ Pending \in SUBSET Made
    BY DEF Made, Pending
<1>2. Latest(Made) \in Made /\ \A b \in Made : b <= Latest(Made)
    BY <1>1, LatestIs DEF Due
<1>3. Latest(Made) \in Pending
    BY <1>1, <1>2 DEF Due, Pending
<1>4. Latest(Pending) \in Pending /\ \A b \in Pending : b <= Latest(Pending)
    BY <1>1, <1>3, LatestIs
<1>5. Latest(Made) <= Latest(Pending) /\ Latest(Pending) <= Latest(Made)
    BY <1>1, <1>2, <1>3, <1>4
<1>6. Latest(Made) \in Nat /\ Latest(Pending) \in Nat
    <2>1. Latest(Made) \in Applications /\ Latest(Pending) \in Applications
        BY <1>1, <1>2, <1>4
    <2>2. Applications \subseteq Nat
        BY DEF Applications
    <2> QED BY <2>1, <2>2
<1> QED BY <1>3, <1>5, <1>6

\* The payout the approval looks at is complete.
LEMMA DuePayout ==
    ASSUME Due, NEW k \in Payout
    PROVE  IsComplete(k)
BY DEF Due, StripeComplete, Payout

\* A request that goes on its way keeps it.
LEMMA OnItsWay ==
    ASSUME NEW r \in Requests, OnTheWay(request[r])'
    PROVE  Waiting'
BY DEF Waiting

\* One that was not on its way may do what it likes, if nothing became due.
LEMMA OthersWay ==
    ASSUME Shape, Waiting, NEW r \in Requests, ~OnTheWay(request[r]),
           Due' => Due, Made' = Made, request' = [request EXCEPT ![r] = request'[r]]
    PROVE  Waiting'
<1> SUFFICES ASSUME Due' PROVE \E s \in Requests : OnTheWay(request[s])'
    BY DEF Waiting
<1>1. PICK s \in Requests : OnTheWay(request[s])
    BY DEF Waiting
<1>2. request'[s] = request[s]
    BY <1>1 DEF Shape, TypeOK
<1>3. OnTheWay(request[s])'
    BY <1>1, <1>2 DEF OnTheWay
<1> QED BY <1>3

\* Nothing that anybody reads changed.
LEMMA QuietWay ==
    ASSUME Waiting, Due' => Due, Made' = Made, UNCHANGED request
    PROVE  Waiting'
BY DEF Waiting, OnTheWay

\* What makes an application due.
LEMMA DueData ==
    ASSUME UNCHANGED <<application, account, manual, failed>>
    PROVE  Due' = Due /\ Made' = Made
BY DEF Due, Made, StripeComplete, Connected, IsComplete

LEMMA RequestMoves ==
    ASSUME Shape, NEW r \in Requests, NEW q, request' = [request EXCEPT ![r] = q]
    PROVE  request'[r] = q /\ request' = [request EXCEPT ![r] = request'[r]]
BY DEF Shape, TypeOK

LEMMA RequestGoes ==
    ASSUME Shape, NEW r \in Requests, NEW step \in Steps, Go(r, step)
    PROVE  /\ request'[r].step = step /\ request'[r].app = request[r].app
           /\ request' = [request EXCEPT ![r] = request'[r]]
BY DEF Shape, TypeOK, Go, Request

\* An application whose status was written is not the one that waits.
LEMMA DueElsewhere ==
    ASSUME Shape, NEW a \in Made, NEW status \in Status \ {"NONE", "SUBMITTED"},
           application' = [application EXCEPT ![a] = status],
           UNCHANGED <<account, manual, failed>>
    PROVE  Made' = Made /\ (Due' => Due /\ Latest(Made) # a)
<1>1. application \in [Applications -> Status]
    BY DEF Shape, TypeOK
<1>2. Made' = Made
    BY <1>1 DEF Made
<1>3. StripeComplete' = StripeComplete
    BY DEF StripeComplete, Connected, IsComplete
<1>4. ASSUME Due' PROVE Due /\ Latest(Made) # a
    <2>1. application'[Latest(Made)] = "SUBMITTED"
        BY <1>2, <1>4 DEF Due
    <2>2. Made \in SUBSET Applications /\ Made # {}
        BY <1>2, <1>4 DEF Due, Made
    <2>3. Latest(Made) \in Made
        BY <2>2, LatestIs
    <2>4. Latest(Made) # a /\ application[Latest(Made)] = "SUBMITTED"
        BY <1>1, <2>1, <2>2, <2>3
    <2> QED BY <1>2, <1>3, <1>4, <2>4 DEF Due
<1> QED BY <1>2, <1>4

LEMMA WaitingBegins ==
    ASSUME Shape, Waiting, NEW r \in Requests, At(r, "idle"),
           OnboardingPage(r) \/ AdminHostsPage(r) \/ Deliver(r)
    PROVE  Waiting'
<1>1. ~OnTheWay(request[r])
    BY DEF OnTheWay, At
<1>2. ASSUME NEW q, request' = [request EXCEPT ![r] = q],
             UNCHANGED <<application, account, manual, failed>>
      PROVE  Waiting'
    <2>1. Due' = Due /\ Made' = Made
        BY <1>2, DueData
    <2>2. request' = [request EXCEPT ![r] = request'[r]]
        BY <1>2, RequestMoves
    <2> QED BY <1>1, <2>1, <2>2, OthersWay
<1>3. ASSUME NEW step \in Steps, Go(r, step),
             UNCHANGED <<application, account, manual, failed>>
      PROVE  Waiting'
    BY <1>1, <1>3, DueData, OthersWay, RequestGoes
<1>4. CASE Apply(r) \/ Connect(r)
    BY <1>3, <1>4 DEF Apply, Connect, Steps, data
<1>5. CASE Sync(r) \/ Deliver(r)
    BY <1>2, <1>5 DEF Sync, Deliver, data
<1>6. CASE Approve(r) \/ Reject(r)
    <2>1. PICK a, step : request' = [request EXCEPT ![r].step = step, ![r].app = a]
        BY <1>6 DEF Approve, Reject
    <2>2. request' = [request EXCEPT ![r] = [request[r] EXCEPT !.step = step, !.app = a]]
        BY <2>1 DEF Shape, TypeOK
    <2> QED BY <1>2, <1>6, <2>2 DEF Approve, Reject, data
<1>7. CASE UpdateSettings(r)
    <2>1. PICK on \in BOOLEAN : manual' = on /\ Go(r, IF on THEN "idle" ELSE "listing")
        BY <1>7 DEF UpdateSettings
    <2>2. CASE on
        <3>1. ~Due'
            BY <2>1, <2>2 DEF Due
        <3> QED BY <3>1 DEF Waiting
    <2>3. CASE ~on
        <3>1. request'[r].step = "listing"
            BY <2>1, <2>3, RequestGoes DEF Steps
        <3> QED BY <3>1, OnItsWay DEF OnTheWay
    <2> QED BY <2>2, <2>3
<1> QED BY <1>4, <1>5, <1>6, <1>7 DEF OnboardingPage, AdminHostsPage

LEMMA WaitingProceeds ==
    ASSUME Shape, Waiting, NEW r \in Requests, Proceed(r)
    PROVE  Waiting'
<1>1. TypeOK /\ request[r] \in Request
    BY DEF Shape, TypeOK
\* An application that is due meanwhile has others on their way to it.
<1>2. ASSUME ~OnTheWay(request[r]), Due' => Due, Made' = Made,
             Finish(r) \/ Refuse(r) \/ \E step \in Steps : Go(r, step)
      PROVE  Waiting'
    <2>1. request' = [request EXCEPT ![r] = request'[r]]
        BY <1>2, RequestMoves, RequestGoes DEF Finish, Refuse
    <2> QED BY <1>2, <2>1, OthersWay
<1>3. ASSUME NEW step \in {"settings", "pending"}, Go(r, step)
      PROVE  Waiting'
    <2>1. request'[r].step = step
        BY <1>3, RequestGoes DEF Steps
    <2> QED BY <2>1, OnItsWay DEF OnTheWay
<1>4. ASSUME ~Due, UNCHANGED <<application, account, manual, failed>>
      PROVE  Waiting'
    BY <1>4, DueData DEF Waiting
<1>5. CASE CommitApply(r)
    BY <1>3, <1>5 DEF CommitApply
<1>6. CASE ReadSettings(r)
    <2>1. CASE manual
        <3>1. ~Due
            BY <2>1 DEF Due
        <3> QED BY <1>4, <1>6, <3>1 DEF ReadSettings
    <2>2. CASE ~manual
        BY <1>3, <1>6, <2>2 DEF ReadSettings
    <2> QED BY <2>1, <2>2
<1>7. CASE FindPending(r)
    <2>1. CASE ~Due
        BY <1>4, <1>7, <2>1 DEF FindPending
    <2>2. CASE Due
        <3>1. request' = [request EXCEPT ![r].step = "approve", ![r].app = Latest(Pending)]
            BY <1>7, <2>2, LatestPending, DuePayout DEF FindPending
        <3>2. request'[r].step = "approve" /\ request'[r].app = Latest(Made)
            BY <1>1, <2>2, <3>1, LatestPending DEF TypeOK, Request
        <3>3. Made' = Made
            BY <1>7, DueData DEF FindPending
        <3> QED BY <3>2, <3>3, OnItsWay DEF OnTheWay
    <2> QED BY <2>1, <2>2
<1>8. CASE CheckApproval(r)
    <2>1. Due' = Due /\ Made' = Made
        BY <1>8, DueData DEF CheckApproval
    <2>2. CASE ~Due
        BY <1>4, <1>8, <2>2 DEF CheckApproval
    <2>3. CASE Due /\ request[r].app = Latest(Made)
        <3>1. Go(r, "approving")
            BY <1>8, <2>3, DuePayout DEF CheckApproval, Due
        <3>2. request'[r].step = "approving" /\ request'[r].app = Latest(Made)
            BY <2>3, <3>1, RequestGoes DEF Steps
        <3> QED BY <2>1, <3>2, OnItsWay DEF OnTheWay
    <2>4. CASE request[r].app # Latest(Made)
        <3>1. ~OnTheWay(request[r])
            BY <1>8, <2>4 DEF OnTheWay, CheckApproval, At
        <3> QED BY <1>2, <1>8, <2>1, <3>1 DEF CheckApproval, Steps
    <2> QED BY <2>2, <2>3, <2>4
<1>9. CASE CommitApproval(r)
    <2>1. request[r].app \in Made
        BY <1>9 DEF Shape, Rooted, CommitApproval, At
    <2>2. Made' = Made /\ (Due' => Due /\ Latest(Made) # request[r].app)
        BY <1>9, <2>1, DueElsewhere DEF CommitApproval, Status
    <2>3. CASE ~Due'
        BY <2>3 DEF Waiting
    <2>4. CASE Due'
        <3>1. ~OnTheWay(request[r])
            BY <1>9, <2>2, <2>4 DEF OnTheWay, CommitApproval, At
        <3> QED BY <1>2, <1>9, <2>2, <3>1 DEF CommitApproval
    <2> QED BY <2>3, <2>4
<1>10. CASE CommitRejection(r)
    <2>1. request[r].app \in Made
        BY <1>10 DEF Shape, Rooted, CommitRejection, At
    <2>2. Made' = Made /\ (Due' => Due)
        BY <1>10, <2>1, DueElsewhere DEF CommitRejection, Status
    <2>3. ~OnTheWay(request[r])
        BY <1>10 DEF OnTheWay, CommitRejection, At
    <2> QED BY <1>2, <1>10, <2>2, <2>3 DEF CommitRejection
<1>11. CASE ListApplications(r)
    <2>1. CASE ~Due
        BY <1>4, <1>11, <2>1 DEF ListApplications
    <2>2. CASE Due
        <3>1. Go(r, "settings")
            BY <1>11, <2>2, LatestPending, DuePayout DEF ListApplications
        <3> QED BY <1>3, <3>1
    <2> QED BY <2>1, <2>2
<1>12. CASE CommitConnect(r)
    <2>1. PICK k \in Accounts : account' = [account EXCEPT ![k].row = "IN_PROGRESS"]
        BY <1>12 DEF CommitConnect
    <2>2. account'[k].row = "IN_PROGRESS"
        BY <1>1, <2>1 DEF TypeOK, Account
    <2>3. ~StripeComplete'
        BY <2>2 DEF StripeComplete, Connected, IsComplete
    <2> QED BY <2>3 DEF Waiting, Due
<1>13. CASE ApplyStripeAccountState(r)
    BY <1>3, <1>13 DEF ApplyStripeAccountState
<1> QED BY <1>5, <1>6, <1>7, <1>8, <1>9, <1>10, <1>11, <1>12, <1>13 DEF Proceed

LEMMA WaitingNext ==
    ASSUME Shape, Waiting, [Next]_vars
    PROVE  Waiting'
<1>1. ASSUME NEW r \in Requests, OnboardingPage(r) \/ AdminHostsPage(r) \/ Deliver(r)
      PROVE  Waiting'
    <2>1. At(r, "idle")
        BY <1>1 DEF OnboardingPage, AdminHostsPage, Apply, Connect, Sync, Approve, Reject,
                    UpdateSettings, Deliver
    <2> QED BY <1>1, <2>1, WaitingBegins
<1>2. ASSUME NEW r \in Requests, Proceed(r) PROVE Waiting'
    BY <1>2, WaitingProceeds
<1>3. ASSUME NEW r \in Requests, Die(r) PROVE Waiting'
    BY <1>3 DEF Die, Waiting, Due
<1>4. ASSUME NEW a \in Made, SuspendHost(a) PROVE Waiting'
    <2>1. Made' = Made /\ (Due' => Due)
        BY <1>4, DueElsewhere DEF SuspendHost, Status
    <2> QED BY <1>4, <2>1, QuietWay DEF SuspendHost
<1>5. CASE ReinstateHost
    BY <1>5, DueData, QuietWay DEF ReinstateHost
<1>6. ASSUME NEW k \in Accounts, ChangeAtStripe(k) PROVE Waiting'
    <2>1. \A j \in Accounts : account'[j].row = account[j].row
        BY <1>6 DEF ChangeAtStripe, Shape, TypeOK, Account
    <2>2. StripeComplete' = StripeComplete
        BY <2>1 DEF StripeComplete, Connected, IsComplete
    <2>3. Due' = Due /\ Made' = Made
        BY <1>6, <2>2 DEF ChangeAtStripe, Due, Made
    <2> QED BY <1>6, <2>3, QuietWay DEF ChangeAtStripe
<1>7. CASE UNCHANGED vars
    BY <1>7, DueData, QuietWay DEF vars, data
<1> QED BY <1>1, <1>2, <1>3, <1>4, <1>5, <1>6, <1>7 DEF Next

LEMMA IInvInvariance == Spec => []IInv
<1>1. Init => IInv
    BY ShapeInit DEF Init, IInv, Waiting, Due, Made
<1>2. IInv /\ [Next]_vars => IInv'
    BY ShapeNext, WaitingNext DEF IInv
<1> QED BY <1>1, <1>2, PTL DEF Spec

\* An applicant is not told for good that his activation is being processed:
\* when no request is under way and none died, the application that counts was
\* decided, for any number of requests, accounts and applications.
THEOREM ActivationDecided == Spec => []NobodyLeftWaiting
<1>1. IInv => NobodyLeftWaiting
    <2> SUFFICES ASSUME Waiting, \A r \in Requests : At(r, "idle"), ~failed,
                        Told = "processing activation"
                 PROVE  application[Latest(Made)] # "SUBMITTED"
        BY DEF IInv, NobodyLeftWaiting
    <2>1. ~manual /\ Made # {} /\ StripeComplete
        BY DEF Told, HasApp
    <2>2. \A r \in Requests : ~OnTheWay(request[r])
        BY DEF OnTheWay, At
    <2> QED BY <2>1, <2>2 DEF Waiting, Due
<1> QED BY <1>1, IInvInvariance, PTL

-----------------------------------------------------------------------------
(* The way back *)

\* Whatever suspensions, rejections and approvals overtake each other, an
\* applicant who is no host has an application that can be approved.
THEOREM WayBack == Spec => []CanComeBack
<1>1. Init => CanComeBack
    BY DEF Init, CanComeBack, Made
<1>2. ASSUME Shape, CanComeBack, [Next]_vars
      PROVE  CanComeBack'
    <2> SUFFICES ASSUME Made' # {}, ~profile'.isApproved
                 PROVE  \E a \in Made' : application'[a] # "APPROVED"
        BY DEF CanComeBack
    <2>1. Writes /\ application \in [Applications -> Status] /\ profile \in Profile
        BY <1>2, AnyStep DEF Step, Shape, TypeOK
    <2>2. ASSUME NEW a \in Applications, NEW status \in Status \ {"NONE", "APPROVED"},
                 application' = [application EXCEPT ![a] = status]
          PROVE  \E b \in Made' : application'[b] # "APPROVED"
        BY <2>1, <2>2 DEF Made
    <2>3. ASSUME UNCHANGED application, profile'.isApproved = profile.isApproved
          PROVE  \E a \in Made' : application'[a] # "APPROVED"
        BY <1>2, <2>3 DEF CanComeBack, Made
    <2>4. [profile EXCEPT !.suspended = FALSE].isApproved = profile.isApproved
        BY <2>1 DEF Profile
    <2>5. CASE UNCHANGED <<application, profile>>
        BY <2>3, <2>5
    <2>6. CASE UNCHANGED application /\ profile' = [profile EXCEPT !.suspended = FALSE]
        BY <2>3, <2>4, <2>6
    <2>7. CASE \E a \in Applications : application' = [application EXCEPT ![a] = "SUBMITTED"]
        BY <2>2, <2>7 DEF Status
    <2>8. CASE \E a \in Made : application' = [application EXCEPT ![a] = "REJECTED"]
        BY <2>2, <2>8 DEF Status, Made
    <2>9. CASE \E a \in Made : application' = [application EXCEPT ![a] = "SUSPENDED"]
        BY <2>2, <2>9 DEF Status, Made
    <2> QED BY <2>1, <2>5, <2>6, <2>7, <2>8, <2>9 DEF Writes
<1> QED BY <1>1, <1>2, ShapeInvariance, PTL DEF Spec

-----------------------------------------------------------------------------
(* The tiers *)

\* An edit that passed its check saw a free place, or a tier that was active.
Allowed(e) ==
    e.checked /\ e.isActive =>
        \/ e.op = "update" /\ e.target \in e.seen
        \/ e.op = "update" /\ Cardinality(e.seen \ {e.target}) < MaxActive
        \/ e.op = "create" /\ Cardinality(e.seen) < MaxActive

\* A station has no more active tiers than its limit, unless two edits were
\* checked before either was written.
Few == ~raced => Cardinality(T!Active) <= MaxActive

TiersInv ==
    /\ T!TypeOK
    /\ \A b \in Tabs :
         /\ edit[b].op = "create" => edit[b].target = None
         /\ edit[b].op \in {"update", "delete"} => edit[b].target \in Tiers
         /\ edit[b].op \in {"idle", "delete"} => ~edit[b].isActive
         /\ Allowed(edit[b])
    /\ Few

-----------------------------------------------------------------------------

LEMMA IdleEdit == T!Idle \in T!Edit
BY DEF T!Idle, T!Edit

\* The instance counts as this module does.
LEMMA SameCardinality ==
    ASSUME NEW S
    PROVE  T!Cardinality(S) = Cardinality(S) /\ (T!IsFiniteSet(S) <=> IsFiniteSet(S))
<1>1. T!Cardinality(S) = Cardinality(S)
    BY DEF T!Cardinality, Cardinality
<1>2. T!IsFiniteSet(S) <=> IsFiniteSet(S)
    BY DEF T!IsFiniteSet, IsFiniteSet
<1> QED BY <1>1, <1>2

LEMMA TiersGround ==
    /\ None \notin Tiers
    /\ MaxActive \in Nat /\ DefaultTiers \subseteq Tiers
    /\ IsFiniteSet(Tiers) /\ Cardinality(DefaultTiers) <= MaxActive
BY TiersAssumption, SameCardinality DEF T!NoneAssumption, T!CapacityAssumption

\* Every set of tiers is finite.
LEMMA TiersFinite ==
    ASSUME NEW S \in SUBSET Tiers
    PROVE  IsFiniteSet(S) /\ Cardinality(S) \in Nat
BY TiersGround, FS_Subset, FS_CardinalityType

LEMMA TiersInit == T!Init => TiersInv
<1> SUFFICES ASSUME T!Init PROVE TiersInv
    OBVIOUS
<1>1. T!Active = DefaultTiers
    BY TiersGround DEF T!Init, T!Active
<1>2. T!TypeOK
    BY IdleEdit DEF T!Init, T!TypeOK, T!Rows
<1>3. Few
    BY <1>1, TiersGround DEF Few
<1> QED BY <1>2, <1>3 DEF T!Init, TiersInv, T!Idle, Allowed

\* A tab sends an edit.
LEMMA TiersAsk ==
    ASSUME TiersInv, NEW b \in Tabs, NEW op \in {"create", "update", "delete"},
           NEW t \in Tiers \cup {None}, NEW on \in BOOLEAN,
           op = "create" <=> t = None, op = "delete" => ~on, T!Ask(b, op, t, on)
    PROVE  TiersInv'
<1> DEFINE e == [T!Idle EXCEPT !.op = op, !.target = t, !.isActive = on]
<1>1. /\ e \in T!Edit /\ e.op = op /\ e.target = t /\ e.isActive = on /\ ~e.checked
    BY DEF T!Idle, T!Edit
<1>2. edit' = [edit EXCEPT ![b] = e] /\ tier' = tier /\ raced' = raced
    BY DEF T!Ask
<1> HIDE DEF e
<1>3. T!TypeOK'
    BY <1>1, <1>2 DEF TiersInv, T!TypeOK
<1>4. Few'
    BY <1>2 DEF TiersInv, Few, T!Active
<1> QED BY <1>1, <1>2, <1>3, <1>4 DEF TiersInv, T!TypeOK, Allowed

\* An edit is checked against the tiers that are active now.
LEMMA TiersCheck == ASSUME TiersInv, NEW b \in Tabs, T!Check(b) PROVE TiersInv'
<1> DEFINE old == edit[b]
           new == IF T!MayWrite(old) THEN [old EXCEPT !.checked = TRUE, !.seen = T!Active]
                  ELSE T!Idle
<1>1. edit' = [edit EXCEPT ![b] = new] /\ tier' = tier /\ raced' = raced
    BY DEF T!Check
<1>2. old \in T!Edit /\ T!Active \in SUBSET Tiers
    BY DEF TiersInv, T!TypeOK, T!Active
<1>3. /\ new \in T!Edit
      /\ new.op = "create" => new.target = None
      /\ new.op \in {"update", "delete"} => new.target \in Tiers
      /\ new.op \in {"idle", "delete"} => ~new.isActive
    BY <1>2, IdleEdit DEF TiersInv, T!Idle, T!Edit
<1>4. Allowed(new)
    <2>1. CASE ~T!MayWrite(old)
        BY <2>1 DEF T!Idle, Allowed
    <2>2. CASE T!MayWrite(old)
        <3>1. /\ new.op = old.op /\ new.target = old.target
              /\ new.isActive = old.isActive /\ new.seen = T!Active
            BY <1>2, <2>2 DEF T!Edit
        <3>2. CASE ~old.isActive
            BY <3>1, <3>2 DEF Allowed
        <3>3. CASE old.isActive /\ old.op = "update"
            BY <2>2, <3>1, <3>3, SameCardinality
               DEF Allowed, T!MayWrite, T!Capacity, T!Active, TiersInv
        <3>4. CASE old.isActive /\ old.op = "create"
            <4>1. T!Active \ {None} = T!Active
                BY <1>2, TiersGround
            <4>2. Cardinality(T!Active) < MaxActive
                BY <2>2, <3>4, <4>1, SameCardinality DEF T!MayWrite, T!Capacity, TiersInv
            <4> QED BY <3>1, <3>4, <4>2 DEF Allowed
        <3> QED BY <1>2, <3>2, <3>3, <3>4 DEF TiersInv, T!Edit
    <2> QED BY <2>1, <2>2
<1> HIDE DEF new
<1>5. T!TypeOK'
    BY <1>1, <1>3 DEF TiersInv, T!TypeOK
<1>6. Few'
    BY <1>1 DEF TiersInv, Few, T!Active
<1> QED BY <1>1, <1>3, <1>4, <1>5, <1>6 DEF TiersInv, T!TypeOK

\* A tab is idle again; what a row became keeps the limit.
LEMMA TiersIdle ==
    ASSUME TiersInv, NEW b \in Tabs, edit' = [edit EXCEPT ![b] = T!Idle],
           tier' \in [Tiers -> T!Rows], raced' \in BOOLEAN, Few'
    PROVE  TiersInv'
<1>1. T!TypeOK'
    BY IdleEdit DEF TiersInv, T!TypeOK
<1> QED BY <1>1 DEF TiersInv, T!TypeOK, T!Idle, Allowed

\* A row that is switched off or deleted frees a place.
LEMMA TiersOff ==
    ASSUME TiersInv, NEW b \in Tabs, NEW op, NEW t \in Tiers, NEW status \in T!Rows \ {"ACTIVE"},
           T!Write(b, op, t, status)
    PROVE  TiersInv'
<1>1. tier' = [tier EXCEPT ![t] = status]
    BY DEF T!Write
<1>2. T!Active' \subseteq T!Active /\ T!Active \in SUBSET Tiers
    BY <1>1 DEF TiersInv, T!TypeOK, T!Active
<1>3. Cardinality(T!Active') <= Cardinality(T!Active)
    BY <1>2, TiersFinite, FS_Subset DEF TiersInv
<1>4. Cardinality(T!Active') \in Nat /\ Cardinality(T!Active) \in Nat
    BY <1>2, TiersFinite DEF TiersInv
<1>5. Few'
    <2>1. ~raced' => ~raced
        BY DEF T!Write
    <2>2. MaxActive \in Nat
        BY TiersGround
    <2> QED BY <1>3, <1>4, <2>1, <2>2 DEF TiersInv, Few
<1>6. tier' \in [Tiers -> T!Rows] /\ raced' \in BOOLEAN /\ edit' = [edit EXCEPT ![b] = T!Idle]
    BY DEF T!Write, TiersInv, T!TypeOK
<1> QED BY <1>5, <1>6, TiersIdle

\* A row that is switched on takes the place its check saw, unless another
\* write came in between.
LEMMA TiersOn ==
    ASSUME TiersInv, NEW b \in Tabs, NEW op \in {"create", "update"}, NEW t \in Tiers,
           op = "update" => t = edit[b].target, op = "create" => t \notin T!Active,
           edit[b].isActive, T!Write(b, op, t, "ACTIVE")
    PROVE  TiersInv'
<1> DEFINE e == edit[b]
<1>1. /\ e.op = op /\ e.checked /\ Allowed(e)
      /\ tier' = [tier EXCEPT ![t] = "ACTIVE"] /\ edit' = [edit EXCEPT ![b] = T!Idle]
      /\ raced' = (raced \/ e.seen # T!Active)
    BY DEF T!Write, TiersInv
<1>2. T!Active' = T!Active \cup {t} /\ T!Active \in SUBSET Tiers
    BY <1>1 DEF TiersInv, T!TypeOK, T!Active
<1>3. ASSUME ~raced' PROVE Cardinality(T!Active') <= MaxActive
    <2>1. ~raced /\ e.seen = T!Active
        BY <1>1, <1>3
    <2>2. CASE t \in T!Active
        <3>1. T!Active' = T!Active
            BY <1>2, <2>2
        <3> QED BY <2>1, <3>1 DEF TiersInv, Few
    <2>3. CASE t \notin T!Active
        <3>1. T!Active \ {t} = T!Active
            BY <2>3
        <3>2. Cardinality(T!Active) < MaxActive
            BY <1>1, <2>1, <2>3, <3>1 DEF Allowed
        <3>3. Cardinality(T!Active') = Cardinality(T!Active) + 1
            <4>1. IsFiniteSet(T!Active)
                BY <1>2, TiersFinite DEF TiersInv
            <4> HIDE DEF T!Active
            <4>2. Cardinality(T!Active \cup {t}) = Cardinality(T!Active) + 1
                BY <2>3, <4>1, FS_AddElement
            <4> QED BY <1>2, <4>2
        <3>4. Cardinality(T!Active) \in Nat /\ MaxActive \in Nat
            BY <1>2, TiersFinite, TiersGround
        <3> QED BY <3>2, <3>3, <3>4
    <2> QED BY <2>2, <2>3
<1>4. Few'
    BY <1>3 DEF Few
<1>5. tier' \in [Tiers -> T!Rows] /\ raced' \in BOOLEAN
    BY <1>1 DEF TiersInv, T!TypeOK, T!Rows
<1> QED BY <1>1, <1>4, <1>5, TiersIdle

LEMMA TiersNext == TiersInv /\ [T!Next]_(T!vars) => TiersInv'
<1> SUFFICES ASSUME TiersInv, [T!Next]_(T!vars) PROVE TiersInv'
    OBVIOUS
<1>1. ASSUME NEW b \in Tabs, T!TierManager(b) PROVE TiersInv'
    <2>0. None \notin Tiers
        BY TiersGround
    <2>1. ASSUME NEW on \in BOOLEAN, T!handleFormSubmit(b, on) PROVE TiersInv'
        <3>1. CASE T!Ask(b, "create", None, on)
            BY <3>1, TiersAsk
        <3>2. ASSUME NEW t \in T!Made, T!Ask(b, "update", t, on) PROVE TiersInv'
            BY <2>0, <3>2, TiersAsk DEF T!Made
        <3> QED BY <2>1, <3>1, <3>2 DEF T!handleFormSubmit
    <2>2. ASSUME NEW t \in Tiers, T!handleToggleActive(b, t) PROVE TiersInv'
        <3>1. PICK listed \in BOOLEAN : T!Ask(b, "update", t, ~listed)
            BY <2>2 DEF T!handleToggleActive
        <3> QED BY <2>0, <3>1, TiersAsk
    <2>3. ASSUME NEW t \in Tiers, T!handleDeleteTier(b, t) PROVE TiersInv'
        <3>1. T!Ask(b, "delete", t, FALSE)
            BY <2>3 DEF T!handleDeleteTier
        <3> QED BY <2>0, <3>1, TiersAsk
    <2> QED BY <1>1, <2>1, <2>2, <2>3 DEF T!TierManager
<1>2. ASSUME NEW b \in Tabs, T!Check(b) PROVE TiersInv'
    BY <1>2, TiersCheck
<1>3. ASSUME NEW b \in Tabs, T!createTier(b) PROVE TiersInv'
    <2>1. PICK t \in Tiers \ T!Made : T!Write(b, "create", t, T!Status(edit[b]))
        BY <1>3 DEF T!createTier
    <2>2. t \notin T!Active
        BY <2>1 DEF T!Made, T!Active
    <2>3. CASE edit[b].isActive
        BY <2>1, <2>2, <2>3, TiersOn DEF T!Status
    <2>4. CASE ~edit[b].isActive
        BY <2>1, <2>4, TiersOff DEF T!Status, T!Rows
    <2> QED BY <2>3, <2>4
<1>4. ASSUME NEW b \in Tabs, T!updateTier(b) PROVE TiersInv'
    <2> DEFINE t == edit[b].target
               status == IF tier[t] = "DELETED" THEN "DELETED" ELSE T!Status(edit[b])
    <2>1. T!Write(b, "update", t, status) /\ t \in Tiers
        BY <1>4 DEF T!updateTier, T!Write, TiersInv
    <2>2. CASE status = "ACTIVE"
        BY <2>1, <2>2, TiersOn DEF T!Status
    <2>3. CASE status # "ACTIVE"
        <3>1. status \in T!Rows \ {"ACTIVE"}
            BY <2>3 DEF T!Status, T!Rows
        <3> QED BY <2>1, <3>1, TiersOff
    <2> QED BY <2>2, <2>3
<1>5. ASSUME NEW b \in Tabs, T!deleteTier(b) PROVE TiersInv'
    <2>1. edit[b].target \in Tiers
        BY <1>5 DEF T!deleteTier, T!Write, TiersInv
    <2> QED BY <1>5, <2>1, TiersOff DEF T!deleteTier, T!Rows
<1>6. ASSUME NEW b \in Tabs, T!Drop(b) PROVE TiersInv'
    BY <1>6, TiersIdle DEF T!Drop, TiersInv, T!TypeOK, Few, T!Active
<1>7. CASE UNCHANGED T!vars
    BY <1>7 DEF T!vars, TiersInv, T!TypeOK, Few, T!Active, Allowed
<1> QED BY <1>1, <1>2, <1>3, <1>4, <1>5, <1>6, <1>7 DEF T!Next

\* A station never has more active tiers than its limit, for any number of
\* tabs and tiers, unless two edits were checked before either was written
\* (assertActiveTierCapacity in host.service.ts).
THEOREM AtMostLimit == T!Spec => []TierLimit
<1>1. T!Init => TiersInv
    BY TiersInit
<1>2. TiersInv => TierLimit
    BY SameCardinality DEF TiersInv, TierLimit, T!TierLimit, Few
<1> QED BY <1>1, <1>2, TiersNext, PTL DEF T!Spec

=============================================================================
