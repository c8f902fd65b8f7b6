---------------------------- MODULE HostStation ----------------------------
(***************************************************************************)
(* How a user becomes a host: the application, the Stripe account, the     *)
(* approval by an administrator or by itself, rejection, suspension and    *)
(* the way back.  What a suspension does to the live sessions is           *)
(* HostSessions', what the host does with the tiers of the station is      *)
(* StationTiers'.                                                          *)
(*                                                                         *)
(* One applicant.  A request reads what it needs outside of the            *)
(* transaction that writes, so others come between; a request is a tab of  *)
(* the applicant's onboarding page, of the administrator's page, or a      *)
(* delivery of Stripe's account.updated.                                   *)
(***************************************************************************)
EXTENDS Naturals, FiniteSets

CONSTANTS
    Requests,         \* requests at one time
    Accounts,         \* accounts Stripe can open for the applicant
    None,
    MaxApplications,  \* bound on the applications
    MaxChanges        \* bound on the changes of an account at Stripe

ASSUME NoneAssumption   == None \notin Accounts
ASSUME BoundsAssumption == MaxApplications \in Nat /\ MaxChanges \in Nat

VARIABLES
    application,  \* the host_applications rows, in the order of createdAt
    profile,      \* the host_profiles row, and the role that goes with it
    station,
    account,      \* the host_payout_accounts rows, and the accounts at Stripe
    manual,       \* requireManualHostApproval
    events,       \* account.updated events that Stripe has to deliver
    changes,
    request,
    failed        \* history: a request died after it had begun

data == <<application, profile, station, account, manual, events, changes>>
vars == <<data, request, failed>>

-----------------------------------------------------------------------------

Applications == 1..MaxApplications

\* HostApplicationStatus.  The states between SUBMITTED and a decision, and
\* those after a revocation or a withdrawal, are written by nothing.
Status == {"NONE", "SUBMITTED", "APPROVED", "REJECTED", "SUSPENDED"}

\* The profile's row is written with the first application; isApproved,
\* the role HOST and the user's isHost are always written together.
Profile == [isApproved : BOOLEAN, suspended : BOOLEAN]

\* onboardingState, written with the three flags that make up isComplete.
Account == [row : {"NONE", "IN_PROGRESS", "COMPLETED"}, complete : BOOLEAN]

Steps == {"idle", "applying", "settings", "pending", "approve", "approving", "rejecting",
          "connecting", "syncing", "listing"}

Request == [step : Steps, app : {0} \cup Applications, account : Accounts \cup {None},
            complete : BOOLEAN,  \* the account's state as it was read
            hook : BOOLEAN]      \* a delivery of Stripe's

Idle == [step |-> "idle", app |-> 0, account |-> None, complete |-> FALSE, hook |-> FALSE]

TypeOK ==
    /\ application \in [Applications -> Status]
    /\ profile \in Profile
    /\ station \in {"NONE", "ACTIVE", "INACTIVE"}
    /\ account \in [Accounts -> Account]
    /\ manual \in BOOLEAN
    /\ events \subseteq Accounts \X BOOLEAN
    /\ changes \in 0..MaxChanges
    /\ request \in [Requests -> Request]
    /\ failed \in BOOLEAN

Init ==
    /\ application = [a \in Applications |-> "NONE"]
    /\ profile = [isApproved |-> FALSE, suspended |-> FALSE]
    /\ station = "NONE"
    /\ account = [k \in Accounts |-> [row |-> "NONE", complete |-> FALSE]]
    /\ manual = TRUE
    /\ events = {}
    /\ changes = 0
    /\ request = [r \in Requests |-> Idle]
    /\ failed = FALSE

Made      == {a \in Applications : application[a] # "NONE"}
Pending   == {a \in Applications : application[a] = "SUBMITTED"}
Connected == {k \in Accounts : account[k].row # "NONE"}

Latest(S) == CHOOSE a \in S : \A b \in S : b <= a

At(r, step) == request[r].step = step
Go(r, step) == request' = [request EXCEPT ![r].step = step]

\* Every account is primary, and the query takes any one of them.
Payout == IF Connected = {} THEN {None} ELSE Connected

IsComplete(k) == k # None /\ account[k].row = "COMPLETED"

\* The request is answered.  A delivery is acknowledged, and not repeated.
Finish(r) ==
    /\ request' = [request EXCEPT ![r] = Idle]
    /\ events' = IF request[r].hook
                 THEN events \ {<<request[r].account, request[r].complete>>} ELSE events

\* The request is answered with an error.  Stripe delivers again.
Refuse(r) == request' = [request EXCEPT ![r] = Idle] /\ UNCHANGED events

-----------------------------------------------------------------------------
(* The application.                                                        *)

Apply(r) ==
    /\ At(r, "idle")
    /\ \A a \in Made : application[a] = "REJECTED"
    /\ Go(r, "applying")
    /\ UNCHANGED <<data, failed>>

\* The check is not repeated.
CommitApply(r) ==
    /\ At(r, "applying")
    /\ \E a \in Applications :
         /\ application[a] = "NONE" /\ \A b \in Applications : b < a => b \in Made
         /\ application' = [application EXCEPT ![a] = "SUBMITTED"]
    /\ Go(r, "settings")
    /\ UNCHANGED <<profile, station, account, manual, events, changes, failed>>

-----------------------------------------------------------------------------
(* Approval.                                                               *)

\* maybeAutoApprove: the settings, then the application and the account.
ReadSettings(r) ==
    /\ At(r, "settings")
    /\ IF manual THEN Finish(r) ELSE Go(r, "pending") /\ UNCHANGED events
    /\ UNCHANGED <<application, profile, station, account, manual, changes, failed>>

FindPending(r) ==
    /\ At(r, "pending")
    /\ \E k \in Payout :
         IF Pending # {} /\ IsComplete(k)
         THEN /\ request' = [request EXCEPT ![r].step = "approve", ![r].app = Latest(Pending)]
              /\ UNCHANGED events
         ELSE Finish(r)
    /\ UNCHANGED <<application, profile, station, account, manual, changes, failed>>

\* The administrator's button, on a page that may be old.
Approve(r) ==
    /\ At(r, "idle")
    /\ \E a \in Made : request' = [request EXCEPT ![r].step = "approve", ![r].app = a]
    /\ UNCHANGED <<data, failed>>

\* approveApplication: any application that is not APPROVED.
CheckApproval(r) ==
    /\ At(r, "approve")
    /\ \E k \in Payout :
         IF application[request[r].app] # "APPROVED" /\ IsComplete(k)
         THEN Go(r, "approving") /\ UNCHANGED events
         ELSE Refuse(r)
    /\ UNCHANGED <<application, profile, station, account, manual, changes, failed>>

CommitApproval(r) ==
    /\ At(r, "approving")
    /\ application' = [application EXCEPT ![request[r].app] = "APPROVED"]
    /\ profile' = [isApproved |-> TRUE, suspended |-> FALSE]
    /\ station' = "ACTIVE"
    /\ Finish(r)
    /\ UNCHANGED <<account, manual, changes, failed>>

Reject(r) ==
    /\ At(r, "idle")
    /\ \E a \in Pending : request' = [request EXCEPT ![r].step = "rejecting", ![r].app = a]
    /\ UNCHANGED <<data, failed>>

\* The status just checked is not checked again.
CommitRejection(r) ==
    /\ At(r, "rejecting")
    /\ application' = [application EXCEPT ![request[r].app] = "REJECTED"]
    /\ Finish(r)
    /\ UNCHANGED <<profile, station, account, manual, changes, failed>>

\* Mutant: the application keeps its status.
MutSuspendHost(a) ==
    /\ profile' = [isApproved |-> FALSE, suspended |-> TRUE]
    /\ station' = IF station = "NONE" THEN "NONE" ELSE "INACTIVE"
    /\ UNCHANGED <<application, account, manual, events, changes, request, failed>>

\* The applicant's profile is suspended, whichever application is named, and
\* whatever its status.
SuspendHost(a) ==
    /\ application' = [application EXCEPT ![a] = "SUSPENDED"]
    /\ profile' = [isApproved |-> FALSE, suspended |-> TRUE]
    /\ station' = IF station = "NONE" THEN "NONE" ELSE "INACTIVE"
    /\ UNCHANGED <<account, manual, events, changes, request, failed>>

\* The reinstatement does not give the approval back.
ReinstateHost ==
    /\ profile.suspended
    /\ profile' = [profile EXCEPT !.suspended = FALSE]
    /\ UNCHANGED <<application, station, account, manual, events, changes, request, failed>>

\* updateSettings writes, then reads the applications that may be approved.
UpdateSettings(r) ==
    /\ At(r, "idle")
    /\ \E on \in BOOLEAN :
         /\ manual' = on
         /\ Go(r, IF on THEN "idle" ELSE "listing")
    /\ UNCHANGED <<application, profile, station, account, events, changes, failed>>

ListApplications(r) ==
    /\ At(r, "listing")
    /\ \E k \in Payout : IF Pending # {} /\ IsComplete(k)
                         THEN Go(r, "settings") /\ UNCHANGED events
                         ELSE Finish(r)
    /\ UNCHANGED <<application, profile, station, account, manual, changes, failed>>

-----------------------------------------------------------------------------
(* Stripe Connect.                                                         *)

\* createStripeConnectLink, when there is no account yet.
Connect(r) ==
    /\ At(r, "idle") /\ Made # {} /\ Connected = {}
    /\ Go(r, "connecting")
    /\ UNCHANGED <<data, failed>>

\* Stripe has opened an account; the row is written without a second look.
CommitConnect(r) ==
    /\ At(r, "connecting")
    /\ \E k \in Accounts \ Connected : account' = [account EXCEPT ![k].row = "IN_PROGRESS"]
    /\ Finish(r)
    /\ UNCHANGED <<application, profile, station, manual, changes, failed>>

\* The applicant completes an account he was sent to, or Stripe asks for more.
ChangeAtStripe(k) ==
    /\ k \in Connected /\ changes < MaxChanges
    /\ changes' = changes + 1
    /\ account' = [account EXCEPT ![k].complete = ~@]
    /\ events' = events \cup {<<k, ~account[k].complete>>}
    /\ UNCHANGED <<application, profile, station, manual, request, failed>>

\* syncStripeStatus asks Stripe about one of the accounts.
Sync(r) ==
    /\ At(r, "idle")
    /\ \E k \in Connected :
         request' = [request EXCEPT ![r] = [Idle EXCEPT !.step = "syncing", !.account = k,
                                                        !.complete = account[k].complete]]
    /\ UNCHANGED <<data, failed>>

\* account.updated brings the state the account had at the time.
Deliver(r) ==
    /\ At(r, "idle")
    /\ \E e \in events :
         request' = [request EXCEPT ![r] = [Idle EXCEPT !.step = "syncing", !.account = e[1],
                                                        !.complete = e[2], !.hook = TRUE]]
    /\ UNCHANGED <<data, failed>>

\* Mutant: the sync leaves the approval to the administrator.
MutApplyStripeAccountState(r) ==
    /\ At(r, "syncing")
    /\ account' = [account EXCEPT ![request[r].account].row =
                      IF request[r].complete THEN "COMPLETED" ELSE "IN_PROGRESS"]
    /\ Finish(r)
    /\ UNCHANGED <<application, profile, station, manual, changes, failed>>

ApplyStripeAccountState(r) ==
    /\ At(r, "syncing")
    /\ account' = [account EXCEPT ![request[r].account].row =
                      IF request[r].complete THEN "COMPLETED" ELSE "IN_PROGRESS"]
    /\ Go(r, "settings")
    /\ UNCHANGED <<application, profile, station, manual, events, changes, failed>>

\* The process or its database stops, or Stripe does not answer.
Die(r) ==
    /\ ~At(r, "idle")
    /\ request' = [request EXCEPT ![r] = Idle]
    /\ failed' = TRUE
    /\ UNCHANGED data

-----------------------------------------------------------------------------

OnboardingPage(r) == Apply(r) \/ Connect(r) \/ Sync(r)
AdminHostsPage(r) == Approve(r) \/ Reject(r) \/ UpdateSettings(r)

Proceed(r) ==
    \/ CommitApply(r) \/ ReadSettings(r) \/ FindPending(r) \/ CheckApproval(r)
    \/ CommitApproval(r) \/ CommitRejection(r) \/ ListApplications(r)
    \/ CommitConnect(r) \/ ApplyStripeAccountState(r)

Next ==
    \/ \E r \in Requests : OnboardingPage(r) \/ AdminHostsPage(r) \/ Deliver(r)
                           \/ Proceed(r) \/ Die(r)
    \/ \E a \in Made : SuspendHost(a)
    \/ ReinstateHost
    \/ \E k \in Accounts : ChangeAtStripe(k)

Spec == Init /\ [][Next]_vars

-----------------------------------------------------------------------------

\* What the onboarding page tells the applicant, when it is loaded.
HasApp         == Made # {}
StripeComplete == Connected # {} /\ \A k \in Connected : IsComplete(k)

Told ==
    CASE profile.isApproved -> "approved"
      [] ~profile.isApproved /\ ~HasApp -> "apply"
      [] ~profile.isApproved /\ HasApp /\ manual -> "under review"
      [] ~profile.isApproved /\ HasApp /\ ~manual ->
            IF StripeComplete THEN "processing activation" ELSE "complete Stripe"

\* An applicant is not told for good that his activation is being processed:
\* when no request is under way, the application was decided, for whoever comes
\* last of the applicant, Stripe's news and the switch of the settings sees what
\* the others wrote, unless it died on the way.
NobodyLeftWaiting ==
    /\ \A r \in Requests : At(r, "idle")
    /\ ~failed /\ Told = "processing activation"
    => application[Latest(Made)] # "SUBMITTED"

\* Whatever suspensions, rejections and approvals overtake each other, an
\* applicant who is no host has an application that can be approved.
CanComeBack ==
    Made # {} /\ ~profile.isApproved => \E a \in Made : application[a] # "APPROVED"

=============================================================================
