------------------------------ MODULE Accounts ------------------------------
(***************************************************************************)
(* One email address: the account registered with it, its sessions, the    *)
(* tokens mailed to it, the invitation an admin sent to it, and the        *)
(* counters in Redis that lock it out after failed attempts.               *)
(*                                                                         *)
(* A request reads the account, hashes or verifies a password for a good   *)
(* part of a second, and writes in a transaction of its own that looks at  *)
(* nothing again; requests of the user, of other devices and of admins     *)
(* meet in between.  The counters are those of the address as it is typed; *)
(* a username, another spelling and an IP address have their own, which    *)
(* work alike.  The rows of sessions and tokens that ended, expired or     *)
(* were used are left out, for nothing brings one back, and their ids are  *)
(* used again once no request holds them.                                  *)
(***************************************************************************)
EXTENDS Integers

CONSTANTS
    Sessions, Tokens,   \* ids of their rows
    Requests,           \* requests under way at once
    Passwords,
    None,
    MaxFailed,          \* MAX_FAILED_ATTEMPTS_PER_EMAIL
    Lockout,            \* LOCKOUT_DURATION_SECONDS, in ticks
    MaxFaults           \* bound on the crashes and failures of Redis

ASSUME NoneAssumption == None \notin Passwords \cup Sessions \cup Tokens
ASSUME LimitsAssumption ==
    MaxFailed \in Nat \ {0} /\ Lockout \in Nat \ {0} /\ MaxFaults \in Nat

VARIABLES
    account,      \* the row of users
    session,      \* the sessions neither revoked nor expired
    token,        \* the tokens mailed and neither used nor expired
    invitation,   \* admin_invitations
    counter,      \* auth:failed:email and auth:lockout:email
    request,      \* the requests under way
    faults        \* the faults so far

vars == <<account, session, token, invitation, counter, request, faults>>

-----------------------------------------------------------------------------
(* Rows *)

AccountStatus == {"PENDING_EMAIL_VERIFICATION", "ACTIVE", "SUSPENDED", "BANNED", "DEACTIVATED"}
Account == [status : AccountStatus, verified : BOOLEAN, password : Passwords]

Kinds == {"verification", "reset"}
InvitationStatus == {"none", "PENDING", "ACCEPTED"}

\* `fails' counts to MaxFailed, beyond which nothing differs; `left' and `lock'
\* are the times to live of the two keys, 0 without one.
Counter == [fails : 0..MaxFailed, left : 0..Lockout, lock : 0..Lockout]

Recording == {"clear", "count", "expire", "lock"}   \* the steps of recordAttempt
Steps     == Recording \cup {"session", "commit", "revoke"}
Request   ==
    [op : {"signIn", "verify", "reset", "change"},
     step : Steps,
     of : Tokens \cup Sessions \cup {None},
     password : Passwords \cup {None},
     read : AccountStatus \cup {None},       \* what it has read of the account
     fails : 0..MaxFailed]                   \* what incr answered

ASSUME RowAssumption == None \notin Account \cup Request \cup Kinds   \* NULL is no row

Exists         == account # None
Closed         == Exists /\ account.status \in {"SUSPENDED", "BANNED", "DEACTIVATED"}
Valid(s)       == s \in session /\ Exists /\ ~Closed
At(r, step)    == request[r] # None /\ request[r].step = step

EndSessions(S) == session' = session \ S
NewToken(t, kind) ==
    /\ token[t] = None
    /\ \A r \in Requests : request[r] # None => request[r].of # t
    /\ token' = [token EXCEPT ![t] = kind]
UseToken(t) == token' = [token EXCEPT ![t] = None]

Begin(r, op, step, of, password, read) ==
    /\ request[r] = None
    /\ request' = [request EXCEPT ![r] =
          [op |-> op, step |-> step, of |-> of, password |-> password, read |-> read,
           fails |-> 0]]
GoTo(r, step) == request' = [request EXCEPT ![r].step = step]
End(r)        == request' = [request EXCEPT ![r] = None]

Fault == faults < MaxFaults /\ faults' = faults + 1

Init ==
    /\ account = None
    /\ session = {}
    /\ token = [t \in Tokens |-> None]
    /\ invitation = "none"
    /\ counter = [fails |-> 0, left |-> 0, lock |-> 0]
    /\ request = [r \in Requests |-> None]
    /\ faults = 0

-----------------------------------------------------------------------------
(* AuthProtectionService *)

\* Without Redis the action is allowed.
verifyActionAllowed ==
    \/ counter.lock = 0 /\ UNCHANGED faults
    \/ Fault

\* recordAttempt, successful: the counter goes, a lock stays.
Clear(r) ==
    /\ At(r, "clear")
    /\ counter' = [counter EXCEPT !.fails = 0, !.left = 0]
    /\ GoTo(r, "session")
    /\ UNCHANGED <<account, session, token, invitation, faults>>

\* Failed: one more,
AfterCount(n) == IF n = 1 THEN "expire" ELSE IF n >= MaxFailed THEN "lock" ELSE "done"

Count(r) ==
    /\ At(r, "count")
    /\ LET n == IF counter.fails < MaxFailed THEN counter.fails + 1 ELSE MaxFailed
       IN  /\ counter' = [counter EXCEPT !.fails = n]
           /\ request' = [request EXCEPT ![r] =
                 IF AfterCount(n) = "done" THEN None
                 ELSE [@ EXCEPT !.step = AfterCount(n), !.fails = n]]
    /\ UNCHANGED <<account, session, token, invitation, faults>>

\* Mutant: the key is given no time to live.
MutExpireKey(r) == counter' = counter

\* the first starts the key's time to live, if the key is still there,
ExpireKey(r) ==
    counter' = IF counter.fails > 0 THEN [counter EXCEPT !.left = Lockout] ELSE counter

Expire(r) ==
    /\ At(r, "expire")
    /\ ExpireKey(r)
    /\ IF request[r].fails >= MaxFailed THEN GoTo(r, "lock") ELSE End(r)
    /\ UNCHANGED <<account, session, token, invitation, faults>>

\* and one too many locks the address.
SetLock(r) ==
    /\ At(r, "lock")
    /\ counter' = [counter EXCEPT !.lock = Lockout]
    /\ End(r)
    /\ UNCHANGED <<account, session, token, invitation, faults>>

\* A failure of Redis is logged and forgotten.
RedisFails(r) ==
    /\ request[r] # None /\ request[r].step \in Recording /\ Fault
    /\ IF request[r].step = "clear" THEN GoTo(r, "session") ELSE End(r)
    /\ UNCHANGED <<account, session, token, invitation, counter>>

\* Time passes.  Redis answers within milliseconds, a tick is minutes.
Tick ==
    /\ \A r \in Requests : request[r] # None => request[r].step \notin Recording
    /\ counter.left > 0 \/ counter.lock > 0
    /\ counter' = [fails |-> IF counter.left = 1 THEN 0 ELSE counter.fails,
                   left  |-> IF counter.left = 0 THEN 0 ELSE counter.left - 1,
                   lock  |-> IF counter.lock = 0 THEN 0 ELSE counter.lock - 1]
    /\ UNCHANGED <<account, session, token, invitation, request, faults>>

-----------------------------------------------------------------------------
(* AuthService *)

\* The email and the username are free: the account and a verification token
\* are committed, then the attempt is recorded and a session is made.
register(r, p) ==
    /\ verifyActionAllowed /\ ~Exists
    /\ account' = [status |-> "PENDING_EMAIL_VERIFICATION", verified |-> FALSE,
                   password |-> p]
    /\ \E t \in Tokens : NewToken(t, "verification")
    /\ Begin(r, "signIn", "clear", None, None, None)
    /\ UNCHANGED <<session, invitation, counter>>

RefuseRegister(r) ==
    /\ verifyActionAllowed /\ Exists
    /\ Begin(r, "signIn", "count", None, None, None)
    /\ UNCHANGED <<account, session, token, invitation, counter>>

\* The user is read and the password and status are checked.
Admits(p) == Exists /\ account.password = p /\ ~Closed

login(r, p) ==
    /\ verifyActionAllowed
    /\ Begin(r, "signIn", IF Admits(p) THEN "clear" ELSE "count", None, None, None)
    /\ UNCHANGED <<account, session, token, invitation, counter>>

\* With the username, or the address spelled otherwise, the counters of that
\* name are asked and written; a refused login leaves nothing else behind.
loginByAnotherName(r, p) ==
    /\ Admits(p)
    /\ Begin(r, "signIn", "session", None, None, None)
    /\ UNCHANGED <<account, session, token, invitation, counter, faults>>

createSessionCookie(r) ==
    /\ At(r, "session")
    /\ \E s \in Sessions \ session :
          /\ \A q \in Requests : request[q] # None => request[q].of # s
          /\ session' = session \cup {s}
    /\ End(r)
    /\ UNCHANGED <<account, token, invitation, counter, faults>>

resendEmailVerification(s, t) ==
    /\ Valid(s) /\ ~account.verified /\ verifyActionAllowed
    /\ NewToken(t, "verification")
    /\ UNCHANGED <<account, session, invitation, counter, request>>

\* The token and the user are read,
verifyEmail(r, t) ==
    /\ token[t] = "verification"
    /\ Begin(r, "verify", "commit", t, None, account.status)
    /\ UNCHANGED <<account, session, token, invitation, counter, faults>>

\* Mutants: the status that was read is written; the account is made active.
MutNewStatus(read) == read
MutActive(read) == "ACTIVE"

NewStatus(read) == IF read = "PENDING_EMAIL_VERIFICATION" THEN "ACTIVE" ELSE read

\* and the token is used and the status written, whatever they are by then.
CommitVerify(r) ==
    /\ At(r, "commit") /\ request[r].op = "verify"
    /\ UseToken(request[r].of)
    /\ account' = [account EXCEPT !.status = NewStatus(request[r].read), !.verified = TRUE]
    /\ End(r)
    /\ UNCHANGED <<session, invitation, counter, faults>>

requestPasswordReset(t) ==
    /\ verifyActionAllowed /\ Exists
    /\ NewToken(t, "reset")
    /\ UNCHANGED <<account, session, invitation, counter, request>>

confirmPasswordReset(r, t, p) ==
    /\ token[t] = "reset"
    /\ Begin(r, "reset", "commit", t, p, None)
    /\ UNCHANGED <<account, session, token, invitation, counter, faults>>

CommitReset(r) ==
    /\ At(r, "commit") /\ request[r].op = "reset"
    /\ UseToken(request[r].of)
    /\ account' = [account EXCEPT !.password = request[r].password]
    /\ GoTo(r, "revoke")
    /\ UNCHANGED <<session, invitation, counter, faults>>

\* All sessions, in a transaction of its own.
RevokeAll(r) ==
    /\ At(r, "revoke")
    /\ EndSessions(session)
    /\ End(r)
    /\ UNCHANGED <<account, token, invitation, counter, faults>>

-----------------------------------------------------------------------------
(* AccountService and SessionService, for a request with the cookie of s *)

\* The current password was checked; a wrong one is refused.
changePassword(r, s, p) ==
    /\ Valid(s)
    /\ Begin(r, "change", "commit", s, p, None)
    /\ UNCHANGED <<account, session, token, invitation, counter, faults>>

CommitChange(r) ==
    /\ At(r, "commit") /\ request[r].op = "change"
    /\ account' = [account EXCEPT !.password = request[r].password]
    /\ EndSessions(session \ {request[r].of})
    /\ End(r)
    /\ UNCHANGED <<token, invitation, counter, faults>>

\* Logging out asks for nothing but the cookie.
logout(s) ==
    /\ s \in session
    /\ EndSessions({s})
    /\ UNCHANGED <<account, token, invitation, counter, request, faults>>

logoutAll(s) ==
    /\ Valid(s)
    /\ EndSessions(session)
    /\ UNCHANGED <<account, token, invitation, counter, request, faults>>

revokeSession(s, x) ==
    /\ Valid(s) /\ x \in session
    /\ EndSessions({x})
    /\ UNCHANGED <<account, token, invitation, counter, request, faults>>

-----------------------------------------------------------------------------
(* AdminUsersService, AdminInvitationService, and what happens by itself *)

SetStatus(status) == Exists /\ account' = [account EXCEPT !.status = status]

\* In one transaction with the sessions.
Close(status) ==
    /\ SetStatus(status)
    /\ EndSessions(session)
    /\ UNCHANGED <<token, invitation, counter, request, faults>>

suspendUser == Close("SUSPENDED")
banUser     == Close("BANNED")
deleteUser  == Close("DEACTIVATED")

\* Whatever the status is.
unsuspendUser ==
    /\ SetStatus("ACTIVE")
    /\ UNCHANGED <<session, token, invitation, counter, request, faults>>

revokeUserSessions ==
    /\ Exists /\ EndSessions(session)
    /\ UNCHANGED <<account, token, invitation, counter, request, faults>>

createInvitation ==
    /\ invitation = "none" /\ invitation' = "PENDING"
    /\ UNCHANGED <<account, session, token, counter, request, faults>>

\* The route is public, so that no session is looked for and the invited
\* address must be new.  The account is verified at once.  Attempts are counted
\* under a name made of the IP address, which a lock of the email does not stop.
acceptInvitation(p) ==
    /\ invitation = "PENDING" /\ ~Exists
    /\ account' = [status |-> "ACTIVE", verified |-> TRUE, password |-> p]
    /\ invitation' = "ACCEPTED"
    /\ UNCHANGED <<session, token, counter, request, faults>>

\* A session, a token or an invitation expires.
Lapse ==
    /\ \/ \E s \in session : EndSessions({s}) /\ UNCHANGED <<token, invitation>>
       \/ \E t \in Tokens : /\ token[t] # None /\ UseToken(t)
                            /\ UNCHANGED <<session, invitation>>
       \/ invitation = "PENDING" /\ invitation' = "none" /\ UNCHANGED <<session, token>>
    /\ UNCHANGED <<account, counter, request, faults>>

\* The API stops, or its database does, and the request goes no further.
Crash(r) ==
    /\ request[r] # None /\ request[r].step \notin Recording /\ Fault
    /\ End(r)
    /\ UNCHANGED <<account, session, token, invitation, counter>>

-----------------------------------------------------------------------------
(* The specification *)

\* The pages of the site, by what their forms send.  An unverified user is
\* offered another mail by the API alone.
RegisterPage(r) == RefuseRegister(r) \/ \E p \in Passwords : register(r, p)
LoginPage(r)    == \E p \in Passwords : login(r, p) \/ loginByAnotherName(r, p)
ForgotPage      == \E t \in Tokens : requestPasswordReset(t)
ResetPage(r)    == \E t \in Tokens, p \in Passwords : confirmPasswordReset(r, t, p)
VerifyPage(r)   == \E t \in Tokens : verifyEmail(r, t)

SecurityPage(r) ==
    \E s \in Sessions : \/ \E p \in Passwords : changePassword(r, s, p)
                        \/ logoutAll(s)
                        \/ \E x \in Sessions : revokeSession(s, x)

\* AuthController
Auth(r) ==
    \/ RegisterPage(r) \/ LoginPage(r) \/ ForgotPage \/ ResetPage(r) \/ VerifyPage(r)
    \/ \E s \in Sessions : logout(s) \/ \E t \in Tokens : resendEmailVerification(s, t)

Proceed(r) ==
    \/ Clear(r) \/ Count(r) \/ Expire(r) \/ SetLock(r) \/ createSessionCookie(r)
    \/ CommitVerify(r) \/ CommitReset(r) \/ RevokeAll(r) \/ CommitChange(r)

Admin ==
    \/ suspendUser \/ unsuspendUser \/ banUser \/ deleteUser \/ revokeUserSessions
    \/ createInvitation \/ \E p \in Passwords : acceptInvitation(p)

Next ==
    \/ \E r \in Requests : Auth(r) \/ SecurityPage(r) \/ Proceed(r) \/ RedisFails(r) \/ Crash(r)
    \/ Admin \/ Lapse \/ Tick

Spec == Init /\ [][Next]_vars

-----------------------------------------------------------------------------
(* Properties *)

TypeOK ==
    /\ account \in Account \cup {None}
    /\ session \in SUBSET Sessions
    /\ token \in [Tokens -> Kinds \cup {None}]
    /\ invitation \in InvitationStatus
    /\ counter \in Counter
    /\ request \in [Requests -> Request \cup {None}]
    /\ faults \in 0..MaxFaults

\* Unless Redis or a request fails halfway, a lock that has run out leaves no
\* counter at its limit behind, with which one more failure would lock the
\* address again: the key of the counter is gone before that of the lock, though
\* attempts at once count, clear and expire it in any order.
LockoutEnds ==
    faults = 0 /\ counter.lock = 0 /\ counter.fails = MaxFailed =>
        \E r \in Requests : request[r] # None /\ request[r].step \in {"expire", "lock"}

\* An account whose email was verified is never pending again, although each
\* verification writes a status it read before others wrote theirs.
PendingIsUnverified ==
    Exists /\ account.status = "PENDING_EMAIL_VERIFICATION" => ~account.verified

\* An account an admin closed opens again by an admin, or by a verification
\* that read it before it was closed; nothing else the user does opens it.
ClosedStaysClosed ==
    [][Closed /\ ~Closed' =>
          \/ unsuspendUser
          \/ \E r \in Requests :
                At(r, "commit") /\ request[r].read \in {"PENDING_EMAIL_VERIFICATION", "ACTIVE"}]_vars

=============================================================================
