--------------------------- MODULE AccountsProofs ---------------------------
(***************************************************************************)
(* Theorems about an account, Accounts, and about the deletion of media,   *)
(* MediaDeletion, as the instance D; for every value of their constants.   *)
(* The two share no variable.                                              *)
(***************************************************************************)
EXTENDS MCAccounts, TLAPS

USE NoneAssumption, LimitsAssumption, RowAssumption

-----------------------------------------------------------------------------
(* Types *)

\* Tokens are an account's, and a request that is about to write has read one.
Grounded ==
    /\ \A t \in Tokens : token[t] # None => Exists
    /\ \A r \in Requests : At(r, "commit") =>
          /\ Exists
          /\ request[r].op = "verify" => request[r].read \in AccountStatus
          /\ request[r].op \in {"reset", "change"} => request[r].password \in Passwords

Shape == TypeOK /\ Grounded

\* A request that is under way is rewritten, started or ended.
Moves(r, q) == request' = [request EXCEPT ![r] = q]

\* A request about to commit has read the account.
Ready(q) ==
    q.step = "commit" =>
       /\ Exists
       /\ q.op = "verify" => q.read \in AccountStatus
       /\ q.op \in {"reset", "change"} => q.password \in Passwords

\* The account stays one, no token comes of nothing, and at most one request
\* moves, to a proper one.
Step ==
    /\ account' \in Account \cup {None} /\ (Exists => Exists')
    /\ token' \in [Tokens -> Kinds \cup {None}]
    /\ \A t \in Tokens : token'[t] # None => token[t] # None \/ Exists'
    /\ \/ UNCHANGED request
       \/ \E r \in Requests, q \in Request \cup {None} :
             Moves(r, q) /\ (q # None => Ready(q))

\* The four ways a request moves.
LEMMA Begun ==
    ASSUME TypeOK, NEW r \in Requests,
           NEW op \in {"signIn", "verify", "reset", "change"}, NEW step \in Steps,
           NEW of \in Tokens \cup Sessions \cup {None}, NEW password \in Passwords \cup {None},
           NEW read \in AccountStatus \cup {None},
           Begin(r, op, step, of, password, read),
           step = "commit" =>
              /\ Exists
              /\ op = "verify" => read \in AccountStatus
              /\ op \in {"reset", "change"} => password \in Passwords
    PROVE  \E q \in Request : Moves(r, q) /\ Ready(q)
<1> DEFINE q == [op |-> op, step |-> step, of |-> of, password |-> password, read |-> read,
                 fails |-> 0]
<1>1. q \in Request
    BY DEF Request
<1>2. Moves(r, q)
    BY DEF Begin, Moves
<1>3. Ready(q)
    BY DEF Ready
<1> QED BY <1>1, <1>2, <1>3

LEMMA Gone ==
    ASSUME TypeOK, NEW r \in Requests, NEW step \in Steps \ {"commit"}, request[r] # None,
           GoTo(r, step)
    PROVE  \E q \in Request : Moves(r, q) /\ Ready(q)
<1> DEFINE q == [request[r] EXCEPT !.step = step]
<1>1. request[r] \in Request /\ request \in [Requests -> Request \cup {None}]
    BY DEF TypeOK
<1>2. q \in Request /\ q.step = step
    BY <1>1 DEF Request
<1>3. request' = [request EXCEPT ![r] = q]
    BY <1>1 DEF GoTo
<1> HIDE DEF q
<1> QED BY <1>2, <1>3 DEF Moves, Ready

LEMMA Ended ==
    ASSUME NEW r \in Requests, End(r)
    PROVE  Moves(r, None)
BY DEF End, Moves

\* Proved once, used for what leaves the account and the tokens alone.
LEMMA OnlyRequest ==
    ASSUME TypeOK, UNCHANGED <<account, token>>,
           \/ UNCHANGED request
           \/ \E r \in Requests, q \in Request \cup {None} : Moves(r, q) /\ (q # None => Ready(q))
    PROVE  Step
BY DEF TypeOK, Step, Exists

LEMMA NewTokenTyped ==
    ASSUME TypeOK, NEW t \in Tokens, NEW kind \in Kinds, NewToken(t, kind)
    PROVE  token' \in [Tokens -> Kinds \cup {None}]
BY DEF TypeOK, NewToken

\* AuthService's and AccountService's requests begin, and admins act.
LEMMA AuthStep ==
    ASSUME Shape, NEW r \in Requests, Auth(r) \/ SecurityPage(r)
    PROVE  Step
<1>1. TypeOK
    BY DEF Shape
<1>2. ASSUME NEW p \in Passwords, register(r, p)
      PROVE  Step
    <2>1. account' \in Account
        BY <1>2 DEF register, Account, AccountStatus
    <2>2. token' \in [Tokens -> Kinds \cup {None}]
        BY <1>1, <1>2, NewTokenTyped DEF register, Kinds
    <2>3. \E q \in Request : Moves(r, q) /\ Ready(q)
        BY <1>1, <1>2, Begun DEF register, Steps, Recording
    <2>4. Exists'
        BY <2>1 DEF Exists
    <2> QED BY <2>1, <2>2, <2>3, <2>4 DEF Step
<1>3. ASSUME NEW step \in {"clear", "count", "session"}, UNCHANGED <<account, token>>,
             Begin(r, "signIn", step, None, None, None)
      PROVE  Step
    <2>1. \E q \in Request : Moves(r, q) /\ Ready(q)
        BY <1>1, <1>3, Begun DEF Steps, Recording
    <2> QED BY <1>1, <1>3, <2>1, OnlyRequest
<1>4. CASE RefuseRegister(r) \/ \E p \in Passwords : login(r, p) \/ loginByAnotherName(r, p)
    BY <1>3, <1>4 DEF RefuseRegister, login, loginByAnotherName
<1>5. ASSUME NEW t \in Tokens, NEW kind \in Kinds, NewToken(t, kind), Exists,
             UNCHANGED <<account, request>>
      PROVE  Step
    <2>1. token' \in [Tokens -> Kinds \cup {None}]
        BY <1>1, <1>5, NewTokenTyped
    <2>2. account' \in Account \cup {None} /\ Exists'
        BY <1>1, <1>5 DEF TypeOK, Exists
    <2> QED BY <1>5, <2>1, <2>2 DEF Step
<1>6. CASE ForgotPage \/ \E s \in Sessions : \E t \in Tokens : resendEmailVerification(s, t)
    BY <1>5, <1>6 DEF ForgotPage, requestPasswordReset, resendEmailVerification, Valid, Kinds
<1>7. ASSUME NEW t \in Tokens, verifyEmail(r, t)
      PROVE  Step
    <2>1. Exists
        BY <1>7 DEF Shape, Grounded, verifyEmail, Kinds
    <2>2. account.status \in AccountStatus
        BY <1>1, <2>1 DEF TypeOK, Exists, Account
    <2>3. \E q \in Request : Moves(r, q) /\ Ready(q)
        BY <1>1, <1>7, <2>1, <2>2, Begun DEF verifyEmail, Steps
    <2> QED BY <1>1, <1>7, <2>3, OnlyRequest DEF verifyEmail
<1>8. ASSUME NEW t \in Tokens, NEW p \in Passwords, confirmPasswordReset(r, t, p)
      PROVE  Step
    <2>1. Exists
        BY <1>8 DEF Shape, Grounded, confirmPasswordReset, Kinds
    <2>2. \E q \in Request : Moves(r, q) /\ Ready(q)
        BY <1>1, <1>8, <2>1, Begun DEF confirmPasswordReset, Steps
    <2> QED BY <1>1, <1>8, <2>2, OnlyRequest DEF confirmPasswordReset
<1>9. ASSUME NEW s \in Sessions, NEW p \in Passwords, changePassword(r, s, p)
      PROVE  Step
    <2>1. \E q \in Request : Moves(r, q) /\ Ready(q)
        BY <1>1, <1>9, Begun DEF changePassword, Steps, Valid
    <2> QED BY <1>1, <1>9, <2>1, OnlyRequest DEF changePassword
<1>10. ASSUME NEW s \in Sessions, NEW x \in Sessions,
              logout(s) \/ logoutAll(s) \/ revokeSession(s, x)
       PROVE  Step
    BY <1>1, <1>10, OnlyRequest DEF logout, logoutAll, revokeSession
<1>11. CASE SecurityPage(r)
    BY <1>9, <1>10, <1>11 DEF SecurityPage
<1>12. CASE Auth(r)
    BY <1>2, <1>4, <1>6, <1>7, <1>8, <1>10, <1>12
       DEF Auth, RegisterPage, LoginPage, ResetPage, VerifyPage
<1> QED BY <1>11, <1>12

LEMMA UseTokenTyped ==
    ASSUME TypeOK, NEW t, UseToken(t)
    PROVE  /\ token' \in [Tokens -> Kinds \cup {None}]
           /\ \A u \in Tokens : token'[u] # None => token[u] # None
BY DEF TypeOK, UseToken

\* A request's later steps.
LEMMA ProceedStep ==
    ASSUME Shape, NEW r \in Requests, Proceed(r) \/ RedisFails(r) \/ Crash(r)
    PROVE  Step
<1>1. TypeOK /\ account \in Account \cup {None}
    BY DEF Shape, TypeOK
<1>2. ASSUME UNCHANGED <<account, token>>, End(r)
      PROVE  Step
    BY <1>1, <1>2, Ended, OnlyRequest
<1>3. ASSUME UNCHANGED <<account, token>>, NEW step \in Steps \ {"commit"}, request[r] # None,
             GoTo(r, step)
      PROVE  Step
    BY <1>1, <1>3, Gone, OnlyRequest
<1>4. CASE Clear(r)
    BY <1>3, <1>4 DEF Clear, At, Steps
<1>5. CASE Count(r)
    <2> DEFINE n == IF counter.fails < MaxFailed THEN counter.fails + 1 ELSE MaxFailed
               q == [request[r] EXCEPT !.step = AfterCount(n), !.fails = n]
    <2>1. n \in 0..MaxFailed
        BY <1>1 DEF TypeOK, Counter
    <2>2. request[r] \in Request /\ request \in [Requests -> Request \cup {None}]
        BY <1>1, <1>5 DEF Count, At, TypeOK
    <2>3. \/ Moves(r, None)
          \/ AfterCount(n) \in {"expire", "lock"} /\ Moves(r, q)
        BY <1>5, <2>2 DEF Count, Moves, AfterCount
    <2>4. AfterCount(n) \in {"expire", "lock"} => q \in Request /\ q.step # "commit"
        BY <2>1, <2>2 DEF Request, Steps, Recording
    <2> HIDE DEF q, n
    <2>5. UNCHANGED <<account, token>>
        BY <1>5 DEF Count
    <2> QED BY <1>1, <2>3, <2>4, <2>5, OnlyRequest DEF Ready
<1>6. CASE Expire(r)
    BY <1>2, <1>3, <1>6 DEF Expire, At, Steps, Recording
<1>7. CASE SetLock(r) \/ createSessionCookie(r) \/ RevokeAll(r) \/ Crash(r)
    BY <1>2, <1>7 DEF SetLock, createSessionCookie, RevokeAll, Crash
<1>8. CASE RedisFails(r)
    BY <1>2, <1>3, <1>8 DEF RedisFails, Steps
<1>9. ASSUME At(r, "commit")
      PROVE  /\ Exists /\ account \in Account
             /\ request[r].op = "verify" => request[r].read \in AccountStatus
             /\ request[r].op \in {"reset", "change"} => request[r].password \in Passwords
    BY <1>1, <1>9 DEF Shape, Grounded, Exists
<1>10. CASE CommitVerify(r)
    <2> DEFINE status == NewStatus(request[r].read)
    <2>1. status \in AccountStatus
        BY <1>9, <1>10 DEF CommitVerify, NewStatus, AccountStatus
    <2> HIDE DEF status
    <2>2. [account EXCEPT !.status = status, !.verified = TRUE] \in Account
        BY <1>9, <1>10, <2>1 DEF CommitVerify, Account
    <2>3. account' \in Account /\ Exists'
        BY <1>10, <2>2 DEF CommitVerify, status, Exists
    <2>4. Moves(r, None)
        BY <1>10, Ended DEF CommitVerify
    <2>5. /\ token' \in [Tokens -> Kinds \cup {None}]
          /\ \A u \in Tokens : token'[u] # None => token[u] # None
        BY <1>1, <1>10, UseTokenTyped DEF CommitVerify
    <2> QED BY <2>3, <2>4, <2>5 DEF Step
<1>11. ASSUME At(r, "commit"), request[r].op \in {"reset", "change"},
              account' = [account EXCEPT !.password = request[r].password]
       PROVE  account' \in Account /\ Exists'
    <2>1. [account EXCEPT !.password = request[r].password] \in Account
        BY <1>9, <1>11 DEF Account
    <2> QED BY <1>11, <2>1 DEF Exists
<1>12. CASE CommitReset(r)
    <2>1. account' \in Account /\ Exists'
        BY <1>11, <1>12 DEF CommitReset
    <2>2. \E q \in Request : Moves(r, q) /\ Ready(q)
        BY <1>1, <1>12, Gone DEF CommitReset, At, Steps
    <2>3. /\ token' \in [Tokens -> Kinds \cup {None}]
          /\ \A u \in Tokens : token'[u] # None => token[u] # None
        BY <1>1, <1>12, UseTokenTyped DEF CommitReset
    <2> QED BY <2>1, <2>2, <2>3 DEF Step
<1>13. CASE CommitChange(r)
    <2>1. account' \in Account /\ Exists'
        BY <1>11, <1>13 DEF CommitChange
    <2>2. Moves(r, None) /\ UNCHANGED token
        BY <1>13, Ended DEF CommitChange
    <2> QED BY <1>1, <2>1, <2>2 DEF Step, TypeOK
<1> QED BY <1>4, <1>5, <1>6, <1>7, <1>8, <1>10, <1>12, <1>13 DEF Proceed

LEMMA OtherStep ==
    ASSUME Shape, Admin \/ Lapse \/ Tick \/ UNCHANGED vars
    PROVE  Step
<1>1. TypeOK
    BY DEF Shape
<1>2. ASSUME UNCHANGED <<account, token, request>>
      PROVE  Step
    BY <1>1, <1>2, OnlyRequest
<1>3. ASSUME NEW status \in AccountStatus, SetStatus(status), UNCHANGED <<token, request>>
      PROVE  Step
    <2>1. account \in Account
        BY <1>1, <1>3 DEF TypeOK, SetStatus, Exists
    <2>2. [account EXCEPT !.status = status] \in Account
        BY <2>1 DEF Account
    <2> QED BY <1>1, <1>3, <2>2 DEF Step, TypeOK, SetStatus, Exists
<1>4. CASE suspendUser \/ banUser \/ deleteUser \/ unsuspendUser
    BY <1>3, <1>4 DEF suspendUser, banUser, deleteUser, unsuspendUser, Close, AccountStatus
<1>5. ASSUME NEW p \in Passwords, acceptInvitation(p)
      PROVE  Step
    <2>1. account' \in Account
        BY <1>5 DEF acceptInvitation, Account, AccountStatus
    <2> QED BY <1>1, <1>5, <2>1 DEF Step, TypeOK, acceptInvitation, Exists
<1>6. CASE revokeUserSessions \/ createInvitation \/ Tick \/ UNCHANGED vars
    BY <1>2, <1>6 DEF revokeUserSessions, createInvitation, Tick, vars
<1>7. CASE Lapse
    <2>1. UNCHANGED <<account, request>>
        BY <1>7 DEF Lapse
    <2>2. UNCHANGED token \/ \E t \in Tokens : UseToken(t)
        BY <1>7 DEF Lapse
    <2>3. /\ token' \in [Tokens -> Kinds \cup {None}]
          /\ \A u \in Tokens : token'[u] # None => token[u] # None
        BY <1>1, <2>2, UseTokenTyped DEF TypeOK
    <2> QED BY <1>1, <2>1, <2>3 DEF Step, TypeOK, Exists
<1> QED BY <1>4, <1>5, <1>6, <1>7 DEF Admin

LEMMA AnyStep ==
    ASSUME Shape, [Next]_vars
    PROVE  Step
BY AuthStep, ProceedStep, OtherStep DEF Next

LEMMA GroundedNext ==
    ASSUME Shape, Step
    PROVE  Grounded' /\ request' \in [Requests -> Request \cup {None}]
<1>1. request \in [Requests -> Request \cup {None}] /\ Grounded
    BY DEF Shape, TypeOK
<1>2. \A t \in Tokens : token'[t] # None => Exists'
    BY <1>1 DEF Step, Grounded
<1>3. CASE UNCHANGED request
    BY <1>1, <1>2, <1>3 DEF Step, Grounded, At
<1>4. ASSUME NEW r \in Requests, NEW q \in Request \cup {None}, Moves(r, q), q # None => Ready(q)
      PROVE  Grounded' /\ request' \in [Requests -> Request \cup {None}]
    <2>1. /\ request' \in [Requests -> Request \cup {None}] /\ request'[r] = q
          /\ \A s \in Requests \ {r} : request'[s] = request[s]
        BY <1>1, <1>4 DEF Moves
    <2>2. ASSUME NEW s \in Requests, At(s, "commit")'
          PROVE  /\ Exists
                 /\ request'[s].op = "verify" => request'[s].read \in AccountStatus
                 /\ request'[s].op \in {"reset", "change"} => request'[s].password \in Passwords
        <3>1. request'[s] # None /\ request'[s].step = "commit"
            BY <2>2 DEF At
        <3>2. CASE s = r
            BY <1>4, <2>1, <3>1, <3>2 DEF Ready
        <3>3. CASE s # r
            BY <1>1, <2>1, <3>1, <3>3 DEF Grounded, At
        <3> QED BY <3>2, <3>3
    <2>3. Exists => Exists'
        BY DEF Step
    <2> QED BY <1>2, <2>1, <2>2, <2>3 DEF Grounded
<1> QED BY <1>3, <1>4 DEF Step

\* What a step may do to the sessions, the invitation, the counter and the faults.
LEMMA Frame ==
    ASSUME [Next]_vars
    PROVE  /\ session' \subseteq session \/ \E s \in Sessions : session' = session \cup {s}
           /\ UNCHANGED invitation \/ invitation' \in {"none", "PENDING", "ACCEPTED"}
           /\ \/ UNCHANGED counter \/ Tick
              \/ \E r \in Requests : Clear(r) \/ Count(r) \/ Expire(r) \/ SetLock(r)
           /\ UNCHANGED faults \/ Fault
<1> USE DEF Next, Auth, RegisterPage, RefuseRegister, register, LoginPage, login,
            loginByAnotherName, ForgotPage, requestPasswordReset, ResetPage, confirmPasswordReset, VerifyPage, verifyEmail,
            SecurityPage, changePassword, logout, logoutAll, revokeSession,
            resendEmailVerification, Proceed, createSessionCookie, CommitVerify, CommitReset,
            RevokeAll, CommitChange, RedisFails, Crash, Admin, suspendUser, unsuspendUser, banUser,
            deleteUser, Close, revokeUserSessions, createInvitation, acceptInvitation, Lapse, vars
<1>1. session' \subseteq session \/ \E s \in Sessions : session' = session \cup {s}
    BY DEF EndSessions, Clear, Count, Expire, SetLock, Tick
<1>2. UNCHANGED invitation \/ invitation' \in {"none", "PENDING", "ACCEPTED"}
    BY DEF Clear, Count, Expire, SetLock, Tick
<1>3. \/ UNCHANGED counter \/ Tick
      \/ \E r \in Requests : Clear(r) \/ Count(r) \/ Expire(r) \/ SetLock(r)
    OBVIOUS
<1>4. UNCHANGED faults \/ Fault
    BY DEF verifyActionAllowed, Clear, Count, Expire, SetLock, Tick
<1> QED BY <1>1, <1>2, <1>3, <1>4

LEMMA RestTyped ==
    ASSUME Shape, [Next]_vars
    PROVE  /\ session' \in SUBSET Sessions /\ invitation' \in InvitationStatus
           /\ counter' \in Counter
           /\ faults' \in 0..MaxFaults /\ faults' >= faults
<1>1. /\ session \in SUBSET Sessions /\ invitation \in InvitationStatus /\ counter \in Counter
      /\ faults \in 0..MaxFaults
    BY DEF Shape, TypeOK
<1>2. /\ counter.fails \in 0..MaxFailed /\ counter.left \in 0..Lockout /\ counter.lock \in 0..Lockout
    BY <1>1 DEF Counter
<1>3. ASSUME NEW r \in Requests, Clear(r) \/ Count(r) \/ Expire(r) \/ SetLock(r)
      PROVE  counter' \in Counter
    <2>1. CASE Count(r)
        <3> DEFINE n == IF counter.fails < MaxFailed THEN counter.fails + 1 ELSE MaxFailed
        <3>1. n \in 0..MaxFailed
            BY <1>2
        <3>2. counter' = [counter EXCEPT !.fails = n]
            BY <2>1 DEF Count
        <3> HIDE DEF n
        <3>3. [counter EXCEPT !.fails = n] \in Counter
            BY <1>1, <3>1 DEF Counter
        <3> QED BY <3>2, <3>3
    <2>2. CASE Clear(r)
        <3>1. 0 \in 0..MaxFailed /\ 0 \in 0..Lockout
            BY LimitsAssumption
        <3>2. [counter EXCEPT !.fails = 0, !.left = 0] \in Counter
            BY <1>1, <3>1 DEF Counter
        <3> QED BY <2>2, <3>2 DEF Clear
    <2>3. CASE Expire(r)
        BY <1>1, <2>3 DEF Expire, ExpireKey, Counter
    <2>4. CASE SetLock(r)
        BY <1>1, <2>4 DEF SetLock, Counter
    <2> QED BY <1>3, <2>1, <2>2, <2>3, <2>4
<1>4. ASSUME Tick PROVE counter' \in Counter
    BY <1>2, <1>4 DEF Tick, Counter
<1>5. counter' \in Counter
    BY <1>1, <1>3, <1>4, Frame
<1>6. session' \in SUBSET Sessions /\ invitation' \in InvitationStatus
    BY <1>1, Frame DEF InvitationStatus
<1>7. faults' \in 0..MaxFaults /\ faults' >= faults
    BY <1>1, Frame DEF Fault
<1> QED BY <1>5, <1>6, <1>7

LEMMA ShapeNext ==
    ASSUME Shape, [Next]_vars
    PROVE  Shape'
<1>1. Step
    BY AnyStep
<1>2. /\ account' \in Account \cup {None} /\ token' \in [Tokens -> Kinds \cup {None}]
    BY <1>1 DEF Step
<1> QED BY <1>1, <1>2, GroundedNext, RestTyped DEF Shape, TypeOK

LEMMA ShapeInit == Init => Shape
<1> SUFFICES ASSUME Init PROVE Shape
    OBVIOUS
<1>1. counter \in Counter
    BY DEF Init, Counter
<1>2. TypeOK
    BY <1>1 DEF Init, TypeOK, InvitationStatus
<1>3. Grounded
    BY DEF Init, Grounded, At
<1> QED BY <1>2, <1>3 DEF Shape

LEMMA ShapeInvariance == Spec => []Shape
<1> QED BY ShapeInit, ShapeNext, PTL DEF Spec

\* The rows and the counters are of the kinds their columns allow; a token that
\* can be used and a request about to commit are an account's.
THEOREM AccountsTyped == Spec => [](TypeOK /\ Grounded)
<1> QED BY ShapeInvariance, PTL DEF Shape

-----------------------------------------------------------------------------
(* What becomes of the account *)

ByVerification == \E r \in Requests : CommitVerify(r)

AccountStep ==
    \/ UNCHANGED account
    \/ ~Exists /\ \E p \in Passwords :
          account' \in {[status |-> "PENDING_EMAIL_VERIFICATION", verified |-> FALSE, password |-> p],
                        [status |-> "ACTIVE", verified |-> TRUE, password |-> p]}
    \/ \E status \in {"SUSPENDED", "BANNED", "DEACTIVATED"} : SetStatus(status)
    \/ unsuspendUser
    \/ ByVerification
    \/ Exists /\ \E p \in Passwords : account' = [account EXCEPT !.password = p]

LEMMA AccountSteps ==
    ASSUME Shape, [Next]_vars
    PROVE  AccountStep
<1>1. ASSUME NEW r \in Requests, Auth(r) \/ SecurityPage(r) PROVE AccountStep
    BY <1>1 DEF AccountStep, Auth, RegisterPage, RefuseRegister, register, LoginPage, login,
                loginByAnotherName, ForgotPage, requestPasswordReset, ResetPage, confirmPasswordReset, VerifyPage,
                verifyEmail, SecurityPage, changePassword, logout, logoutAll, revokeSession,
                resendEmailVerification
<1>2. ASSUME NEW r \in Requests, CommitReset(r) \/ CommitChange(r) PROVE AccountStep
    <2>1. Exists /\ request[r].password \in Passwords
        BY <1>2 DEF CommitReset, CommitChange, Shape, Grounded
    <2> QED BY <1>2, <2>1 DEF AccountStep, CommitReset, CommitChange
<1>3. ASSUME NEW r \in Requests, Proceed(r) \/ RedisFails(r) \/ Crash(r) PROVE AccountStep
    BY <1>2, <1>3 DEF AccountStep, ByVerification, Proceed, Clear, Count, Expire, SetLock,
                      createSessionCookie, RevokeAll, RedisFails, Crash
<1>4. CASE Admin
    BY <1>4 DEF AccountStep, Admin, suspendUser, banUser, deleteUser, Close,
                revokeUserSessions, createInvitation, acceptInvitation
<1>5. CASE Lapse \/ Tick \/ UNCHANGED vars
    BY <1>5 DEF AccountStep, Lapse, Tick, vars
<1> QED BY <1>1, <1>3, <1>4, <1>5 DEF Next

\* A verification writes the status it read, unless that was PENDING.
LEMMA VerifiedStatus ==
    ASSUME Shape, NEW r \in Requests, CommitVerify(r)
    PROVE  /\ account \in Account /\ account'.verified
           /\ account'.status \in AccountStatus \ {"PENDING_EMAIL_VERIFICATION"}
           /\ account'.status = NewStatus(request[r].read) /\ At(r, "commit")
<1>1. account \in Account /\ request[r].read \in AccountStatus /\ At(r, "commit")
    BY DEF CommitVerify, Shape, Grounded, TypeOK, Exists
<1>2. account'.verified /\ account'.status = NewStatus(request[r].read)
    BY <1>1 DEF CommitVerify, Account
<1> QED BY <1>1, <1>2 DEF NewStatus, AccountStatus

\* An account whose email was verified is never pending again, although each
\* verification writes a status it read before others wrote theirs.
THEOREM NeverPendingAgain == Spec => []PendingIsUnverified
<1>1. Init => PendingIsUnverified
    BY DEF Init, PendingIsUnverified, Exists
<1>2. ASSUME Shape, PendingIsUnverified, [Next]_vars
      PROVE  PendingIsUnverified'
    <2>1. AccountStep
        BY <1>2, AccountSteps
    <2>2. CASE UNCHANGED account
        BY <1>2, <2>2 DEF PendingIsUnverified, Exists
    <2>3. ASSUME NEW p \in Passwords,
                 account' \in {[status |-> "PENDING_EMAIL_VERIFICATION", verified |-> FALSE,
                                password |-> p],
                               [status |-> "ACTIVE", verified |-> TRUE, password |-> p]}
          PROVE  PendingIsUnverified'
        BY <2>3 DEF PendingIsUnverified
    <2>4. Exists => account \in Account
        BY <1>2 DEF Shape, TypeOK, Exists
    <2>5. ASSUME NEW status \in {"SUSPENDED", "BANNED", "DEACTIVATED", "ACTIVE"}, SetStatus(status)
          PROVE  PendingIsUnverified'
        BY <2>4, <2>5 DEF SetStatus, Account, PendingIsUnverified
    <2>6. CASE ByVerification
        BY <1>2, <2>6, VerifiedStatus DEF ByVerification, PendingIsUnverified
    <2>7. ASSUME Exists, NEW p \in Passwords, account' = [account EXCEPT !.password = p]
          PROVE  PendingIsUnverified'
        BY <1>2, <2>4, <2>7 DEF Account, PendingIsUnverified
    <2> QED BY <2>1, <2>2, <2>3, <2>5, <2>6, <2>7 DEF AccountStep, unsuspendUser
<1> QED BY <1>1, <1>2, ShapeInvariance, PTL DEF Spec

\* An account an admin closed opens again by an admin, or by a verification that
\* read it before it was closed; nothing else the user does opens it.
THEOREM ClosedUntilReopened == Spec => ClosedStaysClosed
<1> DEFINE Reopens ==
        \/ unsuspendUser
        \/ \E r \in Requests :
              At(r, "commit") /\ request[r].read \in {"PENDING_EMAIL_VERIFICATION", "ACTIVE"}
<1>1. ASSUME Shape, Closed, ~Closed', [Next]_vars
      PROVE  Reopens
    <2>1. AccountStep
        BY <1>1, AccountSteps
    <2>2. account \in Account /\ Exists
        BY <1>1 DEF Shape, TypeOK, Closed, Exists
    <2>3. account' \in Account /\ Exists'
        BY <1>1, <2>2, AnyStep DEF Step, Exists
    <2>4. account'.status \notin {"SUSPENDED", "BANNED", "DEACTIVATED"}
        BY <1>1, <2>3 DEF Closed
    <2>5. account' # account
        BY <1>1 DEF Closed, Exists
    <2>6. ASSUME NEW status \in {"SUSPENDED", "BANNED", "DEACTIVATED"}, SetStatus(status)
          PROVE  FALSE
        BY <2>2, <2>4, <2>6 DEF SetStatus, Account
    <2>7. ASSUME NEW p \in Passwords, account' = [account EXCEPT !.password = p]
          PROVE  FALSE
        BY <1>1, <2>2, <2>4, <2>7 DEF Account, Closed
    <2>8. ASSUME NEW r \in Requests, CommitVerify(r)
          PROVE  At(r, "commit") /\ request[r].read \in {"PENDING_EMAIL_VERIFICATION", "ACTIVE"}
        <3>1. /\ account'.status = NewStatus(request[r].read) /\ At(r, "commit")
              /\ account'.status \in AccountStatus
            BY <1>1, <2>8, VerifiedStatus
        <3> QED BY <2>4, <3>1 DEF NewStatus, AccountStatus
    <2> QED BY <2>1, <2>2, <2>5, <2>6, <2>7, <2>8 DEF AccountStep, ByVerification
<1>2. Shape /\ [Next]_vars => [Closed /\ ~Closed' => Reopens]_vars
    BY <1>1
<1> QED BY <1>2, ShapeInvariance, PTL DEF Spec, ClosedStaysClosed

-----------------------------------------------------------------------------
(* A lock ends *)

Recorder(r) == request[r] # None /\ request[r].step \in Recording

\* r will lock the address.
Locks(r) == At(r, "lock") \/ (At(r, "expire") /\ request[r].fails = MaxFailed)

\* While nothing fails, a counter has a time to live or is about to be given one;
\* a counter at its limit has its lock, which it does not outlive, or is about
\* to be given it; and nobody records anything once a lock has begun to run.
Counting ==
    faults = 0 =>
        /\ counter.fails > 0 /\ counter.left = 0 => \E r \in Requests : At(r, "expire")
        /\ counter.fails = MaxFailed /\ counter.lock = 0 => \E r \in Requests : Locks(r)
        /\ counter.fails = MaxFailed /\ counter.lock # 0 => counter.left <= counter.lock
        /\ counter.lock \notin {0, Lockout} => \A r \in Requests : ~Recorder(r)

\* A step that records nothing leaves the counter and those who do alone; a
\* request starts to record only while there is no lock.
Idle ==
    /\ UNCHANGED counter
    /\ \A r \in Requests : Recorder(r) => request'[r] = request[r]
    /\ counter.lock # 0 => \A r \in Requests : Recorder(r)' => Recorder(r)

LEMMA OneMoves ==
    ASSUME TypeOK, NEW r \in Requests, NEW q \in Request \cup {None}, Moves(r, q)
    PROVE  /\ request'[r] = q
           /\ \A s \in Requests \ {r} : request'[s] = request[s]
BY DEF TypeOK, Moves

\* A request that is no recorder moves.
LEMMA IdleMove ==
    ASSUME TypeOK, NEW r \in Requests, NEW q \in Request \cup {None}, Moves(r, q),
           UNCHANGED counter, ~Recorder(r),
           counter.lock = 0 \/ q = None \/ q.step \notin Recording
    PROVE  Idle
<1>1. /\ request'[r] = q
      /\ \A s \in Requests \ {r} : request'[s] = request[s]
    BY OneMoves
<1> QED BY <1>1 DEF Idle, Recorder

LEMMA IdleBegin ==
    ASSUME TypeOK, NEW r \in Requests,
           NEW op \in {"signIn", "verify", "reset", "change"}, NEW step \in Steps,
           NEW of \in Tokens \cup Sessions \cup {None}, NEW password \in Passwords \cup {None},
           NEW read \in AccountStatus \cup {None},
           Begin(r, op, step, of, password, read),
           UNCHANGED counter, counter.lock = 0 \/ step \notin Recording
    PROVE  Idle
<1> DEFINE q == [op |-> op, step |-> step, of |-> of, password |-> password, read |-> read,
                 fails |-> 0]
<1>1. q \in Request /\ q.step = step
    BY DEF Request
<1>2. Moves(r, q) /\ ~Recorder(r)
    BY DEF Begin, Moves, Recorder
<1> HIDE DEF q
<1> QED BY <1>1, <1>2, IdleMove

\* What is not a step of recordAttempt, nor of time, is idle.
LEMMA IdleSteps ==
    ASSUME Shape, [Next]_vars, faults' = 0
    PROVE  \/ Idle \/ Tick
           \/ \E r \in Requests : Clear(r) \/ Count(r) \/ Expire(r) \/ SetLock(r)
<1>1. TypeOK /\ faults \in 0..MaxFaults
    BY DEF Shape, TypeOK
<1>2. ~Fault
    BY <1>1 DEF Fault
<1>3. ASSUME UNCHANGED <<counter, request>> PROVE Idle
    BY <1>3 DEF Idle, Recorder
<1>4. ASSUME NEW r \in Requests, NEW step \in {"clear", "count"}, UNCHANGED counter,
             Begin(r, "signIn", step, None, None, None), verifyActionAllowed
      PROVE  Idle
    BY <1>1, <1>2, <1>4, IdleBegin DEF verifyActionAllowed, Steps, Recording
<1>5. ASSUME NEW r \in Requests, Auth(r)
      PROVE  Idle
    <2>1. CASE RegisterPage(r) \/ \E p \in Passwords : login(r, p)
        BY <1>4, <2>1 DEF RegisterPage, RefuseRegister, register, login
    <2>2. ASSUME NEW p \in Passwords, loginByAnotherName(r, p)
          PROVE  Idle
        BY <1>1, <2>2, IdleBegin DEF loginByAnotherName, Steps, Recording
    <2>3. ASSUME NEW t \in Tokens, NEW p \in Passwords, confirmPasswordReset(r, t, p)
          PROVE  Idle
        BY <1>1, <2>3, IdleBegin DEF confirmPasswordReset, Steps, Recording
    <2>4. ASSUME NEW t \in Tokens, verifyEmail(r, t)
          PROVE  Idle
        <3>1. account.status \in AccountStatus
            BY <2>4 DEF Shape, Grounded, verifyEmail, Kinds, TypeOK, Exists, Account
        <3> QED BY <1>1, <2>4, <3>1, IdleBegin DEF verifyEmail, Steps, Recording
    <2>5. CASE ForgotPage \/ \E s \in Sessions : logout(s) \/ \E t \in Tokens : resendEmailVerification(s, t)
        BY <1>3, <2>5 DEF ForgotPage, requestPasswordReset, logout, resendEmailVerification
    <2> QED BY <1>5, <2>1, <2>2, <2>3, <2>4, <2>5 DEF Auth, LoginPage, ResetPage, VerifyPage
<1>6. ASSUME NEW r \in Requests, SecurityPage(r)
      PROVE  Idle
    <2>1. ASSUME NEW s \in Sessions, NEW p \in Passwords, changePassword(r, s, p)
          PROVE  Idle
        BY <1>1, <2>1, IdleBegin DEF changePassword, Steps, Recording
    <2> QED BY <1>3, <1>6, <2>1 DEF SecurityPage, logoutAll, revokeSession
<1>7. ASSUME NEW r \in Requests, UNCHANGED counter, End(r), ~Recorder(r)
      PROVE  Idle
    BY <1>1, <1>7, Ended, IdleMove
<1>8. ASSUME NEW r \in Requests,
             createSessionCookie(r) \/ CommitVerify(r) \/ RevokeAll(r) \/ CommitChange(r)
      PROVE  Idle
    BY <1>7, <1>8 DEF createSessionCookie, CommitVerify, RevokeAll, CommitChange, At, Recorder, Recording
<1>9. ASSUME NEW r \in Requests, CommitReset(r)
      PROVE  Idle
    <2> DEFINE q == [request[r] EXCEPT !.step = "revoke"]
    <2>1. request[r] \in Request /\ request \in [Requests -> Request \cup {None}]
        BY <1>1, <1>9 DEF CommitReset, At, TypeOK
    <2>2. q \in Request /\ q.step = "revoke"
        BY <2>1 DEF Request, Steps
    <2>3. Moves(r, q) /\ ~Recorder(r) /\ UNCHANGED counter
        BY <1>9, <2>1 DEF CommitReset, GoTo, Moves, At, Recorder, Recording
    <2> HIDE DEF q
    <2> QED BY <1>1, <2>2, <2>3, IdleMove DEF Recording
<1>10. CASE Admin \/ Lapse \/ UNCHANGED vars
    BY <1>3, <1>10 DEF Admin, suspendUser, unsuspendUser, banUser, deleteUser, Close,
                       revokeUserSessions, createInvitation, acceptInvitation, Lapse, vars
<1>11. \A r \in Requests : ~RedisFails(r) /\ ~Crash(r)
    BY <1>2 DEF RedisFails, Crash
<1> QED BY <1>5, <1>6, <1>8, <1>9, <1>10, <1>11 DEF Next, Proceed

LEMMA CountingNext ==
    ASSUME Shape, Counting, [Next]_vars
    PROVE  Counting'
<1> SUFFICES ASSUME faults' = 0
             PROVE  /\ counter'.fails > 0 /\ counter'.left = 0
                          => \E r \in Requests : At(r, "expire")'
                    /\ counter'.fails = MaxFailed /\ counter'.lock = 0
                          => \E r \in Requests : Locks(r)'
                    /\ counter'.fails = MaxFailed /\ counter'.lock # 0
                          => counter'.left <= counter'.lock
                    /\ counter'.lock \notin {0, Lockout} => \A r \in Requests : ~Recorder(r)'
    BY DEF Counting
<1>1. /\ TypeOK /\ request \in [Requests -> Request \cup {None}]
      /\ counter.fails \in 0..MaxFailed /\ counter.left \in 0..Lockout /\ counter.lock \in 0..Lockout
    BY DEF Shape, TypeOK, Counter
<1>2. faults = 0
    BY RestTyped, <1>1 DEF TypeOK
<1>3. /\ counter.fails > 0 /\ counter.left = 0 => \E r \in Requests : At(r, "expire")
      /\ counter.fails = MaxFailed /\ counter.lock = 0 => \E r \in Requests : Locks(r)
      /\ counter.fails = MaxFailed /\ counter.lock # 0 => counter.left <= counter.lock
      /\ counter.lock \notin {0, Lockout} => \A r \in Requests : ~Recorder(r)
    BY <1>2 DEF Counting
<1>4. counter \in Counter
    BY <1>1 DEF TypeOK
\* Who records stays where he is while another moves.
<1>5. ASSUME NEW s \in Requests, request'[s] = request[s]
      PROVE  /\ At(s, "expire") => At(s, "expire")'
             /\ Locks(s) => Locks(s)'
    BY <1>5 DEF Locks, At
<1>6. ASSUME NEW s \in Requests
      PROVE  (At(s, "expire") \/ Locks(s)) => Recorder(s)
    BY DEF Locks, At, Recorder, Recording
<1>7. CASE Idle
    BY <1>3, <1>5, <1>6, <1>7 DEF Idle
<1>8. CASE Tick
    <2>1. \A r \in Requests : ~Recorder(r)
        BY <1>8 DEF Tick, Recorder
    <2>2. /\ counter.fails > 0 => counter.left > 0
          /\ counter.fails = MaxFailed => counter.lock > 0 /\ counter.left <= counter.lock
        BY <1>1, <1>3, <1>6, <2>1
    <2>3. UNCHANGED request
        BY <1>8 DEF Tick
    <2>4. \A r \in Requests : ~Recorder(r)'
        BY <2>1, <2>3 DEF Recorder
    <2>5. /\ counter'.fails = IF counter.left = 1 THEN 0 ELSE counter.fails
          /\ counter'.left  = IF counter.left = 0 THEN 0 ELSE counter.left - 1
          /\ counter'.lock  = IF counter.lock = 0 THEN 0 ELSE counter.lock - 1
        BY <1>8 DEF Tick
    <2>6. ~(counter'.fails > 0 /\ counter'.left = 0)
        BY <1>1, <2>2, <2>5
    <2>7. counter'.fails = MaxFailed => counter'.lock # 0 /\ counter'.left <= counter'.lock
        BY <1>1, <2>2, <2>5
    <2> QED BY <2>4, <2>6, <2>7
<1>9. ASSUME NEW r \in Requests, Recorder(r)
      PROVE  counter.lock \in {0, Lockout}
    BY <1>3, <1>9
<1>10. ASSUME NEW r \in Requests, Clear(r)
       PROVE  /\ counter'.fails = 0 /\ counter'.lock \in {0, Lockout}
    <2>1. counter' = [counter EXCEPT !.fails = 0, !.left = 0] /\ Recorder(r)
        BY <1>10 DEF Clear, At, Recorder, Recording
    <2>2. counter'.fails = 0 /\ counter'.lock = counter.lock
        BY <1>4, <2>1 DEF Counter
    <2> QED BY <1>9, <2>1, <2>2
<1>11. ASSUME NEW r \in Requests, Count(r)
       PROVE  /\ counter'.fails > 0 /\ counter'.left = 0 => \E s \in Requests : At(s, "expire")'
              /\ counter'.fails = MaxFailed /\ counter'.lock = 0
                     => \E s \in Requests : Locks(s)'
              /\ counter'.lock \in {0, Lockout}
              /\ counter'.left <= Lockout
    <2> DEFINE n == IF counter.fails < MaxFailed THEN counter.fails + 1 ELSE MaxFailed
               q == [request[r] EXCEPT !.step = AfterCount(n), !.fails = n]
    <2>1. At(r, "count") /\ Recorder(r) /\ request[r] \in Request
        BY <1>1, <1>11 DEF Count, At, Recorder, Recording
    <2>2. /\ n \in 1..MaxFailed /\ n >= counter.fails
          /\ n = 1 \/ counter.fails > 0
        BY <1>1
    <2>3. /\ counter' = [counter EXCEPT !.fails = n]
          /\ request' = [request EXCEPT ![r] = IF AfterCount(n) = "done" THEN None ELSE q]
        BY <1>1, <1>11 DEF Count
    <2>4. AfterCount(n) # "done" =>
             /\ q \in Request /\ q # None
             /\ q.step = AfterCount(n) /\ q.fails = n
        <3>1. AfterCount(n) \in {"expire", "lock", "done"} /\ n \in 0..MaxFailed
            BY <2>2 DEF AfterCount
        <3> HIDE DEF n
        <3>2. AfterCount(n) # "done" => q \in Request
            BY <2>1, <3>1 DEF Request, Steps, Recording
        <3>3. q.step = AfterCount(n) /\ q.fails = n
            BY <2>1 DEF Request
        <3> QED BY <3>2, <3>3
    <2> HIDE DEF n, q
    <2>5. counter'.fails = n /\ counter'.left = counter.left /\ counter'.lock = counter.lock
        BY <1>4, <2>3 DEF Counter
    <2>6. \A s \in Requests \ {r} : request'[s] = request[s]
        BY <1>1, <2>3
    <2>7. AfterCount(n) # "done" => request'[r] = q
        BY <1>1, <2>3
    <2>8. ASSUME counter'.left = 0
          PROVE  \E s \in Requests : At(s, "expire")'
        <3>1. CASE n = 1
            BY <2>4, <2>7, <3>1 DEF AfterCount, At
        <3>2. CASE counter.fails > 0
            <4>1. PICK s \in Requests : At(s, "expire")
                BY <1>3, <2>5, <2>8, <3>2
            <4>2. s # r
                BY <2>1, <4>1 DEF At
            <4> QED BY <1>5, <2>6, <4>1, <4>2
        <3> QED BY <2>2, <3>1, <3>2
    <2>9. ASSUME n = MaxFailed
          PROVE  Locks(r)'
        <3>1. AfterCount(n) \in {"expire", "lock"}
            BY <2>9 DEF AfterCount
        <3> QED BY <2>4, <2>7, <2>9, <3>1 DEF Locks, At
    <2> QED BY <1>1, <1>9, <2>1, <2>5, <2>8, <2>9
<1>12. ASSUME NEW r \in Requests, Expire(r)
       PROVE  /\ ~(counter'.fails > 0 /\ counter'.left = 0)
              /\ counter'.fails = MaxFailed /\ counter'.lock = 0
                     => \E s \in Requests : Locks(s)'
              /\ counter'.lock \in {0, Lockout}
              /\ counter'.left <= Lockout
    <2>1. At(r, "expire") /\ Recorder(r) /\ request[r] \in Request /\ request[r].fails \in 0..MaxFailed
        <3>1. At(r, "expire") /\ Recorder(r) /\ request[r] \in Request
            BY <1>1, <1>12 DEF Expire, At, Recorder, Recording
        <3> QED BY <3>1 DEF Request
    <2>2. /\ counter'.fails = counter.fails /\ counter'.lock = counter.lock
          /\ counter'.left = IF counter.fails > 0 THEN Lockout ELSE counter.left
        BY <1>4, <1>12 DEF Expire, ExpireKey, Counter
    <2>3. \A s \in Requests \ {r} : request'[s] = request[s]
        BY <1>1, <1>12 DEF Expire, GoTo, End
    <2>4. request[r].fails = MaxFailed => At(r, "lock")'
        <3> DEFINE q == [request[r] EXCEPT !.step = "lock"]
        <3>1. q \in Request /\ q.step = "lock"
            BY <2>1 DEF Request, Steps, Recording
        <3>2. request[r].fails = MaxFailed => request' = [request EXCEPT ![r] = q]
            BY <1>1, <1>12 DEF Expire, GoTo
        <3> HIDE DEF q
        <3> QED BY <1>1, <3>1, <3>2 DEF At
    <2>5. ASSUME counter.fails = MaxFailed, counter.lock = 0
          PROVE  \E s \in Requests : Locks(s)'
        <3>1. PICK s \in Requests : Locks(s)
            BY <1>3, <2>5
        <3>2. CASE s = r
            BY <2>1, <2>4, <3>1, <3>2 DEF Locks, At
        <3>3. CASE s # r
            BY <1>5, <2>3, <3>1, <3>3
        <3> QED BY <3>2, <3>3
    <2> QED BY <1>1, <1>9, <2>1, <2>2, <2>5
<1>13. ASSUME NEW r \in Requests, SetLock(r)
       PROVE  /\ counter'.fails > 0 /\ counter'.left = 0 => \E s \in Requests : At(s, "expire")'
              /\ counter'.lock = Lockout /\ counter'.left <= Lockout
    <2>1. counter'.fails = counter.fails /\ counter'.left = counter.left /\ counter'.lock = Lockout
        BY <1>4, <1>13 DEF SetLock, Counter
    <2>2. \A s \in Requests \ {r} : request'[s] = request[s]
        BY <1>1, <1>13 DEF SetLock, End
    <2>3. ASSUME counter.fails > 0, counter.left = 0
          PROVE  \E s \in Requests : At(s, "expire")'
        <3>1. PICK s \in Requests : At(s, "expire")
            BY <1>3, <2>3
        <3>2. s # r
            BY <1>13, <3>1 DEF SetLock, At
        <3> QED BY <1>5, <2>2, <3>1, <3>2
    <2> QED BY <1>1, <2>1, <2>3
<1>14. CASE \E r \in Requests : Clear(r)
    BY <1>10, <1>14
<1>15. CASE \E r \in Requests : Count(r)
    BY <1>11, <1>15
<1>16. CASE \E r \in Requests : Expire(r)
    BY <1>12, <1>16
<1>17. CASE \E r \in Requests : SetLock(r)
    BY <1>13, <1>17
<1> QED BY <1>7, <1>8, <1>14, <1>15, <1>16, <1>17, IdleSteps

LEMMA CountingInvariance == Spec => []Counting
<1>1. Init => Counting
    BY DEF Init, Counting
<1> QED BY <1>1, CountingNext, ShapeInvariance, PTL DEF Spec

\* Unless Redis or a request fails halfway, a lock that has run out leaves no
\* counter at its limit behind, with which one more failure would lock the
\* address again.
THEOREM LocksRunOut == Spec => []LockoutEnds
<1>1. Counting => LockoutEnds
    BY DEF Counting, LockoutEnds, Locks, At
<1> QED BY <1>1, CountingInvariance, PTL

-----------------------------------------------------------------------------
(* The objects of an account's media *)

\* The originals among the keys are of uploads that were sent.
Known(keys, sent) == \A u \in D!Uploads : D!Original(u) \in keys => u \in sent

\* A row is of an upload that was sent, and only an artwork gets derivatives.
ProperRow(r) ==
    /\ row[r] \in D!Row /\ row[r].upload \in put
    /\ row[r].upload \in Recordings => ~row[r].rendered

\* A row that is about to be made will be one; only artworks are rendered.
ProperRender(r) ==
    /\ render[r] \in D!Render
    /\ render[r].step = "head" => render[r].upload \in D!Uploads \cap put
    /\ render[r].step \in {"waiting", "thumbnail", "master", "broken"} =>
          row[r] \in D!Row /\ row[r].upload \in Artwork

\* A deletion job names known keys, and the originals it just deleted are gone.
ProperPurge(q, objects, sent) ==
    /\ q \in D!Purge
    /\ Known(q.keys, sent) /\ Known(q.todo, sent) /\ Known(q.chunk, sent)
    /\ q.step = "deleted" => \A u \in D!Uploads :
          D!Original(u) \in q.chunk \ q.failed => D!Original(u) \notin objects

\* An administrator has read rows that exist, and known keys.
ProperAdmin(a) ==
    /\ Known(a.keys, put) /\ a.keys \in SUBSET D!Keys
    /\ a.rows \in SUBSET Rows /\ \A r \in a.rows : row[r] \in D!Row

\* What is in storage and what speaks of it.
Objects ==
    /\ Known(stored, put) /\ stored \in SUBSET D!Keys /\ put \in SUBSET D!Uploads
    /\ row \in [Rows -> D!Row \cup {None}] /\ render \in [Rows -> D!Render]
    /\ purge \in [Purges -> D!Purge \cup {None}]
    /\ \A r \in Rows : row[r] # None => ProperRow(r)
    /\ \A r \in Rows : ProperRender(r)
    /\ \A p \in Purges : purge[p] # None => ProperPurge(purge[p], stored, put)
    /\ admin # None => ProperAdmin(admin)

\* The inductive invariant: what is sent once and deleted stays away.
Swept == D!UploadsAssumption /\ D!RowAssumption /\ Objects /\ D!DeletedAudioIsGone

\* The keys of rows are known.
LEMMA KeysKnown ==
    ASSUME Objects, NEW rs \in SUBSET D!Existing
    PROVE  D!KeysOfRows(rs) \in SUBSET D!Keys /\ Known(D!KeysOfRows(rs), put)
<1>1. \A r \in rs : r \in Rows /\ row[r] \in D!Row /\ row[r].upload \in put
    BY DEF Objects, ProperRow, D!Existing
<1>2. \A r \in rs : D!KeysOf(r) \in SUBSET D!Keys /\ \A k \in D!KeysOf(r) : k[1] = row[r].upload
    BY <1>1 DEF D!KeysOf, D!Keys, D!Parts, D!Row
<1>3. \A u : D!Original(u)[1] = u
    BY DEF D!Original
<1> QED BY <1>1, <1>2, <1>3 DEF D!KeysOfRows, Known

\* Marking rows changes their state and nothing else.
LEMMA RowsMarked ==
    ASSUME Swept, NEW rs \in SUBSET Rows, NEW status \in D!StorageStatus,
           \A r \in rs : row[r] \in D!Row, D!SetStorage(rs, status)
    PROVE  /\ row' \in [Rows -> D!Row \cup {None}]
           /\ \A r \in Rows : /\ row'[r] # None => row[r] # None
                              /\ row[r] \in D!Row => /\ row'[r] \in D!Row
                                                     /\ row'[r].upload = row[r].upload
                                                     /\ row'[r].rendered = row[r].rendered
                              /\ row'[r] = row[r] \/ (r \in rs /\ row'[r].storage = status)
<1>1. row \in [Rows -> D!Row \cup {None}]
    BY DEF Swept, Objects
<1>2. ASSUME NEW r \in rs
      PROVE  /\ [row[r] EXCEPT !.storage = status] \in D!Row
             /\ [row[r] EXCEPT !.storage = status].upload = row[r].upload
             /\ [row[r] EXCEPT !.storage = status].rendered = row[r].rendered
             /\ [row[r] EXCEPT !.storage = status].storage = status
    BY DEF D!Row
<1> QED BY <1>1, <1>2 DEF D!SetStorage, Swept, D!RowAssumption

\* A job stays proper: what is gone from storage, and was sent, does not come back.
LEMMA JobStays ==
    ASSUME NEW q, NEW objects, NEW sent, ProperPurge(q, stored, put), put \subseteq sent,
           \A u \in D!Uploads :
              D!Original(u) \in objects => D!Original(u) \in stored \/ u \notin put
    PROVE  ProperPurge(q, objects, sent)
BY DEF ProperPurge, Known

\* Rows are marked, and all else stays.
LEMMA MarkKeeps ==
    ASSUME Swept, NEW rs \in SUBSET Rows, NEW status \in D!StorageStatus,
           \A r \in rs : row[r] \in D!Row, D!SetStorage(rs, status),
           UNCHANGED <<stored, put, render>>,
           status = "DELETED" => \A r \in rs :
              row[r].upload \in Recordings => D!Original(row[r].upload) \notin stored,
           purge' \in [Purges -> D!Purge \cup {None}],
           \A p \in Purges : purge'[p] # None => ProperPurge(purge'[p], stored, put),
           admin' # None => ProperAdmin(admin')
    PROVE  Swept'
<1> USE DEF Swept
<1>1. /\ row' \in [Rows -> D!Row \cup {None}]
      /\ \A r \in Rows : /\ row'[r] # None => row[r] # None
                         /\ row[r] \in D!Row => /\ row'[r] \in D!Row
                                                /\ row'[r].upload = row[r].upload
                                                /\ row'[r].rendered = row[r].rendered
                         /\ row'[r] = row[r] \/ (r \in rs /\ row'[r].storage = status)
    BY RowsMarked
<1>2. \A r \in Rows : row'[r] # None => ProperRow(r)'
    BY <1>1 DEF Objects, ProperRow
<1>3. \A r \in Rows : ProperRender(r)'
    BY <1>1 DEF Objects, ProperRender
<1>4. \A p \in Purges : purge'[p] # None => ProperPurge(purge'[p], stored', put')
    OBVIOUS
<1>5. Objects'
    BY <1>1, <1>2, <1>3, <1>4 DEF Objects, Known, ProperAdmin
<1>6. D!DeletedAudioIsGone'
    <2> SUFFICES ASSUME NEW r \in D!Versions', row'[r].storage = "DELETED"
                 PROVE  D!Original(row'[r].upload) \notin stored
        BY DEF D!DeletedAudioIsGone, D!Original
    <2>1. r \in Rows /\ row[r] # None /\ row[r] \in D!Row /\ row'[r].upload = row[r].upload
          /\ row[r].upload \in Recordings
        BY <1>1 DEF D!Versions, D!Existing, Objects
    <2> QED BY <1>1, <2>1 DEF D!DeletedAudioIsGone, D!Versions, D!Existing
<1> QED BY <1>5, <1>6

\* No row changes, and storage gets nothing new.
LEMMA JobsKeep ==
    ASSUME Swept, UNCHANGED <<put, row, render>>, stored' \in SUBSET stored,
           purge' \in [Purges -> D!Purge \cup {None}],
           \A p \in Purges : purge'[p] # None => ProperPurge(purge'[p], stored', put),
           admin' # None => ProperAdmin(admin')
    PROVE  Swept'
<1> USE DEF Swept
<1>1. Objects'
    BY DEF Objects, Known, ProperRow, ProperRender, ProperAdmin
<1>2. D!DeletedAudioIsGone'
    BY DEF D!DeletedAudioIsGone, D!Original, D!Versions, D!Existing
<1> QED BY <1>1, <1>2

-----------------------------------------------------------------------------
(* Uploads and their rendering *)

LEMMA PutKeeps ==
    ASSUME Swept, NEW u \in D!Uploads, D!Put(u)
    PROVE  Swept'
<1> USE DEF Swept, D!Put
<1>1. \A v, w : D!Original(v) = D!Original(w) => v = w
    BY DEF D!Original
<1>2. D!Original(u) \in D!Keys
    BY DEF D!Original, D!Keys, D!Parts
<1>3. \A p \in Purges : purge'[p] # None => ProperPurge(purge'[p], stored', put')
    BY <1>1, JobStays DEF Objects
<1>4. Objects'
    BY <1>1, <1>2, <1>3 DEF Objects, Known, ProperRow, ProperRender, ProperAdmin
<1>5. D!DeletedAudioIsGone'
    BY <1>1 DEF D!DeletedAudioIsGone, D!Versions, D!Existing, Objects, ProperRow
<1> QED BY <1>4, <1>5

LEMMA HeadKeeps ==
    ASSUME Swept, NEW r \in Rows, NEW u \in D!Uploads, D!Head(r, u)
    PROVE  Swept'
<1> USE DEF Swept, D!Head
<1>1. render[r] \in D!Render /\ u \in put
    BY DEF Objects, Known
<1>2. /\ [render[r] EXCEPT !.step = "head", !.upload = u] \in D!Render
      /\ [render[r] EXCEPT !.step = "head", !.upload = u].step = "head"
      /\ [render[r] EXCEPT !.step = "head", !.upload = u].upload = u
    BY <1>1 DEF D!Render, D!RenderSteps
<1>3. /\ render' \in [Rows -> D!Render] /\ render'[r].step = "head" /\ render'[r].upload = u
      /\ \A s \in Rows : s # r => render'[s] = render[s]
    BY <1>2 DEF Objects
<1>4. \A s \in Rows : ProperRender(s)'
    BY <1>1, <1>3 DEF Objects, ProperRender
<1>5. Objects'
    BY <1>3, <1>4 DEF Objects, Known, ProperRow, ProperAdmin, ProperPurge
<1>6. D!DeletedAudioIsGone'
    BY DEF D!DeletedAudioIsGone, D!Original, D!Versions, D!Existing
<1> QED BY <1>5, <1>6

LEMMA CreateKeeps ==
    ASSUME Swept, NEW r \in Rows, D!Create(r)
    PROVE  Swept'
<1> USE DEF Swept, D!Create
<1> DEFINE new == [upload |-> render[r].upload, storage |-> "AVAILABLE", rendered |-> FALSE]
           step == IF render[r].upload \in Artwork THEN "waiting" ELSE "ended"
           next == [render[r] EXCEPT !.step = step]
<1>1. render[r] \in D!Render /\ render[r].upload \in D!Uploads \cap put
    BY DEF Objects, ProperRender
<1>2. new \in D!Row
    BY <1>1 DEF D!Row, D!StorageStatus
<1>3. next \in D!Render /\ next.step = step
    BY <1>1 DEF D!Render, D!RenderSteps
<1>4. /\ row' \in [Rows -> D!Row \cup {None}] /\ row'[r] = new
      /\ \A s \in Rows : s # r => row'[s] = row[s]
    BY <1>2 DEF Objects
<1>5. /\ render' \in [Rows -> D!Render] /\ render'[r] = next
      /\ \A s \in Rows : s # r => render'[s] = render[s]
    BY <1>3 DEF Objects
<1>6. \A s \in Rows : ProperRender(s)'
    BY <1>1, <1>2, <1>3, <1>4, <1>5 DEF Objects, ProperRender
<1>7. \A s \in Rows : row'[s] # None => ProperRow(s)'
    BY <1>1, <1>2, <1>4 DEF Objects, ProperRow
<1>8. Objects'
    <2>1. \A s \in Rows : row[s] \in D!Row => row'[s] \in D!Row
        BY <1>2, <1>4
    <2> HIDE DEF new, step, next
    <2> QED BY <1>4, <1>5, <1>6, <1>7, <2>1 DEF Objects, Known, ProperAdmin, ProperPurge
<1>9. D!DeletedAudioIsGone'
    BY <1>4 DEF D!DeletedAudioIsGone, D!Original, D!Versions, D!Existing
<1> QED BY <1>8, <1>9

\* The rendering of an artwork goes on or ends.
LEMMA RenderGoesOn ==
    ASSUME Swept, NEW r \in Rows, NEW q \in D!Render, render' = [render EXCEPT ![r] = q],
           render[r].step \in {"waiting", "thumbnail", "master", "broken"}, q.step # "head",
           \A s \in Rows : row[s] \in D!Row => /\ row'[s] \in D!Row
                                               /\ row'[s].upload = row[s].upload,
           UNCHANGED put
    PROVE  render' \in [Rows -> D!Render] /\ \A s \in Rows : ProperRender(s)'
<1>1. /\ render' \in [Rows -> D!Render] /\ render'[r] = q
      /\ \A s \in Rows : s # r => render'[s] = render[s]
    BY DEF Swept, Objects
<1> QED BY <1>1 DEF Swept, Objects, ProperRender

LEMMA ProcessKeeps ==
    ASSUME Swept, NEW r \in Rows, D!Process(r)
    PROVE  Swept'
<1> USE DEF Swept
<1> DEFINE goes == {"waiting", "thumbnail", "master", "broken"}
<1>1. /\ render \in [Rows -> D!Render] /\ render[r] \in D!Render
      /\ render[r].step \in goes => row[r] \in D!Row /\ row[r].upload \in Artwork
      /\ row \in [Rows -> D!Row \cup {None}]
    BY DEF Objects, ProperRender
<1>2. \A step \in D!RenderSteps : /\ [render[r] EXCEPT !.step = step] \in D!Render
                                  /\ [render[r] EXCEPT !.step = step].step = step
    BY <1>1 DEF D!Render
<1>3. ASSUME NEW from \in goes, NEW piece \in {"thumbnail", "master"}, D!PutPart(r, from, piece)
      PROVE  Swept'
    <2>1. \A u \in D!Uploads : D!Original(u) # <<row[r].upload, piece>>
        BY DEF D!Original
    <2>2. <<row[r].upload, piece>> \in D!Keys
        BY <1>1, <1>3 DEF D!PutPart, D!Row, D!Keys, D!Parts
    <2>3. /\ render' = [render EXCEPT ![r] = [render[r] EXCEPT !.step = piece]]
          /\ piece \in D!RenderSteps
        BY <1>1, <1>3 DEF D!PutPart, D!RenderTo, D!RenderSteps
    <2>4. render' \in [Rows -> D!Render] /\ \A s \in Rows : ProperRender(s)'
        BY <1>2, <1>3, <2>3, RenderGoesOn DEF D!PutPart
    <2>5. \A p \in Purges : purge'[p] # None => ProperPurge(purge'[p], stored', put')
        BY <1>3, <2>1, JobStays DEF D!PutPart, Objects
    <2>6. Objects'
        BY <1>3, <2>1, <2>2, <2>4, <2>5 DEF D!PutPart, Objects, Known, ProperRow, ProperAdmin
    <2>7. D!DeletedAudioIsGone'
        BY <1>3, <2>1 DEF D!PutPart, D!DeletedAudioIsGone, D!Versions, D!Existing, Objects, D!Row
    <2> QED BY <2>6, <2>7
<1>4. CASE D!NameParts(r)
    <2> DEFINE new == [row[r] EXCEPT !.rendered = TRUE]
    <2>1. row[r] \in D!Row /\ row[r].upload \in Artwork
        BY <1>1, <1>4 DEF D!NameParts
    <2>2. new \in D!Row /\ new.upload = row[r].upload /\ new.storage = row[r].storage
        BY <2>1 DEF D!Row
    <2>3. /\ row' \in [Rows -> D!Row \cup {None}] /\ row'[r] = new
          /\ \A s \in Rows : s # r => row'[s] = row[s]
        BY <1>1, <1>4, <2>2 DEF D!NameParts
    <2> HIDE DEF new
    <2>4. render' = [render EXCEPT ![r] = [render[r] EXCEPT !.step = "ended"]]
          /\ "ended" \in D!RenderSteps
        BY <1>1, <1>4 DEF D!NameParts, D!RenderTo, D!RenderSteps
    <2>5. render' \in [Rows -> D!Render] /\ \A s \in Rows : ProperRender(s)'
        BY <1>2, <1>4, <2>2, <2>3, <2>4, RenderGoesOn DEF D!NameParts
    <2>6. new.upload \notin Recordings /\ new.upload \in put
        <3>1. row[r] # None
            BY <2>1 DEF D!RowAssumption
        <3> QED BY <2>1, <2>2, <3>1 DEF D!UploadsAssumption, Objects, ProperRow
    <2>7. \A s \in Rows : row'[s] # None => ProperRow(s)'
        BY <1>4, <2>2, <2>3, <2>6 DEF D!NameParts, Objects, ProperRow
    <2>8. Objects'
        BY <1>4, <2>2, <2>3, <2>5, <2>7 DEF D!NameParts, Objects, Known, ProperAdmin
    <2>9. D!DeletedAudioIsGone'
        BY <1>4, <2>3, <2>6
           DEF D!NameParts, D!DeletedAudioIsGone, D!Versions, D!Existing, D!Original
    <2> QED BY <2>8, <2>9
<1>5. CASE D!RenderFails(r) \/ D!Retry(r)
    <2>1. PICK q \in D!Render : render' = [render EXCEPT ![r] = q] /\ q.step # "head"
        <3>1. CASE D!RenderFails(r)
            <4>1. render' = [render EXCEPT ![r] = [render[r] EXCEPT !.step = "broken"]]
                BY <1>1, <3>1 DEF D!RenderFails, D!RenderTo
            <4> QED BY <1>2, <4>1 DEF D!RenderSteps
        <3>2. CASE D!Retry(r)
            <4> DEFINE step == IF render[r].tries + 1 < Attempts THEN "waiting" ELSE "ended"
                       q == [render[r] EXCEPT !.tries = @ + 1, !.step = step]
            <4>1. step \in D!RenderSteps /\ step # "head" /\ render[r].tries + 1 \in Nat
                BY <1>1 DEF D!RenderSteps, D!Render
            <4>2. render' = [render EXCEPT ![r] = q]
                BY <1>1, <3>2 DEF D!Retry
            <4> HIDE DEF step
            <4>3. q \in D!Render /\ q.step = step
                BY <1>1, <4>1 DEF D!Render
            <4> HIDE DEF q
            <4> QED BY <4>1, <4>2, <4>3
        <3> QED BY <1>5, <3>1, <3>2
    <2>2. render[r].step \in goes /\ UNCHANGED <<stored, put, row, purge, admin>>
        BY <1>5 DEF D!RenderFails, D!Retry
    <2>3. render' \in [Rows -> D!Render] /\ \A s \in Rows : ProperRender(s)'
        BY <2>1, <2>2, RenderGoesOn
    <2>4. Objects'
        BY <2>2, <2>3 DEF Objects, Known, ProperRow, ProperAdmin
    <2>5. D!DeletedAudioIsGone'
        BY <2>2 DEF D!DeletedAudioIsGone, D!Original, D!Versions, D!Existing
    <2> QED BY <2>4, <2>5
<1> QED BY <1>3, <1>4, <1>5 DEF D!Process

-----------------------------------------------------------------------------
(* Deletions *)

\* One job changes.
LEMMA JobSet ==
    ASSUME Swept, NEW p \in Purges, NEW q, NEW objects \in SUBSET stored,
           ProperPurge(q, objects, put), purge' = [purge EXCEPT ![p] = q]
    PROVE  /\ purge' \in [Purges -> D!Purge \cup {None}]
           /\ \A x \in Purges : purge'[x] # None => ProperPurge(purge'[x], objects, put)
<1>1. q \in D!Purge
    BY DEF ProperPurge
<1>2. purge' \in [Purges -> D!Purge \cup {None}] /\ purge'[p] = q
      /\ \A x \in Purges : x # p => purge'[x] = purge[x]
    BY <1>1 DEF Swept, Objects
<1> QED BY <1>2, JobStays DEF Swept, Objects

LEMMA JobBegins ==
    ASSUME Swept, NEW p \in Purges, NEW keys \in SUBSET D!Keys, Known(keys, put),
           NEW type \in {"objects", "user"}, NEW step \in {"waiting", "deleting"},
           D!NewPurge(p, type, keys, step)
    PROVE  /\ purge' \in [Purges -> D!Purge \cup {None}]
           /\ \A x \in Purges : purge'[x] # None => ProperPurge(purge'[x], stored, put)
<1> DEFINE q == [type |-> type, step |-> step, keys |-> keys, todo |-> keys, chunk |-> {},
                 failed |-> {}, tries |-> 0, stalled |-> FALSE]
<1>1. q \in D!Purge /\ Known({}, put)
    BY DEF D!Purge, Known
<1>2. ProperPurge(q, stored, put)
    BY <1>1 DEF ProperPurge
<1>3. purge' = [purge EXCEPT ![p] = q]
    BY DEF D!NewPurge
<1> HIDE DEF q
<1> QED BY <1>2, <1>3, JobSet

\* Nothing is asked of a job or an administrator that stays as it was.
LEMMA SameJobs ==
    ASSUME Swept
    PROVE  /\ purge \in [Purges -> D!Purge \cup {None}]
           /\ \A p \in Purges : purge[p] # None => ProperPurge(purge[p], stored, put)
           /\ admin # None => ProperAdmin(admin)
BY DEF Swept, Objects

LEMMA ModerateKeeps ==
    ASSUME Swept, D!Moderate
    PROVE  Swept'
<1>1. ASSUME NEW t \in Tracks, D!AdminRead(t) PROVE Swept'
    <2> DEFINE rows == {r \in D!InState("AVAILABLE") : UploadTrack[row[r].upload] = t}
    <2>1. rows \in SUBSET D!Existing
        BY DEF D!InState
    <2>2. D!KeysOfRows(rows) \in SUBSET D!Keys /\ Known(D!KeysOfRows(rows), put)
        BY <2>1, KeysKnown DEF Swept
    <2>3. rows \in SUBSET Rows /\ \A r \in rows : row[r] \in D!Row
        BY <2>1 DEF D!Existing, Swept, Objects
    <2>4. admin' = [rows |-> rows, keys |-> D!KeysOfRows(rows), step |-> "read"]
        BY <1>1 DEF D!AdminRead
    <2> HIDE DEF rows
    <2>5. ProperAdmin(admin')
        BY <2>2, <2>3, <2>4 DEF ProperAdmin
    <2> QED BY <1>1, <2>5, SameJobs, JobsKeep DEF D!AdminRead
<1>2. CASE D!AdminDelete
    <2>1. ProperAdmin(admin)
        BY <1>2 DEF D!AdminDelete, Swept, Objects
    <2>2. ProperAdmin(admin')
        BY <1>2, <2>1 DEF D!AdminDelete, ProperAdmin
    <2>3. D!SetStorage(admin.rows, "DELETION_PENDING") /\ "DELETION_PENDING" \in D!StorageStatus
        BY <1>2 DEF D!AdminDelete, D!StorageStatus
    <2> QED BY <1>2, <2>1, <2>2, <2>3, SameJobs, MarkKeeps DEF D!AdminDelete, ProperAdmin
<1>3. CASE D!AdminPurge
    <2>1. ProperAdmin(admin)
        BY <1>3 DEF D!AdminPurge, Swept, Objects
    <2>2. CASE UNCHANGED purge
        BY <1>3, <2>2, SameJobs, JobsKeep DEF D!AdminPurge
    <2>3. ASSUME NEW p \in Purges, D!NewPurge(p, "objects", admin.keys, "deleting") PROVE Swept'
        BY <1>3, <2>1, <2>3, JobBegins, JobsKeep DEF D!AdminPurge, ProperAdmin
    <2> QED BY <1>3, <2>2, <2>3 DEF D!AdminPurge
<1>4. ASSUME NEW r \in Rows, D!deleteArtwork(r) PROVE Swept'
    <2>1. r \in D!Existing /\ row[r] \in D!Row
        BY <1>4 DEF D!deleteArtwork, D!Artworks, D!Existing, Swept, Objects
    <2>2. D!SetStorage({r}, "DELETION_PENDING") /\ "DELETION_PENDING" \in D!StorageStatus
        BY <1>4 DEF D!deleteArtwork, D!StorageStatus
    <2> QED BY <1>4, <2>1, <2>2, SameJobs, MarkKeeps DEF D!deleteArtwork
<1>5. ASSUME NEW p \in Purges,
             \/ D!purgeStorageCandidates(p) \/ D!deleteUserMedia(p)
             \/ \E key \in D!Keys : D!deleteMediaObject(p, key)
      PROVE  Swept'
    <2>1. PICK keys \in SUBSET D!Keys, type \in {"objects", "user"},
                step \in {"waiting", "deleting"} :
            Known(keys, put) /\ D!NewPurge(p, type, keys, step)
        <3>1. CASE D!purgeStorageCandidates(p)
            <4> DEFINE rs == D!Versions \cap D!InState("DELETION_PENDING")
            <4>1. rs \in SUBSET D!Existing
                BY DEF D!Versions
            <4>2. D!KeysOfRows(rs) \in SUBSET D!Keys /\ Known(D!KeysOfRows(rs), put)
                BY <4>1, KeysKnown DEF Swept
            <4> QED BY <3>1, <4>2 DEF D!purgeStorageCandidates
        <3>2. CASE D!deleteUserMedia(p)
            <4>1. {} \in SUBSET D!Keys /\ Known({}, put)
                BY DEF Known
            <4> QED BY <3>2, <4>1 DEF D!deleteUserMedia
        <3>3. ASSUME NEW key \in D!Keys, D!deleteMediaObject(p, key)
              PROVE  \E keys \in SUBSET D!Keys, type \in {"objects", "user"},
                        step \in {"waiting", "deleting"} :
                            Known(keys, put) /\ D!NewPurge(p, type, keys, step)
            <4>1. Known({key}, put) /\ {key} \in SUBSET D!Keys
                BY <3>3 DEF D!deleteMediaObject, Swept, Objects, Known
            <4> QED BY <3>3, <4>1 DEF D!deleteMediaObject
        <3> QED BY <1>5, <3>1, <3>2, <3>3
    <2>2. UNCHANGED <<stored, put, row, render, admin>>
        BY <1>5 DEF D!purgeStorageCandidates, D!deleteUserMedia, D!deleteMediaObject
    <2> QED BY <2>1, <2>2, SameJobs, JobBegins, JobsKeep
<1> QED BY <1>1, <1>2, <1>3, <1>4, <1>5 DEF D!Moderate

\* A job that is run again starts from its keys.
LEMMA AgainProper ==
    ASSUME Swept, NEW p \in Purges, purge[p] # None
    PROVE  /\ D!Again(p) \in D!Purge /\ D!Again(p).step \in {"deleting", "waiting"}
           /\ \A q \in D!Purge :
                q.keys = D!Again(p).keys /\ q.todo = D!Again(p).todo
                   /\ q.chunk = D!Again(p).chunk /\ q.step = D!Again(p).step
                => ProperPurge(q, stored, put)
<1> DEFINE step == IF purge[p].type = "objects" THEN "deleting" ELSE "waiting"
           again == [purge[p] EXCEPT !.todo = purge[p].keys, !.chunk = {}, !.failed = {},
                                     !.step = step]
<1>1. purge[p] \in D!Purge /\ Known(purge[p].keys, put)
    BY DEF Swept, Objects, ProperPurge
<1>2. /\ again \in D!Purge /\ again.step = step /\ again.keys = purge[p].keys
      /\ again.todo = purge[p].keys /\ again.chunk = {}
    BY <1>1 DEF D!Purge
<1>3. D!Again(p) = again
    BY DEF D!Again
<1>4. Known({}, put) /\ step \in {"deleting", "waiting"}
    BY DEF Known
<1> HIDE DEF step, again
<1>5. ASSUME NEW q \in D!Purge, q.keys = D!Again(p).keys, q.todo = D!Again(p).todo,
             q.chunk = D!Again(p).chunk, q.step = D!Again(p).step
      PROVE  ProperPurge(q, stored, put)
    <2>1. Known(q.keys, put) /\ Known(q.todo, put) /\ Known(q.chunk, put) /\ q.step # "deleted"
        BY <1>1, <1>2, <1>3, <1>4, <1>5
    <2> QED BY <2>1 DEF ProperPurge
<1>6. D!Again(p) \in D!Purge /\ D!Again(p).step \in {"deleting", "waiting"}
    BY <1>2, <1>3, <1>4
<1> QED BY <1>5, <1>6

LEMMA EndedProper ==
    /\ D!Ended \in D!Purge
    /\ \A q \in D!Purge : q.keys = {} /\ q.todo = {} /\ q.chunk = {}
                             => ProperPurge(q, stored, put)
<1>1. Known({}, put)
    BY DEF Known
<1> QED BY <1>1 DEF D!Ended, D!Purge, ProperPurge

LEMMA CollectKeeps ==
    ASSUME Swept, NEW p \in Purges, D!Collect(p) \/ D!MarkPending(p)
    PROVE  Swept'
<1> DEFINE rs == D!Existing \ D!InState("DELETED")
<1>1. rs \in SUBSET D!Existing /\ rs \in SUBSET Rows /\ \A r \in rs : row[r] \in D!Row
    BY DEF D!Existing, Swept, Objects
<1>2. purge[p] # None /\ purge[p] \in D!Purge /\ ProperPurge(purge[p], stored, put)
    BY DEF D!Collect, D!MarkPending, D!PurgeAt, Swept, Objects
<1>3. CASE D!Collect(p)
    <2> DEFINE q == [purge[p] EXCEPT !.step = "collected", !.todo = D!KeysOfRows(rs)]
    <2>1. D!KeysOfRows(rs) \in SUBSET D!Keys /\ Known(D!KeysOfRows(rs), put)
        BY <1>1, KeysKnown DEF Swept
    <2>2. purge' = [purge EXCEPT ![p] = q]
        BY <1>3 DEF D!Collect, Swept, Objects
    <2>3. /\ q \in D!Purge /\ q.keys = purge[p].keys /\ q.todo = D!KeysOfRows(rs)
          /\ q.chunk = purge[p].chunk /\ q.step = "collected"
        BY <1>2, <2>1 DEF D!Purge
    <2> HIDE DEF q
    <2>4. ProperPurge(q, stored, put)
        BY <1>2, <2>1, <2>3 DEF ProperPurge
    <2> QED BY <1>3, <2>2, <2>4, JobSet, SameJobs, JobsKeep DEF D!Collect
<1>4. CASE D!MarkPending(p)
    <2> DEFINE q == [purge[p] EXCEPT !.step = "deleting"]
    <2>1. /\ q \in D!Purge /\ q.keys = purge[p].keys /\ q.todo = purge[p].todo
          /\ q.chunk = purge[p].chunk /\ q.step = "deleting"
        BY <1>2 DEF D!Purge
    <2> HIDE DEF q
    <2>2. ProperPurge(q, stored, put) /\ ProperPurge(D!Ended, stored, put)
        BY <1>2, <2>1, EndedProper DEF ProperPurge, D!Ended
    <2>3. purge' = [purge EXCEPT ![p] = q] \/ purge' = [purge EXCEPT ![p] = D!Ended]
        BY <1>4 DEF D!MarkPending, q
    <2>4. D!SetStorage(rs, "DELETION_PENDING") /\ "DELETION_PENDING" \in D!StorageStatus
        BY <1>4 DEF D!MarkPending, D!StorageStatus
    <2>5. /\ purge' \in [Purges -> D!Purge \cup {None}]
          /\ \A x \in Purges : purge'[x] # None => ProperPurge(purge'[x], stored, put)
        BY <2>2, <2>3, JobSet
    <2> HIDE DEF rs
    <2> QED BY <1>1, <1>4, <2>4, <2>5, SameJobs, MarkKeeps DEF D!MarkPending
<1> QED BY <1>3, <1>4

LEMMA DeleteObjectsKeeps ==
    ASSUME Swept, NEW p \in Purges, D!DeleteObjects(p)
    PROVE  Swept'
<1>1. purge[p] # None /\ purge[p] \in D!Purge /\ ProperPurge(purge[p], stored, put)
    BY DEF D!DeleteObjects, D!PurgeAt, Swept, Objects
<1>2. PICK chunk \in D!Chunks(p) : \E failed \in SUBSET chunk :
        /\ stored' = stored \ (chunk \ failed)
        /\ purge' = [purge EXCEPT ![p].step = "deleted",
                                  ![p].chunk = chunk, ![p].failed = failed]
    BY DEF D!DeleteObjects
<1>3. PICK failed \in SUBSET chunk :
       /\ stored' = stored \ (chunk \ failed)
       /\ purge' = [purge EXCEPT ![p] =
                        [purge[p] EXCEPT !.step = "deleted", !.chunk = chunk, !.failed = failed]]
    BY <1>2 DEF Swept, Objects
<1> DEFINE q == [purge[p] EXCEPT !.step = "deleted", !.chunk = chunk, !.failed = failed]
<1>4. chunk \in SUBSET purge[p].todo
    BY DEF D!Chunks
<1>5. /\ q \in D!Purge /\ q.keys = purge[p].keys /\ q.todo = purge[p].todo
      /\ q.chunk = chunk /\ q.failed = failed
    BY <1>1, <1>4 DEF D!Purge
<1>6. purge' = [purge EXCEPT ![p] = q] /\ stored' \in SUBSET stored
    BY <1>3 DEF Swept, Objects
<1> HIDE DEF q
<1>7. ProperPurge(q, stored', put)
    BY <1>1, <1>3, <1>4, <1>5 DEF ProperPurge, Known
<1>8. /\ purge' \in [Purges -> D!Purge \cup {None}]
      /\ \A x \in Purges : purge'[x] # None => ProperPurge(purge'[x], stored', put)
    BY <1>6, <1>7, JobSet
<1> QED BY <1>6, <1>8, SameJobs, JobsKeep DEF D!DeleteObjects

LEMMA RecordDeletedKeeps ==
    ASSUME Swept, NEW p \in Purges, D!RecordDeleted(p)
    PROVE  Swept'
<1> DEFINE rs == D!RowsWith(D!Succeeded(p))
<1>1. purge[p] # None /\ purge[p] \in D!Purge /\ ProperPurge(purge[p], stored, put)
    BY DEF D!RecordDeleted, D!PurgeAt, Swept, Objects
<1>2. rs \in SUBSET Rows /\ \A r \in rs : row[r] \in D!Row
    BY DEF D!RowsWith, D!Existing, Swept, Objects
<1>3. ASSUME NEW r \in rs, row[r].upload \in Recordings
      PROVE  D!Original(row[r].upload) \notin stored
    <2>1. r \in Rows /\ row[r] # None /\ D!KeysOf(r) \cap D!Succeeded(p) # {}
        BY DEF D!RowsWith, D!Existing
    <2>2. ~row[r].rendered
        BY <1>3, <2>1 DEF Swept, Objects, ProperRow
    <2>3. D!KeysOf(r) = {D!Original(row[r].upload)}
        BY <2>2 DEF D!KeysOf, D!Original
    <2>4. D!Original(row[r].upload) \in purge[p].chunk \ purge[p].failed
        BY <2>1, <2>3 DEF D!Succeeded
    <2>5. row[r].upload \in D!Uploads /\ purge[p].step = "deleted"
        BY <1>3 DEF D!Uploads, D!RecordDeleted, D!PurgeAt
    <2> QED BY <1>1, <2>4, <2>5 DEF ProperPurge
<1>4. ProperPurge(D!AfterChunk(p), stored, put)
    <2> DEFINE left == purge[p].todo \ purge[p].chunk
    <2>1. CASE purge[p].failed # {} /\ purge[p].tries + 1 < Attempts
        <3> DEFINE q == [D!Again(p) EXCEPT !.tries = @ + 1]
        <3>1. /\ q \in D!Purge /\ q.keys = D!Again(p).keys /\ q.todo = D!Again(p).todo
              /\ q.chunk = D!Again(p).chunk /\ q.step = D!Again(p).step
            BY <1>1, AgainProper DEF D!Purge
        <3>2. D!AfterChunk(p) = q
            BY <2>1 DEF D!AfterChunk
        <3> HIDE DEF q
        <3> QED BY <1>1, <3>1, <3>2, AgainProper
    <2>2. CASE purge[p].failed # {} /\ ~(purge[p].tries + 1 < Attempts)
        <3> DEFINE q == [D!Ended EXCEPT !.step = "dead"]
        <3>1. q \in D!Purge /\ q.keys = {} /\ q.todo = {} /\ q.chunk = {}
            BY DEF D!Ended, D!Purge
        <3>2. D!AfterChunk(p) = q
            BY <2>2 DEF D!AfterChunk
        <3> HIDE DEF q
        <3> QED BY <3>1, <3>2, EndedProper
    <2>3. CASE purge[p].failed = {} /\ left = {}
        <3>1. D!AfterChunk(p) = D!Ended
            BY <2>3 DEF D!AfterChunk
        <3> QED BY <3>1, EndedProper DEF D!Ended
    <2>4. CASE purge[p].failed = {} /\ left # {}
        <3> DEFINE q == [purge[p] EXCEPT !.todo = left, !.chunk = {}, !.step = "deleting"]
        <3>1. D!AfterChunk(p) = q
            BY <2>4 DEF D!AfterChunk
        <3>2. /\ q \in D!Purge /\ q.keys = purge[p].keys /\ q.todo = left
              /\ q.chunk = {} /\ q.step = "deleting"
            BY <1>1 DEF D!Purge
        <3> HIDE DEF q
        <3> QED BY <1>1, <3>1, <3>2 DEF ProperPurge, Known
    <2> QED BY <2>1, <2>2, <2>3, <2>4
<1>5. /\ purge' \in [Purges -> D!Purge \cup {None}]
      /\ \A x \in Purges : purge'[x] # None => ProperPurge(purge'[x], stored, put)
    BY <1>4, JobSet DEF D!RecordDeleted
<1>6. D!SetStorage(rs, "DELETED") /\ "DELETED" \in D!StorageStatus
    BY DEF D!RecordDeleted, D!StorageStatus
<1> HIDE DEF rs
<1> QED BY <1>2, <1>3, <1>5, <1>6, SameJobs, MarkKeeps DEF D!RecordDeleted

LEMMA StallKeeps ==
    ASSUME Swept, NEW p \in Purges, D!Stall(p)
    PROVE  Swept'
<1> DEFINE q == [D!Again(p) EXCEPT !.stalled = TRUE]
<1>1. purge[p] # None /\ purge' = [purge EXCEPT ![p] = q]
    BY DEF D!Stall
<1>2. /\ q \in D!Purge /\ q.keys = D!Again(p).keys /\ q.todo = D!Again(p).todo
      /\ q.chunk = D!Again(p).chunk /\ q.step = D!Again(p).step
    BY <1>1, AgainProper DEF D!Purge
<1> HIDE DEF q
<1>3. ProperPurge(q, stored, put)
    BY <1>1, <1>2, AgainProper
<1> QED BY <1>1, <1>3, JobSet, SameJobs, JobsKeep DEF D!Stall

\* A version whose row says DELETED has no audio left in storage, for any number of
\* uploads, rows and deletion jobs, wherever storage and the worker fail.
THEOREM AudioIsGone == D!Spec => []DeletedAudioIsGone
<1>1. D!Init => Swept
    <2> SUFFICES ASSUME D!Init PROVE Swept
        OBVIOUS
    <2>1. render \in [Rows -> D!Render] /\ \A r \in Rows : ProperRender(r)
        BY DEF D!Init, D!Render, D!RenderSteps, ProperRender
    <2>2. Objects
        BY <2>1 DEF D!Init, Objects, Known
    <2>3. D!DeletedAudioIsGone
        BY DEF D!Init, D!DeletedAudioIsGone, D!Versions, D!Existing
    <2> QED BY <2>2, <2>3, UploadsAssumption, MediaAssumption DEF Swept
<1>2. Swept /\ [D!Next]_(D!vars) => Swept'
    <2> SUFFICES ASSUME Swept, [D!Next]_(D!vars) PROVE Swept'
        OBVIOUS
    <2>1. CASE D!Upload
        BY <2>1, PutKeeps, HeadKeeps, CreateKeeps DEF D!Upload
    <2>2. CASE D!Moderate
        BY <2>2, ModerateKeeps
    <2>3. ASSUME NEW r \in Rows, D!Process(r) PROVE Swept'
        BY <2>3, ProcessKeeps
    <2>4. ASSUME NEW p \in Purges, D!Delete(p) \/ D!Stall(p) PROVE Swept'
        BY <2>4, CollectKeeps, DeleteObjectsKeeps, RecordDeletedKeeps, StallKeeps DEF D!Delete
    <2>5. CASE UNCHANGED D!vars
        BY <2>5, SameJobs, JobsKeep DEF D!vars
    <2> QED BY <2>1, <2>2, <2>3, <2>4, <2>5 DEF D!Next
<1>3. Swept => DeletedAudioIsGone
    BY DEF Swept, DeletedAudioIsGone
<1> QED BY <1>1, <1>2, <1>3, PTL DEF D!Spec

=============================================================================
