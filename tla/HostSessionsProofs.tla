------------------------- MODULE HostSessionsProofs -------------------------
(***************************************************************************)
(* Theorems about the sessions of a host, HostSessions, and about the page *)
(* that follows one of them, LiveSync, as the instance Page; for every     *)
(* value of their constants.  The two share no variable.                   *)
(***************************************************************************)
EXTENDS HostSessions, MCLiveSync, TLAPS

USE NoneAssumption, BoundsAssumption

-----------------------------------------------------------------------------
(* The inductive invariant *)

\* The goLive that is past the lock holds it, and every open session is
\* among those it is about to end: createLiveSession waits for the lock, and
\* nothing else opens one.
Locked == \A r \in Requests : In(r, "locked") => hostLock = r /\ Open \subseteq request[r].targets

\* No time that was read or written lies ahead of the clock.
Past ==
    /\ \A s \in Sessions : session[s].startedAt # None => session[s].startedAt <= now
    /\ \A r \in Requests : request[r].at <= now
    /\ \A i \in Instances : sweep[i].at <= now

Inv == TypeOK /\ OneOpenSession /\ TimesAgree /\ Locked /\ Past

USE DEF Sessions, Time

\* One row's part of TimesAgree and Past.
RowAgrees(row, time) ==
    /\ row.status = "ENDED" <=> row.endedAt # None
    /\ row.status \in {"LIVE", "PAUSED"} => row.startedAt # None /\ row.activity # None
    /\ row.endedAt # None /\ row.startedAt # None => row.startedAt <= row.endedAt
    /\ row.startedAt # None => row.startedAt <= time

LEMMA RowsAgree == Inv => \A s \in Sessions : session[s] \in LiveSession /\ RowAgrees(session[s], now)
BY DEF Inv, TypeOK, TimesAgree, Past, RowAgrees

\* What a start and an end write keeps a row's times in order.
LEMMA StartedRow ==
    ASSUME NEW row \in LiveSession, NEW time \in Time, row.endedAt = None
    PROVE  LET to == [row EXCEPT !.status = "LIVE", !.startedAt = time, !.activity = time]
           IN  to \in LiveSession /\ RowAgrees(to, time)
<1> DEFINE to == [row EXCEPT !.status = "LIVE", !.startedAt = time, !.activity = time]
<1>1. /\ to.status = "LIVE" /\ to.startedAt = time
      /\ to.activity = time /\ to.endedAt = None
    BY DEF LiveSession
<1>2. to \in LiveSession
    BY DEF LiveSession, ActiveStates
<1>3. time # None /\ time <= time
    OBVIOUS
<1> QED BY <1>1, <1>2, <1>3 DEF RowAgrees

LEMMA EndedRow ==
    ASSUME NEW row \in LiveSession, NEW at \in Time, NEW time \in Time,
           row.startedAt # None => row.startedAt <= at /\ row.startedAt <= time,
           row.status \in {"LIVE", "PAUSED"} => row.startedAt # None /\ row.activity # None
    PROVE  LET to == [row EXCEPT !.status = "ENDED", !.endedAt = at]
           IN  to \in LiveSession /\ RowAgrees(to, time) /\ to.status = "ENDED"
<1> DEFINE to == [row EXCEPT !.status = "ENDED", !.endedAt = at]
<1>1. to.status = "ENDED" /\ to.startedAt = row.startedAt /\ to.endedAt = at
    BY DEF LiveSession
<1>2. to \in LiveSession
    BY DEF LiveSession
<1>3. at # None
    OBVIOUS
<1> QED BY <1>1, <1>2, <1>3 DEF RowAgrees

LEMMA InvInit == Init => Inv
BY DEF Init, Inv, TypeOK, OneOpenSession, TimesAgree, Locked, Past, Open, In, Idle, Rest,
       NoSession, LiveSession, Request, Sweep, ActiveStates

-----------------------------------------------------------------------------
(* Steps that change one session's row *)

\* The step keeps the row's times in order, and it does not open a session.
LEMMA RowInv ==
    ASSUME Inv, NEW s \in Sessions, NEW to \in LiveSession,
           session' = [session EXCEPT ![s] = to],
           to.status \in ActiveStates => session[s].status \in ActiveStates,
           RowAgrees(to, now),
           UNCHANGED <<now, approved, hostLock, request, failures>>,
           sweep' \in [Instances -> Sweep],
           \A i \in Instances : sweep'[i].at <= now
    PROVE  Inv'
<1> USE DEF Inv
<1>1. TypeOK'
    BY DEF TypeOK
<1>2. \A t \in Sessions : session'[t] = IF t = s THEN to ELSE session[t]
    BY DEF TypeOK
<1>3. Open' \subseteq Open
    BY <1>2 DEF Open
<1>4. OneOpenSession'
    BY <1>3 DEF OneOpenSession
<1>5. TimesAgree'
    BY <1>2 DEF TimesAgree, RowAgrees
<1>6. Locked'
    BY <1>3 DEF Locked, In
<1>7. Past'
    BY <1>2 DEF Past, RowAgrees
<1> QED BY <1>1, <1>4, <1>5, <1>6, <1>7

\* The operations of a session that exists.
LEMMA LifecycleInv ==
    ASSUME Inv, NEW s \in Sessions,
           \/ StartLiveSession(s) \/ PauseLiveSession(s) \/ ResumeLiveSession(s)
           \/ EndLiveSession(s) \/ Play(s)
    PROVE  Inv'
<1> DEFINE row == session[s]
<1> USE DEF Lifecycle, ActiveStates
<1>1. row \in LiveSession /\ RowAgrees(row, now) /\ now \in Time
    BY RowsAgree DEF Inv, TypeOK
<1>2. sweep \in [Instances -> Sweep] /\ \A i \in Instances : sweep[i].at <= now
    BY DEF Inv, TypeOK, Past
<1>3. CASE StartLiveSession(s)
    <2> DEFINE to == [row EXCEPT !.status = "LIVE", !.startedAt = now, !.activity = now]
    <2>1. to \in LiveSession /\ RowAgrees(to, now)
        <3>1. row.endedAt = None
            BY <1>1, <1>3 DEF StartLiveSession, RowAgrees
        <3> QED BY <1>1, <3>1, StartedRow
    <2> QED BY <1>1, <1>2, <1>3, <2>1, RowInv DEF StartLiveSession, LiveSession
<1>4. CASE PauseLiveSession(s)
    <2> DEFINE to == [row EXCEPT !.status = "PAUSED"]
    <2>1. to \in LiveSession /\ RowAgrees(to, now)
        BY <1>1, <1>4 DEF PauseLiveSession, LiveSession, RowAgrees
    <2> QED BY <1>1, <1>2, <1>4, <2>1, RowInv DEF PauseLiveSession
<1>5. CASE ResumeLiveSession(s)
    <2> DEFINE to == [row EXCEPT !.status = "LIVE"]
    <2>1. to \in LiveSession /\ RowAgrees(to, now)
        BY <1>1, <1>5 DEF ResumeLiveSession, LiveSession, RowAgrees
    <2> QED BY <1>1, <1>2, <1>5, <2>1, RowInv DEF ResumeLiveSession
<1>6. CASE EndLiveSession(s)
    <2> DEFINE to == [row EXCEPT !.status = "ENDED", !.endedAt = now]
    <2>1. to \in LiveSession /\ RowAgrees(to, now) /\ to.status = "ENDED"
        <3>1. row.startedAt # None => row.startedAt <= now
            BY <1>1 DEF RowAgrees
        <3>2. row.status \in {"LIVE", "PAUSED"} => row.startedAt # None /\ row.activity # None
            BY <1>1 DEF RowAgrees
        <3> QED BY <1>1, <3>1, <3>2, EndedRow
    <2> QED BY <1>1, <1>2, <1>6, <2>1, RowInv DEF EndLiveSession
<1>7. CASE Play(s)
    <2> DEFINE to == [row EXCEPT !.activity = now]
    <2>1. to \in LiveSession /\ RowAgrees(to, now) /\ to.status = row.status
        BY <1>1, <1>7 DEF Play, LiveSession, RowAgrees
    <2> QED BY <1>1, <1>2, <1>7, <2>1, RowInv DEF Play
<1> QED BY <1>3, <1>4, <1>5, <1>6, <1>7

-----------------------------------------------------------------------------
(* Steps that open and end sessions *)

\* createLiveSession opens one where none is open, and no goLive holds the lock.
LEMMA CreateInv ==
    ASSUME Inv, NEW s \in Sessions, CreateLiveSession(s)
    PROVE  Inv'
<1> USE DEF Inv, CreateLiveSession
<1>1. session[s] \in LiveSession /\ RowAgrees(session[s], now)
    BY RowsAgree
<1>2. \A t \in Sessions :
        session'[t] = IF t = s THEN [session[s] EXCEPT !.status = "PREPARING"] ELSE session[t]
    BY DEF TypeOK
<1>3. [session[s] EXCEPT !.status = "PREPARING"] \in LiveSession
    BY <1>1 DEF LiveSession, ActiveStates
<1>4. TypeOK'
    BY <1>3 DEF TypeOK
<1>5. Open' \subseteq {s}
    BY <1>2 DEF Open
<1>6. TimesAgree' /\ Past'
    BY <1>1, <1>2 DEF TimesAgree, Past, RowAgrees, LiveSession, Fresh
<1>7. Locked'
    BY DEF Locked, In
<1> QED BY <1>4, <1>5, <1>6, <1>7 DEF OneOpenSession

\* Ending a set of sessions at a time that is not before their starts.
LEMMA EndedAgree ==
    ASSUME Inv, NEW S \in SUBSET Sessions, NEW at \in Time, at <= now, MayEnd(S, at)
    PROVE  /\ Ended(S, at) \in [Sessions -> LiveSession]
           /\ \A s \in Sessions : RowAgrees(Ended(S, at)[s], now)
           /\ \A s \in Sessions : Ended(S, at)[s].status \in ActiveStates
                                    <=> s \in Open \ S
<1>1. \A s \in Sessions : session[s] \in LiveSession /\ RowAgrees(session[s], now)
    BY RowsAgree
<1>2. ASSUME NEW s \in Sessions
      PROVE  /\ Ended(S, at)[s] \in LiveSession
             /\ RowAgrees(Ended(S, at)[s], now)
             /\ Ended(S, at)[s].status \in ActiveStates <=> s \in Open \ S
    <2>1. CASE s \in S
        <3>1. Ended(S, at)[s] = [session[s] EXCEPT !.status = "ENDED", !.endedAt = at]
            BY <2>1 DEF Ended
        <3>2. session[s].startedAt # None => session[s].startedAt <= at
            BY <2>1 DEF MayEnd
        <3>3. session[s] \in LiveSession /\ now \in Time
            BY <1>1 DEF Inv, TypeOK
        <3>4. session[s].startedAt # None => session[s].startedAt <= now
            BY <1>1 DEF RowAgrees
        <3>5. session[s].status \in {"LIVE", "PAUSED"} =>
                session[s].startedAt # None /\ session[s].activity # None
            BY <1>1 DEF RowAgrees
        <3> HIDE DEF Sessions, Time
        <3>6. LET to == [session[s] EXCEPT !.status = "ENDED", !.endedAt = at]
              IN  to \in LiveSession /\ RowAgrees(to, now) /\ to.status = "ENDED"
            BY <3>2, <3>3, <3>4, <3>5, EndedRow
        <3>7. /\ Ended(S, at)[s] \in LiveSession /\ RowAgrees(Ended(S, at)[s], now)
              /\ Ended(S, at)[s].status = "ENDED"
            BY <3>1, <3>6
        <3> QED BY <2>1, <3>7 DEF ActiveStates
    <2>2. CASE s \notin S
        BY <1>1, <2>2 DEF Ended, Open
    <2> QED BY <2>1, <2>2
<1> QED BY <1>2 DEF Ended

\* A request ends sessions and goes back to idle, or a sweep goes on.
LEMMA EndInv ==
    ASSUME Inv, NEW S \in SUBSET Sessions, NEW at \in Time, at <= now, MayEnd(S, at),
           session' = Ended(S, at),
           approved' \in BOOLEAN,
           request' \in [Requests -> Request],
           \A r \in Requests : request'[r] = request[r] \/ request'[r] = Idle,
           sweep' \in [Instances -> Sweep],
           \A i \in Instances : sweep'[i].at <= now,
           UNCHANGED <<now, hostLock, failures>>
    PROVE  Inv'
<1> USE DEF Inv
<1>1. /\ session' \in [Sessions -> LiveSession]
      /\ \A s \in Sessions : RowAgrees(session'[s], now)
      /\ Open' \subseteq Open
    BY EndedAgree DEF Open
<1>2. TypeOK'
    BY <1>1 DEF TypeOK
<1>3. OneOpenSession'
    BY <1>1 DEF OneOpenSession
<1>4. TimesAgree'
    BY <1>1 DEF TimesAgree, RowAgrees
<1>5. Locked'
    BY <1>1 DEF Locked, In, Idle
<1>6. Past'
    BY <1>1 DEF Past, RowAgrees, Idle, TypeOK
<1> QED BY <1>2, <1>3, <1>4, <1>5, <1>6

LEMMA GoLiveInv ==
    ASSUME Inv, NEW r \in Requests, NEW s \in Sessions, GoLive(r, s)
    PROVE  Inv'
<1> USE DEF Inv
<1> DEFINE S == request[r].targets
           at == request[r].at
           new == [status |-> "LIVE", startedAt |-> at, endedAt |-> None, activity |-> at]
<1>1. S \in SUBSET Sessions /\ at \in Time /\ at <= now /\ request[r] \in Request
    BY DEF TypeOK, Past, Request
<1>2. /\ Ended(S, at) \in [Sessions -> LiveSession]
      /\ \A t \in Sessions : RowAgrees(Ended(S, at)[t], now)
      /\ \A t \in Sessions : Ended(S, at)[t].status \in ActiveStates <=> t \in Open \ S
    <2>1. MayEnd(S, at)
        BY DEF GoLive
    <2> HIDE DEF S, at
    <2> QED BY <1>1, <2>1, EndedAgree
<1>3. session' = [Ended(S, at) EXCEPT ![s] = new]
    BY DEF GoLive
<1>4. new \in LiveSession /\ RowAgrees(new, now)
    BY <1>1 DEF LiveSession, RowAgrees, ActiveStates
<1>5. session' \in [Sessions -> LiveSession]
    BY <1>2, <1>3, <1>4
<1>6. \A t \in Sessions : session'[t] = IF t = s THEN new ELSE Ended(S, at)[t]
    BY <1>2, <1>3
<1>7. Open \subseteq S /\ hostLock = r
    BY DEF Locked, GoLive
<1>8. Open' \subseteq {s}
    BY <1>2, <1>6, <1>7 DEF Open
<1>9. TypeOK'
    <2>1. Idle \in Request
        BY DEF Idle, Request
    <2> QED BY <1>5, <2>1 DEF TypeOK, GoLive
<1>10. TimesAgree' /\ Past'
    <2>1. \A t \in Sessions : RowAgrees(session'[t], now)
        BY <1>2, <1>4, <1>6
    <2>2. \A q \in Requests : request'[q] = IF q = r THEN Idle ELSE request[q]
        BY DEF GoLive, TypeOK
    <2>3. now' = now /\ sweep' = sweep
        BY DEF GoLive
    <2> QED BY <2>1, <2>2, <2>3 DEF TimesAgree, Past, RowAgrees, Idle, TypeOK
<1>11. Locked'
    <2>1. \A q \in Requests : ~In(q, "locked")'
        BY <1>7 DEF GoLive, In, Idle, Locked, TypeOK
    <2> QED BY <2>1 DEF Locked
<1> QED BY <1>8, <1>9, <1>10, <1>11 DEF OneOpenSession

-----------------------------------------------------------------------------
(* Steps that change no session *)

LEMMA RequestInv ==
    ASSUME Inv, NEW r \in Requests,
           CheckApproved(r) \/ LockHost(r) \/ Abort(r) \/ ReadOffline(r) \/ ReadSuspend(r)
    PROVE  Inv'
<1> USE DEF Inv
<1>1. /\ now \in Time /\ request \in [Requests -> Request] /\ Open \in SUBSET Sessions
      /\ request[r].at \in Time /\ request[r].at <= now
      /\ UNCHANGED <<now, approved, session, sweep, failures>>
    BY DEF TypeOK, Past, Request, Open, CheckApproved, LockHost, Abort, ReadOffline, ReadSuspend
<1>2. Open' = Open /\ OneOpenSession' /\ TimesAgree'
    BY <1>1 DEF Open, OneOpenSession, TimesAgree
<1>3. PICK new \in Request :
        /\ request' = [request EXCEPT ![r] = new]
        /\ new.at <= now
        /\ new.phase = "locked" => /\ LockHost(r) /\ new.targets = Open
    <2>1. CASE LockHost(r)
        <3>1. [request[r] EXCEPT !.phase = "locked", !.targets = Open] \in Request
            BY <1>1 DEF Request
        <3> QED BY <1>1, <2>1, <3>1 DEF LockHost, Request
    <2>2. CASE Abort(r)
        <3>1. Idle \in Request /\ Idle.at <= now /\ Idle.phase # "locked"
            BY <1>1 DEF Idle, Request
        <3> QED BY <2>2, <3>1 DEF Abort
    <2>3. ASSUME NEW phase \in {"checked", "offline", "suspending"},
                 NEW S \in SUBSET Sessions,
                 request' = [request EXCEPT ![r] = [phase |-> phase, at |-> now, targets |-> S]]
          PROVE  \E new \in Request :
                    /\ request' = [request EXCEPT ![r] = new]
                    /\ new.at <= now
                    /\ new.phase = "locked" => /\ LockHost(r) /\ new.targets = Open
        <3> DEFINE new == [phase |-> phase, at |-> now, targets |-> S]
        <3>1. new \in Request /\ new.at <= now /\ new.phase # "locked"
            BY <1>1 DEF Request
        <3> QED BY <2>3, <3>1
    <2>4. CASE CheckApproved(r) \/ ReadOffline(r) \/ ReadSuspend(r)
        <3>1. PICK phase \in {"checked", "offline", "suspending"}, S \in {{}, Open} :
                request' = [request EXCEPT ![r] = [phase |-> phase, at |-> now, targets |-> S]]
            BY <2>4 DEF CheckApproved, ReadOffline, ReadSuspend
        <3>2. S \in SUBSET Sessions
            BY <1>1
        <3> QED BY <2>3, <3>1, <3>2
    <2> QED BY <2>1, <2>2, <2>4
<1>4. request' \in [Requests -> Request]
      /\ \A q \in Requests : request'[q] = IF q = r THEN new ELSE request[q]
    BY <1>1, <1>3
<1>5. hostLock' \in Requests \cup {None}
    BY DEF TypeOK, CheckApproved, LockHost, Abort, ReadOffline, ReadSuspend
<1>6. TypeOK' /\ Past'
    BY <1>1, <1>3, <1>4, <1>5 DEF TypeOK, Past
<1>7. Locked'
    <2> SUFFICES ASSUME NEW q \in Requests, In(q, "locked")'
                 PROVE  hostLock' = q /\ Open \subseteq request'[q].targets
        BY <1>2 DEF Locked
    <2>1. CASE q = r
        BY <1>3, <1>4, <2>1 DEF In, LockHost
    <2>2. CASE q # r
        <3>1. hostLock = q /\ Open \subseteq request[q].targets /\ request'[q] = request[q]
            BY <1>4, <2>2 DEF In, Locked
        <3> QED BY <2>2, <3>1 DEF CheckApproved, LockHost, Abort, ReadOffline, ReadSuspend
    <2> QED BY <2>1, <2>2
<1> QED BY <1>2, <1>6, <1>7

\* A step of the clock, a sweep's read or failure, and an approval.
LEMMA QuietInv ==
    ASSUME Inv, UNCHANGED <<session, hostLock, request>>,
           now' \in Time, now <= now', approved' \in BOOLEAN, failures' \in 0..MaxFailures,
           sweep' \in [Instances -> Sweep],
           \A i \in Instances : sweep'[i].at <= now'
    PROVE  Inv'
<1> USE DEF Inv
<1>1. TypeOK'
    BY DEF TypeOK
<1>2. OneOpenSession' /\ TimesAgree' /\ Locked'
    BY DEF OneOpenSession, TimesAgree, Locked, Open, In
<1>3. Past'
    BY DEF Past, TypeOK, LiveSession, Request
<1> QED BY <1>1, <1>2, <1>3

LEMMA SweepInv ==
    ASSUME Inv, NEW i \in Instances, OfSweep(i) \/ SweepFails(i)
    PROVE  Inv'
<1> USE DEF Inv
<1>1. /\ now \in Time /\ sweep \in [Instances -> Sweep] /\ sweep[i] \in Sweep
      /\ failures \in 0..MaxFailures /\ approved \in BOOLEAN
      /\ request \in [Requests -> Request]
      /\ \A j \in Instances : sweep[j].at <= now
    BY DEF TypeOK, Past
<1>2. Rest \in Sweep /\ Rest.at <= now
    BY <1>1 DEF Rest, Sweep
<1>3. CASE ReadSweep(i)
    <2> DEFINE found == {s \in Sessions : Swept(session[s], now)}
    <2>1. [at |-> now, targets |-> found] \in Sweep
        BY <1>1 DEF Sweep
    <2>2. sweep' \in [Instances -> Sweep] /\ \A j \in Instances : sweep'[j].at <= now
        BY <1>1, <1>3, <2>1 DEF ReadSweep
    <2> QED BY <1>1, <1>3, <2>2, QuietInv DEF ReadSweep
<1>4. ASSUME NEW s \in sweep[i].targets, SweepSession(i, s) PROVE Inv'
    <2>1. s \in Sessions /\ sweep[i].at \in Time
        BY <1>1 DEF Sweep
    <2>2. sweep' \in [Instances -> Sweep] /\ \A j \in Instances : sweep'[j].at <= now
        <3> DEFINE left == [at |-> sweep[i].at, targets |-> sweep[i].targets \ {s}]
        <3>1. PICK new \in {Rest, left} : sweep' = [sweep EXCEPT ![i] = new]
            BY <1>4 DEF SweepSession, Done
        <3>2. left \in Sweep /\ left.at <= now
            BY <1>1 DEF Sweep
        <3> HIDE DEF left
        <3>3. new \in Sweep /\ new.at <= now
            BY <1>2, <3>2
        <3> QED BY <1>1, <3>1, <3>3
    <2>3. CASE session' = session
        BY <1>1, <1>4, <2>2, <2>3, QuietInv DEF SweepSession
    <2>4. CASE session' = Ended({s}, now)
        <3>1. MayEnd({s}, now)
            BY <2>1 DEF Past, MayEnd
        <3>2. now <= now /\ {s} \in SUBSET Sessions
            BY <1>1, <2>1
        <3>3. UNCHANGED <<now, approved, hostLock, request, failures>>
            BY <1>4 DEF SweepSession
        <3>4. /\ approved' \in BOOLEAN /\ request' \in [Requests -> Request]
              /\ \A r \in Requests : request'[r] = request[r]
            BY <1>1, <3>3
        <3> QED BY <1>1, <2>2, <2>4, <3>1, <3>2, <3>3, <3>4, EndInv
    <2> QED BY <1>4, <2>3, <2>4 DEF SweepSession
<1>5. CASE SweepFails(i)
    <2>1. sweep' \in [Instances -> Sweep] /\ \A j \in Instances : sweep'[j].at <= now
        BY <1>1, <1>2, <1>5 DEF SweepFails
    <2> QED BY <1>1, <1>5, <2>1, QuietInv DEF SweepFails
<1> QED BY <1>3, <1>4, <1>5 DEF OfSweep

LEMMA InvNext == Inv /\ [Next]_vars => Inv'
<1> SUFFICES ASSUME Inv, [Next]_vars PROVE Inv'
    OBVIOUS
<1>1. /\ TypeOK /\ Past /\ now \in Time /\ Idle \in Request
      /\ \A r \in Requests : /\ request[r].targets \in SUBSET Sessions
                             /\ request[r].at \in Time /\ request[r].at <= now
    BY DEF Inv, TypeOK, Past, Request, Idle
<1>2. ASSUME NEW s \in Sessions, OfSession(s) PROVE Inv'
    BY <1>2, CreateInv, LifecycleInv DEF OfSession
<1>3. ASSUME NEW r \in Requests, GoOffline(r) PROVE Inv'
    BY <1>1, <1>3, EndInv DEF GoOffline, TypeOK, Past
<1>4. ASSUME NEW r \in Requests, SuspendHost(r) PROVE Inv'
    <2>1. Open \in SUBSET Sessions
        BY DEF Open
    <2> QED BY <1>1, <1>4, <2>1, EndInv DEF SuspendHost, TypeOK, Past
<1>5. ASSUME NEW r \in Requests, OfRequest(r) PROVE Inv'
    BY <1>3, <1>4, <1>5, GoLiveInv, RequestInv DEF OfRequest
<1>6. CASE ApproveApplication
    BY <1>1, <1>6, QuietInv DEF ApproveApplication, TypeOK, Past
<1>7. CASE Tick
    BY <1>1, <1>7, QuietInv DEF Tick, TypeOK, Past, Sweep
<1>8. CASE UNCHANGED vars
    BY <1>1, <1>8, QuietInv DEF vars, TypeOK, Past
<1> QED BY <1>2, <1>5, <1>6, <1>7, <1>8, SweepInv DEF Next

LEMMA Invariant == Spec => []Inv
BY InvInit, InvNext, PTL DEF Spec

-----------------------------------------------------------------------------
(* The theorems *)

\* Every reachable state has its types: no goLive, sweep or suspension
\* leaves a row with a status or a time nothing can read.
THEOREM Typed == Spec => []TypeOK
<1>1. Inv => TypeOK
    BY DEF Inv
<1> QED BY <1>1, Invariant, PTL

\* A host has one open session at most, for any number of goLive,
\* createLiveSession, goOffline and suspension requests at one time.
THEOREM OneOpen == Spec => []OneOpenSession
<1>1. Inv => OneOpenSession
    BY DEF Inv
<1> QED BY <1>1, Invariant, PTL

\* An ended session has a time of end that is not before its start, and a
\* session on the air has a start, whoever ended or opened it.
THEOREM TimesAlwaysAgree == Spec => []TimesAgree
<1>1. Inv => TimesAgree
    BY DEF Inv
<1> QED BY <1>1, Invariant, PTL

\* No request that was overtaken opens a session again that has ended.
THEOREM EndedStays == Spec => EndedIsFinal
<1> DEFINE Stays == \A s \in Sessions :
                        session[s].status = "ENDED" => session'[s].status = "ENDED"
<1>1. ASSUME Inv, [Next]_vars PROVE Stays
    <2> SUFFICES ASSUME NEW s \in Sessions, session[s].status = "ENDED"
                 PROVE  session'[s].status = "ENDED"
        OBVIOUS
    <2>1. session \in [Sessions -> LiveSession]
        BY <1>1 DEF Inv, TypeOK
    <2>2. ASSUME NEW t \in Sessions, OfSession(t) PROVE session'[s].status = "ENDED"
        <3>1. CASE t = s
            BY <2>1, <2>2, <3>1 DEF OfSession, CreateLiveSession, Fresh, StartLiveSession,
               PauseLiveSession, ResumeLiveSession, EndLiveSession, Play, Lifecycle,
               ActiveStates, LiveSession
        <3>2. CASE t # s
            BY <2>1, <2>2, <3>2 DEF OfSession, CreateLiveSession, StartLiveSession,
               PauseLiveSession, ResumeLiveSession, EndLiveSession, Play, Lifecycle
        <3> QED BY <3>1, <3>2
    <2>3. \A S \in SUBSET Sessions, at \in Time : Ended(S, at)[s].status = "ENDED"
        BY <2>1 DEF Ended, LiveSession
    <2>4. ASSUME NEW r \in Requests, OfRequest(r) PROVE session'[s].status = "ENDED"
        <3>1. request[r].targets \in SUBSET Sessions /\ request[r].at \in Time
            BY <1>1 DEF Inv, TypeOK, Request
        <3>2. ASSUME NEW t \in Sessions, GoLive(r, t) PROVE session'[s].status = "ENDED"
            BY <2>3, <3>1, <3>2 DEF GoLive, Fresh, Ended
        <3>3. CASE GoOffline(r) \/ SuspendHost(r)
            BY <2>3, <3>1, <3>3 DEF GoOffline, SuspendHost, Open
        <3> QED BY <2>4, <3>2, <3>3 DEF OfRequest, CheckApproved, LockHost, ReadOffline,
               ReadSuspend, Abort
    <2>5. ASSUME NEW i \in Instances, OfSweep(i) \/ SweepFails(i)
          PROVE  session'[s].status = "ENDED"
        <3>1. ASSUME NEW t \in sweep[i].targets, SweepSession(i, t)
              PROVE  session'[s].status = "ENDED"
            <4>1. {t} \in SUBSET Sessions /\ now \in Time
                BY <1>1 DEF Inv, TypeOK, Sweep
            <4> QED BY <2>3, <3>1, <4>1 DEF SweepSession
        <3> QED BY <2>5, <3>1 DEF OfSweep, ReadSweep, SweepFails
    <2>6. CASE ApproveApplication \/ Tick \/ UNCHANGED vars
        BY <2>6 DEF ApproveApplication, Tick, vars
    <2> QED BY <1>1, <2>2, <2>4, <2>5, <2>6 DEF Next
<1>2. Spec => [][Stays]_vars
    BY <1>1, Invariant, PTL DEF Spec
<1> QED BY <1>2 DEF EndedIsFinal

\* What a suspension finds open it ends, whatever was opened while it waited
\* for the profile's lock.
THEOREM SuspensionCloses == Spec => SuspensionEndsSessions
<1> DEFINE Closes == approved /\ ~approved' => Open' = {}
<1>1. ASSUME Inv, [Next]_vars, approved, ~approved' PROVE Open' = {}
    <2>1. PICK r \in Requests : SuspendHost(r)
        BY <1>1 DEF Next, vars, OfSession, CreateLiveSession, StartLiveSession,
           PauseLiveSession, ResumeLiveSession, EndLiveSession, Play, Lifecycle, OfRequest,
           CheckApproved, LockHost, GoLive, ReadOffline, GoOffline, ReadSuspend, Abort,
           OfSweep, ReadSweep, SweepSession, SweepFails, ApproveApplication, Tick
    <2>2. \A s \in Sessions : session'[s].status \in ActiveStates <=> s \in Open \ Open
        <3>1. request[r].at \in Time /\ request[r].at <= now /\ Open \in SUBSET Sessions
            BY <1>1 DEF Inv, TypeOK, Past, Request, Open
        <3>2. MayEnd(Open, request[r].at) /\ session' = Ended(Open, request[r].at)
            BY <2>1 DEF SuspendHost
        <3>3. Inv
            BY <1>1
        <3> HIDE DEF Sessions, Time
        <3>4. \A s \in Sessions : Ended(Open, request[r].at)[s].status \in ActiveStates
                                    <=> s \in Open \ Open
            BY <3>1, <3>2, <3>3, EndedAgree
        <3> QED BY <3>2, <3>4
    <2> QED BY <2>2 DEF Open
<1>2. Spec => [][Closes]_vars
    BY <1>1, Invariant, PTL DEF Spec
<1> QED BY <1>2 DEF SuspensionEndsSessions

\* However late a sweep's update comes, it ends no session in which something
\* was played since the cut-off.
THEOREM SweepSpares == Spec => SweepSparesActive
<1> DEFINE Spares ==
        \A s \in Sessions : sweep' # sweep /\ session'[s] # session[s]
                                => session[s].activity < now - IdleTicks
<1>1. ASSUME Inv, [Next]_vars PROVE Spares
    <2> SUFFICES ASSUME NEW s \in Sessions, sweep' # sweep, session'[s] # session[s]
                 PROVE  session[s].activity < now - IdleTicks
        OBVIOUS
    <2>1. PICK i \in Instances : \E t \in sweep[i].targets : SweepSession(i, t)
        BY <1>1 DEF Next, vars, OfSession, CreateLiveSession, StartLiveSession,
           PauseLiveSession, ResumeLiveSession, EndLiveSession, Play, Lifecycle, OfRequest,
           CheckApproved, LockHost, GoLive, ReadOffline, GoOffline, ReadSuspend, SuspendHost,
           Abort, OfSweep, ReadSweep, SweepFails, ApproveApplication, Tick
    <2> PICK t \in sweep[i].targets : SweepSession(i, t)
        BY <2>1
    <2>2. sweep[i].at \in Int /\ sweep[i].at <= now /\ now \in Int
        BY <1>1 DEF Inv, TypeOK, Past, Sweep
    <2>3. s = t /\ Swept(session[s], sweep[i].at)
        BY <1>1, <2>1 DEF SweepSession, Ended, Inv, TypeOK
    <2>4. session[s].activity \in Int
        BY <1>1, <2>3 DEF Swept, Inv, TypeOK, LiveSession
    <2> QED BY <2>2, <2>3, <2>4 DEF Swept
<1>2. Spec => [][Spares]_vars
    BY <1>1, Invariant, PTL DEF Spec
<1> QED BY <1>2 DEF SweepSparesActive

-----------------------------------------------------------------------------
(* The page of one session: the host's requests *)

\* What LiveSync asks of its constants.
Parameters == Page!BoundsAssumption /\ Page!RowAssumption

\* What has been counted, read and sent is of the kind it should be; a
\* transaction under way finds room for its change.
Rows ==
    /\ Parameters
    /\ revision \in Nat /\ queue \in Nat /\ revision <= queue /\ queue <= MaxChanges
    /\ tx # Null => tx \in Page!Change /\ queue < MaxChanges
    /\ applied \in [Page!Revisions -> Nat]
    /\ click \in [Handlers -> Page!Click \cup {Null}]
    /\ view \in Page!Snapshot \cup {Null}
    /\ read \in [Reads -> Page!Fetch \cup {Null}]

\* A request whose operation makes a revision still expects the one there is.
Served ==
    tx # Null /\ tx.by # Null =>
        /\ click[tx.by] # Null /\ click[tx.by].step = "open"
        /\ tx.bump => click[tx.by].expected = revision

\* No operation was made yet of the revision there is, or of one to come.
Unused == \A r \in Page!Revisions : r >= revision => applied[r] = 0

IInv == Rows /\ Served /\ Unused /\ Page!OneOpPerRevision

\* The requests that are being served stay as they are.
Keeps(clicks) ==
    /\ clicks \in [Handlers -> Page!Click \cup {Null}]
    /\ \A h \in Handlers :
          click[h] # Null /\ click[h].step = "open" =>
              /\ clicks[h] # Null /\ clicks[h].step = "open"
              /\ clicks[h].expected = click[h].expected

Answered == view' \in Page!Snapshot \cup {Null} /\ read' \in [Reads -> Page!Fetch \cup {Null}]

LEMMA QuietServer ==
    ASSUME IInv, UNCHANGED Page!server, Keeps(click'), Answered
    PROVE  IInv'
<1>1. Rows'
    BY DEF IInv, Rows, Keeps, Answered, Page!server
<1>2. Served'
    <2>1. tx # Null /\ tx.by # Null => tx.by \in Handlers
        BY DEF IInv, Rows, Page!Change
    <2> QED BY <2>1 DEF IInv, Served, Keeps, Page!server
<1>3. Unused' /\ Page!OneOpPerRevision'
    BY DEF IInv, Unused, Page!OneOpPerRevision, Page!server
<1> QED BY <1>1, <1>2, <1>3 DEF IInv

LEMMA SameClicks == ASSUME Rows, UNCHANGED click PROVE Keeps(click')
BY DEF Rows, Keeps

LEMMA SameReads == ASSUME Rows, UNCHANGED <<read, view>> PROVE Answered
BY DEF Rows, Answered

LEMMA StartAnswers == ASSUME Rows, Page!Start, UNCHANGED view PROVE Answered
<1>1. Page!Unread \in Page!Fetch
    BY DEF Page!Unread, Page!Fetch
<1> QED BY <1>1 DEF Rows, Page!Start, Answered

LEMMA UnmountAnswers == ASSUME Rows, Page!Unmount PROVE Answered
BY DEF Page!Unmount, Page!Empty, Answered

LEMMA OrphansKeep == ASSUME Rows PROVE Keeps(Page!Orphaned)
<1>1. ASSUME NEW h \in Handlers, click[h] # Null
      PROVE  /\ [click[h] EXCEPT !.here = FALSE] \in Page!Click
             /\ [click[h] EXCEPT !.here = FALSE].step = click[h].step
             /\ [click[h] EXCEPT !.here = FALSE].expected = click[h].expected
    <2>1. click[h] \in Page!Click
        BY <1>1 DEF Rows
    <2> QED BY <2>1 DEF Page!Click
<1>2. Page!Orphaned \in [Handlers -> Page!Click \cup {Null}]
    BY <1>1 DEF Page!Orphaned
<1> QED BY <1>1, <1>2 DEF Rows, Parameters, Page!RowAssumption, Page!Orphaned, Keeps

\* A request that nobody serves any more may be forgotten.
LEMMA OthersKeep ==
    ASSUME Rows, NEW clicks, Keeps(clicks), NEW h \in Handlers,
           click[h] = Null \/ click[h].step # "open", NEW c \in Page!Click \cup {Null}
    PROVE  Keeps([clicks EXCEPT ![h] = c])
BY DEF Keeps

LEMMA ReconcileKeeps ==
    ASSUME Rows, NEW k, NEW m, Page!Reconcile(k, m)
    PROVE  Keeps(click') /\ Answered
<1>1. CASE page = "studio"
    BY <1>1, OrphansKeep, UnmountAnswers DEF Page!Reconcile
<1>2. CASE page # "studio"
    BY <1>2, SameClicks, StartAnswers DEF Page!Reconcile, Page!studio
<1> QED BY <1>1, <1>2

\* The page fetches, follows events, and is clicked on.
PageStep ==
    \/ Page!Connect \/ Page!Disconnect \/ Page!Poll \/ Page!StationLoaded \/ Page!Visit
    \/ \E e \in Page!Events : Page!handleAuthoritativeEvent(e)
    \/ \E i \in Reads : Page!GetSession(i) \/ Page!GetQueue(i) \/ Page!Finish(i) \/ Page!Fail(i)
    \/ \E h \in Handlers :
          \/ Page!PlayNextButton(h) \/ Page!PlayerButtons(h) \/ Page!EntryButtons(h)
          \/ Page!handleToggleSubmissions(h) \/ Page!HandlerEnds(h) \/ Page!HandlerFails(h)

LEMMA PageKeeps ==
    ASSUME IInv, PageStep
    PROVE  UNCHANGED Page!server /\ Keeps(click') /\ Answered
<1>1. Rows
    BY DEF IInv
<1>2. CASE Page!Connect \/ Page!Disconnect
    BY <1>1, <1>2, SameClicks, SameReads DEF Page!Connect, Page!Disconnect, Page!shown, Page!studio
<1>3. CASE Page!Poll
    BY <1>1, <1>3, ReconcileKeeps DEF Page!Poll
<1>4. CASE Page!StationLoaded \/ Page!Visit
    BY <1>1, <1>4, SameClicks, StartAnswers DEF Page!StationLoaded, Page!Visit, Page!studio
<1>5. ASSUME NEW e \in Page!Events, Page!handleAuthoritativeEvent(e)
      PROVE  UNCHANGED Page!server /\ Keeps(click') /\ Answered
    <2>1. UNCHANGED <<Page!shown, Page!studio>> \/ \E k, m : Page!Reconcile(k, m)
        BY <1>5 DEF Page!handleAuthoritativeEvent
    <2>2. CASE UNCHANGED <<Page!shown, Page!studio>>
        BY <1>1, <1>5, <2>2, SameClicks, SameReads
           DEF Page!handleAuthoritativeEvent, Page!shown, Page!studio
    <2>3. CASE \E k, m : Page!Reconcile(k, m)
        BY <1>1, <1>5, <2>3, ReconcileKeeps DEF Page!handleAuthoritativeEvent
    <2> QED BY <2>1, <2>2, <2>3
<1>6. ASSUME NEW i \in Reads,
             Page!GetSession(i) \/ Page!GetQueue(i) \/ Page!Finish(i) \/ Page!Fail(i)
      PROVE  UNCHANGED Page!server /\ Keeps(click') /\ Answered
    <2>1. UNCHANGED <<Page!server, click>>
        BY <1>6 DEF Page!GetSession, Page!GetQueue, Page!Finish, Page!Fail, Page!studio
    <2>2. revision \in Page!Revisions /\ queue \in Page!Revisions
        BY <1>1 DEF Parameters, Page!BoundsAssumption, Rows, Page!Revisions
    <2>3. ASSUME read[i] # Null
          PROVE  /\ [read[i] EXCEPT !.session = revision] \in Page!Fetch
                 /\ [read[i] EXCEPT !.queue = queue] \in Page!Fetch
        BY <1>1, <2>2, <2>3 DEF Rows, Page!Fetch
    <2>4. CASE Page!GetSession(i)
        <3>1. read' = [read EXCEPT ![i] = [read[i] EXCEPT !.session = revision]] /\ read[i] # Null
            BY <1>1, <2>4 DEF Page!GetSession, Rows
        <3> QED BY <1>1, <2>1, <2>3, <2>4, <3>1, SameClicks DEF Rows, Answered, Page!GetSession
    <2>5. CASE Page!GetQueue(i)
        <3>1. read' = [read EXCEPT ![i] = [read[i] EXCEPT !.queue = queue]] /\ read[i] # Null
            BY <1>1, <2>5 DEF Page!GetQueue, Rows
        <3> QED BY <1>1, <2>1, <2>3, <2>5, <3>1, SameClicks DEF Rows, Answered, Page!GetQueue
    <2>6. CASE Page!Finish(i) \/ Page!Fail(i)
        BY <1>1, <2>1, <2>6, SameClicks DEF Rows, Answered, Page!Finish, Page!Fail
    <2> QED BY <1>6, <2>4, <2>5, <2>6
<1>7. ASSUME NEW h \in Handlers,
             \/ Page!PlayNextButton(h) \/ Page!PlayerButtons(h) \/ Page!EntryButtons(h)
             \/ Page!handleToggleSubmissions(h)
      PROVE  UNCHANGED Page!server /\ Keeps(click') /\ Answered
    <2>1. PICK button \in Page!Buttons \cup {"submissions"} : Page!Send(h, button)
        BY <1>7 DEF Page!PlayNextButton, Page!PlayerButtons, Page!EntryButtons,
                    Page!handleToggleSubmissions, Page!Press, Page!Buttons
    <2>2. [button |-> button, expected |-> view.session, step |-> "sent", here |-> TRUE]
            \in Page!Click
        BY <1>1, <2>1 DEF Page!Send, Rows, Page!Snapshot, Page!Click
    <2>3. Keeps(click)
        BY <1>1 DEF Rows, Keeps
    <2> QED BY <1>1, <2>1, <2>2, <2>3, OthersKeep, SameReads DEF Page!Send, Page!shown
<1>8. ASSUME NEW h \in Handlers, Page!HandlerEnds(h)
      PROVE  UNCHANGED Page!server /\ Keeps(click') /\ Answered
    BY <1>1, <1>8, OrphansKeep, OthersKeep, UnmountAnswers DEF Page!HandlerEnds
<1>9. ASSUME NEW h \in Handlers, Page!HandlerFails(h)
      PROVE  UNCHANGED Page!server /\ Keeps(click') /\ Answered
    <2>1. Keeps(click)
        BY <1>1 DEF Rows, Keeps
    <2> QED BY <1>1, <1>9, <2>1, OthersKeep, SameReads DEF Page!HandlerFails
<1> QED BY <1>2, <1>3, <1>4, <1>5, <1>6, <1>7, <1>8, <1>9 DEF PageStep

\* A transaction begins: of a request of the host, or of anybody else.
LEMMA OpenKeeps ==
    ASSUME IInv, NEW c \in Page!Change, Page!Open(c),
           click' \in [Handlers -> Page!Click \cup {Null}], Answered,
           c.by # Null => /\ click'[c.by] # Null /\ click'[c.by].step = "open"
                          /\ c.bump => click'[c.by].expected = revision
    PROVE  IInv'
<1>1. tx' = c /\ queue < MaxChanges /\ UNCHANGED <<revision, queue, applied>>
    BY DEF Page!Open
<1>2. Rows'
    BY <1>1 DEF IInv, Rows, Answered
<1>3. Served'
    BY <1>1 DEF Served
<1>4. Unused' /\ Page!OneOpPerRevision'
    BY <1>1 DEF IInv, Unused, Page!OneOpPerRevision
<1> QED BY <1>2, <1>3, <1>4 DEF IInv

LEMMA StepTyped ==
    ASSUME Rows, NEW h \in Handlers, click[h] # Null,
           NEW step \in {"open", "done", "refused", "failed"}
    PROVE  LET clicks == [click EXCEPT ![h].step = step]
           IN  /\ clicks \in [Handlers -> Page!Click \cup {Null}]
               /\ clicks[h] \in Page!Click /\ clicks[h] # Null
               /\ clicks[h].step = step /\ clicks[h].expected = click[h].expected
               /\ clicks = [click EXCEPT ![h] = clicks[h]]
<1>1. click[h] \in Page!Click
    BY DEF Rows
<1>2. [click[h] EXCEPT !.step = step] \in Page!Click
    BY <1>1 DEF Page!Click
<1> QED BY <1>1, <1>2 DEF Parameters, Page!RowAssumption, Rows, Page!Click

LEMMA ServerKeeps ==
    ASSUME IInv,
           Page!OthersChange \/ \E h \in Handlers : Page!Serve(h) \/ Page!updateConfiguration(h)
    PROVE  IInv'
<1>1. Rows
    BY DEF IInv
<1>2. CASE Page!OthersChange
    <2>1. PICK c \in Page!Change : c.by = Null /\ Page!Open(c)
        BY <1>2 DEF Page!OthersChange, Page!ChangeKinds
    <2>2. click' \in [Handlers -> Page!Click \cup {Null}] /\ Keeps(click') /\ Answered
        BY <1>1, <1>2, SameClicks, SameReads DEF Page!OthersChange, Page!shown, Page!studio, Rows
    <2> QED BY <2>1, <2>2, OpenKeeps
<1>3. ASSUME NEW h \in Handlers, Page!Serve(h) PROVE IInv'
    <2>1. Answered
        BY <1>1, <1>3, SameReads DEF Page!Serve, Page!Step, Page!shown
    <2>2. click[h] # Null /\ click[h].step = "sent"
        BY <1>3 DEF Page!Serve, Page!Sent
    <2>3. ASSUME click[h].expected = revision, Page!Step(h, "open"),
                 NEW c \in Page!ChangeKinds, c.by = h, Page!Open(c)
          PROVE  IInv'
        <3>1. click' = [click EXCEPT ![h].step = "open"] /\ c \in Page!Change
            BY <2>3 DEF Page!Step, Page!ChangeKinds
        <3> QED BY <1>1, <2>1, <2>2, <2>3, <3>1, StepTyped, OpenKeeps
    <2>4. ASSUME NEW step \in {"done", "refused"}, Page!Step(h, step), UNCHANGED Page!server
          PROVE  IInv'
        <3>1. click' = [click EXCEPT ![h].step = step]
            BY <2>4 DEF Page!Step
        <3>2. Keeps(click)
            BY <1>1 DEF Rows, Keeps
        <3>3. Keeps(click')
            BY <1>1, <2>2, <3>1, <3>2, StepTyped, OthersKeep
        <3> QED BY <2>1, <2>4, <3>3, QuietServer
    <2> QED BY <1>3, <2>3, <2>4 DEF Page!Serve
<1>4. ASSUME NEW h \in Handlers, Page!updateConfiguration(h) PROVE IInv'
    <2> DEFINE c == [by |-> h, bump |-> FALSE, event |-> "none"]
    <2>1. c \in Page!Change /\ c.by = h /\ ~c.bump
        BY DEF Page!Change
    <2>2. Page!Open(c) /\ click[h] # Null /\ click' = [click EXCEPT ![h].step = "open"] /\ Answered
        BY <1>1, <1>4, SameReads DEF Page!updateConfiguration, Page!Sent, Page!Step, Page!shown
    <2> HIDE DEF c
    <2> QED BY <1>1, <2>1, <2>2, StepTyped, OpenKeeps
<1> QED BY <1>2, <1>3, <1>4

\* It ends, and the revision it was expected at is over.
LEMMA EndKeeps ==
    ASSUME IInv, Page!Commit \/ Page!Rollback
    PROVE  IInv'
<1>1. /\ Rows /\ tx # Null /\ tx' = Null /\ tx \in Page!Change /\ queue < MaxChanges
      /\ tx.by # Null => tx.by \in Handlers /\ click[tx.by] # Null
    BY DEF IInv, Rows, Served, Page!Commit, Page!Rollback, Page!Change
<1>2. Answered
    BY <1>1, SameReads DEF Page!Commit, Page!Rollback, Page!shown
<1>3. click' \in [Handlers -> Page!Click \cup {Null}]
    <2>1. CASE tx.by = Null
        BY <1>1, <2>1 DEF Page!Commit, Page!Rollback, Page!Answer, Rows
    <2>2. CASE tx.by # Null
        <3>1. PICK step \in {"done", "failed"} : click' = [click EXCEPT ![tx.by].step = step]
            BY <1>1, <2>2 DEF Page!Commit, Page!Rollback, Page!Answer
        <3> QED BY <1>1, <2>2, <3>1, StepTyped
    <2> QED BY <2>1, <2>2
<1>4. Served'
    BY <1>1 DEF Served
<1>5. CASE Page!Rollback
    <2>1. UNCHANGED <<revision, queue, applied>>
        BY <1>5 DEF Page!Rollback
    <2>2. Rows'
        BY <1>1, <1>2, <1>3, <2>1 DEF Rows, Answered
    <2> QED BY <1>4, <2>1, <2>2 DEF IInv, Unused, Page!OneOpPerRevision
<1>6. CASE Page!Commit
    <2>1. /\ revision' \in {revision, revision + 1} /\ queue' = queue + 1
          /\ tx.bump => revision' = revision + 1
        BY <1>6 DEF Page!Commit
    <2>2. CASE tx.by = Null \/ ~tx.bump
        <3>1. UNCHANGED applied
            BY <1>6, <2>2 DEF Page!Commit
        <3>2. Rows'
            BY <1>1, <1>2, <1>3, <2>1, <3>1 DEF Parameters, Page!BoundsAssumption, Rows, Answered
        <3>3. Unused' /\ Page!OneOpPerRevision'
            BY <1>1, <2>1, <3>1 DEF IInv, Rows, Unused, Page!OneOpPerRevision, Page!Revisions
        <3> QED BY <1>4, <3>2, <3>3 DEF IInv
    <2>3. CASE tx.by # Null /\ tx.bump
        <3>1. click[tx.by].expected = revision
            BY <1>1, <2>3 DEF IInv, Served
        <3>2. applied' = [applied EXCEPT ![revision] = applied[revision] + 1]
            BY <1>6, <2>3, <3>1 DEF Page!Commit
        <3>3. revision \in Page!Revisions /\ revision' = revision + 1 /\ applied[revision] = 0
            BY <1>1, <2>1, <2>3
               DEF IInv, Rows, Parameters, Page!BoundsAssumption, Unused, Page!Revisions
        <3>4. Rows'
            BY <1>1, <1>2, <1>3, <2>1, <3>2, <3>3
               DEF Parameters, Page!BoundsAssumption, Rows, Answered
        <3>5. Unused' /\ Page!OneOpPerRevision'
            BY <1>1, <3>2, <3>3 DEF IInv, Rows, Unused, Page!OneOpPerRevision, Page!Revisions
        <3> QED BY <1>4, <3>4, <3>5 DEF IInv
    <2> QED BY <2>2, <2>3
<1> QED BY <1>5, <1>6

\* A double click, or two tabs of the host, that send the same expected
\* revision change the queue once: of the requests made from one revision at
\* most one has an effect, for any number of requests and changes.
THEOREM OneAccepted == Page!Spec => []OneOpPerRevision
<1>1. Page!Init => IInv
    <2> SUFFICES ASSUME Page!Init PROVE IInv
        OBVIOUS
    <2> USE PageAssumption
    <2>1. Rows
        BY DEF Parameters, Page!BoundsAssumption, Page!Init, Rows, Page!Empty
    <2>2. Served /\ Unused /\ Page!OneOpPerRevision
        BY DEF Page!Init, Served, Unused, Page!OneOpPerRevision
    <2> QED BY <2>1, <2>2 DEF IInv
<1>2. IInv /\ [Page!Next]_(Page!vars) => IInv'
    <2> SUFFICES ASSUME IInv, [Page!Next]_(Page!vars) PROVE IInv'
        OBVIOUS
    <2>1. CASE PageStep
        BY <2>1, PageKeeps, QuietServer
    <2>2. CASE Page!Commit \/ Page!Rollback
        BY <2>2, EndKeeps
    <2>3. CASE Page!OthersChange \/ \E h \in Handlers : Page!Serve(h) \/ Page!updateConfiguration(h)
        BY <2>3, ServerKeeps
    <2>4. CASE UNCHANGED Page!vars
        <3>1. Rows
            BY DEF IInv
        <3> QED BY <2>4, <3>1, SameClicks, SameReads, QuietServer
               DEF Page!vars, Page!shown, Page!studio
    <2> QED BY <2>1, <2>2, <2>3, <2>4 DEF Page!Next, PageStep
<1>3. IInv => OneOpPerRevision
    BY DEF IInv, OneOpPerRevision
<1> QED BY <1>1, <1>2, <1>3, PTL DEF Page!Spec

=============================================================================
