---------------------------- MODULE HostSessions ----------------------------
(***************************************************************************)
(* The live sessions of one host: how they are opened, ended and swept.    *)
(* What happens in a session's queue is LiveQueue's; queueRevision is left *)
(* out here, so an operation refused for it is a step not taken.           *)
(*                                                                         *)
(* Going live, going offline and a suspension read the clock and the rows  *)
(* at one time and write at a later one.  createLiveSession and goLive     *)
(* hold the host_profiles row's lock, which a suspension's update of that  *)
(* row waits for; the session's own operations lock its row, one session   *)
(* at a time.  The sweep is a cron job of each API instance.               *)
(***************************************************************************)
EXTENDS Integers

CONSTANTS
    Requests,     \* goLive, goOffline and suspension requests at one time
    Instances,    \* API instances, each with its cron
    None,
    IdleTicks,    \* the sweep's 60 minutes
    MaxSessions,  \* bound on the sessions opened
    MaxTime,      \* bound on the clock
    MaxFailures   \* bound on sweeps that fail

ASSUME NoneAssumption == None \notin Requests /\ None \notin Int
ASSUME BoundsAssumption ==
    /\ IdleTicks \in Nat /\ MaxSessions \in Nat
    /\ MaxTime \in Nat /\ MaxFailures \in Nat

VARIABLES
    now,        \* the clock
    approved,   \* HostProfile: isApproved and neither suspended nor revoked
    session,    \* the live_sessions rows; ids are UUIDv7, so they grow
    hostLock,   \* the goLive that holds the host_profiles row, or None
    request,    \* each request: how far it is, its `now', the rows it read
    sweep,      \* each instance's sweep: its `now' and the rows it has left
    failures

vars == <<now, approved, session, hostLock, request, sweep, failures>>

Sessions == 1..MaxSessions
Time     == 0..MaxTime

\* ACTIVE_SESSION_STATES without SCHEDULED, which nothing writes.
ActiveStates == {"PREPARING", "LIVE", "PAUSED"}

LiveSession == [status    : {"NONE", "ENDED"} \cup ActiveStates,
                startedAt : Time \cup {None},
                endedAt   : Time \cup {None},
                activity  : Time \cup {None}]   \* lastPlaybackActivityAt

NoSession == [status |-> "NONE", startedAt |-> None, endedAt |-> None, activity |-> None]

Request == [phase   : {"idle", "checked", "locked", "offline", "suspending"},
            at      : Time,
            targets : SUBSET Sessions]
Sweep   == [at : Time, targets : SUBSET Sessions]

Idle == [phase |-> "idle", at |-> 0, targets |-> {}]
Rest == [at |-> 0, targets |-> {}]

Init ==
    /\ now = 0 /\ approved = TRUE
    /\ session = [s \in Sessions |-> NoSession]
    /\ hostLock = None
    /\ request = [r \in Requests |-> Idle]
    /\ sweep = [i \in Instances |-> Rest]
    /\ failures = 0

Open == {s \in Sessions : session[s].status \in ActiveStates}

In(r, phase) == request[r].phase = phase

\* The next id there is no row for.
Fresh(s) ==
    /\ session[s].status = "NONE"
    /\ \A t \in Sessions : t < s => session[t].status # "NONE"

\* Ends the sessions S; check_live_session_ends_after_starts must hold.
MayEnd(S, at) == \A s \in S : session[s].startedAt # None => session[s].startedAt <= at
Ended(S, at)  == [s \in Sessions |->
                    IF s \in S THEN [session[s] EXCEPT !.status = "ENDED", !.endedAt = at]
                    ELSE session[s]]

-----------------------------------------------------------------------------
(* A session's own operations, each under the lock of its row *)

\* createLiveSession looks at the profile's owner, not at its approval.
CreateLiveSession(s) ==
    /\ hostLock = None /\ Fresh(s) /\ Open = {}
    /\ session' = [session EXCEPT ![s].status = "PREPARING"]
    /\ UNCHANGED <<now, approved, hostLock, request, sweep, failures>>

Lifecycle(s, from, to) ==
    /\ session[s].status \in from
    /\ session' = [session EXCEPT ![s] = to]
    /\ UNCHANGED <<now, approved, hostLock, request, sweep, failures>>

\* Mutant: lastPlaybackActivityAt waits for the first track.
MutStartLiveSession(s) ==
    Lifecycle(s, {"PREPARING"}, [session[s] EXCEPT !.status = "LIVE", !.startedAt = now])

StartLiveSession(s) ==
    Lifecycle(s, {"PREPARING"},
              [session[s] EXCEPT !.status = "LIVE", !.startedAt = now, !.activity = now])

PauseLiveSession(s) == Lifecycle(s, {"LIVE"}, [session[s] EXCEPT !.status = "PAUSED"])

\* Mutant: any session that is not live may be resumed.
MutResumeLiveSession(s) ==
    Lifecycle(s, {"PREPARING", "PAUSED", "ENDED"}, [session[s] EXCEPT !.status = "LIVE"])

\* Nothing marks the session as active again.
ResumeLiveSession(s) == Lifecycle(s, {"PAUSED"}, [session[s] EXCEPT !.status = "LIVE"])

EndLiveSession(s) ==
    Lifecycle(s, ActiveStates, [session[s] EXCEPT !.status = "ENDED", !.endedAt = now])

\* playNext, loadQueueEntry and clearPlayer, in a session of any status.
Play(s) ==
    Lifecycle(s, {"ENDED"} \cup ActiveStates, [session[s] EXCEPT !.activity = now])

-----------------------------------------------------------------------------
(* goLive *)

\* requireApprovedHost, before the transaction.
CheckApproved(r) ==
    /\ In(r, "idle") /\ approved
    /\ request' = [request EXCEPT ![r] = [phase |-> "checked", at |-> now, targets |-> {}]]
    /\ UNCHANGED <<now, approved, session, hostLock, sweep, failures>>

\* Mutant: nothing serialises the host's goLive requests.
MutLockHost(r) ==
    /\ In(r, "checked")
    /\ hostLock' = r
    /\ request' = [request EXCEPT ![r] = [@ EXCEPT !.phase = "locked", !.targets = Open]]
    /\ UNCHANGED <<now, approved, session, sweep, failures>>

\* SELECT ... FOR UPDATE on the profile, then the sessions left open.
LockHost(r) ==
    /\ In(r, "checked") /\ hostLock = None
    /\ hostLock' = r
    /\ request' = [request EXCEPT ![r] = [@ EXCEPT !.phase = "locked", !.targets = Open]]
    /\ UNCHANGED <<now, approved, session, sweep, failures>>

\* The sessions are ended by id, whatever they are by now.
GoLive(r, s) ==
    /\ In(r, "locked") /\ Fresh(s)
    /\ MayEnd(request[r].targets, request[r].at)
    /\ session' = [Ended(request[r].targets, request[r].at) EXCEPT ![s] =
                      [status |-> "LIVE", startedAt |-> request[r].at, endedAt |-> None,
                       activity |-> request[r].at]]
    /\ hostLock' = None
    /\ request' = [request EXCEPT ![r] = Idle]
    /\ UNCHANGED <<now, approved, sweep, failures>>

\* The transaction of any request fails, for the check constraint or else.
Abort(r) ==
    /\ ~In(r, "idle")
    /\ hostLock' = IF hostLock = r THEN None ELSE hostLock
    /\ request' = [request EXCEPT ![r] = Idle]
    /\ UNCHANGED <<now, approved, session, sweep, failures>>

-----------------------------------------------------------------------------
(* goOffline *)

ReadOffline(r) ==
    /\ In(r, "idle") /\ approved /\ Open # {}
    /\ request' = [request EXCEPT ![r] = [phase |-> "offline", at |-> now, targets |-> Open]]
    /\ UNCHANGED <<now, approved, session, hostLock, sweep, failures>>

\* The sessions read are ended by id, whatever they are by now.
GoOffline(r) ==
    /\ In(r, "offline")
    /\ MayEnd(request[r].targets, request[r].at)
    /\ session' = Ended(request[r].targets, request[r].at)
    /\ request' = [request EXCEPT ![r] = Idle]
    /\ UNCHANGED <<now, approved, hostLock, sweep, failures>>

-----------------------------------------------------------------------------
(* Suspension *)

ReadSuspend(r) ==
    /\ In(r, "idle")
    /\ request' = [request EXCEPT ![r] = [phase |-> "suspending", at |-> now, targets |-> {}]]
    /\ UNCHANGED <<now, approved, session, hostLock, sweep, failures>>

\* Mutant: only a session that is on the air is ended.
MutSuspendHost(r) ==
    LET live == {s \in Sessions : session[s].status = "LIVE"}
    IN  /\ In(r, "suspending") /\ hostLock = None
        /\ MayEnd(live, request[r].at)
        /\ approved' = FALSE
        /\ session' = Ended(live, request[r].at)
        /\ request' = [request EXCEPT ![r] = Idle]
        /\ UNCHANGED <<now, hostLock, sweep, failures>>

\* The sessions to end are looked up after the profile's row was written.
SuspendHost(r) ==
    /\ In(r, "suspending") /\ hostLock = None
    /\ MayEnd(Open, request[r].at)
    /\ approved' = FALSE
    /\ session' = Ended(Open, request[r].at)
    /\ request' = [request EXCEPT ![r] = Idle]
    /\ UNCHANGED <<now, hostLock, sweep, failures>>

\* approveApplication of the suspended application.
ApproveApplication ==
    /\ ~approved /\ hostLock = None
    /\ approved' = TRUE
    /\ UNCHANGED <<now, session, hostLock, request, sweep, failures>>

-----------------------------------------------------------------------------
(* handleInactivitySweep *)

\* status = LIVE and lastPlaybackActivityAt before the cut-off; NULL is not.
Swept(row, at) ==
    row.status = "LIVE" /\ row.activity # None /\ row.activity < at - IdleTicks

ReadSweep(i) ==
    LET found == {s \in Sessions : Swept(session[s], now)}
    IN  /\ sweep[i] = Rest /\ found # {}
        /\ sweep' = [sweep EXCEPT ![i] = [at |-> now, targets |-> found]]
        /\ UNCHANGED <<now, approved, session, hostLock, request, failures>>

Done(i, s) ==
    LET left == sweep[i].targets \ {s}
    IN  sweep' = [sweep EXCEPT ![i] = IF left = {} THEN Rest
                                      ELSE [at |-> sweep[i].at, targets |-> left]]

\* Mutants: the update does not look again; endedAt is forgotten.
MutSweepByStatus(i, s) ==
    /\ s \in sweep[i].targets /\ Done(i, s)
    /\ session' = IF session[s].status = "LIVE" THEN Ended({s}, now) ELSE session
    /\ UNCHANGED <<now, approved, hostLock, request, failures>>
MutSweepKeepsOpen(i, s) ==
    /\ s \in sweep[i].targets /\ Done(i, s)
    /\ session' = IF Swept(session[s], sweep[i].at) THEN [session EXCEPT ![s].status = "ENDED"]
                  ELSE session
    /\ UNCHANGED <<now, approved, hostLock, request, failures>>

\* A conditional update for each session found.
SweepSession(i, s) ==
    /\ s \in sweep[i].targets /\ Done(i, s)
    /\ session' = IF Swept(session[s], sweep[i].at) THEN Ended({s}, now) ELSE session
    /\ UNCHANGED <<now, approved, hostLock, request, failures>>

\* An error is logged and the rest is left for the next run.
SweepFails(i) ==
    /\ sweep[i] # Rest /\ failures < MaxFailures
    /\ failures' = failures + 1
    /\ sweep' = [sweep EXCEPT ![i] = Rest]
    /\ UNCHANGED <<now, approved, session, hostLock, request>>

Tick ==
    /\ now < MaxTime /\ now' = now + 1
    /\ UNCHANGED <<approved, session, hostLock, request, sweep, failures>>

-----------------------------------------------------------------------------
(* The specification *)

OfSession(s) ==
    \/ CreateLiveSession(s) \/ StartLiveSession(s) \/ PauseLiveSession(s)
    \/ ResumeLiveSession(s) \/ EndLiveSession(s) \/ Play(s)

OfRequest(r) ==
    \/ CheckApproved(r) \/ LockHost(r) \/ (\E s \in Sessions : GoLive(r, s))
    \/ ReadOffline(r) \/ GoOffline(r)
    \/ ReadSuspend(r) \/ SuspendHost(r) \/ Abort(r)

OfSweep(i) == ReadSweep(i) \/ \E s \in sweep[i].targets : SweepSession(i, s)

Next ==
    \/ \E s \in Sessions : OfSession(s)
    \/ \E r \in Requests : OfRequest(r)
    \/ \E i \in Instances : OfSweep(i) \/ SweepFails(i)
    \/ ApproveApplication \/ Tick

\* An instance that is up runs its cron again and again, and a sweep goes on.
Fairness == \A i \in Instances : WF_vars(OfSweep(i))

Spec == Init /\ [][Next]_vars /\ Fairness

-----------------------------------------------------------------------------
(* Properties *)

TypeOK ==
    /\ now \in Time /\ approved \in BOOLEAN
    /\ session \in [Sessions -> LiveSession]
    /\ hostLock \in Requests \cup {None}
    /\ request \in [Requests -> Request]
    /\ sweep \in [Instances -> Sweep]
    /\ failures \in 0..MaxFailures

\* A host never has two sessions open, however goLive, createLiveSession and
\* what ends or resumes sessions overtake each other.
OneOpenSession == \A s, t \in Open : s = t

\* An ended session has its time of end, not before its start, and a session
\* on the air has the times the sweep and the studio look at.
TimesAgree ==
    \A s \in Sessions :
        LET row == session[s]
        IN  /\ row.status = "ENDED" <=> row.endedAt # None
            /\ row.status \in {"LIVE", "PAUSED"} => row.startedAt # None /\ row.activity # None
            /\ row.endedAt # None /\ row.startedAt # None => row.startedAt <= row.endedAt

\* No late request, sweep or click opens a session again that has ended.
EndedIsFinal ==
    [][\A s \in Sessions : session[s].status = "ENDED" => session'[s].status = "ENDED"]_vars

\* A suspension leaves no session of the host open, not even one that goLive
\* or createLiveSession was opening while the suspension was on its way.
SuspensionEndsSessions == [][approved /\ ~approved' => Open' = {}]_vars

\* The sweep takes no session off the air in which something was played in
\* the last 60 minutes, also not when that happened after the sweep's read.
SweepSparesActive ==
    [][\A s \in Sessions :
          sweep' # sweep /\ session'[s] # session[s] => session[s].activity < now - IdleTicks]_vars

\* A session on the air in which nothing is played for 60 minutes is taken
\* off the air, unless someone plays something or pauses it.
Abandoned(s) ==
    /\ session[s].status = "LIVE"
    /\ session[s].activity = None \/ session[s].activity < now - IdleTicks
AbandonedIsEnded == \A s \in Sessions : Abandoned(s) ~> ~Abandoned(s)

=============================================================================
