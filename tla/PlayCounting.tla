---------------------------- MODULE PlayCounting ----------------------------
(***************************************************************************)
(* Which plays of one host's tracks count.  LiveQueue decides which plays  *)
(* qualify (120 seconds in the player); here every qualifying play is      *)
(* recorded by recordQualifyingPlay, in the transaction that takes its     *)
(* entry out of the player.                                                *)
(*                                                                         *)
(* Such a transaction holds its session's row, so a session runs one at a  *)
(* time, but a host's sessions run theirs concurrently: an ended session's *)
(* entries can still be completed.  The transaction reads the clock, waits *)
(* for the advisory lock on (host, track) and then looks at the counted    *)
(* plays that are committed.                                               *)
(***************************************************************************)
EXTENDS Integers, Sequences, FiniteSets

CONSTANTS
    Tracks,      \* playTrackKeys
    Sessions,    \* the host's live sessions
    Entries,     \* queue entries, each a record with a track and a session
    None,
    Window,      \* PLAY_COUNT_WINDOW_MS, in ticks
    MaxTime,     \* bound on the clock
    MaxPlays     \* bound on the plays recorded

ASSUME EntriesAssumption ==
    Entries \subseteq [id : Nat, track : Tracks, session : Sessions]
ASSUME NoneAssumption == None \notin Entries /\ None \notin Sessions /\ None \notin Int
\* The tables hold finitely many rows.
ASSUME RowsAssumption == IsFiniteSet(Entries) /\ IsFiniteSet(Tracks)
ASSUME TimeAssumption == Window \in Nat \ {0} /\ MaxTime \in Nat /\ MaxPlays \in Nat

VARIABLES
    now,           \* the clock
    tx,            \* each session's transaction: entry, its `now', verdict; or None
    lock,          \* each track's advisory lock: the session holding it, or None
    countedPlayAt, \* queue_entries.countedPlayAt, None unless countedAsPlay
    plays          \* playback_events: the qualifying plays in commit order

vars == <<now, tx, lock, countedPlayAt, plays>>

Time == 0..MaxTime
Tx   == [entry : Entries, at : Time, verdict : {"open", "counts", "does not"}]
Play == [entry : Entries, at : Time, counted : BOOLEAN]

Init ==
    /\ now = 0
    /\ tx = [s \in Sessions |-> None]
    /\ lock = [t \in Tracks |-> None]
    /\ countedPlayAt = [e \in Entries |-> None]
    /\ plays = <<>>

-----------------------------------------------------------------------------
(* recordQualifyingPlay *)

\* completeQueueEntry or the displacement reads the clock.
Qualify(e) ==
    /\ tx[e.session] = None
    /\ Len(plays) < MaxPlays
    /\ tx' = [tx EXCEPT ![e.session] = [entry |-> e, at |-> now, verdict |-> "open"]]
    /\ UNCHANGED <<now, lock, countedPlayAt, plays>>

\* Mutant: the lock's key is the session, not the host.
MutLockTrack(s) ==
    /\ tx[s] # None
    /\ lock' = [lock EXCEPT ![tx[s].entry.track] = s]
    /\ UNCHANGED <<now, tx, countedPlayAt, plays>>

\* pg_advisory_xact_lock
LockTrack(s) ==
    /\ tx[s] # None
    /\ lock[tx[s].entry.track] = None
    /\ lock' = [lock EXCEPT ![tx[s].entry.track] = s]
    /\ UNCHANGED <<now, tx, countedPlayAt, plays>>

\* Mutant: a play exactly a window old still blocks.
MutWindow(e, at) ==
    {f \in Entries \ {e} : /\ f.track = e.track
                           /\ countedPlayAt[f] # None
                           /\ countedPlayAt[f] >= at - Window}

\* The other entries of the track whose counted play is in the window before
\* `at'; a count with a later time, by a transaction that overtook, is too.
RecentCounted(e, at) ==
    {f \in Entries \ {e} : /\ f.track = e.track
                           /\ countedPlayAt[f] # None
                           /\ countedPlayAt[f] > at - Window}

\* Mutant: the query before the lock.
MutDecide(s) ==
    /\ tx[s] # None /\ tx[s].verdict = "open"
    /\ tx' = [tx EXCEPT ![s].verdict =
                 IF RecentCounted(tx[s].entry, tx[s].at) = {} THEN "counts" ELSE "does not"]
    /\ UNCHANGED <<now, lock, countedPlayAt, plays>>

\* The query under the lock.
Decide(s) ==
    /\ tx[s] # None /\ tx[s].verdict = "open" /\ lock[tx[s].entry.track] = s
    /\ tx' = [tx EXCEPT ![s].verdict =
                 IF RecentCounted(tx[s].entry, tx[s].at) = {} THEN "counts" ELSE "does not"]
    /\ UNCHANGED <<now, lock, countedPlayAt, plays>>

\* The transaction's end lets go of its session and of its advisory lock.
End(s) ==
    /\ tx' = [tx EXCEPT ![s] = None]
    /\ lock' = [t \in Tracks |-> IF lock[t] = s THEN None ELSE lock[t]]
    /\ UNCHANGED now

Stored(s) == IF tx[s].verdict = "counts" THEN tx[s].at ELSE None

RecordEvent(s) ==
    plays' = Append(plays, [entry   |-> tx[s].entry, at |-> tx[s].at,
                            counted |-> tx[s].verdict = "counts"])

\* The decision overwrites an earlier one of the same entry.
Commit(s) ==
    /\ tx[s] # None /\ tx[s].verdict # "open" /\ End(s) /\ RecordEvent(s)
    /\ countedPlayAt' = [countedPlayAt EXCEPT ![tx[s].entry] = Stored(s)]

\* The transaction fails and is rolled back.
Abort(s) ==
    /\ tx[s] # None /\ End(s)
    /\ UNCHANGED <<countedPlayAt, plays>>

Tick ==
    /\ now < MaxTime /\ now' = now + 1
    /\ UNCHANGED <<tx, lock, countedPlayAt, plays>>

-----------------------------------------------------------------------------
(* The specification *)

Next ==
    \/ \E e \in Entries : Qualify(e)
    \/ \E s \in Sessions : LockTrack(s) \/ Decide(s) \/ Commit(s) \/ Abort(s)
    \/ Tick

Spec == Init /\ [][Next]_vars

-----------------------------------------------------------------------------
(* selectCountedPlays, the pure version of the rule *)

\* The time of the last play that counts among the first n of a sequence of
\* times, None if there is none.
LastCounted(times) ==
    LET last[n \in 0..Len(times)] ==
            IF n = 0 THEN None
            ELSE IF last[n - 1] = None \/ times[n] - last[n - 1] >= Window THEN times[n]
            ELSE last[n - 1]
    IN  last

SelectCountedPlays(times) ==
    [i \in 1..Len(times) |->
        LET before == LastCounted(times)[i - 1]
        IN  before = None \/ times[i] - before >= Window]

-----------------------------------------------------------------------------
(* Properties *)

TypeOK ==
    /\ now \in Time
    /\ tx \in [Sessions -> Tx \cup {None}]
    /\ lock \in [Tracks -> Sessions \cup {None}]
    /\ countedPlayAt \in [Entries -> Time \cup {None}]
    /\ plays \in Seq(Play)

\* Two counted plays of a track for the host are a window apart, whichever
\* sessions they were in and however their transactions overtook each other.
CountsSpaced ==
    \A e, f \in Entries :
        /\ e # f /\ e.track = f.track
        /\ countedPlayAt[e] # None /\ countedPlayAt[f] # None
        => \/ countedPlayAt[e] - countedPlayAt[f] >= Window
           \/ countedPlayAt[f] - countedPlayAt[e] >= Window

\* The plays of a track, selected one after the other.
TrackPlays(t) ==
    LET selected[n \in 0..Len(plays)] ==
            IF n = 0 THEN <<>>
            ELSE IF plays[n].entry.track = t THEN Append(selected[n - 1], plays[n])
            ELSE selected[n - 1]
    IN  selected[Len(plays)]

\* As long as the plays of a track are of different entries and were recorded
\* in the order of their times, the stored decisions are those of
\* selectCountedPlays.
AgreesWithReference ==
    \A t \in Tracks :
        LET ps == TrackPlays(t)
            times == [i \in 1..Len(ps) |-> ps[i].at]
        IN  (\A i, j \in 1..Len(ps) :
                i < j => times[i] <= times[j] /\ ps[i].entry # ps[j].entry) =>
                [i \in 1..Len(ps) |-> ps[i].counted] = SelectCountedPlays(times)

Serial == INSTANCE SerialCounting

\* Counting is serial: however the transactions of a host's sessions overlap,
\* wait for each other's locks and fail, each play that is recorded was decided by
\* the counts there were the moment it was, and a session's plays in their order.
ImplementsSerial == Serial!Spec

=============================================================================
