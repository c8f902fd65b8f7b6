------------------------------ MODULE LiveSync ------------------------------
(***************************************************************************)
(* One browser page that looks at one live session, and the server it      *)
(* follows: the events of the session's room, the polls, the reads they    *)
(* start, and the host's operations with the revision he has read.         *)
(*                                                                         *)
(* What the operations do to the queue is LiveQueue's subject.  Here each  *)
(* makes a new version of it, with or without a new queueRevision and with *)
(* or without an event.                                                    *)
(***************************************************************************)
EXTENDS Integers

CONSTANTS
    Reads,        \* the fetches a page has under way at one time
    Handlers,     \* the clicks of the host that are under way at one time
    None,
    MaxChanges,   \* bound on the changes of the queue
    MaxFaults     \* bound on lost connections, failed reads and rollbacks

BoundsAssumption == MaxChanges \in Nat /\ MaxFaults \in Nat
NoneAssumption == None \notin Int \cup Handlers

VARIABLES
    page,      \* which page is open
    hasUrl,    \* NEXT_PUBLIC_WS_URL is set
    revision,  \* live_sessions.queueRevision, as committed
    queue,     \* the version of the public queue, as committed
    tx,        \* the transaction that holds the session's row lock
    sent,      \* events and acknowledgements on their way to the page
    joined,    \* the page's socket is in the session's room
    known,     \* lastKnownRevisionRef
    spinner,   \* the studio's isLoading, in place of the whole page
    read,      \* the fetches: what each of its two requests has answered
    view,      \* what the page shows
    error,     \* the page shows an error
    actionId,  \* the studio's button that is busy
    updating,  \* isUpdating: the submissions switch is busy
    click,     \* the host's requests
    applied,   \* for each revision, the requests that expected it and changed the queue
    faults

server == <<revision, queue, tx, applied>>
socket == <<sent, joined, known>>
shown  == <<spinner, read, view, error>>
studio == <<actionId, updating, click>>
vars   == <<page, hasUrl, server, socket, shown, studio, faults>>

-----------------------------------------------------------------------------

\* The pages: an audience's session, a station's profile, a stream overlay,
\* and the host's studio.
Pages == {"session", "station", "overlay", "studio"}

Revisions == 0..MaxChanges
Snapshot  == [session : Revisions, queue : Revisions]
Fetch     == [session : Revisions \cup {None}, queue : Revisions \cup {None}]
Unread    == [session |-> None, queue |-> None]

\* An event without a revision, or the answer to join-session.
Plain  == -1
Events == {Plain} \cup 1..MaxChanges

\* bump: queueRevision goes up.  When the event goes out: LiveSessionsService
\* emits before it commits, HostService afterwards and without a revision; a
\* submission, a paid entry, moveToNext and resume emit nothing; a submission
\* that is withdrawn or refused does not even bump.
Change      == [by : Handlers \cup {None}, bump : BOOLEAN, event : {"none", "before", "after"}]
ChangeKinds == {c \in Change : c.event # "none" => c.bump}

\* The buttons that send the revision: play next; complete, skip and clear of
\* the player; load, move, complete, skip and remove of an entry.
Buttons == {"play next", "player", "entry"}

\* here: the queue manager that sent it is still the one on the screen.
Click == [button : Buttons \cup {"submissions"}, expected : Revisions,
          step : {"sent", "open", "done", "refused", "failed"}, here : BOOLEAN]

RowAssumption == None \notin Click   \* NULL is no row

Empty == [i \in Reads |-> None]

Init ==
    /\ page \in Pages
    /\ hasUrl \in (IF page \in {"session", "studio"} THEN BOOLEAN ELSE {FALSE})
    /\ revision = 0 /\ queue = 0 /\ tx = None
    /\ sent = {} /\ joined = FALSE /\ known = 0
    /\ spinner = (page = "studio")
    /\ read = Empty /\ view = None /\ error = FALSE
    /\ actionId = None /\ updating = FALSE
    /\ click = [h \in Handlers |-> None]
    /\ applied = [r \in Revisions |-> 0]
    /\ faults = 0

Fault == faults < MaxFaults /\ faults' = faults + 1

-----------------------------------------------------------------------------
(* The server *)

\* An event reaches the sockets that are in the room when it is emitted.
Emit(e) == sent' = IF joined THEN sent \cup {e} ELSE sent

\* The row lock is free, and the event goes out before the commit.
Open(c) ==
    /\ tx = None /\ queue < MaxChanges
    /\ tx' = c
    /\ IF c.event = "before" THEN Emit(revision + 1) ELSE UNCHANGED sent
    /\ UNCHANGED <<revision, queue, applied, joined, known>>

\* Somebody else changes the queue. When the session ends, the studio no
\* longer shows one.
OthersChange ==
    /\ \E c \in ChangeKinds :
          /\ c.by = None
          /\ c.event = "after" => page # "studio"
          /\ Open(c)
    /\ UNCHANGED <<page, hasUrl, shown, studio, faults>>

Sent(h) == click[h] # None /\ click[h].step = "sent" /\ tx = None

Step(h, step) ==
    /\ click' = [click EXCEPT ![h].step = step]
    /\ UNCHANGED <<page, hasUrl, shown, actionId, updating, faults>>

\* Mutant: the revision is not compared.
MutServe(h) ==
    /\ Sent(h) /\ click[h].button # "submissions"
    /\ Step(h, "open")
    /\ \E c \in ChangeKinds : c.by = h /\ c.bump /\ c.event # "after" /\ Open(c)

\* The host's request: the revision is compared under the lock. moveToNext is
\* the one that emits nothing. Clearing an empty player and moving the first of
\* the line to the top are accepted and change nothing.
Serve(h) ==
    /\ Sent(h) /\ click[h].button # "submissions"
    /\ \/ /\ click[h].expected = revision
          /\ Step(h, "open")
          /\ \E c \in ChangeKinds :
                /\ c.by = h /\ c.bump /\ c.event # "after"
                /\ c.event = "none" => click[h].button = "entry"
                /\ Open(c)
       \/ /\ click[h].expected = revision /\ click[h].button \in {"player", "entry"}
          /\ Step(h, "done") /\ UNCHANGED <<server, socket>>
       \/ /\ click[h].expected # revision
          /\ Step(h, "refused") /\ UNCHANGED <<server, socket>>

\* updateConfiguration takes no lock, asks for no revision and makes none.
updateConfiguration(h) ==
    /\ Sent(h) /\ click[h].button = "submissions"
    /\ Step(h, "open")
    /\ Open([by |-> h, bump |-> FALSE, event |-> "none"])

Answer(step) ==
    click' = IF tx.by = None THEN click ELSE [click EXCEPT ![tx.by].step = step]

Commit ==
    /\ tx # None
    /\ revision' = IF tx.bump THEN revision + 1 ELSE revision
    /\ queue' = queue + 1
    /\ applied' = IF tx.by = None \/ ~tx.bump THEN applied
                  ELSE [applied EXCEPT ![click[tx.by].expected] = @ + 1]
    /\ IF tx.event = "after" THEN Emit(Plain) ELSE UNCHANGED sent
    /\ tx' = None
    /\ Answer("done")
    /\ UNCHANGED <<page, hasUrl, joined, known, shown, actionId, updating, faults>>

\* The transaction fails after its event has gone out.
Rollback ==
    /\ tx # None /\ Fault
    /\ tx' = None
    /\ Answer("failed")
    /\ UNCHANGED <<page, hasUrl, revision, queue, applied, socket, shown, actionId, updating>>

-----------------------------------------------------------------------------
(* The page's fetches: two requests, each answered when the server gets to it *)

Start ==
    /\ \E i \in Reads : read[i] = None /\ read' = [read EXCEPT ![i] = Unread]
    /\ error' = FALSE

GetSession(i) ==
    /\ read[i] # None /\ read[i].session = None
    /\ read' = [read EXCEPT ![i].session = revision]
    /\ UNCHANGED <<page, hasUrl, server, socket, spinner, view, error, studio, faults>>

\* The station's page asks for the queue once it has the session.
GetQueue(i) ==
    /\ read[i] # None /\ read[i].queue = None
    /\ page = "station" => read[i].session # None
    /\ read' = [read EXCEPT ![i].queue = queue]
    /\ UNCHANGED <<page, hasUrl, server, socket, spinner, view, error, studio, faults>>

\* Whichever fetch ends last is the one that is shown.
Finish(i) ==
    /\ read[i] \in Snapshot
    /\ view' = read[i]
    /\ read' = [read EXCEPT ![i] = None]
    /\ UNCHANGED <<page, hasUrl, server, socket, spinner, error, studio, faults>>

Fail(i) ==
    /\ read[i] # None /\ Fault
    /\ read' = [read EXCEPT ![i] = None]
    /\ error' = TRUE
    /\ UNCHANGED <<page, hasUrl, server, socket, spinner, view, studio>>

-----------------------------------------------------------------------------
(* useLiveSocket *)

\* The spinner takes the place of the queue manager, whose effect closes the
\* socket and whose state is gone.
Unmount ==
    /\ spinner' = TRUE
    /\ sent' = {} /\ joined' = FALSE /\ known' = 0
    /\ read' = Empty /\ view' = None /\ error' = FALSE
    /\ actionId' = None /\ updating' = FALSE

\* The handlers of a queue manager that is gone go on.
Orphaned == [h \in Handlers |-> IF click[h] = None THEN None ELSE [click[h] EXCEPT !.here = FALSE]]

\* onReconcile, when the last known revision becomes k and m is left to come:
\* the studio loads the station again and the other pages fetch.
Reconcile(k, m) ==
    IF page = "studio"
    THEN Unmount /\ click' = Orphaned
    ELSE /\ Start
         /\ known' = k /\ sent' = m
         /\ UNCHANGED <<joined, spinner, view, studio>>

Connect ==
    /\ hasUrl /\ ~spinner /\ ~joined
    /\ joined' = TRUE
    /\ sent' = sent \cup {Plain}
    /\ UNCHANGED <<page, hasUrl, server, known, shown, studio, faults>>

Disconnect ==
    /\ joined /\ Fault
    /\ joined' = FALSE
    /\ sent' = {}
    /\ UNCHANGED <<page, hasUrl, server, known, shown, studio>>

handleAuthoritativeEvent(e) ==
    /\ e \in sent
    /\ IF e # Plain /\ known > 0 /\ e <= known
       THEN /\ sent' = sent \ {e}
            /\ UNCHANGED <<joined, known, shown, studio>>
       ELSE Reconcile(IF e = Plain THEN known ELSE e, sent \ {e})
    /\ UNCHANGED <<page, hasUrl, server, faults>>

\* Mutant: polling stops while the socket is connected.
MutPoll ==
    /\ ~spinner /\ ~joined
    /\ Reconcile(known, sent)
    /\ UNCHANGED <<page, hasUrl, server, faults>>

\* The interval runs with a socket as without one.
Poll ==
    /\ ~spinner
    /\ Reconcile(known, sent)
    /\ UNCHANGED <<page, hasUrl, server, faults>>

-----------------------------------------------------------------------------
(* The studio *)

\* loadStation ends, the queue manager is mounted and loads.
StationLoaded ==
    /\ spinner
    /\ spinner' = FALSE
    /\ Start
    /\ UNCHANGED <<page, hasUrl, server, socket, view, studio, faults>>

\* The first load of the other pages.
Visit ==
    /\ page # "studio" /\ view = None /\ read = Empty
    /\ Start
    /\ UNCHANGED <<page, hasUrl, server, socket, spinner, view, studio, faults>>

Send(h, button) ==
    /\ page = "studio" /\ view # None /\ click[h] = None
    /\ click' = [click EXCEPT ![h] = [button |-> button, expected |-> view.session,
                                     step |-> "sent", here |-> TRUE]]
    /\ UNCHANGED <<page, hasUrl, server, socket, shown, faults>>

\* handlePlayNext to handleRemoveEntry: the revision is that of the session
\* that is shown. One actionId for all buttons: the second to be pressed
\* enables the first again.
Press(h, button) ==
    /\ actionId # button
    /\ actionId' = button
    /\ Send(h, button)
    /\ UNCHANGED updating

PlayNextButton(h) == Press(h, "play next")
PlayerButtons(h)  == Press(h, "player")
EntryButtons(h)   == Press(h, "entry")

handleToggleSubmissions(h) ==
    /\ ~updating
    /\ updating' = TRUE
    /\ Send(h, "submissions")
    /\ UNCHANGED actionId

\* Accepted or refused with 409, the handler reloads the queue, then the
\* station; the spinner outlives what the reload shows.
HandlerEnds(h) ==
    /\ click[h] # None /\ click[h].step \in {"done", "refused"}
    /\ Unmount
    /\ click' = [Orphaned EXCEPT ![h] = None]
    /\ UNCHANGED <<page, hasUrl, server, faults>>

\* Any other error is shown.
HandlerFails(h) ==
    /\ click[h] # None /\ click[h].step = "failed"
    /\ IF click[h].here
       THEN /\ error' = TRUE
            /\ IF click[h].button = "submissions"
               THEN updating' = FALSE /\ UNCHANGED actionId
               ELSE actionId' = None /\ UNCHANGED updating
       ELSE UNCHANGED <<error, actionId, updating>>
    /\ click' = [click EXCEPT ![h] = None]
    /\ UNCHANGED <<page, hasUrl, server, socket, spinner, read, view, faults>>

-----------------------------------------------------------------------------

Next ==
    \/ OthersChange \/ Commit \/ Rollback
    \/ Connect \/ Disconnect \/ Poll \/ StationLoaded \/ Visit
    \/ \E e \in Events : handleAuthoritativeEvent(e)
    \/ \E i \in Reads : GetSession(i) \/ GetQueue(i) \/ Finish(i) \/ Fail(i)
    \/ \E h \in Handlers :
          \/ PlayNextButton(h) \/ PlayerButtons(h) \/ EntryButtons(h)
          \/ handleToggleSubmissions(h)
          \/ Serve(h) \/ updateConfiguration(h) \/ HandlerEnds(h) \/ HandlerFails(h)

\* The server ends its transactions and answers, the timers fire and what has
\* been sent is delivered. Nothing makes a socket connect again, or a host click.
Fairness ==
    /\ WF_vars(Commit) /\ WF_vars(Poll) /\ WF_vars(StationLoaded) /\ WF_vars(Visit)
    /\ \A e \in Events : WF_vars(handleAuthoritativeEvent(e))
    /\ \A i \in Reads : WF_vars(GetSession(i)) /\ WF_vars(GetQueue(i)) /\ WF_vars(Finish(i))
    /\ \A h \in Handlers : WF_vars(Serve(h) \/ updateConfiguration(h) \/ HandlerEnds(h))

Spec == Init /\ [][Next]_vars /\ Fairness

-----------------------------------------------------------------------------

\* Type correctness of the page's and the server's state.
TypeOK ==
    /\ page \in Pages /\ hasUrl \in BOOLEAN
    /\ revision \in Revisions /\ queue \in Revisions
    /\ tx \in Change \cup {None}
    /\ sent \subseteq Events /\ joined \in BOOLEAN /\ known \in Revisions
    /\ spinner \in BOOLEAN /\ error \in BOOLEAN
    /\ read \in [Reads -> Fetch \cup {None}]
    /\ view \in Snapshot \cup {None}
    /\ actionId \in Buttons \cup {None} /\ updating \in BOOLEAN
    /\ click \in [Handlers -> Click \cup {None}]
    /\ applied \in [Revisions -> Nat]
    /\ faults \in 0..MaxFaults

\* A double click, or two tabs of the host, that send the same expected
\* revision change the queue once: whatever was in between, of the requests
\* made from one revision at most one has an effect.
OneOpPerRevision == \A r \in Revisions : applied[r] <= 1

\* Once the server stops changing, the pages of the audience come to show its
\* queue and session and go on showing them, whatever events were lost,
\* discarded as stale, sent for a transaction that was rolled back, or read too
\* early, and in whatever order the answers to the fetches arrived.
PageCatchesUp ==
    <>[](page # "studio" => view = [session |-> revision, queue |-> queue] /\ ~error)

=============================================================================
