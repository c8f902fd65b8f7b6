--------------------------- MODULE MCHostSessions ---------------------------
(***************************************************************************)
(* An instance of HostSessions and one of LiveSync for TLC: the sessions   *)
(* of a host, and a page that looks at one of them.  The two share no      *)
(* variable, so the run explores one or the other and not the product:     *)
(* `part' says which.  Each action of both is a disjunct of its own here,  *)
(* so that TLC reports how often it was taken.                             *)
(***************************************************************************)
EXTENDS HostSessions, MCLiveSync

VARIABLE part

\* The other part, and the choice, stay as they are.
Hosting  == part = "sessions" /\ UNCHANGED <<part, browser>>
Browsing == part = "page" /\ UNCHANGED <<part, vars>>

\* The studio runs without a socket here: its poll, which may come at any time,
\* does what an event would do.  A studio that stands still is the page that
\* has nothing to catch up with.
PartsInit ==
    /\ Init /\ Page!Init /\ part \in {"sessions", "page"}
    /\ page = "studio" => ~hasUrl
    /\ part = "sessions" => page = "studio"

PartsNext ==
    \/ \E s \in Sessions :
         \/ Hosting /\ CreateLiveSession(s)
         \/ Hosting /\ StartLiveSession(s)
         \/ Hosting /\ PauseLiveSession(s)
         \/ Hosting /\ ResumeLiveSession(s)
         \/ Hosting /\ EndLiveSession(s)
         \/ Hosting /\ Play(s)
         \/ \E r \in Requests : Hosting /\ GoLive(r, s)
         \/ \E i \in Instances : Hosting /\ SweepSession(i, s)
    \/ \E r \in Requests :
         \/ Hosting /\ CheckApproved(r)
         \/ Hosting /\ LockHost(r)
         \/ Hosting /\ ReadOffline(r)
         \/ Hosting /\ GoOffline(r)
         \/ Hosting /\ ReadSuspend(r)
         \/ Hosting /\ SuspendHost(r)
         \/ Hosting /\ Abort(r)
    \/ \E i \in Instances :
         \/ Hosting /\ ReadSweep(i)
         \/ Hosting /\ SweepFails(i)
    \/ Hosting /\ ApproveApplication
    \/ Hosting /\ Tick
    \/ Browsing /\ Page!OthersChange
    \/ Browsing /\ Page!Commit
    \/ Browsing /\ Page!Rollback
    \/ Browsing /\ Page!Connect
    \/ Browsing /\ Page!Disconnect
    \/ Browsing /\ Page!Poll
    \/ Browsing /\ Page!StationLoaded
    \/ Browsing /\ Page!Visit
    \/ \E e \in Page!Events : Browsing /\ Page!handleAuthoritativeEvent(e)
    \/ \E i \in Reads :
         \/ Browsing /\ Page!GetSession(i)
         \/ Browsing /\ Page!GetQueue(i)
         \/ Browsing /\ Page!Finish(i)
         \/ Browsing /\ Page!Fail(i)
    \/ \E h \in Handlers :
         \/ Browsing /\ Page!PlayNextButton(h)
         \/ Browsing /\ Page!PlayerButtons(h)
         \/ Browsing /\ Page!EntryButtons(h)
         \/ Browsing /\ Page!handleToggleSubmissions(h)
         \/ Browsing /\ Page!Serve(h)
         \/ Browsing /\ Page!updateConfiguration(h)
         \/ Browsing /\ Page!HandlerEnds(h)
         \/ Browsing /\ Page!HandlerFails(h)

\* The fairness of the two.  Of the studio, and so of the host's clicks, no
\* liveness is checked.
Audience == part = "page" /\ page # "studio"

PartsFairness ==
    /\ \A i \in Instances : WF_vars(part = "sessions" /\ OfSweep(i))
    /\ WF_browser(Audience /\ Page!Commit)
    /\ WF_browser(Audience /\ Page!Poll)
    /\ WF_browser(Audience /\ Page!Visit)
    /\ \A e \in Page!Events : WF_browser(Audience /\ Page!handleAuthoritativeEvent(e))
    /\ \A i \in Reads :
          /\ WF_browser(Audience /\ Page!GetSession(i))
          /\ WF_browser(Audience /\ Page!GetQueue(i))
          /\ WF_browser(Audience /\ Page!Finish(i))

PartsSpec == PartsInit /\ [][PartsNext]_<<part, vars, browser>> /\ PartsFairness

=============================================================================
