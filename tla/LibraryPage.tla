---------------------------- MODULE LibraryPage ----------------------------
(***************************************************************************)
(* The page of a user's music library: the list of his tracks, each with a *)
(* preview, and the dialog that uploads one more.                          *)
(*                                                                         *)
(* Every request is under way for a while, and what comes after its await  *)
(* runs whatever was clicked in the meantime.  activePlayingTrackId is set *)
(* by the items' handlers and seen by them after the next render, when the *)
(* item that was active before pauses its audio.  What an upload does to   *)
(* the rows is the subject of Media.                                       *)
(***************************************************************************)
EXTENDS Naturals

CONSTANTS Tracks, Fetches, None

NoneAssumption == None \notin Tracks

VARIABLES
    row,       \* the user's tracks on the server
    fetched,   \* the calls of fetchTracks under way, with what they have read
    page,      \* isLoading, isRefreshing and the items that are shown
    active,    \* activePlayingTrackId: as it was last set, and as it was last rendered
    item,      \* each track's item
    uploader,  \* the upload dialog, and the upload it has sent
    merged     \* history: active was set to two values between two renders

vars == <<row, fetched, page, active, item, uploader, merged>>

-----------------------------------------------------------------------------

\* A track is listed until it is deleted, and can be played when it is READY.
Row   == {"none", "waiting", "READY", "deleted"}
Lists == [Tracks -> {"absent", "waiting", "READY"}]
Empty == [t \in Tracks |-> "absent"]

Fetch == [step : {"idle", "asked", "read"}, tracks : Lists]
Page  == [isLoading : BOOLEAN, isRefreshing : BOOLEAN, tracks : Lists]

\* What handlePlayToggle awaits, and the state of the audio element.
Item == [hasUrl : BOOLEAN, paused : BOOLEAN, awaits : {"none", "download", "play"},
         isDeleting : {"no", "active", "other"}]  \* and whether it was active at the click

Uploader == [isOpen : BOOLEAN, file : BOOLEAN, isSubmitting : BOOLEAN, sent : Tracks \cup {None}]

NewItem == [hasUrl |-> FALSE, paused |-> TRUE, awaits |-> "none", isDeleting |-> "no"]
NewForm == [isOpen |-> FALSE, file |-> FALSE, isSubmitting |-> FALSE, sent |-> None]

TypeOK ==
    /\ row \in [Tracks -> Row]
    /\ fetched \in [Fetches -> Fetch]
    /\ page \in Page
    /\ active \in [set : Tracks \cup {None}, rendered : Tracks \cup {None}]
    /\ item \in [Tracks -> Item]
    /\ uploader \in Uploader
    /\ merged \in BOOLEAN

\* The page has just been opened: its effect has called fetchTracks.
Init ==
    /\ row \in [Tracks -> {"none", "READY"}]
    /\ \E first \in Fetches :
         fetched = [f \in Fetches |-> [step |-> IF f = first THEN "asked" ELSE "idle",
                                       tracks |-> Empty]]
    /\ page = [isLoading |-> TRUE, isRefreshing |-> FALSE, tracks |-> Empty]
    /\ active = [set |-> None, rendered |-> None]
    /\ item = [t \in Tracks |-> NewItem]
    /\ uploader = NewForm
    /\ merged = FALSE

-----------------------------------------------------------------------------
(* activePlayingTrackId *)

\* onPlayToggle: React may render two changes as one.
Toggle(t) ==
    /\ active' = [active EXCEPT !.set = t]
    /\ merged' = (merged \/ active.set \notin {active.rendered, t})

\* Mutant: an item leaves its audio alone.
MutPauseEffect(t) == item[t].paused

\* The effect of isPlaying: an item that is not active any more is paused.
PauseEffect(t) == item[t].paused \/ t = active.rendered

Render ==
    /\ active.set # active.rendered
    /\ active' = [active EXCEPT !.rendered = active.set]
    /\ item' = [t \in Tracks |-> [item[t] EXCEPT !.paused = PauseEffect(t)]]
    /\ UNCHANGED <<row, fetched, page, uploader, merged>>

-----------------------------------------------------------------------------
(* The list *)

\* fetchTracks(true)
Refetch(f) ==
    /\ fetched[f].step = "idle"
    /\ fetched' = [fetched EXCEPT ![f].step = "asked"]
    /\ page' = [page EXCEPT !.isRefreshing = TRUE]

Refresh(f) ==
    /\ ~page.isLoading /\ ~page.isRefreshing
    /\ Refetch(f)
    /\ UNCHANGED <<row, active, item, uploader, merged>>

getTracks(f) ==
    /\ fetched[f].step = "asked"
    /\ fetched' = [fetched EXCEPT ![f] = [step |-> "read",
                      tracks |-> [t \in Tracks |-> IF row[t] \in {"none", "deleted"} THEN "absent"
                                                   ELSE row[t]]]]
    /\ UNCHANGED <<row, page, active, item, uploader, merged>>

Listed(t) == page.tracks[t] # "absent"

\* setTracks.  An item that is gone has no audio; a play() it was waiting for
\* is refused, a download comes to nothing.
SetTracks(f) ==
    LET gone == {t \in Tracks : Listed(t) /\ fetched[f].tracks[t] = "absent"} IN
    /\ fetched[f].step = "read"
    /\ page' = [isLoading |-> FALSE, isRefreshing |-> FALSE, tracks |-> fetched[f].tracks]
    /\ item' = [t \in Tracks |-> IF t \in gone THEN [item[t] EXCEPT !.hasUrl = FALSE, !.paused = TRUE,
                                                                    !.awaits = "none"]
                                 ELSE item[t]]
    /\ fetched' = [fetched EXCEPT ![f] = [step |-> "idle", tracks |-> Empty]]
    /\ IF \E t \in gone : item[t].awaits = "play" THEN Toggle(None) ELSE UNCHANGED <<active, merged>>
    /\ UNCHANGED <<row, uploader>>

LoseTracks(f) ==
    /\ fetched[f].step # "idle"
    /\ page' = [page EXCEPT !.isLoading = FALSE, !.isRefreshing = FALSE]
    /\ fetched' = [fetched EXCEPT ![f] = [step |-> "idle", tracks |-> Empty]]
    /\ UNCHANGED <<row, active, item, uploader, merged>>

-----------------------------------------------------------------------------
(* An item: preview, visibility, deletion *)

PlayButton(t) == page.tracks[t] = "READY" /\ item[t].awaits # "download"

\* The audio is asked to play at once; it is active when it does.
handlePlayToggle(t) ==
    /\ PlayButton(t)
    /\ IF active.rendered = t
       THEN item' = [item EXCEPT ![t].paused = TRUE] /\ Toggle(None)
       ELSE /\ item' = IF item[t].hasUrl
                       THEN [item EXCEPT ![t].paused = FALSE, ![t].awaits = "play"]
                       ELSE [item EXCEPT ![t].awaits = "download"]
            /\ UNCHANGED <<active, merged>>
    /\ UNCHANGED <<row, fetched, page, uploader>>

\* createDownloadUrl has answered.  A failure clears what is active, whichever
\* track that is.
Downloaded(t) ==
    /\ item[t].awaits = "download"
    /\ \/ /\ row[t] = "READY"
          /\ item' = [item EXCEPT ![t].hasUrl = TRUE, ![t].paused = FALSE, ![t].awaits = "play"]
          /\ UNCHANGED <<active, merged>>
       \/ item' = [item EXCEPT ![t].awaits = "none"] /\ Toggle(None)
    /\ UNCHANGED <<row, fetched, page, uploader>>

\* The promise of play() is settled.
Played(t) ==
    /\ item[t].awaits = "play"
    /\ \/ item' = [item EXCEPT ![t].awaits = "none"] /\ Toggle(t)
       \/ item' = [item EXCEPT ![t].awaits = "none", ![t].paused = TRUE] /\ Toggle(None)
    /\ UNCHANGED <<row, fetched, page, uploader>>

\* onPause and onEnded: the browser stops the audio, or it is over.
Stopped(t) ==
    /\ ~item[t].paused
    /\ item' = [item EXCEPT ![t].paused = TRUE]
    /\ \/ Toggle(None)
       \/ active.rendered # t /\ UNCHANGED <<active, merged>>
    /\ UNCHANGED <<row, fetched, page, uploader>>

\* The click and its answer: nothing else looks at isTogglingVisibility.
\* updateTrack knows no deleted track; without an answer nothing is loaded.
handleToggleVisibility(t, f) ==
    /\ Listed(t) /\ row[t] # "deleted"
    /\ Refetch(f)
    /\ UNCHANGED <<row, active, item, uploader, merged>>

\* The answer finds the onDeleted of the render in which it was clicked.
handleDelete(t) ==
    /\ Listed(t) /\ item[t].isDeleting = "no"
    /\ item' = [item EXCEPT ![t].isDeleting = IF active.rendered = t THEN "active" ELSE "other"]
    /\ UNCHANGED <<row, fetched, page, active, uploader, merged>>

Deleted(t, f) ==
    /\ item[t].isDeleting # "no"
    /\ row' = [row EXCEPT ![t] = "deleted"]
    /\ item' = [item EXCEPT ![t].isDeleting = "no"]
    /\ Refetch(f)
    /\ IF item[t].isDeleting = "active" THEN Toggle(None) ELSE UNCHANGED <<active, merged>>
    /\ UNCHANGED uploader

\* An error: the track may be deleted or not.
NotDeleted(t) ==
    /\ item[t].isDeleting # "no"
    /\ row' \in {row, [row EXCEPT ![t] = "deleted"]}
    /\ item' = [item EXCEPT ![t].isDeleting = "no"]
    /\ UNCHANGED <<fetched, page, active, uploader, merged>>

-----------------------------------------------------------------------------
(* The upload dialog *)

openUploader ==
    /\ ~uploader.isOpen
    /\ uploader' = [NewForm EXCEPT !.isOpen = TRUE, !.sent = uploader.sent]
    /\ UNCHANGED <<row, fetched, page, active, item, merged>>

\* Escape, a click beside it and its button; only Cancel is disabled while an
\* upload is under way, and the upload goes on.
closeUploader ==
    /\ uploader.isOpen
    /\ uploader' = [NewForm EXCEPT !.sent = uploader.sent]
    /\ UNCHANGED <<row, fetched, page, active, item, merged>>

\* An audio file of at most 100 MB; another one is refused with an error.
handleFileSelected ==
    /\ uploader.isOpen /\ ~uploader.file
    /\ uploader' = [uploader EXCEPT !.file = TRUE]
    /\ UNCHANGED <<row, fetched, page, active, item, merged>>

removeFile ==
    /\ uploader.isOpen /\ uploader.file /\ ~uploader.isSubmitting
    /\ uploader' = [uploader EXCEPT !.file = FALSE]
    /\ UNCHANGED <<row, fetched, page, active, item, merged>>

\* The row is there with the first answer.  One upload at a time.
handleSubmit(t) ==
    /\ uploader.isOpen /\ uploader.file /\ ~uploader.isSubmitting
    /\ uploader.sent = None /\ row[t] = "none"
    /\ row' = [row EXCEPT ![t] = "waiting"]
    /\ uploader' = [uploader EXCEPT !.isSubmitting = TRUE, !.sent = t]
    /\ UNCHANGED <<fetched, page, active, item, merged>>

\* onSuccess closes whatever dialog is open by now.
Uploaded(f) ==
    /\ uploader.sent # None
    /\ \/ uploader' = NewForm /\ Refetch(f)
       \/ /\ uploader' = [uploader EXCEPT !.isSubmitting = FALSE, !.sent = None]
          /\ UNCHANGED <<fetched, page>>
    /\ UNCHANGED <<row, active, item, merged>>

\* The worker has found the file to be good.
Process(t) ==
    /\ row[t] = "waiting"
    /\ row' = [row EXCEPT ![t] = "READY"]
    /\ UNCHANGED <<fetched, page, active, item, uploader, merged>>

-----------------------------------------------------------------------------

Preview(t) == handlePlayToggle(t) \/ Downloaded(t) \/ Played(t) \/ Stopped(t)

Next ==
    \/ Render \/ openUploader \/ closeUploader \/ handleFileSelected \/ removeFile
    \/ \E f \in Fetches : Refresh(f) \/ getTracks(f) \/ SetTracks(f) \/ LoseTracks(f) \/ Uploaded(f)
    \/ \E t \in Tracks :
         \/ Preview(t) \/ handleDelete(t) \/ NotDeleted(t)
         \/ handleSubmit(t) \/ Process(t)
         \/ \E f \in Fetches : handleToggleVisibility(t, f) \/ Deleted(t, f)

-----------------------------------------------------------------------------

\* Two previews are never heard at once: when all is rendered and no play() is
\* under way, only the active track's audio plays, whatever order the downloads
\* and the clicks came in (TrackItem.tsx, "Pause if another track became
\* active"), unless two changes of the active track were rendered as one.
OnePreview ==
    active.set = active.rendered /\ ~merged =>
        \A t \in Tracks : item[t].paused \/ item[t].awaits = "play" \/ t = active.rendered

=============================================================================
