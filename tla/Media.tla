------------------------------- MODULE Media -------------------------------
(***************************************************************************)
(* The uploads of one user's tracks: requests that complete them, and the  *)
(* worker's jobs that read the audio and make it the current version.      *)
(*                                                                         *)
(* completeUpload has no transaction: each of its reads and writes is a    *)
(* step of its own, and other requests and the worker run in between.      *)
(* What deletes objects and renders artwork is the subject of              *)
(* MediaDeletion; here an object may go away at any time.                  *)
(***************************************************************************)
EXTENDS Integers, FiniteSets

CONSTANTS
    Tracks,       \* the user's tracks
    Uploads,      \* upload intents, each with an object key of its own
    Requests,     \* calls of completeUpload and completeArtworkUpload
    None,
    Attempts,     \* of a job that throws: 3 in the code
    MaxFaults     \* bound on the failures of storage, requests, the database and workers

RowsAssumption == None \notin Tracks \cup Uploads \cup Requests
FaultsAssumption == MaxFaults \in Nat /\ Attempts \in Nat \ {0}

VARIABLES
    track,     \* tracks
    intent,    \* upload_intents
    content,   \* what the client put under an upload's key, None before
    stored,    \* the uploads whose object is in storage
    request,   \* the calls that complete uploads, with what they have read
    media,     \* track_media_versions, by the call that made the row
    job,       \* the job of each such row, with the version it found current
    faults     \* the failures so far

vars == <<track, intent, content, stored, request, media, job, faults>>

-----------------------------------------------------------------------------
(* Rows *)

ProcessingState == {"UPLOADING", "PROCESSING", "READY", "FAILED"}
IntentStatus    == {"PENDING", "PROCESSING", "FAILED"}
IntentType      == {"TRACK_AUDIO", "TRACK_ARTWORK"}

\* A file is fine, has no readable duration, cannot be parsed, or is too large.
Contents == {"fine", "silent", "corrupt", "huge"}

Track   == [state : ProcessingState, deleted : BOOLEAN]
Intent  == [track : Tracks, type : IntentType, status : IntentStatus, expired : BOOLEAN]
Version == [upload : Uploads, number : Nat, current : BOOLEAN, state : ProcessingState]
Request ==
    [step : {"head", "refuse", "too large", "fail track", "current", "create", "mark intent",
             "mark version", "mark track", "enqueue", "done"},
     upload : Uploads, number : Nat]
Job ==
    [step : {"none", "waiting", "parsed", "found", "broken", "handled", "ended", "failed"},
     other : Requests \cup {None}, stalled : BOOLEAN, attempt : 1..Attempts]

RecordAssumption ==   \* NULL is no row
    None \notin Track \cup Intent \cup Version \cup Request

Versions    == {r \in Requests : media[r] # None}
TrackOf(r)  == intent[media[r].upload].track
Currents(t) == {r \in Versions : TrackOf(r) = t /\ media[r].current}

Init ==
    /\ track = [t \in Tracks |-> None]
    /\ intent = [u \in Uploads |-> None]
    /\ content = [u \in Uploads |-> None]
    /\ stored = {}
    /\ request = [r \in Requests |-> None]
    /\ media = [r \in Requests |-> None]
    /\ job = [r \in Requests |-> [step |-> "none", other |-> None, stalled |-> FALSE,
                                  attempt |-> 1]]
    /\ faults = 0

Fault == faults < MaxFaults /\ faults' = faults + 1

-----------------------------------------------------------------------------
(* The library: TracksService *)

NewIntent(u, t, type) ==
    /\ intent[u] = None
    /\ intent' = [intent EXCEPT ![u] = [track |-> t, type |-> type,
                                        status |-> "PENDING", expired |-> FALSE]]
    /\ UNCHANGED <<content, stored, request, media, job, faults>>

createUploadUrl(u, t) ==
    /\ track[t] = None
    /\ track' = [track EXCEPT ![t] = [state |-> "UPLOADING", deleted |-> FALSE]]
    /\ NewIntent(u, t, "TRACK_AUDIO")

createReplaceAudioUrl(u, t) ==
    /\ track[t] # None /\ ~track[t].deleted
    /\ NewIntent(u, t, "TRACK_AUDIO")
    /\ UNCHANGED track

createArtworkUploadUrl(u, t) ==
    /\ track[t] # None /\ ~track[t].deleted
    /\ NewIntent(u, t, "TRACK_ARTWORK")
    /\ UNCHANGED track

deleteTrack(t) ==
    /\ track[t] # None
    /\ track' = [track EXCEPT ![t].deleted = TRUE]
    /\ UNCHANGED <<intent, content, stored, request, media, job, faults>>

\* The client sends the file to the presigned url, once, before it says so.
Put(u, file) ==
    /\ intent[u] # None /\ content[u] = None
    /\ \A r \in Requests : request[r] # None => request[r].upload # u
    /\ content' = [content EXCEPT ![u] = file]
    /\ stored' = stored \cup {u}
    /\ UNCHANGED <<track, intent, request, media, job, faults>>

Expire(u) ==
    /\ intent[u] # None /\ intent[u].status = "PENDING" /\ ~intent[u].expired
    /\ intent' = [intent EXCEPT ![u].expired = TRUE]
    /\ UNCHANGED <<track, content, stored, request, media, job, faults>>

\* A deletion by an admin or of the whole account.
Vanish(u) ==
    /\ u \in stored /\ Fault
    /\ stored' = stored \ {u}
    /\ UNCHANGED <<track, intent, content, request, media, job>>

-----------------------------------------------------------------------------
(* completeUpload and completeArtworkUpload *)

GoTo(r, step) == request' = [request EXCEPT ![r].step = step]
At(r, step)   == request[r] # None /\ request[r].step = step
Of(r)         == intent[request[r].upload]
Audio(r)      == Of(r).type = "TRACK_AUDIO"

\* The intent is read, then the track; only artwork minds a deleted one.
Check(r, u) ==
    /\ request[r] = None
    /\ intent[u] # None /\ intent[u].status = "PENDING" /\ ~intent[u].expired
    /\ intent[u].type = "TRACK_ARTWORK" => ~track[intent[u].track].deleted
    /\ request' = [request EXCEPT ![r] = [step |-> "head", upload |-> u, number |-> 0]]
    /\ UNCHANGED <<track, intent, content, stored, media, job, faults>>

\* headObject; an object that is too large is deleted at once, if that works.
Head(r) ==
    /\ At(r, "head")
    /\ LET u == request[r].upload IN
       \/ /\ u \in stored /\ content[u] # "huge"
          /\ GoTo(r, IF Audio(r) THEN "current" ELSE "create")
          /\ UNCHANGED <<stored, faults>>
       \/ /\ u \notin stored /\ GoTo(r, "refuse")
          /\ UNCHANGED <<stored, faults>>
       \/ /\ u \in stored /\ content[u] = "huge" /\ GoTo(r, "too large")
          /\ \/ stored' = stored \ {u} /\ UNCHANGED faults
             \/ Fault /\ UNCHANGED stored
    /\ UNCHANGED <<track, intent, content, media, job>>

\* An artwork that is not there fails its intent only.
Refuse(r) ==
    /\ At(r, "refuse") \/ At(r, "too large")
    /\ intent' = [intent EXCEPT ![request[r].upload].status = "FAILED"]
    /\ GoTo(r, IF Audio(r) \/ At(r, "too large") THEN "fail track" ELSE "done")
    /\ UNCHANGED <<track, content, stored, media, job, faults>>

FailTrack(r) ==
    /\ At(r, "fail track")
    /\ track' = [track EXCEPT ![Of(r).track].state = "FAILED"]
    /\ GoTo(r, "done")
    /\ UNCHANGED <<intent, content, stored, media, job, faults>>

\* The number after that of the current version; there is at most one.
FindCurrent(r) ==
    /\ At(r, "current")
    /\ LET current == Currents(Of(r).track)
       IN  \E number \in IF current = {} THEN {1} ELSE {media[c].number + 1 : c \in current} :
              request' = [request EXCEPT ![r].step = "create", ![r].number = number]
    /\ UNCHANGED <<track, intent, content, stored, media, job, faults>>

\* unique_current_media_version_per_track, when one of rs is to be the current one.
Conflict(t, rs) == Currents(t) \ rs # {}

\* The first version is current at once; a conflict throws.  The row of an
\* artwork is not followed here.
Create(r) ==
    /\ At(r, "create")
    /\ LET first == request[r].number = 1
           refused == Audio(r) /\ first /\ Conflict(Of(r).track, {r})
       IN  /\ GoTo(r, IF refused THEN "done" ELSE "mark intent")
           /\ media' = IF refused \/ ~Audio(r) THEN media ELSE
                 [media EXCEPT ![r] = [upload |-> request[r].upload, number |-> request[r].number,
                                       current |-> first, state |-> "UPLOADING"]]
    /\ UNCHANGED <<track, intent, content, stored, job, faults>>

MarkIntent(r) ==
    /\ At(r, "mark intent")
    /\ intent' = [intent EXCEPT ![request[r].upload].status = "PROCESSING"]
    /\ GoTo(r, IF ~Audio(r) THEN "done"
               ELSE IF request[r].number = 1 THEN "mark version" ELSE "enqueue")
    /\ UNCHANGED <<track, content, stored, media, job, faults>>

MarkVersion(r) ==
    /\ At(r, "mark version")
    /\ media' = [media EXCEPT ![r].state = "PROCESSING"]
    /\ GoTo(r, "mark track")
    /\ UNCHANGED <<track, intent, content, stored, job, faults>>

MarkTrack(r) ==
    /\ At(r, "mark track")
    /\ track' = [track EXCEPT ![Of(r).track].state = "PROCESSING"]
    /\ GoTo(r, "enqueue")
    /\ UNCHANGED <<intent, content, stored, media, job, faults>>

Enqueue(r) ==
    /\ At(r, "enqueue")
    /\ job' = [job EXCEPT ![r].step = "waiting"]
    /\ GoTo(r, "done")
    /\ UNCHANGED <<track, intent, content, stored, media, faults>>

\* The process ends, or a statement fails, between two of its steps.
Die(r) ==
    /\ request[r] # None /\ request[r].step # "done" /\ Fault
    /\ GoTo(r, "done")
    /\ UNCHANGED <<track, intent, content, stored, media, job>>

-----------------------------------------------------------------------------
(* The worker: AudioMetadataProcessor *)

JobAt(r, step) == job[r].step = step
JobTo(r, step) == job' = [job EXCEPT ![r].step = step, ![r].other = None]

\* The object is read and parsed.
Fetch(r) ==
    /\ JobAt(r, "waiting")
    /\ LET u == media[r].upload
           readable == u \in stored /\ content[u] \in {"fine", "silent"}
       IN  \/ JobTo(r, IF readable THEN "parsed" ELSE "broken") /\ UNCHANGED faults
           \/ JobTo(r, "broken") /\ Fault
    /\ UNCHANGED <<track, intent, content, stored, request, media>>

\* The transaction's read: the track's other current version.
FindOther(r) ==
    /\ JobAt(r, "parsed")
    /\ LET others == Currents(TrackOf(r)) \ {r}
       IN  \E other \in IF others = {} THEN {None} ELSE others :
              job' = [job EXCEPT ![r].step = "found", ![r].other = other]
    /\ UNCHANGED <<track, intent, content, stored, request, media, faults>>

Outcome(r) == IF content[media[r].upload] = "fine" THEN "READY" ELSE "FAILED"

\* The media rows with one version processed and another one demoted.
Processed(r, other) ==
    [s \in Requests |->
        IF s = r
        THEN [media[r] EXCEPT !.state = Outcome(r), !.current = Outcome(r) = "READY"]
        ELSE IF s = other THEN [media[s] EXCEPT !.current = FALSE]
        ELSE media[s]]

\* Mutant: the state of the track is written only when the version is READY.
MutCommit(r) ==
    /\ JobAt(r, "found")
    /\ IF Outcome(r) = "READY" /\ Conflict(TrackOf(r), {r, job[r].other})
       THEN JobTo(r, "broken") /\ UNCHANGED <<track, media>>
       ELSE /\ media' = Processed(r, job[r].other)
            /\ track' = IF Outcome(r) # "READY" THEN track
                        ELSE [track EXCEPT ![TrackOf(r)].state = "READY"]
            /\ JobTo(r, "handled")
    /\ UNCHANGED <<intent, content, stored, request, faults>>

\* The transaction's writes.  Another job may have made its version current
\* since the read; the index then makes this one fail.
Commit(r) ==
    /\ JobAt(r, "found")
    /\ IF Outcome(r) = "READY" /\ Conflict(TrackOf(r), {r, job[r].other})
       THEN JobTo(r, "broken") /\ UNCHANGED <<track, media>>
       ELSE /\ media' = Processed(r, job[r].other)
            /\ track' = [track EXCEPT ![TrackOf(r)].state = Outcome(r)]
            /\ JobTo(r, "handled")
    /\ UNCHANGED <<intent, content, stored, request, faults>>

\* Mutant: the error is thrown to BullMQ, and the job is dropped with it.
MutCatch(r) ==
    /\ JobAt(r, "broken") /\ JobTo(r, "ended")
    /\ UNCHANGED <<track, intent, content, stored, request, media, faults>>

\* The catch clause: the error is written down and not thrown again.
Catch(r) ==
    /\ JobAt(r, "broken")
    /\ media' = [media EXCEPT ![r].state = "FAILED"]
    /\ track' = IF \E s \in Versions \ {r} : TrackOf(s) = TrackOf(r) THEN track
                ELSE [track EXCEPT ![TrackOf(r)].state = "FAILED"]
    /\ JobTo(r, "handled")
    /\ UNCHANGED <<intent, content, stored, request, faults>>

Ack(r) ==
    /\ JobAt(r, "handled") /\ JobTo(r, "ended")
    /\ UNCHANGED <<track, intent, content, stored, request, media, faults>>

\* The catch clause's transaction fails: what is thrown is not caught.
CatchFails(r) ==
    /\ JobAt(r, "broken") /\ Fault
    /\ IF job[r].attempt < Attempts
       THEN job' = [job EXCEPT ![r].step = "waiting", ![r].other = None, ![r].attempt = @ + 1]
       ELSE JobTo(r, "failed")
    /\ UNCHANGED <<track, intent, content, stored, request, media>>

\* The worker stops in a job, even after its writes.  BullMQ runs it once more;
\* at the second time it gives the job up.
Stall(r) ==
    /\ job[r].step \in {"parsed", "found", "broken", "handled"} /\ Fault
    /\ IF job[r].stalled
       THEN JobTo(r, "failed")
       ELSE job' = [job EXCEPT ![r].step = "waiting", ![r].other = None, ![r].stalled = TRUE]
    /\ UNCHANGED <<track, intent, content, stored, request, media>>

-----------------------------------------------------------------------------
(* The specification *)

Library ==
    \/ \E u \in Uploads, t \in Tracks :
          createUploadUrl(u, t) \/ createReplaceAudioUrl(u, t) \/ createArtworkUploadUrl(u, t)
    \/ \E t \in Tracks : deleteTrack(t)
    \/ \E u \in Uploads : Expire(u) \/ Vanish(u) \/ \E file \in Contents : Put(u, file)

Complete(r) ==
    \/ \E u \in Uploads : Check(r, u)
    \/ Head(r) \/ Refuse(r) \/ FailTrack(r) \/ FindCurrent(r) \/ Create(r)
    \/ MarkIntent(r) \/ MarkVersion(r) \/ MarkTrack(r) \/ Enqueue(r)

Process(r) == Fetch(r) \/ FindOther(r) \/ Commit(r) \/ Catch(r) \/ Ack(r)

Next ==
    \/ Library
    \/ \E r \in Requests : Complete(r) \/ Die(r) \/ Process(r) \/ CatchFails(r) \/ Stall(r)

\* BullMQ goes on with the jobs it has; nothing else is certain to happen.
Spec == Init /\ [][Next]_vars /\ \A r \in Requests : WF_vars(Process(r))

-----------------------------------------------------------------------------
(* Properties *)

TypeOK ==
    /\ track \in [Tracks -> Track \cup {None}]
    /\ intent \in [Uploads -> Intent \cup {None}]
    /\ content \in [Uploads -> Contents \cup {None}]
    /\ stored \in SUBSET Uploads
    /\ request \in [Requests -> Request \cup {None}]
    /\ media \in [Requests -> Version \cup {None}]
    /\ job \in [Requests -> Job]
    /\ faults \in 0..MaxFaults

\* A version that was handed to the worker does not stay in processing, unless
\* BullMQ gives its job up: after a second stall, or after the last attempt to
\* write down what went wrong.
VersionSettles ==
    \A r \in Requests :
        JobAt(r, "waiting") ~> \/ media[r] # None /\ media[r].state \in {"READY", "FAILED"}
                              \/ JobAt(r, "failed")

\* A track that is READY, and may be submitted, has a current version that is READY
\* and can be played, in whatever order its versions' jobs run and whichever of
\* them fail.  The exception is a job that made its version current, stalled,
\* and failed when it was run again.
ReadyTrackHasCurrent ==
    \A t \in Tracks : track[t] # None /\ track[t].state = "READY" =>
        \E r \in Currents(t) : \/ media[r].state = "READY"
                               \/ media[r].state = "FAILED" /\ job[r].stalled

=============================================================================
