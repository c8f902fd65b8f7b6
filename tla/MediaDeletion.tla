--------------------------- MODULE MediaDeletion ---------------------------
(***************************************************************************)
(* The objects of one user's uploads and the rows that name them: how      *)
(* uploads and the worker bring them about, and how the admins, a ban or   *)
(* the deletion of the account take them away again.                       *)
(*                                                                         *)
(* Storage has no transactions, and any call to it may fail.  A deletion   *)
(* reads the rows, deletes their objects and then marks the rows, while    *)
(* uploads go on and other deletions do the same.  Media is about the      *)
(* versions and the track; here a row is only what it names and its state. *)
(***************************************************************************)
EXTENDS Integers, FiniteSets

CONSTANTS
    Recordings,        \* uploads of audio
    Artwork,      \* uploads of artwork
    Tracks,
    UploadTrack,      \* the track of each upload
    Rows,         \* rows of track_media_versions and track_artworks
    Purges,       \* deletion jobs
    None,
    Attempts,     \* how often BullMQ runs a job
    ChunkSize,    \* the keys processDeleteUserMedia deletes at a time
    MaxFaults     \* bound on the failures of storage and of the worker

Uploads == Recordings \cup Artwork

UploadsAssumption ==
    /\ Recordings \cap Artwork = {} /\ UploadTrack \in [Uploads -> Tracks] /\ None \notin Uploads
JobsAssumption ==
    /\ Attempts \in Nat \ {0} /\ ChunkSize \in Nat \ {0} /\ MaxFaults \in Nat

VARIABLES
    stored,    \* the keys that are in storage
    put,       \* the uploads whose file was sent
    row,       \* storageStatus and object keys of each row
    render,    \* completeUpload's request for a row and ArtworkProcessor's job
    purge,     \* the deletion jobs
    admin,     \* deleteMediaWithSafeguards: what it has read
    faults     \* the failures so far

vars == <<stored, put, row, render, purge, admin, faults>>

-----------------------------------------------------------------------------
(* Rows and jobs *)

StorageStatus == {"AVAILABLE", "DELETION_PENDING", "DELETED"}
Parts         == {"original", "thumbnail", "master"}
Keys          == Uploads \X Parts
Original(u)   == <<u, "original">>

Row == [upload : Uploads, storage : StorageStatus, rendered : BOOLEAN]
RowAssumption == None \notin Row   \* NULL is no row

RenderSteps ==
    {"none", "head", "waiting", "thumbnail", "master", "broken", "handled", "ended"}
Render == [step : RenderSteps, upload : Uploads \cup {None}, tries : Nat]

Purge ==
    [type : {"objects", "user"},
     step : {"waiting", "collected", "deleting", "deleted", "ended", "dead"},
     keys : SUBSET Keys,        \* of the job
     todo : SUBSET Keys,        \* still to delete
     chunk : SUBSET Keys,       \* tried last
     failed : SUBSET Keys,      \* of those
     tries : Nat, stalled : BOOLEAN]
Ended ==
    [type |-> "user", step |-> "ended", keys |-> {}, todo |-> {}, chunk |-> {},
     failed |-> {}, tries |-> 0, stalled |-> FALSE]

Existing        == {r \in Rows : row[r] # None}
InState(status) == {r \in Existing : row[r].storage = status}
Versions        == {r \in Existing : row[r].upload \in Recordings}
Artworks        == {r \in Existing : row[r].upload \in Artwork}

\* The keys a row names: an artwork has those of its derivatives once rendered.
KeysOf(r) == {row[r].upload} \X (IF row[r].rendered THEN Parts ELSE {"original"})
KeysOfRows(rs) == UNION {KeysOf(r) : r \in rs}
RowsWith(keys) == {r \in Existing : KeysOf(r) \cap keys # {}}

SetStorage(rs, status) ==
    row' = [r \in Rows |-> IF r \in rs THEN [row[r] EXCEPT !.storage = status] ELSE row[r]]

Fault == faults < MaxFaults /\ faults' = faults + 1

Init ==
    /\ stored = {}
    /\ put = {}
    /\ row = [r \in Rows |-> None]
    /\ render = [r \in Rows |-> [step |-> "none", upload |-> None, tries |-> 0]]
    /\ purge = [p \in Purges |-> None]
    /\ admin = None
    /\ faults = 0

-----------------------------------------------------------------------------
(* Uploads *)

\* The client sends the file, once, to the url of a key that no one else has.
Put(u) ==
    /\ u \notin put
    /\ put' = put \cup {u}
    /\ stored' = stored \cup {Original(u)}
    /\ UNCHANGED <<row, render, purge, admin, faults>>

\* A request to complete the upload sees the object,
Head(r, u) ==
    /\ render[r].step = "none" /\ Original(u) \in stored
    /\ render' = [render EXCEPT ![r].step = "head", ![r].upload = u]
    /\ UNCHANGED <<stored, put, row, purge, admin, faults>>

\* and inserts the row.  Recordings is read by its job and never written.
Create(r) ==
    /\ render[r].step = "head"
    /\ row' = [row EXCEPT ![r] = [upload |-> render[r].upload, storage |-> "AVAILABLE",
                                  rendered |-> FALSE]]
    /\ render' = [render EXCEPT ![r].step =
                     IF render[r].upload \in Artwork THEN "waiting" ELSE "ended"]
    /\ UNCHANGED <<stored, put, purge, admin, faults>>

-----------------------------------------------------------------------------
(* ArtworkProcessor *)

RenderTo(r, step) == render' = [render EXCEPT ![r].step = step]

PutPart(r, from, part) ==
    /\ render[r].step = from
    /\ from = "waiting" => Original(row[r].upload) \in stored
    /\ stored' = stored \cup {<<row[r].upload, part>>}
    /\ RenderTo(r, part)
    /\ UNCHANGED <<put, row, purge, admin, faults>>

\* The derivatives are sent one after the other, then named in the row.
NameParts(r) ==
    /\ render[r].step = "master"
    /\ row' = [row EXCEPT ![r].rendered = TRUE]
    /\ RenderTo(r, "ended")
    /\ UNCHANGED <<stored, put, purge, admin, faults>>

\* The original is gone, or a call fails.
RenderFails(r) ==
    /\ render[r].step \in {"waiting", "thumbnail", "master"}
    /\ \/ render[r].step = "waiting" /\ Original(row[r].upload) \notin stored /\ UNCHANGED faults
       \/ Fault
    /\ RenderTo(r, "broken")
    /\ UNCHANGED <<stored, put, row, purge, admin>>

Retry(r) ==
    /\ render[r].step = "broken"
    /\ render' = [render EXCEPT ![r].tries = @ + 1,
                      ![r].step = IF render[r].tries + 1 < Attempts THEN "waiting" ELSE "ended"]
    /\ UNCHANGED <<stored, put, row, purge, admin, faults>>

-----------------------------------------------------------------------------
(* AdminTracksService *)

NewPurge(p, type, keys, step) ==
    /\ purge[p] = None
    /\ purge' = [purge EXCEPT ![p] =
          [type |-> type, step |-> step, keys |-> keys, todo |-> keys, chunk |-> {},
           failed |-> {}, tries |-> 0, stalled |-> FALSE]]

\* The track, its rows and its queue entries are read; an active entry refuses.
AdminRead(t) ==
    /\ admin = None
    /\ LET rows == {r \in InState("AVAILABLE") : UploadTrack[row[r].upload] = t}
       IN  admin' = [rows |-> rows, keys |-> KeysOfRows(rows), step |-> "read"]
    /\ UNCHANGED <<stored, put, row, render, purge, faults>>

AdminDelete ==
    /\ admin # None /\ admin.step = "read"
    /\ SetStorage(admin.rows, "DELETION_PENDING")
    /\ admin' = [admin EXCEPT !.step = "committed"]
    /\ UNCHANGED <<stored, put, render, purge, faults>>

\* With purgeS3 the keys go to a job; without it, or after a crash, they do not.
AdminPurge ==
    /\ admin # None /\ admin.step = "committed"
    /\ admin' = None
    /\ \/ admin.keys # {} /\ \E p \in Purges : NewPurge(p, "objects", admin.keys, "deleting")
       \/ UNCHANGED purge
    /\ UNCHANGED <<stored, put, row, render, faults>>

purgeStorageCandidates(p) ==
    /\ Versions \cap InState("DELETION_PENDING") # {}
    /\ NewPurge(p, "objects", KeysOfRows(Versions \cap InState("DELETION_PENDING")), "deleting")
    /\ UNCHANGED <<stored, put, row, render, admin, faults>>

deleteArtwork(r) ==
    /\ r \in Artworks
    /\ SetStorage({r}, "DELETION_PENDING")
    /\ UNCHANGED <<stored, put, render, purge, admin, faults>>

deleteMediaObject(p, key) ==
    /\ key \in stored
    /\ NewPurge(p, "objects", {key}, "deleting")
    /\ UNCHANGED <<stored, put, row, render, admin, faults>>

\* By an admin, or after a ban or the deletion of the account.
deleteUserMedia(p) ==
    /\ NewPurge(p, "user", {}, "waiting")
    /\ UNCHANGED <<stored, put, row, render, admin, faults>>

-----------------------------------------------------------------------------
(* MediaDeletionProcessor *)

PurgeAt(p, step) == purge[p] # None /\ purge[p].step = step

\* processDeleteUserMedia reads the rows that are not deleted,
Collect(p) ==
    /\ PurgeAt(p, "waiting")
    /\ purge' = [purge EXCEPT ![p].step = "collected",
                              ![p].todo = KeysOfRows(Existing \ InState("DELETED"))]
    /\ UNCHANGED <<stored, put, row, render, admin, faults>>

\* marks what there is by now,
MarkPending(p) ==
    /\ PurgeAt(p, "collected")
    /\ SetStorage(Existing \ InState("DELETED"), "DELETION_PENDING")
    /\ purge' = [purge EXCEPT ![p] =
          IF purge[p].todo = {} THEN Ended ELSE [purge[p] EXCEPT !.step = "deleting"]]
    /\ UNCHANGED <<stored, put, render, admin, faults>>

\* and deletes the objects in chunks; processDeleteMediaObjects has one chunk.
Chunks(p) ==
    {c \in SUBSET purge[p].todo :
        \/ c = purge[p].todo /\ (purge[p].type = "objects" \/ Cardinality(c) <= ChunkSize)
        \/ purge[p].type = "user" /\ Cardinality(c) = ChunkSize}

DeleteObjects(p) ==
    /\ PurgeAt(p, "deleting")
    /\ \E chunk \in Chunks(p) : \E failed \in SUBSET chunk :
          /\ faults + Cardinality(failed) <= MaxFaults
          /\ faults' = faults + Cardinality(failed)
          /\ stored' = stored \ (chunk \ failed)
          /\ purge' = [purge EXCEPT ![p].step = "deleted",
                                    ![p].chunk = chunk, ![p].failed = failed]
    /\ UNCHANGED <<put, row, render, admin>>

\* A retry has the same keys, or reads the rows again.
Again(p) ==
    [purge[p] EXCEPT !.todo = purge[p].keys, !.chunk = {}, !.failed = {},
                     !.step = IF purge[p].type = "objects" THEN "deleting" ELSE "waiting"]

\* Mutants: the failed keys count as deleted; a failed chunk is not reported.
MutSucceeded(p) == purge[p].chunk
MutAfterChunk(p) ==
    LET left == purge[p].todo \ purge[p].chunk
    IN  IF left = {} THEN Ended
        ELSE [purge[p] EXCEPT !.todo = left, !.chunk = {}, !.failed = {}, !.step = "deleting"]

Succeeded(p) == purge[p].chunk \ purge[p].failed

AfterChunk(p) ==
    LET left == purge[p].todo \ purge[p].chunk
    IN  CASE purge[p].failed # {} ->
               IF purge[p].tries + 1 < Attempts
               THEN [Again(p) EXCEPT !.tries = @ + 1]
               ELSE [Ended EXCEPT !.step = "dead"]
          [] purge[p].failed = {} /\ left = {} -> Ended
          [] OTHER -> [purge[p] EXCEPT !.todo = left, !.chunk = {}, !.step = "deleting"]

\* A row one of whose objects was deleted counts as deleted.  A failure is
\* thrown only then, and BullMQ runs the job again.
RecordDeleted(p) ==
    /\ PurgeAt(p, "deleted")
    /\ SetStorage(RowsWith(Succeeded(p)), "DELETED")
    /\ purge' = [purge EXCEPT ![p] = AfterChunk(p)]
    /\ UNCHANGED <<stored, put, render, admin, faults>>

\* The worker stops, and BullMQ runs the job once more.
Stall(p) ==
    /\ purge[p] # None /\ purge[p].step \in {"collected", "deleting", "deleted"}
    /\ ~purge[p].stalled /\ Fault
    /\ purge' = [purge EXCEPT ![p] = [Again(p) EXCEPT !.stalled = TRUE]]
    /\ UNCHANGED <<stored, put, row, render, admin>>

-----------------------------------------------------------------------------
(* The specification *)

Upload ==
    \/ \E u \in Uploads : Put(u)
    \/ \E r \in Rows : Create(r) \/ \E u \in Uploads : Head(r, u)

Process(r) ==
    \/ PutPart(r, "waiting", "thumbnail") \/ PutPart(r, "thumbnail", "master")
    \/ NameParts(r) \/ RenderFails(r) \/ Retry(r)

Moderate ==
    \/ \E t \in Tracks : AdminRead(t)
    \/ AdminDelete \/ AdminPurge
    \/ \E r \in Rows : deleteArtwork(r)
    \/ \E p \in Purges : \/ purgeStorageCandidates(p) \/ deleteUserMedia(p)
                         \/ \E key \in Keys : deleteMediaObject(p, key)

Delete(p) == Collect(p) \/ MarkPending(p) \/ DeleteObjects(p) \/ RecordDeleted(p)

Next ==
    \/ Upload \/ Moderate
    \/ \E r \in Rows : Process(r)
    \/ \E p \in Purges : Delete(p) \/ Stall(p)

\* BullMQ goes on with the deletions it has; nothing else is certain to happen.
Spec == Init /\ [][Next]_vars /\ \A p \in Purges : WF_vars(Delete(p))

-----------------------------------------------------------------------------
(* Properties *)

TypeOK ==
    /\ stored \in SUBSET Keys
    /\ put \in SUBSET Uploads
    /\ row \in [Rows -> Row \cup {None}]
    /\ render \in [Rows -> Render]
    /\ purge \in [Purges -> Purge \cup {None}]
    /\ admin \in [rows : SUBSET Rows, keys : SUBSET Keys, step : {"read", "committed"}]
                 \cup {None}
    /\ faults \in 0..MaxFaults

\* A version whose row says DELETED has no audio left in storage, though
\* deletions fail halfway, are run again and overtake uploads and each other.
DeletedAudioIsGone ==
    \A r \in Versions : row[r].storage = "DELETED" => Original(row[r].upload) \notin stored

\* The deletion of a user's media, once in the queue, removes the audio of
\* every version there is by then, as long as fewer than Attempts calls fail.
UserMediaGone ==
    \A p \in Purges, r \in Rows :
        PurgeAt(p, "waiting") /\ r \in Versions
            ~> r \in Versions /\ Original(row[r].upload) \notin stored

=============================================================================
