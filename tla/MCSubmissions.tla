--------------------------- MODULE MCSubmissions ---------------------------
(***************************************************************************)
(* An instance of Submissions and one of Media for TLC: how a track is     *)
(* submitted, and how it was made ready for that.  The two share no        *)
(* variable, so the run explores one or the other and not the product:     *)
(* `part' says which.  Each action of Media is a disjunct of its own here, *)
(* so that TLC reports how often it was taken.                             *)
(***************************************************************************)
EXTENDS Submissions, MCMedia, TLC

VARIABLE part

\* The other part, and the choice, stay as they are.
Submitting == part = "submissions" /\ UNCHANGED <<part, uploads>>
Uploading  == part = "uploads" /\ UNCHANGED <<part, vars>>

PartsInit == Init /\ U!Init /\ part \in {"submissions", "uploads"}

PartsNext ==
    \/ \E r \in Requests :
         \/ Submitting /\ Send(r)
         \/ Submitting /\ Proceed(r)
    \/ \E u \in Uploads, t \in Owned :
         \/ Uploading /\ U!createUploadUrl(u, t)
         \/ Uploading /\ U!createReplaceAudioUrl(u, t)
         \/ Uploading /\ U!createArtworkUploadUrl(u, t)
    \/ \E t \in Owned : Uploading /\ U!deleteTrack(t)
    \/ \E u \in Uploads :
         \/ Uploading /\ U!Expire(u)
         \/ Uploading /\ U!Vanish(u)
         \/ \E file \in U!Contents : Uploading /\ U!Put(u, file)
         \/ \E r \in Completions : Uploading /\ U!Check(r, u)
    \/ \E r \in Completions :
         \/ Uploading /\ U!Head(r)
         \/ Uploading /\ U!Refuse(r)
         \/ Uploading /\ U!FailTrack(r)
         \/ Uploading /\ U!FindCurrent(r)
         \/ Uploading /\ U!Create(r)
         \/ Uploading /\ U!MarkIntent(r)
         \/ Uploading /\ U!MarkVersion(r)
         \/ Uploading /\ U!MarkTrack(r)
         \/ Uploading /\ U!Enqueue(r)
         \/ Uploading /\ U!Die(r)
         \/ Uploading /\ U!Fetch(r)
         \/ Uploading /\ U!FindOther(r)
         \/ Uploading /\ U!Commit(r)
         \/ Uploading /\ U!Catch(r)
         \/ Uploading /\ U!Ack(r)
         \/ Uploading /\ U!CatchFails(r)
         \/ Uploading /\ U!Stall(r)

PartsSpec == PartsInit /\ [][PartsNext]_<<part, vars, uploads>>

\* Sound, as the run checks no liveness.
Symmetry == UNION {Permutations(S) : S \in {Requests, Keys, Uploads, Completions}}

\* A bound on the uploads: with two of them, a second failure only after a job
\* was run again, of two audio files of a track that is not deleted.
Rerun    == \E r \in Completions : job[r].stalled \/ job[r].attempt > 1
Plain(u) == intent[u].type = "TRACK_AUDIO" /\ ~intent[u].expired
FewFailures ==
    \/ faults <= 1
    \/ \E u \in Uploads : intent[u] = Null
    \/ /\ Rerun
       /\ \A u \in Uploads : Plain(u)
       /\ \A t \in Owned : ~track[t].deleted

=============================================================================
