----------------------------- MODULE MCAccounts -----------------------------
(***************************************************************************)
(* An instance of Accounts and one of MediaDeletion for TLC: what ends an  *)
(* account, and what happens to its media then.  The two share no          *)
(* variable, so the run explores one or the other and not the product:     *)
(* `part' says which.  Each action of both is a disjunct of its own here,  *)
(* so that TLC reports how often it was taken.                             *)
(***************************************************************************)
EXTENDS Accounts

CONSTANTS Recordings, Artwork, Tracks, UploadTrack, Rows, Purges, Attempts, ChunkSize, MaxFailures, t1
VARIABLES part, stored, put, row, render, purge, admin, failures

D == INSTANCE MediaDeletion WITH MaxFaults <- MaxFailures, faults <- failures

\* In the run, all uploads are of one track.
OneTrack == [u \in Recordings \cup Artwork |-> t1]

mediaVars == <<stored, put, row, render, purge, admin, failures>>

ASSUME UploadsAssumption == D!UploadsAssumption
ASSUME JobsAssumption    == D!JobsAssumption
ASSUME MediaAssumption   == D!RowAssumption

\* The other part, and the choice, stay as they are.
SigningIn == part = "account" /\ UNCHANGED <<part, mediaVars>>
Deleting  == part = "deletions" /\ UNCHANGED <<part, vars>>

PartsInit == Init /\ D!Init /\ part \in {"account", "deletions"}

PartsNext ==
    \/ \E r \in Requests :
         \/ SigningIn /\ RefuseRegister(r)
         \/ SigningIn /\ Clear(r)
         \/ SigningIn /\ Count(r)
         \/ SigningIn /\ Expire(r)
         \/ SigningIn /\ SetLock(r)
         \/ SigningIn /\ createSessionCookie(r)
         \/ SigningIn /\ CommitVerify(r)
         \/ SigningIn /\ CommitReset(r)
         \/ SigningIn /\ RevokeAll(r)
         \/ SigningIn /\ CommitChange(r)
         \/ SigningIn /\ RedisFails(r)
         \/ SigningIn /\ Crash(r)
         \/ \E p \in Passwords :
              \/ SigningIn /\ register(r, p)
              \/ SigningIn /\ login(r, p)
              \/ SigningIn /\ loginByAnotherName(r, p)
              \/ \E t \in Tokens : SigningIn /\ confirmPasswordReset(r, t, p)
              \/ \E s \in Sessions : SigningIn /\ changePassword(r, s, p)
         \/ \E t \in Tokens : SigningIn /\ verifyEmail(r, t)
    \/ \E t \in Tokens :
         \/ SigningIn /\ requestPasswordReset(t)
         \/ \E s \in Sessions : SigningIn /\ resendEmailVerification(s, t)
    \/ \E s \in Sessions :
         \/ SigningIn /\ logout(s)
         \/ SigningIn /\ logoutAll(s)
         \/ \E x \in Sessions : SigningIn /\ revokeSession(s, x)
    \/ SigningIn /\ suspendUser
    \/ SigningIn /\ unsuspendUser
    \/ SigningIn /\ banUser
    \/ SigningIn /\ deleteUser
    \/ SigningIn /\ revokeUserSessions
    \/ SigningIn /\ createInvitation
    \/ \E p \in Passwords : SigningIn /\ acceptInvitation(p)
    \/ SigningIn /\ Lapse
    \/ SigningIn /\ Tick
    \/ \E u \in D!Uploads :
         \/ Deleting /\ D!Put(u)
         \/ \E r \in Rows : Deleting /\ D!Head(r, u)
    \/ \E r \in Rows :
         \/ Deleting /\ D!Create(r)
         \/ Deleting /\ D!PutPart(r, "waiting", "thumbnail")
         \/ Deleting /\ D!PutPart(r, "thumbnail", "master")
         \/ Deleting /\ D!NameParts(r)
         \/ Deleting /\ D!RenderFails(r)
         \/ Deleting /\ D!Retry(r)
         \/ Deleting /\ D!deleteArtwork(r)
    \/ \E t \in Tracks : Deleting /\ D!AdminRead(t)
    \/ Deleting /\ D!AdminDelete
    \/ Deleting /\ D!AdminPurge
    \/ \E p \in Purges :
         \/ Deleting /\ D!purgeStorageCandidates(p)
         \/ Deleting /\ D!deleteUserMedia(p)
         \/ \E key \in D!Keys : Deleting /\ D!deleteMediaObject(p, key)
         \/ Deleting /\ D!Collect(p)
         \/ Deleting /\ D!MarkPending(p)
         \/ Deleting /\ D!DeleteObjects(p)
         \/ Deleting /\ D!RecordDeleted(p)
         \/ Deleting /\ D!Stall(p)

PartsSpec ==
    /\ PartsInit /\ [][PartsNext]_<<part, vars, mediaVars>>
    /\ \A p \in Purges : WF_mediaVars(part = "deletions" /\ D!Delete(p))

\* MediaDeletion's properties.
DeletedAudioIsGone == D!DeletedAudioIsGone
UserMediaGone      == D!UserMediaGone

=============================================================================
