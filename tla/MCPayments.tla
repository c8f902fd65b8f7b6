----------------------------- MODULE MCPayments -----------------------------
(***************************************************************************)
(* An instance of Payments and one of Media for TLC: what is delivered at  *)
(* least once, Stripe's events and the worker's jobs, has its effect in    *)
(* the end.  The two share no variable, so a run explores one or the other *)
(* and not the product: `part' says which.  Each action of both is a       *)
(* disjunct of its own here, so that TLC reports how often it was taken.   *)
(***************************************************************************)
EXTENDS Payments

CONSTANTS Tracks, Uploads, Requests, Attempts, MaxFaults
VARIABLES part, track, intent, content, stored, request, media, job, faults

V == INSTANCE Media

ASSUME VersionAssumption == V!RowsAssumption /\ V!FaultsAssumption /\ V!RecordAssumption

uploads == <<track, intent, content, stored, request, media, job, faults>>

\* The other part, and the choice, stay as they are.
Paying     == part = "payment" /\ UNCHANGED <<part, uploads>>
Processing == part = "uploads" /\ UNCHANGED <<part, vars>>

PartsInit == Init /\ V!Init /\ part \in {"payment", "uploads"}

\* The upload is the first of its track; MCSubmissions has two and more.
PartsNext ==
    \/ Paying /\ AttemptFails
    \/ Paying /\ ChargeSucceeds
    \/ \E r \in RefundIds, cents \in RefundAmounts : Paying /\ IssueRefund(r, cents)
    \/ \E r \in RefundIds : Paying /\ RefundSucceeds(r)
    \/ Paying /\ Deliver
    \/ \E d \in Workers :
         \/ Paying /\ Handle(d)
         \/ Paying /\ Crash(d)
    \/ Paying /\ OpenDispute
    \/ \E outcome \in {"won", "lost"} : Paying /\ CloseDispute(outcome)
    \/ \E u \in Uploads, t \in Tracks : Processing /\ V!createUploadUrl(u, t)
    \/ \E t \in Tracks : Processing /\ V!deleteTrack(t)
    \/ \E u \in Uploads :
         \/ Processing /\ V!Expire(u)
         \/ Processing /\ V!Vanish(u)
         \/ \E file \in V!Contents : Processing /\ V!Put(u, file)
         \/ \E r \in Requests : Processing /\ V!Check(r, u)
    \/ \E r \in Requests :
         \/ Processing /\ V!Head(r)
         \/ Processing /\ V!Refuse(r)
         \/ Processing /\ V!FailTrack(r)
         \/ Processing /\ V!FindCurrent(r)
         \/ Processing /\ V!Create(r)
         \/ Processing /\ V!MarkIntent(r)
         \/ Processing /\ V!MarkVersion(r)
         \/ Processing /\ V!MarkTrack(r)
         \/ Processing /\ V!Enqueue(r)
         \/ Processing /\ V!Die(r)
         \/ Processing /\ V!Fetch(r)
         \/ Processing /\ V!FindOther(r)
         \/ Processing /\ V!Commit(r)
         \/ Processing /\ V!Catch(r)
         \/ Processing /\ V!Ack(r)
         \/ Processing /\ V!CatchFails(r)
         \/ Processing /\ V!Stall(r)

PartsSpec ==
    /\ PartsInit /\ [][PartsNext]_<<part, vars, uploads>>
    /\ WF_vars(part = "payment" /\ Deliver)
    /\ \A d \in Workers : WF_vars(part = "payment" /\ Handle(d))
    /\ \A r \in Requests : WF_uploads(part = "uploads" /\ V!Process(r))

\* A bound on what Stripe sends: four of the five kinds of event.
FewEvents == Cardinality(events) <= 4

\* The liveness of Media's jobs.
VersionSettles == V!VersionSettles

=============================================================================
