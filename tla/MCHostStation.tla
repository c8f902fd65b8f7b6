--------------------------- MODULE MCHostStation ---------------------------
(***************************************************************************)
(* An instance of HostStation and one of StationTiers for TLC.  The two    *)
(* share no variable, so the run explores one or the other and not the     *)
(* product: `part' says which.  Each action of both is a disjunct of its   *)
(* own here, so that TLC reports how often it was taken.                   *)
(***************************************************************************)
EXTENDS HostStation, TLC

CONSTANTS Tabs, Tiers, DefaultTiers, MaxActive
VARIABLES part, tier, edit, raced

T == INSTANCE StationTiers

ASSUME TiersAssumption == T!NoneAssumption /\ T!CapacityAssumption

\* The other part, and the choice, stay as they are.
Application == part = "application" /\ UNCHANGED <<part, tier, edit, raced>>
TierList    == part = "tiers" /\ UNCHANGED <<part, vars>>

PartsInit == Init /\ T!Init /\ part \in {"application", "tiers"}

PartsNext ==
    \/ \E r \in Requests :
         \/ Application /\ Apply(r)
         \/ Application /\ Connect(r)
         \/ Application /\ Sync(r)
         \/ Application /\ Approve(r)
         \/ Application /\ Reject(r)
         \/ Application /\ UpdateSettings(r)
         \/ Application /\ Deliver(r)
         \/ Application /\ CommitApply(r)
         \/ Application /\ ReadSettings(r)
         \/ Application /\ FindPending(r)
         \/ Application /\ CheckApproval(r)
         \/ Application /\ CommitApproval(r)
         \/ Application /\ CommitRejection(r)
         \/ Application /\ ListApplications(r)
         \/ Application /\ CommitConnect(r)
         \/ Application /\ ApplyStripeAccountState(r)
         \/ Application /\ Die(r)
    \/ \E a \in Applications : Application /\ a \in Made /\ SuspendHost(a)
    \/ Application /\ ReinstateHost
    \/ \E k \in Accounts : Application /\ ChangeAtStripe(k)
    \/ \E b \in Tabs :
         \/ TierList /\ T!Check(b)
         \/ TierList /\ T!createTier(b)
         \/ TierList /\ T!updateTier(b)
         \/ TierList /\ T!deleteTier(b)
         \/ TierList /\ T!Drop(b)
         \/ \E on \in BOOLEAN : TierList /\ T!handleFormSubmit(b, on)
         \/ \E t \in Tiers :
              \/ TierList /\ T!handleToggleActive(b, t)
              \/ TierList /\ T!handleDeleteTier(b, t)

PartsSpec == PartsInit /\ [][PartsNext]_<<part, vars, tier, edit, raced>>

\* StationTiers' property.
TierLimit == T!TierLimit

Symmetry == Permutations(Requests) \cup Permutations(Accounts)

=============================================================================
