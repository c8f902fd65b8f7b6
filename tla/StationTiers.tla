---------------------------- MODULE StationTiers ----------------------------
(***************************************************************************)
(* The priority tiers of a station, as the host edits them: which are      *)
(* active, which are deleted, and how many may be active at once.  Every   *)
(* edit reads the rows and writes at a later time, without a transaction;  *)
(* the host may have the studio open in several tabs.  Names, prices,      *)
(* ranks, colours and the order on the page are left out.                  *)
(***************************************************************************)
EXTENDS Naturals, FiniteSets

CONSTANTS
    Tabs,          \* edits at one time: each tab has one, until it is answered
    Tiers,         \* the rows there may be
    DefaultTiers,  \* those an approval creates
    None,
    MaxActive      \* MAX_ACTIVE_PRIORITY_TIERS

NoneAssumption     == None \notin Tiers
CapacityAssumption == /\ MaxActive \in Nat /\ DefaultTiers \subseteq Tiers
                      /\ IsFiniteSet(Tiers) /\ Cardinality(DefaultTiers) <= MaxActive

VARIABLES
    tier,   \* the priority_tiers rows
    edit,   \* each tab's request
    raced   \* history: an edit made a tier active that had not seen another's write

vars == <<tier, edit, raced>>

Rows == {"NONE", "ACTIVE", "INACTIVE", "DELETED"}

Edit == [op : {"idle", "create", "update", "delete"},
         checked : BOOLEAN,          \* the reads are done
         target : Tiers \cup {None},
         isActive : BOOLEAN,         \* what the form or the switch sends
         seen : SUBSET Tiers]        \* history: the tiers active at the reads

Idle == [op |-> "idle", checked |-> FALSE, target |-> None, isActive |-> FALSE, seen |-> {}]

TypeOK ==
    /\ tier \in [Tiers -> Rows]
    /\ edit \in [Tabs -> Edit]
    /\ raced \in BOOLEAN

Init ==
    /\ tier = [t \in Tiers |-> IF t \in DefaultTiers THEN "ACTIVE" ELSE "NONE"]
    /\ edit = [b \in Tabs |-> Idle]
    /\ raced = FALSE

Active == {t \in Tiers : tier[t] = "ACTIVE"}
Made   == {t \in Tiers : tier[t] # "NONE"}

Ask(b, op, t, on) ==
    /\ edit[b].op = "idle"
    /\ edit' = [edit EXCEPT ![b] = [Idle EXCEPT !.op = op, !.target = t, !.isActive = on]]
    /\ UNCHANGED <<tier, raced>>

\* The manager's form, for a new tier or one of the list; the list may be old.
handleFormSubmit(b, on) ==
    Ask(b, "create", None, on) \/ \E t \in Made : Ask(b, "update", t, on)

\* The switch sends the opposite of what the list shows.
handleToggleActive(b, t) ==
    /\ t \in Made
    /\ \E listed \in BOOLEAN : Ask(b, "update", t, ~listed)

handleDeleteTier(b, t) == t \in Made /\ Ask(b, "delete", t, FALSE)

\* assertActiveTierCapacity
Capacity(excluded) == Cardinality(Active \ {excluded}) < MaxActive

\* Mutant: a tier that exists is always let in.
MutMayWrite(e) == (e.op # "create" => tier[e.target] # "DELETED")
                  /\ (e.op = "create" /\ e.isActive => Capacity(e.target))

\* ownedTier refuses what is deleted; a tier that is not active yet needs a
\* free place, a new one or one switched on.
MayWrite(e) ==
    /\ e.op # "create" => tier[e.target] # "DELETED"
    /\ e.op # "delete" /\ e.isActive /\ ~(e.op = "update" /\ tier[e.target] = "ACTIVE")
         => Capacity(e.target)

Check(b) ==
    /\ edit[b].op # "idle" /\ ~edit[b].checked
    /\ edit' = [edit EXCEPT ![b] = IF MayWrite(@) THEN [@ EXCEPT !.checked = TRUE, !.seen = Active]
                                   ELSE Idle]
    /\ UNCHANGED <<tier, raced>>

\* The row is written whatever it is by now.
Write(b, op, t, status) ==
    /\ edit[b].op = op /\ edit[b].checked
    /\ tier' = [tier EXCEPT ![t] = status]
    /\ edit' = [edit EXCEPT ![b] = Idle]
    /\ raced' = (raced \/ (edit[b].isActive /\ edit[b].seen # Active))

Status(e) == IF e.isActive THEN "ACTIVE" ELSE "INACTIVE"

createTier(b) == \E t \in Tiers \ Made : Write(b, "create", t, Status(edit[b]))

\* Of a row deleted meanwhile only isActive changes.
updateTier(b) ==
    LET t == edit[b].target
    IN  Write(b, "update", t, IF tier[t] = "DELETED" THEN "DELETED" ELSE Status(edit[b]))

deleteTier(b) == Write(b, "delete", edit[b].target, "DELETED")

\* An error, or a tab that was closed before the request arrived.
Drop(b) ==
    /\ edit[b].op # "idle"
    /\ edit' = [edit EXCEPT ![b] = Idle]
    /\ UNCHANGED <<tier, raced>>

TierManager(b) ==
    \/ \E on \in BOOLEAN : handleFormSubmit(b, on)
    \/ \E t \in Tiers : handleToggleActive(b, t) \/ handleDeleteTier(b, t)

Next ==
    \E b \in Tabs : TierManager(b) \/ Check(b) \/ createTier(b) \/ updateTier(b)
                    \/ deleteTier(b) \/ Drop(b)

Spec == Init /\ [][Next]_vars

-----------------------------------------------------------------------------

\* A station has at most MAX_ACTIVE_PRIORITY_TIERS active tiers, unless two
\* edits were checked before either was written (assertActiveTierCapacity).
TierLimit == ~raced => Cardinality(Active) <= MaxActive

=============================================================================
