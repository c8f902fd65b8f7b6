--------------------------- MODULE SerialCounting ---------------------------
(***************************************************************************)
(* What the counting of plays promises: that it is as if one transaction   *)
(* ran at a time.  A play is decided by the counts there are at the moment *)
(* it is recorded, in the same step.  The clock may have been read before, *)
(* but a session's plays are recorded in the order of their times.         *)
(***************************************************************************)
EXTENDS Integers, Sequences

CONSTANTS Entries, None, Window

VARIABLES now, countedPlayAt, plays

Init == now = 0 /\ countedPlayAt = [e \in Entries |-> None] /\ plays = <<>>

\* Another entry of the track counted in the window before `at', or since.
Blocked(e, at) ==
    \E f \in Entries \ {e} : /\ f.track = e.track
                             /\ countedPlayAt[f] # None
                             /\ countedPlayAt[f] > at - Window

InOrder(e, at) == \A i \in 1..Len(plays) : plays[i].entry.session = e.session => plays[i].at <= at

Record(e, at) ==
    /\ InOrder(e, at)
    /\ plays' = Append(plays, [entry |-> e, at |-> at, counted |-> ~Blocked(e, at)])
    /\ countedPlayAt' = [countedPlayAt EXCEPT ![e] = IF Blocked(e, at) THEN None ELSE at]
    /\ UNCHANGED now

Tick == now' = now + 1 /\ UNCHANGED <<countedPlayAt, plays>>

Next == Tick \/ \E e \in Entries, at \in 0..now : Record(e, at)

Spec == Init /\ [][Next]_<<now, countedPlayAt, plays>>

=============================================================================
