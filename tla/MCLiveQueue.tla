---------------------------- MODULE MCLiveQueue ----------------------------
(* Instances of LiveQueue for TLC. *)
EXTENDS LiveQueue, TLC

Symmetry == Permutations(Submissions)

\* Two unlocked transactions are under way at once in the first revisions only.
OverlapEarly == Cardinality(inflight) <= 1 \/ queueRevision <= 2

=============================================================================
