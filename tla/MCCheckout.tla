----------------------------- MODULE MCCheckout -----------------------------
(* An instance of Checkout for TLC. *)
EXTENDS Checkout, TLC

CONSTANTS u1, u2, b1, b2

\* Two users with a tab each, who change places together with their tabs.
OneEach == (b1 :> u1) @@ (b2 :> u2)
Swap    == (u1 :> u2) @@ (u2 :> u1) @@ (b1 :> b2) @@ (b2 :> b1)
Users2  == {Swap} \cup Permutations(Payments)

\* They contend for a tier that is sold once and stays as it is; edits and
\* repairs, and a tier with more room, are checked with one user's two payments.
Buyers == {UserOf[b] : b \in {c \in Tabs : modal[c] # Nowhere}}
          \cup ({checkout[p].owner : p \in Payments} \ {None})

OneBuyer == (tier.maxPerLive = 1 /\ edits = 0) \/ Cardinality(Buyers) <= 1

=============================================================================
