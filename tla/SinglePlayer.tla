--------------------------- MODULE SinglePlayer ---------------------------
(***************************************************************************)
(* What a host's player promises: at any time it holds one track or none,  *)
(* and a track earns a qualifying play only by leaving the player, at most *)
(* one for each time it was put there.                                     *)
(***************************************************************************)
EXTENDS Integers

CONSTANTS Tracks, Empty

VARIABLES slot, plays

Init == slot = Empty /\ plays = [t \in Tracks |-> 0]

\* The track in the player leaves it; another may take its place.
Leave ==
    /\ slot # Empty
    /\ slot' \in (Tracks \cup {Empty}) \ {slot}
    /\ \/ plays' = plays
       \/ plays' = [plays EXCEPT ![slot] = @ + 1]

Enter ==
    /\ slot = Empty
    /\ slot' \in Tracks
    /\ plays' = plays

Next == Leave \/ Enter

Spec == Init /\ [][Next]_<<slot, plays>>

=============================================================================
