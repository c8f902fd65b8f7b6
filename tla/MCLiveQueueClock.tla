-------------------------- MODULE MCLiveQueueClock --------------------------
(* The queue with a history variable: how long each entry was in the       *)
(* player, whatever its play clock says.                                   *)
EXTENDS MCLiveQueue

VARIABLE heard   \* ticks the entry was in the player since it was last loaded

\* The clock starts when the entry is loaded, so as long as the entry plays
\* its age is the time heard.  Out of the player nothing is heard.
Listen == heard' = [s \in Submissions |->
                      IF entry'[s].status = "PLAYING" THEN entry'[s].loaded ELSE heard[s]]

HeardInit == Init /\ heard = [s \in Submissions |-> 0]
HeardSpec == HeardInit /\ [][Next /\ Listen]_<<vars, heard>>

\* play-counting.ts:12: a play counts when "it reached 120 seconds of
\* continuous playback", so the entry was in the player that long since it
\* was last loaded.
CountedWasHeard ==
    [][\A e \in Submissions : plays'[e] > plays[e] => heard[e] >= QualifyTicks]_<<vars, heard>>

=============================================================================
