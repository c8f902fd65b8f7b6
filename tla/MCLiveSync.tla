----------------------------- MODULE MCLiveSync -----------------------------
(***************************************************************************)
(* LiveSync for MCHostSessions' run, and for the theorem about it: an      *)
(* instance, with names of its own.                                        *)
(***************************************************************************)
CONSTANTS Reads, Handlers, Null, MaxChanges, MaxFaults
VARIABLES page, hasUrl, revision, queue, tx, sent, joined, known, spinner, read, view, error,
          actionId, updating, click, applied, faults

Page == INSTANCE LiveSync WITH None <- Null

ASSUME PageAssumption ==
    Page!BoundsAssumption /\ Page!NoneAssumption /\ Page!RowAssumption

browser == <<page, hasUrl, revision, queue, tx, sent, joined, known, spinner, read, view, error,
             actionId, updating, click, applied, faults>>

\* LiveSync's properties.
OneOpPerRevision == Page!OneOpPerRevision
PageCatchesUp    == Page!PageCatchesUp

=============================================================================
