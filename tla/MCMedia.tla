------------------------------ MODULE MCMedia ------------------------------
(***************************************************************************)
(* Media for MCSubmissions' run, and for the theorems about it: an         *)
(* instance, with names of its own.                                        *)
(***************************************************************************)
CONSTANTS Owned, Uploads, Completions, Null, Attempts, MaxFaults
VARIABLES track, intent, content, stored, completion, media, job, faults

U == INSTANCE Media WITH Tracks <- Owned, Requests <- Completions, None <- Null, request <- completion

ASSUME MediaAssumption == U!RowsAssumption /\ U!FaultsAssumption /\ U!RecordAssumption

uploads == <<track, intent, content, stored, completion, media, job, faults>>

\* Media's safety property.
ReadyTrackHasCurrent == U!ReadyTrackHasCurrent

=============================================================================
