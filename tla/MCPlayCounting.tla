--------------------------- MODULE MCPlayCounting ---------------------------
(***************************************************************************)
(* An instance of PlayCounting, with the chart read from it, and one of    *)
(* LibraryPage for TLC.  The two share no variable, so the run explores    *)
(* one or the other and not the product: `part' says which.  Each action   *)
(* of both is a disjunct of its own here, so that TLC reports how often it *)
(* was taken.                                                              *)
(***************************************************************************)
EXTENDS WeeklyTop3

CONSTANTS Shown, Fetches
VARIABLES part, row, fetched, page, active, item, uploader, merged

L == INSTANCE LibraryPage WITH Tracks <- Shown

ASSUME LibraryAssumption == L!NoneAssumption
ASSUME ClockConstants == ClockAssumption

\* The code's own numbers: the hours from the 1st of January to the 31st of
\* December 2022, a year that began on a Saturday. Daylight saving ran from the
\* 13th of March, 07:00 UTC, to the 6th of November, 06:00 UTC.
NewYork == INSTANCE WeeklyTop3 WITH Day <- 24, DaysInWeek <- 7, Standard <- 5,
               Daylight <- (71 * 24 + 7)..(309 * 24 + 5), ChartSize <- 3
ASSUME WeeksOf2022 == NewYork!ClockAssumption /\ NewYork!WeeksPartition(24..(364 * 24))

\* In the run, a day of two ticks and a week of two days, the second of which
\* the clocks change in.
MCDaylight == 2..5

\* Two submissions of one track to a session and one to an older session,
\* and another track.
MCEntries ==
    {[id |-> 1, track |-> "a", session |-> "old"], [id |-> 2, track |-> "a", session |-> "live"],
     [id |-> 3, track |-> "a", session |-> "live"], [id |-> 4, track |-> "b", session |-> "old"]}

library == <<row, fetched, page, active, item, uploader, merged>>

\* The other part, and the choice, stay as they are.
Counting == part = "counting" /\ UNCHANGED <<part, library>>
Library  == part = "library" /\ UNCHANGED <<part, vars>>

PartsInit ==
    /\ Init /\ L!Init /\ part \in {"counting", "library"}
    /\ part = "counting" => \A t \in Shown : row[t] = "none"

PartsNext ==
    \/ \E e \in Entries : Counting /\ Qualify(e)
    \/ \E s \in Sessions :
         \/ Counting /\ LockTrack(s)
         \/ Counting /\ Decide(s)
         \/ Counting /\ Commit(s)
         \/ Counting /\ Abort(s)
    \/ Counting /\ Tick
    \/ Library /\ L!Render
    \/ Library /\ L!openUploader
    \/ Library /\ L!closeUploader
    \/ Library /\ L!handleFileSelected
    \/ Library /\ L!removeFile
    \/ \E f \in Fetches :
         \/ Library /\ L!Refresh(f)
         \/ Library /\ L!getTracks(f)
         \/ Library /\ L!SetTracks(f)
         \/ Library /\ L!LoseTracks(f)
         \/ Library /\ L!Uploaded(f)
    \/ \E t \in Shown :
         \/ Library /\ L!handlePlayToggle(t)
         \/ Library /\ L!Downloaded(t)
         \/ Library /\ L!Played(t)
         \/ Library /\ L!Stopped(t)
         \/ Library /\ L!handleDelete(t)
         \/ Library /\ L!NotDeleted(t)
         \/ Library /\ L!handleSubmit(t)
         \/ Library /\ L!Process(t)
         \/ \E f \in Fetches : Library /\ L!handleToggleVisibility(t, f)
         \/ \E f \in Fetches : Library /\ L!Deleted(t, f)

PartsSpec == PartsInit /\ [][PartsNext]_<<part, vars, library>>

OnePreview == L!OnePreview

=============================================================================
