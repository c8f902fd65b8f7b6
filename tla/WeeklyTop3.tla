----------------------------- MODULE WeeklyTop3 -----------------------------
(***************************************************************************)
(* A station's chart of the week, read from the plays PlayCounting stores. *)
(* The week runs from one Saturday midnight of New York to the next, so it *)
(* is an hour shorter or longer when the clocks change.                    *)
(***************************************************************************)
EXTENDS PlayCounting

CONSTANTS
    Day,         \* ticks of a day: 24 hours in the code
    DaysInWeek,  \* 7 in the code; a week starts on the first of them
    Standard,    \* ticks New York is behind UTC without daylight saving, T05:00:00Z
    Daylight,    \* the ticks, of UTC, at which New York's clock is one tick ahead
    ChartSize    \* 3 in the code

\* A midnight of New York's, by standard time.
AtMidnight(t) == (t - Standard) % Day = 0

\* The parameters: New York is behind UTC by less than a day, daylight saving or
\* not, and its clocks do not change at midnight by standard time (they do at two
\* and at one in the morning of it).
ClockAssumption ==
    /\ Day \in Nat /\ DaysInWeek \in Nat \ {0} /\ ChartSize \in Nat
    /\ Standard \in 1..(Day - 1)
    /\ Daylight \subseteq Int
    /\ \A t \in Daylight : /\ AtMidnight(t) => t - 1 \in Daylight
                           /\ AtMidnight(t + 1) => t + 1 \in Daylight

-----------------------------------------------------------------------------
(* getCurrentWeeklyPeriod *)

\* Intl.DateTimeFormat in New York's time zone.
Local(t) == IF t \in Daylight THEN t - Standard + 1 ELSE t - Standard

\* The candidate is midnight by standard time; if New York's clock shows more
\* than midnight then, that is taken off.
nyMidnightToUtc(day) ==
    LET cand == day * Day + Standard
    IN  cand - (Local(cand) - day * Day)

\* The last Saturday and the next, as days and then as ticks of UTC.
getCurrentWeeklyPeriod(t) ==
    LET day       == Local(t) \div Day
        startDate == day - (day % DaysInWeek)
    IN  [start |-> nyMidnightToUtc(startDate), end |-> nyMidnightToUtc(startDate + DaysInWeek)]

Weeks == {getCurrentWeeklyPeriod(t) : t \in Time}

\* Every tick of a span is in its week and in no other: where one week ends
\* the next one starts, and all the ticks in between name the same week.
WeeksPartition(span) ==
    \A t \in span :
        LET week == getCurrentWeeklyPeriod(t)
        IN  /\ week.start <= t /\ t < week.end
            /\ getCurrentWeeklyPeriod(week.start) = week
            /\ getCurrentWeeklyPeriod(week.end).start = week.end

-----------------------------------------------------------------------------
(* getWeeklyTop3 *)

\* Mutant: lte for lt, so a play at the reset is in both weeks.
MutPlayed(sessions, week) ==
    {e \in Entries : /\ e.session \in sessions
                     /\ countedPlayAt[e] # None
                     /\ week.start <= countedPlayAt[e] /\ countedPlayAt[e] <= week.end}

\* The entries of the station's sessions whose counted play is in the week.
Played(sessions, week) ==
    {e \in Entries : /\ e.session \in sessions
                     /\ countedPlayAt[e] # None
                     /\ week.start <= countedPlayAt[e] /\ countedPlayAt[e] < week.end}

\* One item for each track, with its plays and the last of them.
Aggregates(sessions, week) ==
    LET of(t) == {e \in Played(sessions, week) : e.track = t}
        item(t) == [track |-> t, count |-> Cardinality(of(t)),
                    last |-> CHOOSE at \in {countedPlayAt[e] : e \in of(t)} :
                                \A e \in of(t) : countedPlayAt[e] <= at]
    IN  {item(t) : t \in {e.track : e \in Played(sessions, week)}}

\* localeCompare of the ids: some order of the tracks.
IdOrder ==
    CHOOSE f \in [Tracks -> 1..Cardinality(Tracks)] : \A t, u \in Tracks : f[t] = f[u] => t = u

\* More plays, then the later play, then the id.
Ahead(a, b) ==
    \/ a.count > b.count
    \/ a.count = b.count /\ a.last > b.last
    \/ a.count = b.count /\ a.last = b.last /\ IdOrder[a.track] < IdOrder[b.track]

\* The chart's places and the items in them.
getWeeklyTop3(sessions, week) ==
    LET items == Aggregates(sessions, week)
        rank(i) == 1 + Cardinality({j \in items : Ahead(j, i)})
        first == {i \in items : rank(i) <= ChartSize}
    IN  [place \in {rank(i) : i \in first} |-> CHOOSE i \in first : rank(i) = place]

-----------------------------------------------------------------------------
(* Properties *)

\* The plays of a track in the week that counted, by the playback events; and
\* those of them whose entry was played again, and decided again, later.
Earned(t, sessions, week) ==
    {i \in 1..Len(plays) : /\ plays[i].counted
                           /\ plays[i].entry.track = t /\ plays[i].entry.session \in sessions
                           /\ week.start <= plays[i].at /\ plays[i].at < week.end}
Overwritten(t, sessions, week) ==
    {i \in Earned(t, sessions, week) :
        \E j \in i + 1..Len(plays) : plays[j].entry = plays[i].entry}

\* The chart of every week and any of the host's stations has no gaps and no
\* ties to settle, shows for each track the plays it earned, never more than
\* that nor than one for each counting window of the week, and leaves out no
\* track that has more plays than one it shows: however the transactions that
\* recorded them overtook each other and failed.  Plays of a track are missing
\* only if an entry that earned one was played again (see RankingsStay).
ChartIsEarned ==
    \A sessions \in (SUBSET Sessions) \ {{}}, week \in Weeks :
        LET chart == getWeeklyTop3(sessions, week)
            Sum(t) == Cardinality(Earned(t, sessions, week))
            Intact(t) == Overwritten(t, sessions, week) = {}
        IN  /\ DOMAIN chart = 1..Cardinality(DOMAIN chart)
            /\ \A p \in DOMAIN chart :
                  /\ chart[p].count <= Sum(chart[p].track)
                  /\ Intact(chart[p].track) => chart[p].count = Sum(chart[p].track)
                  /\ chart[p].count <= (week.end - week.start + Window - 1) \div Window
            /\ \A t \in Tracks \ {chart[p].track : p \in DOMAIN chart} :
                  Sum(t) > 0 /\ Intact(t) => /\ Cardinality(DOMAIN chart) = ChartSize
                                            /\ \A p \in DOMAIN chart : Sum(t) <= chart[p].count

\* docs/decisions/0028:24: rankings "never change retroactively", as a decision is
\* made once, at play time (0028:16).  So the chart of a week stays as it is once
\* the week is over and nothing played in it is still to be recorded.
RankingsStay ==
    [][\A sessions \in SUBSET Sessions, week \in Weeks :
          /\ week.end <= now
          /\ \A s \in Sessions : tx[s] = None \/ week.end <= tx[s].at
          => getWeeklyTop3(sessions, week)' = getWeeklyTop3(sessions, week)]_vars

=============================================================================
