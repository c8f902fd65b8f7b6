\* Four entries of two tracks, three plays and weeks of three and five ticks;
\* a library of two tracks, whose list is loaded once at a time.
SPECIFICATION PartsSpec
CONSTANTS
    Tracks = {"a", "b"}
    Sessions = {"old", "live"}
    Entries <- MCEntries
    None = None
    Window = 2
    MaxTime = 5
    MaxPlays = 3
    Day = 2
    DaysInWeek = 2
    Standard = 1
    Daylight <- MCDaylight
    ChartSize = 1
    Shown = {s1, s2}
    Fetches = {f1}
CHECK_DEADLOCK FALSE
INVARIANTS CountsSpaced AgreesWithReference ChartIsEarned OnePreview
PROPERTIES ImplementsSerial
