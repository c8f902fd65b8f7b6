\* Two requests and one sweep over two sessions; pages with two fetches and two
\* clicks under way, two changes and a fault.
SPECIFICATION PartsSpec
CONSTANTS
    Requests = {r1, r2}
    Instances = {i1}
    None = None
    IdleTicks = 1
    MaxSessions = 2
    MaxTime = 2
    MaxFailures = 1
    Reads = {f1, f2}
    Handlers = {h1, h2}
    Null = Null
    MaxChanges = 2
    MaxFaults = 1
CHECK_DEADLOCK FALSE
INVARIANTS OneOpenSession TimesAgree OneOpPerRevision
PROPERTIES EndedIsFinal SuspensionEndsSessions SweepSparesActive AbandonedIsEnded PageCatchesUp
