\* Two requests and two applications; a station may have two tiers active.
CONSTANTS
    None = None
    Requests = {r1, r2}
    Accounts = {k1, k2}
    MaxApplications = 2
    MaxChanges = 2
    Tabs = {b1, b2}
    Tiers = {t1, t2, t3}
    DefaultTiers = {t1}
    MaxActive = 2
SPECIFICATION PartsSpec
SYMMETRY Symmetry
INVARIANTS NobodyLeftWaiting CanComeBack TierLimit
CHECK_DEADLOCK FALSE
