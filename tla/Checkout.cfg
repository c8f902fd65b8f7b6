\* The tier may be sold once or three times (OneBuyer says to whom); a user has one
\* tab and may have two entries at once.
CONSTANTS
    None = None
    u1 = u1
    u2 = u2
    b1 = b1
    b2 = b2
    Users = {u1, u2}
    Tabs = {b1, b2}
    UserOf <- OneEach
    Payments = {p1, p2}
    Prices = {100}
    MaxSimultaneous = 2
    MaxPerUser = 0
    PerLive = {1, 3}
    MaxEdits = 1
SPECIFICATION Spec
CONSTRAINT OneBuyer
SYMMETRY Users2
INVARIANTS TierCapacity ChargedOnce
CHECK_DEADLOCK FALSE
