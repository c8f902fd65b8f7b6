\* Four requests and two keys; two uploads of one track, completed by two
\* requests, and two failures (FewFailures says when).
SPECIFICATION PartsSpec
CONSTANTS
    Requests = {r1, r2, r3, r4}
    Keys = {k1, k2}
    Free = Free
    Paid = Paid
    None = None
    MaxFree = 2
    MaxActive = 1
    Owned = {t1}
    Uploads = {u1, u2}
    Completions = {c1, c2}
    Null = Null
    Attempts = 2
    MaxFaults = 2
CHECK_DEADLOCK FALSE
SYMMETRY Symmetry
CONSTRAINT FewFailures
INVARIANTS FirstClaimExclusive AnswersAreReal OncePerKey FreeLimits ReadyTrackHasCurrent
