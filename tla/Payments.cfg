\* A payment of 200 cents, refunded in part or in full; two deliveries at once.
\* The first upload of a track, completed by two requests, and two failures.
CONSTANTS
    Workers = {d1, d2}
    RefundIds = {r1}
    Capture = Capture
    None = None
    Gross = 200
    RefundAmounts = {33, 200}
    MaxCrashes = 1
    Tracks = {t1}
    Uploads = {u1}
    Requests = {c1, c2}
    Attempts = 2
    MaxFaults = 2
SPECIFICATION PartsSpec
CONSTRAINT FewEvents
INVARIANTS BooksAgree AnsweredIsPosted RoundingBounded
PROPERTIES MovementsArePosted VersionSettles
CHECK_DEADLOCK FALSE
