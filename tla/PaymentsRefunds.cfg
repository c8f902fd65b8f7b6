\* One refund, delivered once, to a service that does not crash.
CONSTANTS
    Workers = {d1}
    RefundIds = {r1}
    Capture = Capture
    None = None
    Gross = 200
    RefundAmounts = {200}
    MaxCrashes = 0
    Tracks = {t1}
    Uploads = {u1}
    Requests = {c1}
    Attempts = 2
    MaxFaults = 0
SPECIFICATION PartsSpec
INVARIANT RefundsAreReversed
CHECK_DEADLOCK FALSE
