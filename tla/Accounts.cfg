\* The account: two sessions, one token and two requests, locked after two
\* failures.  The media: a recording and an artwork, one job with two attempts.
CONSTANTS
    Sessions = {s1, s2}
    Tokens = {t1}
    Requests = {q1, q2}
    Passwords = {p1}
    None = None
    MaxFailed = 2
    Lockout = 1
    MaxFaults = 1
    Recordings = {u1}
    Artwork = {a1}
    t1 = t1
    UploadTrack <- OneTrack
    Tracks = {t1}
    Rows = {r1, r2}
    Purges = {j1}
    Attempts = 2
    ChunkSize = 1
    MaxFailures = 1
SPECIFICATION PartsSpec
INVARIANTS LockoutEnds PendingIsUnverified DeletedAudioIsGone
PROPERTIES ClosedStaysClosed UserMediaGone
CHECK_DEADLOCK FALSE
