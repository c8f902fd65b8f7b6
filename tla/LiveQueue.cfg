SPECIFICATION Spec
CONSTANTS
    Submissions = {s1, s2}
    None = None
    MaxTier = 1
    QualifyTicks = 1
    MaxRevision = 4
    MinOrder = 0
    MaxOrder = 1
    MaxInflight = 2
CHECK_DEADLOCK FALSE
SYMMETRY Symmetry
CONSTRAINT OverlapEarly
INVARIANTS PlayingIsCurrent StatusesAgree UnpaidNeverQueued
PROPERTIES QuietChangesOnlyRemove FinishedReturnsOnlyPaid
