SPECIFICATION StationSpec
CONSTANTS
    Submissions = {s1, s2}
    None = None
    MaxTier = 1
    QualifyTicks = 1
    MaxRevision = 4
    MinOrder = 0
    MaxOrder = 2
    MaxInflight = 2
CHECK_DEADLOCK FALSE
SYMMETRY Symmetry
INVARIANTS ClockOnlyInPlayer
PROPERTIES ImplementsPlayer
