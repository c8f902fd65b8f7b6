\* An entry that leaves the player before the two ticks that make a play.
SPECIFICATION HeardSpec
CONSTANTS
    Submissions = {s1, s2}
    None = None
    MaxTier = 1
    QualifyTicks = 2
    MaxRevision = 3
    MinOrder = 0
    MaxOrder = 2
    MaxInflight = 1
CHECK_DEADLOCK FALSE
SYMMETRY Symmetry
PROPERTIES CountedWasHeard
