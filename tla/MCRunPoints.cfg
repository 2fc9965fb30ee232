SPECIFICATION Spec
CONSTANTS
    t1 = t1
    t2 = t2
    Mac <- MCMac
    Delays <- MCDelays
    Options <- BothOrNone
    Formats = {"V5", "V6", "E1"}
    Intervals = {2}
    Multiplier = 1
    CheckInterval = 2
    SizeThreshold = 1
    DurationMax = 2
    MaxClock = 3
    Capacity = 2
    MaxResults = 4
SYMMETRY TagSymmetry
INVARIANTS
    PointsSpacedByInterval
