SPECIFICATION Spec
CONSTANTS
    t1 = t1
    t2 = t2
    t3 = t3
    Mac <- MCMac
    Delays <- MCDelays
    Intervals = {0, 2, 3}
    Multiplier = 2
    CheckInterval = 2
    SizeThreshold = 1
    DurationMax = 4
    MaxClock = 9
SYMMETRY TagSymmetry
INVARIANTS
    TypeOK
    HeldBackOnlyWithinInterval
    MapRemembersEnough
    StaleEntriesBounded
PROPERTIES
    AtMostOncePerInterval
    ImplementsRateLimiter
CHECK_DEADLOCK FALSE
