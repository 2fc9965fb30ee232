SPECIFICATION FairSpec
CONSTANTS
    t1 = t1
    t2 = t2
    Mac <- MCMac
    Delays <- MCDelays
    Options <- BothOrNone
    Formats = {"V6", "E1"}
    Intervals = {1, 2}
    Multiplier = 1
    CheckInterval = 3
    SizeThreshold = 1
    DurationMax = 1
    MaxClock = 2
    Capacity = 1
    MaxResults = 3
INVARIANTS
    TypeOK
    RedundantV6NeverWritten
    DropJustified
    WritesSpacedByInterval
    CleanExitDrained
PROPERTIES
    EveryResultJudged
