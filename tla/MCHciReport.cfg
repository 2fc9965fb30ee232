SPECIFICATION Spec
CONSTANTS
    FIRST_OFFSET = 14
    LAST_OFFSET = 60
    Events <- MCEvents
CHECK_DEADLOCK FALSE
INVARIANTS
    TypeOK
    ReadsInside
    FirstReportDecoded
    FilterKeepsShortAds
