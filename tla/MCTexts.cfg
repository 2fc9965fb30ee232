SPECIFICATION Spec
CONSTANTS
    Word = 65536
    Parts = 2
    DurationTexts <- MCDurationTexts
    MacTexts <- MCMacTexts
    Requests <- MCRequests
INVARIANTS
    DurationExact
    AddressRoundTrip
    LineReadsBack
    FormatsAgree
CHECK_DEADLOCK FALSE
