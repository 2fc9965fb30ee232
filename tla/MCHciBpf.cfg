SPECIFICATION Spec
CONSTANTS
    FIRST_OFFSET = 14
    LAST_OFFSET = 60
    Packets <- MCPackets
CHECK_DEADLOCK FALSE
INVARIANTS
    TypeOK
    VerdictCorrect
