SPECIFICATION Spec
CONSTANTS
    FIRST_OFFSET = 14
    LAST_OFFSET = 60
    Events <- LongEvents
CHECK_DEADLOCK FALSE
INVARIANTS
    FilterKeepsRuuvi
