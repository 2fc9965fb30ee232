SPECIFICATION Spec
CONSTANTS
    OtherOps <- Scanners
    EventSizes <- MCEventSizes
    Timeout = 2
    QueueSize = 2
    MaxCommands = 2
INVARIANTS
    EveryCommandConfirmed
