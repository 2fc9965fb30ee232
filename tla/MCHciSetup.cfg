SPECIFICATION FairSpec
CONSTANTS
    OtherOps <- Others
    EventSizes <- MCEventSizes
    Timeout = 2
    QueueSize = 2
    MaxCommands = 2
INVARIANTS
    TypeOK
    ConfirmedUndisturbed
    ParamsInForce
    OkMeansScanning
    NeverRefused
PROPERTIES
    SetupEnds
