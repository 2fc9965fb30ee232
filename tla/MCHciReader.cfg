SPECIFICATION FairSpec
CONSTANTS
    Kinds = {"ruuvi", "corrupt", "other"}
    Capacity = 1
    SocketBuffer = 2
    MaxPackets = 4
    MaxErrors = 1
INVARIANTS
    TypeOK
    NoLostWakeup
    ReadIsReceivedInOrder
PROPERTIES
    QueuedIsRead
    FallsAsleep
    ImplementsScanTask
CHECK_DEADLOCK FALSE
