SPECIFICATION FairSpec
CONSTANTS
    d1 = d1
    d2 = d2
    Devices = {d1, d2}
    Kinds = {"ruuvi", "corrupt", "foreign"}
    Capacity = 1
    MaxAds = 3
    MaxRemovals = 1
INVARIANTS
    TypeOK
    NoStaleReport
    OneResultPerSignal
PROPERTIES
    LastAdvertisementReported
    ImplementsScanTask
CHECK_DEADLOCK FALSE
