CONSTANTS
    Codes <- MixedCodes
    BARCODE_MAX = 2
    QueueSize = 4
    MaxCodes = 2
SPECIFICATION FairSpec
CHECK_DEADLOCK FALSE
INVARIANTS
    DeliveredAsScanned
    NothingInvented
PROPERTY EveryCodeArrives
