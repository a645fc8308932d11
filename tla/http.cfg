CONSTANTS
    Requests <- AllRequests
    IntLimit = 4
    MaxRow = 2
    MaxBin = 2
    MaxSession = 2
SPECIFICATION Spec
CHECK_DEADLOCK FALSE
INVARIANTS
    TypeOK
    FieldsAsSent
PROPERTY FinishedUntouched
