CONSTANTS
    IntLimit = 8
    Sent = {0, 1, 5, 8, 9, 16, 17}
    Edited = {0, 12, 22}
    Default = 3
    WorkSessionIdle = 4
    MaxBack = 3
    MaxAhead = 2
    MaxClockSteps = 2
SPECIFICATION FairSpec
CHECK_DEADLOCK FALSE
INVARIANTS
    TypeOK
    AcceptedIsInForce
PROPERTIES
    RemovalsTimeOut
    FreezeClosesFirst
