CONSTANTS
    Clients = {c1}
    NoClient = NoClient
    Threads = {t1, t2}
    RING_CAPACITY = 2
    MaxSeq = 4
SPECIFICATION LiveFairSpec
CHECK_DEADLOCK FALSE
INVARIANTS
    LiveTypeOK
    NoSilentStaleness
PROPERTY ViewCatchesUp
