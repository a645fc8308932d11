CONSTANTS
    Clients = {c1, c2}
    NoClient = NoClient
    Threads = {t1, t2}
    RING_CAPACITY = 2
    MaxSeq = 5
SPECIFICATION FairSpec
CHECK_DEADLOCK FALSE
INVARIANTS
    TypeOK
    SlotHoldsItsMessage
    NoLostRequest
    NoRequestSleptOn
PROPERTIES
    SentInOrder
    ClientsCatchUp
