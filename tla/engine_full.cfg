CONSTANTS
    shelf = shelf
    box = box
    bolt = bolt
    nut = nut
    crate = crate
    NoBin = NoBin
    NoPack = NoPack
    Bins = {shelf, box}
    Items = {bolt, nut}
    Bins0 = {shelf}
    Items0 = {bolt}
    Stock0 <- MCStock
    Contents <- NoContents
    MonoItem <- BoxOfNuts
    Calls = {"scan", "commit", "rollback", "manual", "delete", "update", "create", "restart"}
    Quantities = {2}
    ScanOpTimeout = 1
    WorkSessionIdle = 1
    MaxSession = 2
    MaxBatch = 2
    MaxPending = 1
SPECIFICATION Spec
CHECK_DEADLOCK FALSE
INVARIANTS
    TypeOK
    FocusHasSession
    SessionMirrorsTable
    NothingLeftInFlight
    NoDanglingReferences
    AuditIsCommittedBuffer
    StockReplaysAudit
    NoTraceOfRolledBack
PROPERTIES
    ImplementsLedger
