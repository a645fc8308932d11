CONSTANTS
    shelf = shelf
    box = box
    bolt = bolt
    nut = nut
    crate = crate
    NoBin = NoBin
    NoPack = NoPack
    Bins = {shelf, box}
    Items = {bolt, crate}
    Bins0 = {shelf, box}
    Items0 = {bolt, crate}
    Stock0 <- CrateStock
    Contents <- CrateContents
    MonoItem <- NoMono
    Calls = {"scan", "commit", "delete", "restart"}
    Quantities = {1, 2}
    ScanOpTimeout = 1
    WorkSessionIdle = 2
    MaxSession = 2
    MaxBatch = 2
    MaxPending = 2
SPECIFICATION FairSpec
CHECK_DEADLOCK FALSE
INVARIANT ScanRemovalCovered
PROPERTIES
    CommitAppliesInFlight
    ScansConserved
    RemovalsTimeOut
    IdleSessionFreezes
