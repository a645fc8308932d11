CONSTANTS
    Names = {a, b}
    TagNames = {t}
    Barcodes = {bc}
    NoBarcode = NoBarcode
    DepthGuard = 2
    MaxPath = 2
    MaxCategory = 2
    MaxItem = 2
    MaxSession = 2
SPECIFICATION Spec
CHECK_DEADLOCK FALSE
INVARIANTS
    TypeOK
    LinksInScope
    PathAnswered
    NoTraceOfRolledBack
