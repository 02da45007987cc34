SPECIFICATION Spec
CONSTANTS
    d1 = d1
    d2 = d2
    w1 = w1
    w2 = w2
    r1 = r1
    r2 = r2
    Ids <- OneDownload
    Workers <- TwoWorkers
    Requests <- TwoHandlers
    Ops <- UserOps
    Backends <- Both
    Salvaged = {}
    Unlisted = {}
    QueueCap = 1
    MaxRequests = 3
    MaxMishaps = 1
SYMMETRY Symmetric
INVARIANTS
    TypeOK
    UnfinishedIsInFlight
    CompleteIsBacked
    MetadataMarksWhole
    CompleteJobAgrees
    AcceptedHasRow
PROPERTIES
    StatusMovesForward
CHECK_DEADLOCK FALSE
