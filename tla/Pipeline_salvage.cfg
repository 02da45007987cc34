SPECIFICATION Spec
CONSTANTS
    d1 = d1
    d2 = d2
    w1 = w1
    w2 = w2
    r1 = r1
    r2 = r2
    Ids <- OneDownload
    Workers <- TwoWorkers
    Requests <- TwoHandlers
    Ops <- AfterLossOps
    Backends <- Local
    Salvaged = {d1}
    Unlisted = {}
    QueueCap = 1
    MaxRequests = 5
    MaxMishaps = 0
SYMMETRY Symmetric
INVARIANTS
    UnfinishedIsInFlight
CHECK_DEADLOCK FALSE
