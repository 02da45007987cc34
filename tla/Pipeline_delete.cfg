SPECIFICATION Spec
CONSTANTS
    d1 = d1
    d2 = d2
    w1 = w1
    w2 = w2
    r1 = r1
    r2 = r2
    Ids <- OneDownload
    Workers <- OneWorker
    Requests <- OneHandler
    Ops <- UserOps
    Backends <- Local
    Salvaged = {}
    Unlisted = {}
    QueueCap = 1
    MaxRequests = 2
    MaxMishaps = 0
INVARIANTS
    RecordGoesWithFile
CHECK_DEADLOCK FALSE
