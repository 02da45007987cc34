SPECIFICATION FairSpec
CONSTANTS
    d1 = d1
    d2 = d2
    w1 = w1
    w2 = w2
    r1 = r1
    r2 = r2
    Ids <- TwoDownloads
    Workers <- TwoWorkers
    Requests <- TwoHandlers
    Ops <- UserOps
    Backends <- Local
    Salvaged = {}
    Unlisted = {d2}
    QueueCap = 1
    MaxRequests = 2
    MaxMishaps = 1
PROPERTIES
    UnfinishedSettles
    SenderReturns
    ImplementsWorkQueue
CHECK_DEADLOCK FALSE
