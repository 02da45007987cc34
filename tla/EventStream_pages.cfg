SPECIFICATION FairSpec
CONSTANTS
    p1 = p1
    s1 = s1
    s2 = s2
    w1 = w1
    w2 = w2
    Writers <- TwoWriters
    Pages <- OnePage
    Streams <- TwoStreams
    ChanCap = 1
INVARIANTS
    TypeOK
    NoSendOnClosed
    StaleIsTold
PROPERTIES
    PagesSettle
    PublishReturns
