SPECIFICATION Spec
CONSTANTS
    d1 = d1
    d2 = d2
    r1 = r1
    r2 = r2
    b1 = b1
    b2 = b2
    p1 = p1
    p2 = p2
    Ids = {d1}
    Legacy = {d1}
    Media = {"video.m4a", "video.mp4"}
    Roots = {r1, r2}
    DefaultRoot = r1
    Buckets = {b1, b2}
    Prefixes = {p1, p2}
    SameDevice = FALSE
    MaxRequests = 3
    MaxCrashes = 2
SYMMETRY Symmetry
INVARIANTS
    TypeOK
    CompleteIsWhole
    RecoveryRebuilds
    WatchServes
CHECK_DEADLOCK FALSE
