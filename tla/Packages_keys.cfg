SPECIFICATION Spec
CONSTANTS
    d1 = d1
    d2 = d2
    r1 = r1
    r2 = r2
    b1 = b1
    b2 = b2
    p1 = p1
    p2 = p2
    Ids = {d1, d2}
    Legacy = {}
    Media = {"video.m4a", "video.mp4"}
    Roots = {r1}
    DefaultRoot = r1
    Buckets = {b1}
    Prefixes = {p1}
    SameDevice = FALSE
    MaxRequests = 2
    MaxCrashes = 0
INVARIANT KeysPopulated
CHECK_DEADLOCK FALSE
