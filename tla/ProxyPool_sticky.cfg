SPECIFICATION Spec
CONSTANTS
    p1 = p1
    p2 = p2
    p3 = p3
    w1 = w1
    w2 = w2
    a1 = a1
    a2 = a2
    Proxies = {p1, p2}
    Modes = {"sticky"}
    Workers = {w1}
    Admins = {a1}
    Initial <- TwoRows
    InitialMode = "sticky"
    MaxEdits = 1
    MaxErrors = 0
PROPERTY
    StickyStays
