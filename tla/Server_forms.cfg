SPECIFICATION Spec
CONSTANTS
    r1 = r1
    r2 = r2
    Requests <- TwoRequests
    u1 = u1
    u2 = u2
    Urls = {u1, u2}
    Keys = {"proxy_https", "rotation_mode"}
    LastScript = 2
    Repeatable = {1}
    Released = {0, 1}
    MaxMishaps = 2
PROPERTY
    FormsAccepted
