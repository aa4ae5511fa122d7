SPECIFICATION RouteSpec
CONSTANTS
    r1 = r1
    r2 = r2
    r3 = r3
    f1 = f1
    f2 = f2
    bad = bad
    m1 = m1
    m2 = m2
    m3 = m3
    Requests = {r1, r2}
    Keys = {"k1"}
    Fields = {f1, f2, bad}
    Metadata = {m1, m2, m3}
    Bodies <- MCBodies
    ValidFields = {f1, f2}
    MaxLosses = 0
    MaxRequests = 2
    Window = 2
    MaxDelay = 1
    Processes = 2
    MaxTime = 1
SYMMETRY SameRequests
INVARIANTS
    ReusedKeyIsRefused
CHECK_DEADLOCK FALSE
