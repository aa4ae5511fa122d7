SPECIFICATION RouteSpec
CONSTANTS
    r1 = r1
    r2 = r2
    r3 = r3
    f1 = f1
    f2 = f2
    bad = bad
    m1 = m1
    m2 = m2
    m3 = m3
    Requests = {r1, r2, r3}
    Keys = {"k1"}
    Fields = {f1, f2, bad}
    Metadata = {m1}
    Bodies <- FieldBodies
    ValidFields = {f1, f2}
    MaxLosses = 1
    MaxRequests = 1
    Window = 2
    MaxDelay = 1
    Processes = 2
    MaxTime = 2
SYMMETRY SameFields
INVARIANTS
    RouteTypeOK
    RepliesHaveGrounds
    PatientClientsAreServed
    OverrunIsBounded
    RejectedForCause
PROPERTIES
    ImplementsEndpoint
CHECK_DEADLOCK FALSE
