SPECIFICATION FairSpec
CONSTANTS
    p1 = p1
    e1 = e1
    e2 = e2
    w1 = w1
    w2 = w2
    h1 = h1
    h2 = h2
    Payments = {p1}
    Cancellable = {}
    Events = {}
    Payload <- NoPayload
    Slots = {w1}
    RetrySlots = {"r1"}
    Hooks = {}
    MaxRetries = 1
    MaxStalled = 1
    MaxFaults = 0
    GatewayCodes = {"INTERNAL_ERROR", "CARD_EXPIRED"}
    LockLapses = FALSE
    LiveStalls = FALSE
PROPERTIES
    RetryableFailureIsRetried
CHECK_DEADLOCK FALSE
