SPECIFICATION FairSpec
CONSTANTS
    p1 = p1
    e1 = e1
    e2 = e2
    w1 = w1
    w2 = w2
    h1 = h1
    h2 = h2
    Payments = {p1}
    Cancellable = {p1}
    Events = {e1, e2}
    Payload <- MCPayload
    Slots = {w1}
    RetrySlots = {"r1"}
    Hooks = {h1}
    MaxRetries = 1
    MaxStalled = 1
    MaxFaults = 1
    GatewayCodes = {"INTERNAL_ERROR", "CARD_EXPIRED"}
    LockLapses = FALSE
    LiveStalls = FALSE
INVARIANTS
    MutualExclusion
    TrailIsHistory
    SuccessIsBacked
PROPERTIES
    NoCallOnceFinal
    ImplementsLifecycle
    JobsFinish
    LocksAreFreed
    RetryIsExecuted
    PendingIsSettled
    AckedIsRecorded
    RejectedDoesNotApply
