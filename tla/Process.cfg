SPECIFICATION FairProcessSpec
CONSTANTS
    c1 = c1
    c2 = c2
    d1 = d1
    s1 = s1
    s2 = s2
    Calls = {c1, c2}
    WindowSize = 4
    FailureThreshold = 50
    HalfOpenSuccessThreshold = 2
    RetrySlots = {d1}
    Scenarios = {"instant_success", "instant_failure", "timeout"}
    Shutdowns = {s1, s2}
INVARIANTS
    ProcessTypeOK
    ClosedAfterFailureIsBelow
    HalfOpenIsUndecided
    ConnectionsOutliveJobs
PROPERTIES
    ClosesOnStreak
    OpensOnThrow
    ShutdownEnds
    Recovers
CHECK_DEADLOCK FALSE
