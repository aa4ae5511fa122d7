SPECIFICATION Spec
CONSTANTS
    c1 = c1
    c2 = c2
    c3 = c3
    Calls = {c1}
    WindowSize = 4
    FailureThreshold = 50
    HalfOpenSuccessThreshold = 2
INVARIANTS
    ExceededThresholdOpens
