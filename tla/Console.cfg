SPECIFICATION ConsoleSpec
CONSTANTS
    p1 = p1
    p2 = p2
    Payments = {p1, p2}
    MaxRetries = 0
    Submissions <- MCSubmissions
    Polls <- MCPolls
    MAX_POLLS = 2
INVARIANTS
    ConsoleTypeOK
    NoTimerIsLost
PROPERTIES
    OutcomeStays
    ButtonComesBack
CHECK_DEADLOCK FALSE
