SPECIFICATION FairSpec
CONSTANTS
    Caller = {c1, c2, c3}
    FailureThreshold = 3
    SuccessThreshold = 2
    ResetTimeout = 2
    CountCap = 3
PROPERTIES
    TransitionsEarned
    Recovers
