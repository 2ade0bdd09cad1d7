SPECIFICATION FairSpec
CONSTANTS
    Caller = {c1, c2}
    FailureThreshold = 2
    SuccessThreshold = 2
    ResetTimeout = 1
    CountCap = 2
PROPERTY
    ReopensOnlyOnFailure
