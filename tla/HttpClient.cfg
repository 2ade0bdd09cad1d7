SPECIFICATION FairSpec
CONSTANTS
    Caller = {c1, c2}
    FailureThreshold = 2
    HalfOpenMaxAttempts = 2
    ResetTimeout = 2
    MonitoringWindow = 3
    MaxRetries = 2
    CountCap = 3
PROPERTIES
    TransitionsEarned
    RequestsEnd
    AlwaysTried
    Recovers
