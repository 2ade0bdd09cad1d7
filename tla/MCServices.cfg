SPECIFICATION MCSpec
CONSTANTS
    b1 = b1
    b2 = b2
    Bucket = {b1, b2}
    Limit <- MCLimit
    Span <- MCSpan
    MaxSeconds = 5

    Mail = {m1, m2, m3}
    RateLimit = 2
    Parts = 3
    Refill = 2
    MaxRetries = 2
    MaxTicks = 4

    Key = {k1}
    Caller = {c1, c2}
    NullVersion = {1}
    MaxVersion = 2
    Gone = Gone

    Tasks = 4
    Concurrency = 2
    MaxAttempts = 2

    Process = {p1, p2}
    Datum = {d1}
    Master = {n1, n2}
    MaxVersions = 2
    Nothing = Nothing

    Event = {e1}
    Slot = {s1, s2}
    None = None
    MaxHandlers = 2
    Attempts = 3
    MaxStalls = 1
    MaxRestarts = 1
INVARIANTS
    WindowSound
    SendsWithinRate
    StaleHasCause
    ParallelSound
    UnreadableHasCause
    MarkedIsHandled
    HandledAgainForCause
PROPERTIES
    CacheCatchesUp
    TasksGoOn
    EventsSettle
\* All but the last come to an end under their bounds.
CHECK_DEADLOCK FALSE
