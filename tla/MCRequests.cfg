SPECIFICATION Spec
CONSTANTS
    Request = {r1, r2}
    Route <- MCRoute
    Caller <- MCCaller
    Bucket <- MCBucket
    Limit <- MCLimit
    Span <- MCSpan
    MaxNow = 1
    Error <- MCError
INVARIANTS
    AnswerHonest
    
PROPERTIES
    NobodyWaits
\* The process may exit, and a handler may hang.
CHECK_DEADLOCK FALSE
