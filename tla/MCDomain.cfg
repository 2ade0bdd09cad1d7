SPECIFICATION MCSpec
CONSTANTS
    Role = {x}
    SessionId = {s1, s2}
    MaxSessions = 2
    Address = {d1, d2}
    MaxCount = 4

    Call = {c1, c2}
    Token = {t1, t2, t3, t4}
    NoToken = NoToken

    Val = {v1, v2}
    Err = {e1, e2}
    MaxCalls = 3

    a = a
    b = b
    c = c
    d = d
    e = e
    Row = {a, b, c, d, e}
    Already <- MCAlready
    Asked = {0, 2, 5}
    MaxLimit = 2
SYMMETRY MCSymmetry
INVARIANTS
    OutcastHasNoSession
    FirstFailureStands
    WalkSound
PROPERTIES
    InactiveGetsNoSession
    UseCasesImplementRotation
\* Paging and the chains of calls come to an end.
CHECK_DEADLOCK FALSE
