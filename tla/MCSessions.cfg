SPECIFICATION MCSpec
CONSTANTS
    User = {u1}
    Session = {s1, s2, s3}
    Request = {p1, p2}
    None = None

    m1 = m1
    Uid = {m1, m2}
    Backend = {q1, q2}
    Nobody = Nobody
    MaxClock = 3
SYMMETRY Symmetry
INVARIANTS
    SecondUseOverlaps
    RevocationHolds
    InactiveBarred
    ForkHasCause
PROPERTIES
    ChangesEarned
    SessionsImplementRotation
\* MaxClock calls of change_member_role have begun.
CHECK_DEADLOCK FALSE
