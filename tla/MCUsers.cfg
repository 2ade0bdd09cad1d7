SPECIFICATION Spec
CONSTANTS
    Id = {i1, i2}
    Email = {e1, e2}
    Editor = {p1, p2}
    None = None
    EditCounts = {1}
    MaxVersion = 3
SYMMETRY Symmetry
INVARIANTS
    EmailsUnique
    NoLostUpdate
    NoFalseConflict
PROPERTY
    LoginWhileActive
\* Behaviours stop when every id has been used and deleted, or has reached MaxVersion.
CHECK_DEADLOCK FALSE
