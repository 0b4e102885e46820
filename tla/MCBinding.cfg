SPECIFICATION Spec
CONSTANTS
    None = None
    Mixed = Mixed
    unsaved = unsaved
    Contexts = {x1, x2}
    Calls = {k1, k2}
    SessionIds = {s1, s2}
    Urls = {u1, u2}
    Paths = {path1, unsaved}
    Unsaved = unsaved
    MaxCalls = 3
SYMMETRY Symmetry
CHECK_DEADLOCK FALSE
INVARIANTS
    TypeOK
    Isolation
    WholeBinding
