SPECIFICATION Spec
CONSTANTS
    None = None
    unsaved = unsaved
    Calls = {k1, k2}
    SessionIds = {s1, s2}
    Paths = {p1, unsaved}
    Unsaved = unsaved
    ReuseInFlight = FALSE
    ReadsOverlap = FALSE
    Attempts = 1
    MaxCalls = 2
    MaxReads = 0
    MaxMoves = 1
SYMMETRY Symmetry
CHECK_DEADLOCK FALSE
INVARIANTS
    Truthful
    SuccessIsReal
PROPERTIES
    KeepsContract
