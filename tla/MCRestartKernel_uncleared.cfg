SPECIFICATION Spec
CONSTANTS
    None = None
    unsaved = unsaved
    Calls = {k1}
    SessionIds = {s1, s2}
    Paths = {p1, p2, unsaved}
    Unsaved = unsaved
    ReuseInFlight = FALSE
    ReadsOverlap = FALSE
    Attempts = 2
    MaxCalls = 1
    MaxReads = 1
    MaxMoves = 2
SYMMETRY Symmetry
CHECK_DEADLOCK FALSE
INVARIANTS
    ClosedMeansCleared
