SPECIFICATION Spec
CONSTANTS
    None = None
    u1 = u1
    u2 = u2
    unsaved = unsaved
    Urls = {u1, u2}
    SessionIds = {s1, s2}
    Paths = {p1, unsaved}
    Unsaved = unsaved
    Registries <- MCRegistries
    MaxMoves = 1
SYMMETRY Symmetry
CHECK_DEADLOCK FALSE
INVARIANTS
    TypeOK
    BoundWasLive
    StaysAnchored
    FoundIfThere
    AmbiguousIsReal
    ReasonRight
