SPECIFICATION FairSpec
CONSTANTS
    None = None
    unsaved = unsaved
    Calls = {k1}
    SessionIds = {s1, s2}
    Paths = {p1, p2, unsaved}
    Unsaved = unsaved
    ReuseInFlight = TRUE
    ReadsOverlap = TRUE
    Attempts = 1
    MaxCalls = 1
    MaxReads = 1
    MaxMoves = 2
CHECK_DEADLOCK FALSE
INVARIANTS
    TypeOK
    PreservedServer
PROPERTIES
    RightKernel
    StartsAfresh
    EveryRestartEnds
    EveryStepCounts
