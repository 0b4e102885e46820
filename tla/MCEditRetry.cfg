SPECIFICATION RetrySpec
CONSTANTS
    None = None
    nA = nA
    nB = nB
    pathA = pathA
    pathB = pathB
    cell1 = cell1
    Calls = {k1}
    Agent = k1
    SessionIds = {s1, s2}
    BoundPath = pathA
    Notebooks = {nA, nB}
    Paths = {pathA, pathB, unsaved}
    PathOf <- MCPathOf
    Unsaved = unsaved
    Cells = {cell1}
    Target = cell1
    Names = {}
    Keys = {cell1}
    CellNamed <- MCNoNames
    Hashes = {h1, h2}
    Goal = h1
    States = {idle}
    Tools = {"data", "edit"}
    ReuseInFlight = TRUE
    MaxCalls = 0
    MaxHuman = 2
    MaxMoves = 2
    MaxFaults = 1
INVARIANT RetryTypeOK
PROPERTIES
    EditLands
    DoneIsWritten
    EveryStepCounts
CHECK_DEADLOCK FALSE
