SPECIFICATION Spec
CONSTANTS
    None = None
    nA = nA
    nB = nB
    pathA = pathA
    pathB = pathB
    name1 = name1
    cell1 = cell1
    Calls = {k1}
    SessionIds = {s1, s2}
    Notebooks = {nA, nB}
    Paths = {pathA, pathB, unsaved}
    PathOf <- MCPathOf
    Unsaved = unsaved
    Cells = {cell1}
    Names = {name1}
    Keys = {cell1, name1}
    CellNamed <- MCOneName
    Hashes = {h1, h2}
    States = {idle}
    Tools = {"inspect", "map", "data", "create", "edit", "delete"}
    ReuseInFlight = TRUE
    MaxCalls = 2
    MaxHuman = 1
    MaxMoves = 2
SYMMETRY Symmetry
CHECK_DEADLOCK FALSE
INVARIANTS
    TypeOK
    GuardTrust
    BaselineOwned
    MapMissesNothing
PROPERTY RequestsLand
