SPECIFICATION Spec
CONSTANTS
    None = None
    nA = nA
    nB = nB
    pathA = pathA
    pathB = pathB
    name1 = name1
    cell1 = cell1
    Calls = {k1}
    SessionIds = {s1, s2}
    Notebooks = {nA, nB}
    Paths = {pathA, pathB, unsaved}
    PathOf <- MCPathOf
    Unsaved = unsaved
    Cells = {cell1}
    Names = {}
    Keys = {cell1}
    CellNamed <- MCNoNames
    Hashes = {h1, h2}
    States = {idle}
    Tools = {"data", "edit"}
    ReuseInFlight = FALSE
    MaxCalls = 2
    MaxHuman = 1
    MaxMoves = 0
SYMMETRY Symmetry
CHECK_DEADLOCK FALSE
PROPERTY NoSilentStomp
