SPECIFICATION Spec
CONSTANTS
    None = None
    c1 = c1
    c2 = c2
    h1 = h1
    h2 = h2
    idle = idle
    stale = stale
    Keys = {c1, c2}
    Hashes = {h1, h2}
    States = {idle, stale}
    Paths = {pathA, pathB}
    Observations <- MCObservations
    MaxLog = 4
INVARIANTS
    TypeOK
    EntryIsItsHistory
    DiffExact
CHECK_DEADLOCK FALSE
