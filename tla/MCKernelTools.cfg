SPECIFICATION Spec
CONSTANTS
    home = home
    user = user
    None = None
    Cells <- MCCells
    Home = home
    Downstream <- MCDownstream
    MaxRuns = 1
    MaxSets = 2
    MaxHuman = 1
INVARIANTS
    TypeOK
    OkMeansRan
    OutcomeRight
    NoFalseOk
    HandlerTruth
    SiteRight
    NoChangeIsTrue
    KeepsOption
CHECK_DEADLOCK FALSE
