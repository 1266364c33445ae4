SPECIFICATION Spec
CONSTANTS
    Rows = {1, 2, 3}
    Rec <- Rebuilt
    Declared = "new"
    Outcomes <- AllButStraggler
    Dispatchers = {d1, d2}
    Unrouted = {}
    MaxAttempts = 2
    PanicLimit = 2
    FaultKinds = {"abort", "crash", "savepoint", "answer"}
    MaxFaults = 2
    MaxRedrives = 1
SYMMETRY Symmetry
INVARIANTS EffectsOnce BudgetKept StopsOnDistinctRows CacheCoversProcessed
PROPERTIES SettledRows CacheMovesForward
CHECK_DEADLOCK FALSE
