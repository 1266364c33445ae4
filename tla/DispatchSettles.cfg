SPECIFICATION FairSpec
CONSTANTS
    Rows = {1, 2, 3, 4}
    Rec <- Refused
    Declared = "new"
    Outcomes <- PanicsOnFirst
    Dispatchers = {d1, d2}
    Unrouted = {d2}
    MaxAttempts = 2
    PanicLimit = 1
    FaultKinds = {"savepoint"}
    MaxFaults = 1
    MaxRedrives = 0
PROPERTIES EventuallySettled
CHECK_DEADLOCK FALSE
