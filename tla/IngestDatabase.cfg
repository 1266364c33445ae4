SPECIFICATION Spec
CONSTANTS
    Partitions = {p1}
    Consumers = {c1}
    Nobody = Nobody
    Keys = {k1, k2}
    MessageIds = {m1, m2}
    Classes = {"good"}
    MaxOffset = 2
    SkipLimit = 2
    FaultKinds = {"database"}
    MaxFaults = 1
    MaxRestarts = 0
INVARIANTS NoneLost
CHECK_DEADLOCK FALSE
