SPECIFICATION MCFairSpec
CONSTANTS
    Partitions = {p1}
    Consumers = {c1, c2}
    Nobody = Nobody
    Keys = {k1, k2}
    MessageIds = {m1, m2}
    Classes = {"good", "poison", "unwritable"}
    MaxOffset = 3
    SkipLimit = 2
    FaultKinds = {"crash", "rebalance", "database", "broker"}
    MaxFaults = 2
    MaxRestarts = 3
INVARIANTS NoneSkipped FirstCopyKept StoredOrQuarantined SkipsBounded
PROPERTIES EventuallyAccounted
CHECK_DEADLOCK FALSE
