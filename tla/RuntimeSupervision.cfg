SPECIFICATION FairSpec
CONSTANTS
    a = a
    b = b
    Services = {a, b}
    Loops <- MCLoops
    Sampler <- MCSampler
    NoLoop <- MCNoLoop
    LoopsOf <- MCLoopsOf
    Tokens = {"shared"}
    TokenOf <- MCTokenOf
    Supervised = {a}
    EndKinds = {"err", "panic", "ok"}
    MaxFaults = 2
INVARIANTS OneSampler OkMeansStopped  ReportsFirst
PROPERTIES FirstDeathStopsAll
CHECK_DEADLOCK FALSE
