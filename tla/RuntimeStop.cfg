SPECIFICATION FairSpec
CONSTANTS
    a = a
    b = b
    Services = {a}
    Loops <- MCLoops
    Sampler <- MCSampler
    NoLoop <- MCNoLoop
    LoopsOf <- Alone
    Tokens = {"shared"}
    TokenOf <- MCTokenOf
    Supervised = {a}
    EndKinds = {"err", "panic", "ok"}
    MaxFaults = 2
PROPERTIES StopReturns
CHECK_DEADLOCK FALSE
