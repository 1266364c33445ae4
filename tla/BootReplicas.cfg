SPECIFICATION BootFairSpec
CONSTANTS
    a = a
    b = b
    moved = moved
    preview = preview
    conflicted = conflicted
    poolA = poolA
    poolB = poolB
    Nobody = Nobody
    Runners <- MCRunners
    Previews = {preview}
    Band <- MCBand
    RESERVED_CEILING = 1000
    BAND_WIDTH = 1024
    Declarations <- MCDeclarations
    Changelog <- MCChangelog
    Contexts <- MCContexts
    Pool <- MCPool
    PoolSize <- MCPoolSize
    TopicNames <- MCTopicNames
    Specs <- MCSpecs
    Absent = None
    None = None
    Malformed = Bad
    Bad = Bad
    NotFinite = NaN
    NaN = NaN
    MaxMillis = 4000000
    MaxFloat = 400000
    Mode <- MCMode
    Misdeclared <- MCMisdeclared
    File <- MCFile
    Env <- MCEnv
    Files <- MCFiles
    Envs <- MCEnvs
    Provisioned <- MCProvisioned
    AutoCreated = {"shop"}
    FaultKinds = {"cancel", "session", "database", "answer"}
    MaxFaults = 1
    MaxRestarts <- MCMaxRestarts
INVARIANTS AppliedOnce AppliedInOrder DoneMeansMigrated BootedToSpec 
INVARIANTS ConfigSound  
PROPERTIES EventuallyEnds
CHECK_DEADLOCK FALSE
