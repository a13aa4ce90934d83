CONSTANTS
    NChunks = 3
    Remotes <- MCRemotes
    Discs <- MCDiscs
    Options <- MCOptions
    PoolSize = 1
    Retries = 1
    MaxTroubles = 2
    MaxInits = 2
SPECIFICATION Spec
CHECK_DEADLOCK FALSE
INVARIANTS IndexMatchesManifest HalfWrittenIsExplained
PROPERTY InitReturns
