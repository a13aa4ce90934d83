CONSTANTS
    StartBlock = 1
    BlockCount = 2
    RipeBlock = 1
    Workers = {w1, w2}
    Addressed = {1, 2}
    Notifying = TRUE
    Faulty = TRUE
    Interruptible = TRUE
    NoBlock = NoBlock
SPECIFICATION FairSpec
INVARIANTS
    BatchComplete
    DefensiveChecksHold
    FailureIsReported
    FailedBatchLeavesNothing
PROPERTIES
    NothingMovesAfterReturn
    BatchReturns
    InFlightBlocksDrain
CHECK_DEADLOCK FALSE
