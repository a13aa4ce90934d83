SPECIFICATION Spec
CONSTANTS
    NItems = 3
    AppMapSize = 2
    NRoutines = 2
    MaxFaults = 2
    WriterFails = TRUE
    FirstRecord = 1
    MaxRecords = 2
    Handlers <- AllHandlers
INVARIANTS
    HealthyNeverCrashes
    BlankIsExplained
    FailuresAreReported
    
PROPERTIES
    StreamReturns
    HealthyEnds
CHECK_DEADLOCK FALSE
