CONSTANTS
    MaxBlock = 10
    BlockCnt = 4
    UnripeDist = 2
    PerChunk = 3
    FirstSnap = 4
    SnapTo = 4
    Weight <- Dense
    AllowMissing = TRUE
    Events = {"sigint"}
SPECIFICATION Spec
CHECK_DEADLOCK FALSE
INVARIANT Sequential
