CONSTANTS
    MaxBlock = 10
    BlockCnt = 4
    UnripeDist = 2
    PerChunk = 3
    FirstSnap = 4
    SnapTo = 4
    Weight <- Uneven
    AllowMissing = FALSE
    Events = {"crash", "sigint", "runcount", "node", "disk", "notify"}
SPECIFICATION FairSpec
CHECK_DEADLOCK FALSE
   
PROPERTIES  CatchesUp
