CONSTANTS
    Procs = {p}
    Commands = {"scrape", "update", "truncate", "repair", "touch"}
    MaxBlock = 5
    MaxRecords = 7
    BlockCnt = 2
    UnripeDist = 1
    MaxBackfill = 2
    FlushEvery = 2
    Published = 3
    Fresh = {TRUE, FALSE}
    Events = {"crash", "sigint", "node", "disk", "append", "chunk"}
SPECIFICATION FairSpec
CHECK_DEADLOCK FALSE
INVARIANTS  BatchIsStamped
PROPERTIES BackfillCatchesUp
