CONSTANTS
    Procs = {p}
    Commands = {"scrape"}
    MaxBlock = 6
    MaxRecords = 9
    BlockCnt = 2
    UnripeDist = 1
    MaxBackfill = 2
    FlushEvery = 2
    Published = 3
    Fresh = {TRUE}
    Events = {}
SPECIFICATION Spec
CHECK_DEADLOCK FALSE
INVARIANTS RecordsInPlace
