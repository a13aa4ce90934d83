CONSTANTS
    u1 = u1
    u2 = u2
    A = A
    B = B
    Updaters = {u1, u2}
    Addrs = {A, B}
    Request <- Two
    Ends = {0, 3, 4}
    MaxBlock = 6
    Appears <- Around
    MaxTasks = 2
    Settings <- LostChunk
SPECIFICATION Spec
CHECK_DEADLOCK FALSE
INVARIANT SkippedChunksAreRead
