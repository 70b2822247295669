\* One receiver crash, one worker: a crash inside createIfNotExist.
CONSTANTS
    FileSize = 5
    CHUNK_SIZE = 3
    WireMod = 4
    UINT64_MAX = UINT64_MAX
    w1 = w1
    w2 = w2
    Workers = {w1}
    Runs = {1, 2}
    ConcurrentRuns = FALSE
    MaxServerCrashes = 1
    MaxLostFrames = 0
SPECIFICATION Spec
INVARIANT RequestsInRange
