\* No receiver crash: three uploader runs that may overlap, kills allowed.
CONSTANTS
    FileSize = 5
    CHUNK_SIZE = 3
    WireMod = 4
    UINT64_MAX = UINT64_MAX
    w1 = w1
    w2 = w2
    Workers = {w1}
    Runs = {1, 2, 3}
    ConcurrentRuns = TRUE
    MaxServerCrashes = 0
    MaxLostFrames = 0
SPECIFICATION FairSpec
INVARIANT RequestsInRange
PROPERTY TransferCompletes
