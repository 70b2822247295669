\* Two receiver workers, uploader runs one after the other, no crash.
CONSTANTS
    FileSize = 5
    CHUNK_SIZE = 3
    WireMod = 4
    UINT64_MAX = UINT64_MAX
    w1 = w1
    w2 = w2
    Workers = {w1, w2}
    Runs = {1, 2}
    ConcurrentRuns = FALSE
    MaxServerCrashes = 0
    MaxLostFrames = 0
SPECIFICATION Spec
PROPERTY StoreRefinement
