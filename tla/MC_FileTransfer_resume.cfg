\* One receiver worker, three uploader runs that may overlap and be killed,
\* two receiver crashes and two frames lost by sendBuffer, anywhere.
CONSTANTS
    FileSize = 5
    CHUNK_SIZE = 3
    UINT64_MAX = UINT64_MAX
    WireMod = 4
    w1 = w1
    w2 = w2
    Workers = {w1}
    Runs = {1, 2, 3}
    ConcurrentRuns = TRUE
    MaxServerCrashes = 2
    MaxLostFrames = 2
SPECIFICATION Spec
INVARIANT TypeOK
INVARIANT OneFrameInFlight
PROPERTY StoreRefinement
