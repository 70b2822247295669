\* More chunks than the narrowed wire index can name (WireMod = 2 stands
\* for 2^16 with files of more than 65536 chunks).
CONSTANTS
    FileSize = 7
    CHUNK_SIZE = 3
    WireMod = 2
    UINT64_MAX = UINT64_MAX
    w1 = w1
    w2 = w2
    Workers = {w1}
    Runs = {1}
    ConcurrentRuns = FALSE
    MaxServerCrashes = 0
    MaxLostFrames = 0
SPECIFICATION FairSpec
PROPERTY TransferCompletes
