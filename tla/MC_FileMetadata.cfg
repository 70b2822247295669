CONSTANTS
    NChunks <- MC_NChunks
    UINT64_MAX = UINT64_MAX
SPECIFICATION Spec
INVARIANT TypeOK
INVARIANT NextMissingIsFirstUnmarked
