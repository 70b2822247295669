CONSTANTS
    Msgs <- MC_Msgs
    Garbage <- MC_GarbageStray
    MaxMsgs = 1
SPECIFICATION Spec
CHECK_DEADLOCK FALSE
INVARIANT DemuxMatchesGreedy
