CONSTANTS
    Msgs <- MC_Msgs
    Garbage <- MC_Garbage
    MaxMsgs = 2
SPECIFICATION Spec
\* The peer's bytes are all read: recv() would block from then on.
CHECK_DEADLOCK FALSE
INVARIANT TypeOK
INVARIANT DemuxMatchesGreedy
INVARIANT FramesDeliverMessages
