SPECIFICATION FrameCacheSpec
CONSTANTS
    Tab = {"t1", "t2"}
    MaxInc = 2
    MaxSeq = 2
    MaxSlot = 2
PROPERTY FramesAreTheSessions
CHECK_DEADLOCK FALSE
