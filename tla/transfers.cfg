SPECIFICATION MovingFair
CONSTANTS
    Handle = {}
    MaxMcp = 0
    StreamDepth = 1
    PendingMax = 2
    QueueDepth = 1
    MaxLaunch = 1
    Faults = {"deadline", "guest", "session"}
    Job = {j1, j2}
    QueueBound = 1
    BundleFile <- SmallBundle
    ShareName = {"t1", "t2"}
    StagingName <- SmallStaging
    FileChunks = 2
    WirePath <- SmallWirePaths
    MaxFileId = 2
INVARIANTS NeverBusy TransfersAreWhole
PROPERTIES CallersAreAnswered
CHECK_DEADLOCK FALSE
