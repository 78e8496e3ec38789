CONSTANTS
    Verb = {v1, v2}
    RingCap = 1
    SinkCap = 1
    MaxNotes = 1
    Screen = {"dark", "light", "wide"}
    SizeOf <- Sizes
    SegmentMs = 1
    MaxRelative = 0
    PendingCap = 1
    Budget = 2
    MaxTime = 2
    RecFaults = {"open", "send", "flush", "finish", "log"}
    Log = {l1}
    Req = {1, 2, 3}
    StoreBudget = 0
    MaxBoot = 2
    Ops = {"start", "stop", "close", "annotate", "keep", "abandon", "fail", "shutdown", "crash"}
SPECIFICATION FairSpec
CHECK_DEADLOCK FALSE
INVARIANTS PagesTellGaps VideoAddsUp RecordingsCanBeStopped UnfinishedIsOurs
PROPERTIES KeepsPromise UnfinishedStays ClosedIsFinished
