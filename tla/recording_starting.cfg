CONSTANTS
    Verb = {}
    RingCap = 1
    SinkCap = 1
    MaxNotes = 1
    Screen = {"dark", "light", "wide"}
    SizeOf <- Sizes
    SegmentMs = 1
    MaxRelative = 0
    PendingCap = 1
    Budget = 2
    MaxTime = 2
    RecFaults = {}
    Log = {l1}
    Req = {1, 2}
    StoreBudget = 0
    MaxBoot = 2
    Ops = {"start", "abandon"}
SPECIFICATION Spec
CHECK_DEADLOCK FALSE
INVARIANT StartingIsBeingSetUp
