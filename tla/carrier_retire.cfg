SPECIFICATION CarrierSpec
CONSTANTS
    Handle = {h1, h2}
    MaxMcp = 1
    StreamDepth = 1
    PendingMax = 2
    QueueDepth = 1
    MaxLaunch = 1
    Faults = {"deadline"}
SYMMETRY Symmetry
INVARIANTS GivenUpRuntimeDies
CHECK_DEADLOCK FALSE
