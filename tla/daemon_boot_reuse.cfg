CONSTANTS
    Name = {n1}
    Conn = {c1, c2}
    MaxGen = 2
    DiskFaults = {}
    Requests = {"disconnect", "bundle"}
    Crashes = FALSE
SPECIFICATION Spec
CHECK_DEADLOCK FALSE
INVARIANT BootstrapIsMarked
