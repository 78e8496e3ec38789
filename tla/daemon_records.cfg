CONSTANTS
    Name = {n1}
    Conn = {c1, c2}
    MaxGen = 2
    DiskFaults = {"write"}
    Requests = {"disconnect", "leave", "refuse", "serverend", "bundle", "auto", "idle"}
    Crashes = TRUE
    Viewer = {v1, v2}
    Client = {b1, b2}
    MaxConnections = 1
    Params <- SmallParams
    Interfaces <- SmallInterfaces
    InRange = {"ts", "ts2", "cgnat"}
    HttpRequest <- SmallHttp
SPECIFICATION FrontSpec
CHECK_DEADLOCK FALSE
SYMMETRY Symmetry
INVARIANTS RecordsMatch NoSessionLeaks ConnectedStays
    ViewerIsGuarded LeasesEndWithViewer
PROPERTY OwnedRecordStays
