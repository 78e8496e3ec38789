SPECIFICATION PathSpec
CONSTANTS
    Handle = {h1, h2}
    MaxMcp = 2
    StreamDepth = 1
    PendingMax = 2
    QueueDepth = 1
    MaxLaunch = 2
    Faults = {"deadline", "child", "guest", "silence", "session"}
    FirstHandle = h1
    Stream = {s1, s2}
    Id = {i1, i2}
    Message <- SmallMessages
    PendingCap = 1
    MaxSent = 2
    Connect = {c1, c2, c3, c4}
    LateConnect = {c3, c4}
    Version = {1, 2}
    StableVersion = {1}
    Published <- SmallPublished
    OwnVersion = 2
    Request <- SmallRequests
    CrashMax = 1
    Caller = {p1}
    MaxProcess = 3
    Verb = {"connect", "list", "get", "replace", "view", "cua", "screenshot", "config"}
    Platforms = {"unix", "windows"}
    MaxTries = 1
INVARIANTS NoCrossTalk OpenMeansRunning RuntimeDies BusyIsPassing
    GrantedIsQuiet CallsAreFinished AnsweredOnce BundleIsAsAsked DaemonsAreOne ExitIsTrue
CHECK_DEADLOCK FALSE
