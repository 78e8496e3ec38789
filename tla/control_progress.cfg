CONSTANTS
    Take = {t1}
    Call = {a1}
    Cua = {c1}
    Slot = {x1, x2}
    Key = {k1}
    Button = {k1}
    QueueCap = 1
    RecentEnds = 2
    Agent = Agent
    None = None
    Faults = {}
    Closer = {p1, p2}
    DesktopSize = {"small", "large"}
    FirstSize = "small"
    MaxFrames = 1
    Tab = {"t1", "t2"}
    MaxInc = 2
    MaxSeq = 1
    MaxSlot = 2
SPECIFICATION ServedFair
CHECK_DEADLOCK FALSE
INVARIANTS PressedIsTracked GrantedHasNoCua SessionEndIsTold
PROPERTIES CuaAfterReleases ControlIsSettled SessionThreadsEnd PollsAreAnswered
