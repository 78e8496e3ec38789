CONSTANTS
    Take = {t1, t2}
    Call = {a1}
    Cua = {}
    Slot = {x1, x2}
    Key = {k1, k2}
    Button = {k1}
    QueueCap = 1
    RecentEnds = 2
    Agent = Agent
    None = None
    Faults = {"timeout", "cancel", "loopend"}
SPECIFICATION HandoverSpec
CHECK_DEADLOCK FALSE
SYMMETRY Symmetry
INVARIANTS TypeOK HandoverInv LossIsKnown OneControllerPresses
