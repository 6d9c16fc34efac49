SPECIFICATION FairSpec
CONSTANTS
    Callers = {p1, p2}
    Nodes = {n1}
    Cells = {c1, c2}
    NoCell = NoCell
    NoTimer = NoTimer
    ChanCap = 1
    ShortDelay = 1
    LongDelay = 2
    MaxNotes = 3
    MaxInputs = 2
INVARIANTS
    NoLostWakeup
    WorkIsCarried
PROPERTIES
    EventuallyDrained
CHECK_DEADLOCK FALSE
