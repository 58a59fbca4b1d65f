CONSTANTS
    Conn = {c1, c2}
    Fd = {f1, f2}
    NumSub = 2
    Http = FALSE
    Urgent = {c1}
    None = None
SPECIFICATION StartSpec
CHECK_DEADLOCK FALSE
INVARIANTS
    EventHasInput
    RemovedOnce
    LoopsAreBuilt
PROPERTIES
    PeerCloseIsSeen
    StartEnds
