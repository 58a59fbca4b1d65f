CONSTANTS
    Conn = {c1, c2}
    Fd = {f1}
    NumSub = 1
    Http = TRUE
    Urgent = {c1}
    None = None
SPECIFICATION Spec
CHECK_DEADLOCK FALSE
INVARIANTS
    TypeOK
    NoDanglingChannel
    RegisteredIsHeld
PROPERTIES
    EntryOutlivesConnection
    ClosedIsReleased
