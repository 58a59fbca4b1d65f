CONSTANTS
    MaxBytes = 6
    MaxLen = 3
    SocketSize = 2
SPECIFICATION Spec
CHECK_DEADLOCK FALSE
INVARIANT NothingDropped
