CONSTANTS
    MaxBytes = 6
    MaxLen = 3
    SocketSize = 2
SPECIFICATION Spec
CHECK_DEADLOCK FALSE
INVARIANTS
    TypeOK
    NeverReordered
PROPERTY OutputLeaves
