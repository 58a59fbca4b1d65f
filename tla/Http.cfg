CONSTANTS
    Request <- MCRequest
    Message <- MCMessage
    MaxMessages = 2
SPECIFICATION Spec
CHECK_DEADLOCK FALSE
INVARIANTS
    TypeOK
    CompleteHasEmptyLine
    UnderstoodAsSent
