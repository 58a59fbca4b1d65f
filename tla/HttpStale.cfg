CONSTANTS
    Request <- MCRequest
    Message <- MCSent
    MaxMessages = 2
SPECIFICATION Spec
CHECK_DEADLOCK FALSE
INVARIANT BodyIsParsed
