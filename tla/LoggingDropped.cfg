CONSTANTS
    Size = 3
    MaxLen = 2
    MaxBytes = 7
    NoBuffer = NoBuffer
SPECIFICATION Spec
CHECK_DEADLOCK FALSE
INVARIANT NothingLost
