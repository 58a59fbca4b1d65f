CONSTANTS
    Size = 3
    MaxLen = 2
    MaxBytes = 6
    NoBuffer = NoBuffer
    FlushInterval = 1
    FileMaximumSize = 4
    MaxNow = 5
SPECIFICATION LogSpec
CHECK_DEADLOCK FALSE
INVARIANTS
    TypeOK
    EnoughBuffers
    FlushedInTime
    OnDiskWhenEnded
PROPERTIES
    ImplementsLog
    EventuallyWritten
    StartReturns
    StopReturns
