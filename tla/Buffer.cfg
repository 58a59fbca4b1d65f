CONSTANTS
    Byte = {0, 1, 2}
    Zero = 0
    Message <- MCMessage
    PrependIndex = 2
    InitialSize = 5
    MaxInt = 8
SPECIFICATION Spec
INVARIANT TypeOK
PROPERTIES
    ImplementsByteQueue
    GrowsOnlyWhenFull
