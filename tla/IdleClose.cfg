CONSTANTS
    t1 = t1
    t2 = t2
    t3 = t3
    c1 = c1
    None = None
    Timer <- MCTimer
    Conn = {c1}
    Delay = {0, 1, 2}
    Interval = {0, 2}
    AUTOCLOSETIMEOUT = 2
    MaxLag = 1
    MaxTime = 8
SPECIFICATION IdleSpec
CHECK_DEADLOCK FALSE
SYMMETRY MCSymmetry
INVARIANTS
    TypeOK
    ArmedForFirst
    Punctual
    
    OnePlace
    IdleTypeOK
    OneWatch
    IdleIsClosed
PROPERTIES
    ActiveStays
