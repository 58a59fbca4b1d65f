CONSTANTS
    Task = {t1, t2, t3}
    Producer = {p1, p2}
SPECIFICATION Spec
INVARIANTS
    TypeOK
    NoLostWakeup
    HandleReadNonEmpty
PROPERTY ImplementsTaskQueue
