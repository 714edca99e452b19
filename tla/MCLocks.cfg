SPECIFICATION MCSpec
CONSTANTS
    Threads = {t1, t2, t3}
    NoThread = NoThread
    MaxTicket = 4
    Contexts = {t1, t2}
    Parts = {a, b}
INVARIANTS
    TypesOK
    MutualExclusion
    WriterExclusion
    CountsExact
PROPERTIES
    ImplementsFifoLock
    SomeoneAcquires
CHECK_DEADLOCK FALSE
