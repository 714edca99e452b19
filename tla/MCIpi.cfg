SPECIFICATION Spec
CONSTANTS
    Cpus = {0, 1, 2}
    WordBits = 2
    USIZE = 8
    Workloads <- MCWorkloads
INVARIANTS
    BoardStable
    PendingExact
PROPERTIES
    ImplementsRemoteCall
CHECK_DEADLOCK FALSE
