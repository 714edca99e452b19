SPECIFICATION Spec
CONSTANTS
    Cpus = {0, 1}
    WordBits = 2
    USIZE = 8
    Workloads <- RepeatWorkloads
PROPERTIES
    SendCompletes
CHECK_DEADLOCK FALSE
