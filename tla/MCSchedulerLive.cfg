SPECIFICATION Spec
CONSTANTS
    idle0 = idle0
    idle1 = idle1
    w1 = w1
    w2 = w2
    w3 = w3
    NoTask = NoTask
    Cpus = {0, 1}
    Idle <- MCIdle
    Workers = {w1, w2}
    LoopCpu <- NoLoop
    FlushByIpi = FALSE
PROPERTIES
    RunnableRuns
    MigrationCompletes
