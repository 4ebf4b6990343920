\* Engine process: three workers, three tasks.
SPECIFICATION FairSpec
CONSTANTS
    Worker = {t1, t2, t3}
    MaxTasks = 3
CHECK_DEADLOCK FALSE
INVARIANTS
    TypeOK
    NothingRunsAfterMain
    NothingLeftBehind
PROPERTIES
    TasksRun
    ShutdownEnds
