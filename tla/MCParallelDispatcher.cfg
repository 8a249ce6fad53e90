SPECIFICATION FairSpec
CONSTANTS
    MaxThreads = 4
    MaxTasks = 2
    Forks = 1
INVARIANTS
    SlaveInfoAlive
    NobodyMissing
    ShutdownExact
PROPERTIES
    DyingIsFinal
    TasksAndShutdownEnd
