SPECIFICATION FairSpec
CONSTANTS
    Threads = {m, s1, s2, s3}
    Master = m
    NoThread = NoThread
    Program <- MCProgram
    Units = 2
INVARIANTS
    SynchronizationInv
    UnitsHandledOnce
    AssertionsHold
PROPERTIES
    TaskCompletes
