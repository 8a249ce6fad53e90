SPECIFICATION FairSpec
CONSTANTS
    Threads = {t1, t2, t3}
    NoThread = NoThread
    MaxDepth = 2
INVARIANTS
    WriterExcludesAll
    StatusAccountsForEntries
    NoLostWakeup
PROPERTIES
    CallsReturn
    ImplementsRWLock
