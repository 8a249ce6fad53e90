SPECIFICATION FairSpec
CONSTANTS
    Callers = {t1, t2, t3}
    Servers = {}
    NoThread = NoThread
    SpinWakeControl = TRUE
    FastNotify = TRUE
    TryEnterSpin = TRUE
    MaxSpinThreads = 1
    MaxWakeThreads = 1
    MaxCount = 1
    MaxWaitNumber = 4
    Calls = {"enter", "wait", "TIMER_SET", "notify", "notify_all"}
    InterruptKinds = {}
INVARIANTS
    FastNotifyInv
PROPERTIES
    EntriesComplete
\* All threads may wait with nobody left to notify them.
CHECK_DEADLOCK FALSE
