SPECIFICATION FairSpec
CONSTANTS
    Callers = {t1, t2, t3}
    Servers = {}
    NoThread = NoThread
    SpinWakeControl = FALSE
    FastNotify = FALSE
    TryEnterSpin = TRUE
    MaxSpinThreads = 1
    MaxWakeThreads = 1
    MaxCount = 1
    MaxWaitNumber = 2
    Calls = {"enter", "try_enter"}
    InterruptKinds = {}
PROPERTIES
    EntriesComplete
