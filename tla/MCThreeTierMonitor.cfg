SPECIFICATION Spec
CONSTANTS
    Callers = {t1, t2, t3}
    Servers = {}
    NoThread = NoThread
    SpinWakeControl = FALSE
    FastNotify = FALSE
    TryEnterSpin = TRUE
    MaxSpinThreads = 1
    MaxWakeThreads = 1
    MaxCount = 2
    MaxWaitNumber = 4
    Calls = {"enter", "try_enter", "wait", "TIMER_SET", "notify", "notify_all", "spurious"}
    InterruptKinds = {}
SYMMETRY Symmetry
INVARIANTS
    SpinlockHasOneHolder
    QueueInv
    NotifyReachesAWaiter
PROPERTIES
    ImplementsMonitor
CHECK_DEADLOCK FALSE
