SPECIFICATION Spec
CONSTANTS
    Callers = {t1, t2}
    Servers = {s1}
    NoThread = NoThread
    SpinWakeControl = TRUE
    FastNotify = FALSE
    TryEnterSpin = TRUE
    MaxSpinThreads = 1
    MaxWakeThreads = 1
    MaxCount = 1
    MaxWaitNumber = 2
    Calls = {"enter", "wait_interruptable"}
    InterruptKinds = {"INTERRUPTED"}
SYMMETRY Symmetry
INVARIANTS
    InterruptNotLost
CHECK_DEADLOCK FALSE
