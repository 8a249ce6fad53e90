SPECIFICATION Spec
CONSTANTS
    Callers = {t1, t2}
    Servers = {s1}
    NoThread = NoThread
    SpinWakeControl = FALSE
    FastNotify = FALSE
    TryEnterSpin = TRUE
    MaxSpinThreads = 1
    MaxWakeThreads = 1
    MaxCount = 2
    MaxWaitNumber = 2
    Calls = {"enter", "enter_abortable", "wait_abortable", "wait_interruptable", "notify"}
    InterruptKinds = {"INTERRUPTED", "ABORTED"}
SYMMETRY Symmetry
INVARIANTS
    NoStrandedThread
PROPERTIES
    ImplementsMonitor
CHECK_DEADLOCK FALSE
