SPECIFICATION Spec
CONSTANTS
    Callers = {t1, t2, t3}
    Servers = {}
    NoThread = NoThread
    SpinWakeControl = TRUE
    FastNotify = FALSE
    TryEnterSpin = TRUE
    MaxSpinThreads = 1
    MaxWakeThreads = 1
    MaxCount = 1
    MaxWaitNumber = 2
    Calls = {"enter", "enter_abortable"}
    InterruptKinds = {"ABORTED"}
SYMMETRY Symmetry
INVARIANTS
    NoStrandedThread
