SPECIFICATION FairSpec
CONSTANTS
    t1 = t1
    t2 = t2
    t3 = t3
    Threads = {t1, t2, t3}
    NoThread = NoThread
    SublistCount = 2
    SublistIndex <- MCSublistIndex
    Rounds = 2
    MaxCopies = 2
INVARIANTS
    ScanInv
PROPERTIES
    DoneMeansDone
    ScansEnd
\* The task ends; that nothing stops it before is ScansEnd.
CHECK_DEADLOCK FALSE
