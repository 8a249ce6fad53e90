SPECIFICATION FairSpec
CONSTANTS
    Threads = {t1, t2, t3, t4}
    Original = Original
    NoPlace = NoPlace
    Sizes = {3, 7, 17}
    DuplicateLimit = 3
    Alignment = 4
    MinIncrement = 4
    MaxOutstanding = 2
INVARIANTS
    OneDestination
    CopiedBeforeUse
    CopyInv
PROPERTIES
    ForwardingIsFinal
    AllReturn
\* The threads return.
CHECK_DEADLOCK FALSE
