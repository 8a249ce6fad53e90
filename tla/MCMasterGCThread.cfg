SPECIFICATION FairSpec
CONSTANTS
    Mutators = {t1, t2}
    Master = Master
    Controller = Controller
    NoThread = NoThread
    MaxCollections = 6
INVARIANTS
    HandshakeInv
PROPERTIES
    CallsEnd
\* The bound on collections is reached.
CHECK_DEADLOCK FALSE
