SPECIFICATION Spec
CONSTANTS
    Mutators = {t1}
    Master = Master
    Controller = Controller
    NoThread = NoThread
    MaxCollections = 1
INVARIANTS
    AssertionsHold
CHECK_DEADLOCK FALSE
