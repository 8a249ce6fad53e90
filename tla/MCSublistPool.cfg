SPECIFICATION FairSpec
CONSTANTS
    Threads = {m, s}
    Master = m
    Objects = {a, b, c}
    None = None
    FragmentSize = 2
    GrowSize = 3
    MaxPuddles = 2
    MaxCycles = 2
INVARIANTS
    RememberedConserved
    PoolInv
    PruneExact
PROPERTIES
    ScavengeEnds
\* The bounds on collections and objects are reached.
CHECK_DEADLOCK FALSE
