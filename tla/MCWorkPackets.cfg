SPECIFICATION FairSpec
CONSTANTS
    Threads = {m, s}
    Master = m
    NoThread = NoThread
    NoPacket = NoPacket
    HeapTop = 12
    Refs <- MCRefs
    Roots <- MCRoots
    Slots = 3
    FullPacketThreshold = 2
    SatisfactoryCapacity = 2
    MaxPacketSearch = 20
    InitialPackets = 4
    PacketsPerBlock = 1
    MaxPackets = 5
INVARIANTS
    PacketInv
    MarkingComplete
PROPERTIES
    TerminationSound
    MarkingEnds
\* The task ends; that nothing stops it before is MarkingEnds.
CHECK_DEADLOCK FALSE
