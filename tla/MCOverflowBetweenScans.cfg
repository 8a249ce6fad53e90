SPECIFICATION FairSpec
CONSTANTS
    Threads = {m, s}
    Master = m
    NoThread = NoThread
    NoPacket = NoPacket
    HeapTop = 5
    Refs <- LateRefs
    Roots <- LateRoots
    Slots = 1
    FullPacketThreshold = 2
    SatisfactoryCapacity = 2
    MaxPacketSearch = 20
    InitialPackets = 4
    PacketsPerBlock = 1
    MaxPackets = 4
PROPERTIES
    MarkingEnds
CHECK_DEADLOCK FALSE
