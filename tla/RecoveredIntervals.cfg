SPECIFICATION FairSpec
CONSTANTS
    DeviceBlocks = 7
    Requests <- MCRequests
    InitialCapacity = 1
INVARIANTS
    TypeOK
    Canonical
    StatsExact
PROPERTIES
    IsBlockSet
    CallsReturn
    CallsAdvance
