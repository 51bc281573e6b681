SPECIFICATION FairSpec
CONSTANTS
    TotalBlocks = 14
    MaxEntries = 4
    MaxHeaderDepth = 3
    MaxTreeDepth = 3
    MaxCollected = 6
    InitMaxLen = 4
    NDirect = 2
    PerBlock = 2
    MaxInd = 7
    InodesCount = 7
    InitialCap = 2
    MaxMap = 3
    HashMin = 2
    ClaimChunk = 1
    FileNames <- MCFileNames
    Slashed <- MCSlashed
    MaxMishaps = 2
    Disks <- MCDisks
    Chunk = 2
    MaxChain = 3
    FirstIno = 2
INVARIANTS
    TypeOK
    LookupIsLatest
    OneOwnerPerName
    UninterruptedIsWhole
    JournalAtomic
    NoReusedBlocks
    NothingPassedOver
    NothingLost
    NoFragments
    IndirectPlaced
PROPERTIES
    OutputsKeepOwner
    RunEnds
    RunAdvances
