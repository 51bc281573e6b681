SPECIFICATION FairSpec
CONSTANTS
    JournalStart = 1
    JournalLen = 9
    TotalBlocks = 8
    GroupTables <- MCGroupTables
    InodesPerGroup = 3
    InodesPerBlock = 2
    Children <- MCChildren
    InitialCap = 2
    Images <- MCImages
INVARIANTS
    TypeOK
    CopiesGenuine
    InodesGenuine
    IndexComplete
    SortedReadsNewest
PROPERTIES
    WalkEnds
    WalkAdvances
