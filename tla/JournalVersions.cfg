SPECIFICATION Spec
CONSTANTS
    Copies <- MCCopies
    Deleted <- MCDeleted
    MaxTable = 2
INVARIANTS
    TypeOK
    NewestLiveWins
    LargestArtifactWins
PROPERTIES
    LiveStays
