SPECIFICATION Spec
CONSTANTS
    w1 = w1
    w2 = w2
    Workers = {w1, w2}
    RingSlots = 2
    ChunkBlocks = 2
    Start = 1
    End = 8
    Headers <- MCHeaders
    Bad = {3}
    Marks <- MCMarks
    CreateMayFail = FALSE
PROPERTIES
    EqualsSerialScan
