SPECIFICATION Spec
CONSTANTS
    Copies <- MCCopies
    Deleted <- MCDeleted
    MaxTable = 2
INVARIANTS
    RedundantIsKept
