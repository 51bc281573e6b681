SPECIFICATION Spec
CONSTANTS
    Copies <- MCCopies
    Deleted <- MCDeleted
    MaxTable = 1
PROPERTIES
    LiveStays
