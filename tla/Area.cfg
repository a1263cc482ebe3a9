CONSTANTS
    Size = 8
    NZones = 3
    Unit = 2
    MaxFree = 6
    Requests = {1, 3, 4}
SPECIFICATION Spec
INVARIANTS
    ContentIsKept
    RoomForRequest
PROPERTIES
    ImplementsFreeBlocks
CHECK_DEADLOCK FALSE
