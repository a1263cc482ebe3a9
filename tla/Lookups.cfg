SPECIFICATION FairSpec
CONSTANTS
    Main = main
    Rpc = {rpc}
    Hash = {1, 2, 3}
    MaxBlocks = 3
    MaxRemovals = 1
INVARIANTS
    SortedAtRest
    SearchSeesWhole
    SearchIsRight
PROPERTIES
    LockIsLeft
