SPECIFICATION Spec
CONSTANTS
    Tx <- MCTx
    Item <- MCItem
    Hash <- MCHash
    Candidates <- MCCandidates
    MaxHeight = 4
    MaxUndo = 2
    MaxEntries = 4
    MaxTimes = 7
INVARIANTS ObjectsAreListed ChildrenAreListed LookupsFollowChain
CHECK_DEADLOCK FALSE
