SPECIFICATION Spec
CONSTANTS
    Rpc = {t1, t2}
    Main = main
    Uses <- MiningUses
    MaxBlocks = 5
    MaxCalls = 2
SYMMETRY Symmetry
CHECK_DEADLOCK FALSE
INVARIANTS
    TypeOK
    Awaited
    NoBlockTwice
    WorkIsFresh
