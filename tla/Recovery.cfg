SPECIFICATION LifeSpec
CONSTANTS
    Tx <- MCTx
    Ins <- MCIns
    Outs <- MCOuts
    Candidates <- MCBlocks
    NullHash = "null_hash"
    AppRootDecl = "app_root_decl"
    AppRootHash = "app_root_hash"
    FFHash = "ff_hash"
    KeyRef = 0
    ObjSigned = {}
    AppFee = 2
    PowReward = 5
    Halving = 0
    PosReward = 1
    AmountMod = 64
    MaxHeight = 4
    MaxRecords = 5
    CheckNum = 2
    MaxStops = 2
INVARIANTS
    StartLeavesChain
    LoadedIsStored
PROPERTIES
    SurvivesStops
CHECK_DEADLOCK FALSE
