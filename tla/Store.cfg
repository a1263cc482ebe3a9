SPECIFICATION Spec
CONSTANTS
    Tx <- MCTx
    Ins <- MCIns
    Outs <- MCOuts
    Candidates <- MCBlocks
    NullHash = "null_hash"
    AppRootDecl = "app_root_decl"
    AppRootHash = "app_root_hash"
    FFHash = "ff_hash"
    KeyRef = 0
    ObjSigned <- Signed
    AppFee = 2
    PowReward = 5
    Halving = 0
    PosReward = 1
    AmountMod = 64
    MaxHeight = 5
    MaxRecords = 6
INVARIANTS
    CoinUtxoExact
    ObjectHeldOnce
    AppsAreStored
    AcceptedCoinsAreThere
    CoinsBacked
    SupplyIsRebuilt
PROPERTIES
    GivesBackUnspent
    ImplementsLedger
CHECK_DEADLOCK FALSE
