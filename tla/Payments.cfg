CONSTANTS
    a = a
    b = b
    c = c
    r1 = r1
    r2 = r2
    Main = main
    Rpc = {r1, r2}
    Coins <- MCCoins
    Amount <- MCAmount
    Asked = {2}
    LockTime = 0
    MaxTxs = 2
    Uses <- MCUses
SPECIFICATION Spec
INVARIANTS
    TypeOK
    CoinsUsedOnce
    MempoolIsAlone
SYMMETRY Alike
CHECK_DEADLOCK FALSE
