CONSTANTS
    A = A
    B = B
    c1 = c1
    c2 = c2
    p1 = p1
    p2 = p2
    n1 = n1
    s1 = s1
    o1 = o1
    o2 = o2
    r1 = r1
    r2 = r2
    Addrs = {A, B}
    Main = main
    Txs <- MCTxs
    Ins <- MCIns
    Outs <- MCOuts
    Stakes <- MCStakes
    First <- MCFirst
    Suffix <- MCSuffix
    Uses <- MCUses
    Rpc = {r1, r2}
    Page = 2
    MaxScans = 2
SPECIFICATION Spec
INVARIANTS
    TypeOK
    ListsFollowChain
    CoinsAreListed
    StakesFollowChain
CHECK_DEADLOCK FALSE
