-------------------------- MODULE MCStoreRecovery --------------------------
(* A few coins for a store that stops: mined rewards, payments that compete *)
(* for one of them, one that spends an output of its own block, a stake.    *)
EXTENDS StoreRecovery

In(s, i) == [src |-> s, idx |-> i]
Coins(v) == [kind |-> "coin", val |-> v, obj |-> None]
Null == [kind |-> "null", val |-> 0, obj |-> None]

MCIns == [
    cb1 |-> <<In(NullHash, 0)>>,
    cb2 |-> <<In(NullHash, 0)>>,
    pay |-> <<In("cb1", 1)>>,
    alt |-> <<In("cb1", 1)>>,
    mix |-> <<In("pay", 1), In("cb2", 1)>>,
    null |-> <<In(NullHash, 0)>>,
    stake |-> <<In("pay", 2)>>]

MCOuts == [
    cb1 |-> <<Coins(5)>>,
    cb2 |-> <<Coins(5)>>,
    pay |-> <<Coins(2), Coins(3)>>,
    alt |-> <<Coins(5)>>,
    mix |-> <<Coins(7)>>,
    null |-> <<Null>>,
    stake |-> <<Null, Coins(4)>>]

MCTx == DOMAIN MCIns

MCBlocks ==
    {<<"cb1">>, <<"cb1", "pay">>, <<"cb2">>, <<"cb2", "pay">>, <<"cb2", "alt">>,
     <<"pay">>, <<"pay", "mix">>, <<"mix">>, <<"null", "stake">>, <<"null", "stake", "mix">>}

=============================================================================
