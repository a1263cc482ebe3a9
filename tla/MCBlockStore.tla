---------------------------- MODULE MCBlockStore ----------------------------
(* Small pools of transactions for the block store, and the blocks they make. *)
EXTENDS BlockStore, TLC

In(s, i) == [src |-> s, idx |-> i]
Coins(v) == [kind |-> "coin", val |-> v, obj |-> None]
FeeOut(v) == [kind |-> "fee", val |-> v, obj |-> None]
Root(c) == [kind |-> "root", val |-> c, obj |-> None]
Of(x) == [kind |-> x, val |-> 0, obj |-> None]
Move(o) == [kind |-> "move", val |-> 0, obj |-> o]

\* Blocks of at most n transactions, the first one in heads, the others in tails.
BlocksOf(heads, tails, n) ==
    {b \in UNION {[1 .. m -> heads \cup tails] : m \in 1 .. n} :
        /\ b[1] \in heads
        /\ \A i \in 2 .. Len(b) : b[i] \in tails
        /\ \A i, j \in 1 .. Len(b) : b[i] = b[j] => i = j}

-----------------------------------------------------------------------------
(* Coins: two mined rewards, payments that compete for them, a fee that a *)
(* coinbase takes, and a block staked with one of the coins.              *)

CoinIns == [
    cb1 |-> <<In(NullHash, 0)>>,
    cb2 |-> <<In(NullHash, 0)>>,
    cb3 |-> <<In(NullHash, 0)>>,
    pay |-> <<In("cb1", 1)>>,
    alt |-> <<In("cb1", 1)>>,
    mix |-> <<In("pay", 1), In("cb2", 1)>>,
    low |-> <<In("pay", 2)>>,
    over |-> <<In("low", 1)>>,
    null |-> <<In(NullHash, 0)>>,
    stake |-> <<In("cb3", 1)>>]

CoinOuts == [
    cb1 |-> <<Coins(5)>>,
    cb2 |-> <<Coins(6)>>,
    cb3 |-> <<Coins(4)>>,
    pay |-> <<Coins(2), Coins(2)>>,
    alt |-> <<Coins(5)>>,
    mix |-> <<Coins(8)>>,
    low |-> <<Coins(1), Coins(0)>>,
    over |-> <<Coins(30)>>,
    null |-> <<Of("null")>>,
    stake |-> <<Of("null"), Coins(6)>>]

CoinBlocks ==
    BlocksOf({"cb1", "cb2", "cb3", "pay", "alt", "mix", "low", "over"},
             {"cb3", "pay", "alt", "mix", "low", "over"}, 2)
        \cup {<<"cb2", "pay", "low">>, <<"cb3", "mix", "low">>, <<"cb1", "low", "over">>}
        \cup {<<"null", "stake">> \o b : b \in {<<>>, <<"pay">>, <<"mix">>, <<"low">>}}
-----------------------------------------------------------------------------
(* Applications: the declaration of their root, an application with its five *)
(* roots, its fee and some change, a type, objects that change hands, an     *)
(* object that becomes the child of another, a function.                     *)

AppIns == [
    decl |-> <<In(AppRootDecl, 0)>>,
    cb1 |-> <<In(NullHash, 0)>>,
    app |-> <<In(AppRootHash, 0), In("cb1", 1)>>,
    type |-> <<In("app", 1)>>,
    obj |-> <<In("app", 2)>>,
    hand |-> <<In("obj", 1)>>,
    hand2 |-> <<In("obj", 1)>>,
    sell |-> <<In("hand", 1)>>,
    kid |-> <<In("app", 2)>>,
    link |-> <<In("obj", 1)>>,
    func |-> <<In("cb1", 1)>>,
    call |-> <<In("func", 1), In(FFHash, 0), In("obj", KeyRef), In("func", 2)>>,
    use |-> <<In("app", 7)>>,
    use2 |-> <<In("app", 7)>>]

AppOuts == [
    decl |-> <<Coins(1)>>,
    cb1 |-> <<Coins(5)>>,
    app |-> [i \in 1 .. 5 |-> Root(i)] \o <<FeeOut(2), Coins(3)>>,
    type |-> <<Of("item")>>,
    obj |-> <<Of("object")>>,
    hand |-> <<Move("obj")>>,
    hand2 |-> <<Move("obj")>>,
    sell |-> <<Move("obj")>>,
    kid |-> <<Of("object")>>,
    link |-> <<Of("link")>>,
    func |-> <<Of("func"), Coins(5)>>,
    call |-> <<Coins(4)>>,
    use |-> <<Coins(3)>>,
    use2 |-> <<Coins(2)>>]

\* The two pools share the first mined reward.
MCTx == DOMAIN CoinIns \cup DOMAIN AppIns
MCIns == CoinIns @@ AppIns
MCOuts == CoinOuts @@ AppOuts
Signed == {"hand", "hand2", "link"}

\* An object is made and changes hands, in one block or in several.
ObjectBlocks ==
    {<<"decl">>, <<"cb1">>, <<"app">>, <<"decl", "cb1">>, <<"decl", "app">>}
        \cup BlocksOf({"obj", "hand", "hand2", "sell", "type"},
                      {"obj", "hand", "hand2", "sell", "kid"}, 2)
        \cup {<<"obj", "hand", "sell">>, <<"obj", "hand", "hand2">>, <<"kid", "obj", "type">>, <<"kid", "obj", "link">>}
        \cup {<<"func">>, <<"func", "obj">>, <<"call">>, <<"call", "hand">>}

MCBlocks == CoinBlocks \cup ObjectBlocks

\* The blocks of the run meet the hypotheses of CoinsAreBacked and AppsAreListed.
ASSUME PoolAssumption == OnlyCoinsPay /\ NoOverflow /\ AppsNamedFirst

=============================================================================
