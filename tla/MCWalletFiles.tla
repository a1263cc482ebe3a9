---------------------------- MODULE MCWalletFiles ----------------------------
(* Two addresses that share a file of the index; mined and staked coins,    *)
(* payments, an object that changes hands.                                  *)
EXTENDS WalletFiles

CONSTANTS A, B, c1, c2, p1, p2, n1, s1, o1, o2, r1, r2

Coin(a) == [kind |-> "coin", to |-> a, obj |-> c1]
Object(a, t) == [kind |-> "obj", to |-> a, obj |-> t]
Null == [kind |-> "null", to |-> A, obj |-> c1]

MCTxs == {c1, c2, p1, p2, n1, s1, o1, o2}
MCIns == [t \in MCTxs |->
    CASE t = c1 -> {} [] t = c2 -> {}
      [] t = p1 -> {<<c1, 1>>} [] t = p2 -> {<<p1, 2>>}
      [] t = n1 -> {} [] t = s1 -> {<<c2, 1>>}
      [] t = o1 -> {<<c2, 1>>} [] t = o2 -> {<<o1, 1>>, <<c1, 1>>}]
MCOuts == [t \in MCTxs |->
    CASE t = c1 -> <<Coin(A)>> [] t = c2 -> <<Coin(A)>>
      [] t = p1 -> <<Coin(B), Coin(A)>> [] t = p2 -> <<Coin(B)>>
      [] t = n1 -> <<Null>> [] t = s1 -> <<Null, Coin(A), Coin(A)>>
      [] t = o1 -> <<Object(A, o1)>> [] t = o2 -> <<Object(B, o1)>>]
MCStakes == {s1}
MCFirst == [t \in MCStakes |-> <<c2, 1>>]
MCSuffix == [a \in Addrs |-> "xy"]
\* Blocks come and go; the main loop scans.
Books == [offered |-> {<<c1>>, <<c2>>, <<p1>>, <<p1, p2>>, <<p2>>, <<n1, s1>>, <<o1>>, <<o2>>},
          scanners |-> {}, blocks |-> 4, removals |-> 2]
\* Two RPC threads scan as well, while coins are mined, paid and staked.
Rescans == [offered |-> {<<c1>>, <<p1>>, <<p1, p2>>, <<c2>>, <<n1, s1>>},
            scanners |-> {r1, r2}, blocks |-> 3, removals |-> 0]
\* One thread scans while blocks are removed.
Returns == [offered |-> {<<c1>>, <<p1>>, <<p1, p2>>, <<c2>>, <<n1, s1>>},
            scanners |-> {r1}, blocks |-> 2, removals |-> 1]
MCUses == {Books, Rescans, Returns}
\* The instance is one the theorem about the lists speaks of.
ASSUME ObjectsAssumption == ObjectsMove

=============================================================================
