---------------------------- MODULE MCWalletLocks ----------------------------
(* Three coins for two threads: payments that need one of them, two, or more *)
(* than is left.                                                             *)
EXTENDS WalletLocks, TLC

CONSTANTS a, b, c, r1, r2

MCCoins == {a, b, c}
MCAmount == a :> 1 @@ b :> 1 @@ c :> 2

Pay == {"maketxfrom", "submittx", "canceltx"}
MCUses == {[rpc |-> {r1, r2}, methods |-> Pay], [rpc |-> {r1}, methods |-> Pay \cup {"liststaking"}],
           [rpc |-> {r2}, methods |-> Pay \cup {"liststaking"}]}

\* The two threads do the same, and the two coins are worth the same.
Alike == Permutations({r1, r2}) \cup Permutations({a, b})

=============================================================================
