----------------------------- MODULE CoinLedger -----------------------------
(***************************************************************************)
(* What a block store promises of coins. A chain of blocks grows and       *)
(* shrinks at its end; a block may join it only if the coins its           *)
(* transactions spend are live and no two of them spend the same one; a    *)
(* block that leaves gives back exactly the coins it had spent.            *)
(* Once the store is no longer sound nothing is promised.                  *)
(***************************************************************************)
EXTENDS Integers, Sequences

CONSTANTS
    Tx,         \* transactions
    Candidates, \* blocks, sequences of transactions
    Genesis,    \* the first block
    Makes(_),   \* the coins a transaction makes
    Spends(_)   \* the coins a transaction spends

VARIABLES chain, live, sound

ledgerVars == <<chain, live, sound>>

Txs(b) == {b[i] : i \in DOMAIN b}
Made(b) == UNION {Makes(t) : t \in Txs(b)}
Spent(b) == UNION {Spends(t) : t \in Txs(b)}

Init == chain = <<Genesis>> /\ live = {} /\ sound = TRUE

Extend(b) ==
    /\ sound
    /\ chain' = Append(chain, b)
    /\ \A t \in Txs(b) : Spends(t) \subseteq live
    /\ \A i, j \in DOMAIN b : i # j => Spends(b[i]) \cap Spends(b[j]) = {}
    /\ live' = (live \ Spent(b)) \cup Made(b)
    /\ UNCHANGED sound

Retract ==
    /\ sound
    /\ Len(chain) > 1
    /\ chain' = SubSeq(chain, 1, Len(chain) - 1)
    /\ live' = (live \ Made(chain[Len(chain)])) \cup Spent(chain[Len(chain)])
    /\ UNCHANGED sound

Break == sound' = FALSE

Next == (\E b \in Candidates : Extend(b)) \/ Retract \/ Break

Spec == Init /\ [][Next]_ledgerVars
=============================================================================
