----------------------------- MODULE MCNodeLoop -----------------------------
(***************************************************************************)
(* Instances of NodeLoop for TLC: one or two threads of the RPC service    *)
(* beside the main loop. Miner programs, wallets and programs that poll    *)
(* getwork call different methods and need different bounds.               *)
(***************************************************************************)
EXTENDS NodeLoop, TLC

\* Two threads submit mined blocks and staked ones; so does a peer.
Miners == [methods |-> {"submitblock", "stake"}, blocks |-> 3, peers |-> 1, calls |-> 1, shared |-> FALSE]
\* Wallets sign a block another one made, and sign twice.
Wallets == [methods |-> {"stake"}, blocks |-> 2, peers |-> 1, calls |-> 2, shared |-> TRUE]
Polls == [methods |-> {"getwork", "submitwork"}, blocks |-> 3, peers |-> 1, calls |-> 2, shared |-> FALSE]
\* A peer makes the node switch to another branch while programs poll getwork.
Branches == [methods |-> {"getwork"}, blocks |-> 5, peers |-> 4, calls |-> 2, shared |-> FALSE]
\* Every method, but no block of a peer.
Alone == [methods |-> AllMethods, blocks |-> 3, peers |-> 0, calls |-> 1, shared |-> FALSE]
\* One miner program and a peer.
Rivals == [methods |-> {"submitblock"}, blocks |-> 2, peers |-> 1, calls |-> 1, shared |-> FALSE]

MiningUses == {Miners, Wallets, Polls, Branches}
AloneUses == {Alone}
RivalUses == {Rivals}

Symmetry == Permutations(Rpc)
=============================================================================
