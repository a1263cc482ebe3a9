----------------------------- MODULE BlockStore -----------------------------
(***************************************************************************)
(* The block store of a node: how a block is checked against the unspent   *)
(* outputs (check_tx_list, block_adx/block.c), written to disk transaction *)
(* by transaction (store_block, block_adx/store.c), made the last block    *)
(* (add_new_block, nodix/main.c), and undone (truncate_chain, remove_tx).  *)
(*                                                                         *)
(* One main loop runs these handlers, so they do not interleave with each  *)
(* other; they are split into one step per transaction because the later   *)
(* transactions of a block see what the earlier ones left, and because a   *)
(* step may fail after the previous ones have already written their files. *)
(*                                                                         *)
(* A transaction is a model value; its inputs and outputs are constants.   *)
(* A script is abstracted to the kind of output it makes.                  *)
(***************************************************************************)
EXTENDS Integers, Sequences, FiniteSets, FiniteSetsExt

CONSTANTS
    Tx,           \* the transactions peers, wallets and miners may submit
    Ins,          \* Ins[t]: the inputs of t, records [src, idx]
    Outs,         \* Outs[t]: its outputs, records [kind, val, obj]
    Candidates,   \* the blocks (sequences of transactions) that may arrive
    NullHash,     \* source of a coinbase input
    AppRootDecl,  \* a coinbase input whose script says "AppRoot"
    AppRootHash,  \* app_root_hash: source of the input that names a new app
    FFHash,       \* ff_hash: source of an operand of a script expression
    KeyRef,       \* NODE_GFX_OBJECT used as output index: an object key
    ObjSigned,    \* transactions signed by the owner of their object input
    AppFee,       \* app_fee: least payment that creates an application
    PowReward,    \* pow_reward
    Halving,      \* reward_halving, 0 when the reward never halves
    PosReward,    \* the reward of a staked block
    AmountMod,    \* amounts are 64 bit words: 2^64
    MaxHeight,    \* bound: blocks on the chain after the genesis block
    MaxRecords    \* bound: records of the "blocks" file

None == "none"

OutKinds == {"null",   \* no amount and no script
             "coin",   \* an amount locked by an address
             "fee",    \* an amount paid to root_app_addr
             "root",   \* root of an application; val is its code, 1 to 5
             "item",   \* definition of a type, a file, a layout, a module
             "object", \* definition of an object
             "move",   \* object obj handed to an address
             "link",   \* key of a parent object and hash of its new child
             "func"}   \* a named operation or function

Specials == {NullHash, AppRootDecl, AppRootHash, FFHash}

OutRef == [src : Tx, idx : Nat]

ASSUME TxAssumption ==
    /\ Specials \cap Tx = {} /\ None \notin Tx
    /\ AppRootHash \notin {NullHash, AppRootDecl, FFHash}
    /\ KeyRef = 0
    /\ \A t \in Tx : /\ Ins[t] \in Seq([src : Tx \cup Specials, idx : Nat])
                     /\ Outs[t] \in Seq([kind : OutKinds, val : Nat, obj : Tx \cup {None}])
                     /\ Len(Ins[t]) > 0 /\ Len(Outs[t]) > 0

\* Hashes tell the transactions of a block apart, and no block is empty.
ASSUME CandidateAssumption ==
    \A b \in Candidates : /\ b \in Seq(Tx)
                          /\ Len(b) > 0
                          /\ \A i, j \in DOMAIN b : b[i] = b[j] => i = j

ASSUME BoundAssumption ==
    /\ MaxHeight \in Nat /\ MaxRecords \in Nat
    /\ PowReward \in Nat /\ PosReward \in Nat /\ Halving \in Nat
    /\ AppFee \in Nat /\ AmountMod \in Nat \ {0}

VARIABLES
    blocks,   \* file "blocks": one record per block stored, in order
    index,    \* files "blk_indexes" and "blk_times": the chain
    txIndex,  \* transactions in the index files txs/xx/yy
    utxo,     \* files utxos/xx/yy: the unspent outputs
    apps,     \* the applications, on disk and in the list apps
    hasRoot,  \* has_root_app
    supply,   \* the money supply
    pc,       \* what the main loop is doing
    cur,      \* the block it is doing it to
    k,        \* the next transaction of cur
    root,     \* blk_root: the outputs spent by the transactions checked
    objs,     \* blkobjs: transactions checked that make an object or function
    minter,   \* the coinbase or staking transaction checked, if any
    pending,  \* transactions of cur that are still to be removed
    failed    \* has store_block ever stopped half way

chainVars == <<blocks, index, supply>>
stateVars == <<txIndex, utxo, apps, hasRoot>>
checkVars == <<root, objs, minter>>
vars == <<chainVars, stateVars, pc, cur, k, checkVars, pending, failed>>

-----------------------------------------------------------------------------
(* Transactions *)

SeqRange(s) == {s[i] : i \in DOMAIN s}
Refs(t) == SeqRange(Ins[t])
OutRefs(t) == {[src |-> t, idx |-> i] : i \in DOMAIN Outs[t]}
Exists(r) == r.src \in Tx /\ r.idx \in DOMAIN Outs[r.src]
OutAt(r) == Outs[r.src][r.idx]

IsTxNull(t) == Len(Outs[t]) = 1 /\ Outs[t][1].kind = "null"

\* create_null_tx gives a null transaction nothing but a coinbase input.
ASSUME NullTxAssumption ==
    \A t \in Tx : IsTxNull(t) => \A r \in Refs(t) : r.src \notin Tx

IsAppRoot(t) == \E r \in Refs(t) : r.src = AppRootDecl
IsCoinbase(t) == \E r \in Refs(t) : r.src = NullHash
IsStaking(t) == Outs[t][1].kind = "null"
HasAppName(t) == \E r \in Refs(t) : r.src = AppRootHash

\* An output of an application by which its types, objects, ... are created.
TxIsAppItem(r) == r.src \in apps /\ Exists(r) /\ OutAt(r).kind = "root"

\* The transaction of an object: its first input is the object root of an app.
MakesObject(t) == TxIsAppItem(Ins[t][1]) /\ OutAt(Ins[t][1]).val = 2

\* How check_tx_inputs reads an input; "none" when it matches nothing.
InKind(r) ==
    CASE r.src \in {NullHash, AppRootDecl} -> "coinbase"
      [] r.src = FFHash -> "operand"
      [] r.src = AppRootHash /\ hasRoot -> "newapp"
      [] TxIsAppItem(r) -> "item"
      [] r.src \in txIndex \cup objs /\ r.idx \in {1, KeyRef} /\ MakesObject(r.src)
            -> IF r.idx = KeyRef THEN "key" ELSE "child"
      [] r.src \in txIndex \cup objs /\ Exists(r)
            -> IF OutAt(r).kind = "func" THEN "func" ELSE "spend"
      [] OTHER -> "none"

RefsOfKind(t, kinds) == {r \in Refs(t) : InKind(r) \in kinds}
IndexesOfKind(t, kinds) == {i \in DOMAIN Ins[t] : InKind(Ins[t][i]) \in kinds}

AppItems(t) == {OutAt(r).val : r \in RefsOfKind(t, {"item"})}

\* tx.appChildOf: the object named by the last input that is an object.
Parents(t) ==
    {Ins[t][i].src : i \in {j \in IndexesOfKind(t, {"child"}) :
                               \A m \in IndexesOfKind(t, {"child"}) : m <= j}}

IsNewChild(t) ==
    /\ Parents(t) # {} /\ ~HasAppName(t) /\ AppItems(t) = {}
    /\ Outs[t][1].kind = "link"

\* The object an input brings into the balance of its transaction.
ObjectsOf(r, t) ==
    CASE InKind(r) = "child" -> {r.src}
      [] InKind(r) = "spend" /\ OutAt(r).kind = "move" -> {OutAt(r).obj}
      [] InKind(r) = "item" /\ OutAt(r).val = 2 -> {t}
      [] OTHER -> {}

InObjs(t) == UNION {ObjectsOf(r, t) : r \in Refs(t)}

IsMoney(o) == o.kind \in {"coin", "fee"}
Amount(r) == IF Exists(r) /\ IsMoney(OutAt(r)) THEN OutAt(r).val ELSE 0

TotalIn(t) ==
    MapThenSumSet(LAMBDA i : Amount(Ins[t][i]), IndexesOfKind(t, {"spend"})) % AmountMod
TotalOut(t) ==
    MapThenSumSet(Amount, OutRefs(t)) % AmountMod
RootAmount(t) ==
    MapThenSumSet(LAMBDA i : Outs[t][i].val,
                  {i \in DOMAIN Outs[t] : Outs[t][i].kind = "fee"}) % AmountMod

-----------------------------------------------------------------------------
(* Blocks and rewards *)

Genesis == <<>>
Height == Len(index) - 1
BlockHeight == Len(index)   \* the value block_load_index gives it
ChainTxs == UNION {SeqRange(index[h]) : h \in DOMAIN index}

\* find_blk_staking_tx: a null transaction, then one whose first output is null.
IsStaked(b) ==
    /\ Len(b) > 1
    /\ IsTxNull(b[1])
    /\ Outs[b[2]][1].kind = "null"

GetBlockReward(h) ==
    IF Halving = 0 \/ h < Halving THEN PowReward
                                  ELSE PowReward \div (2 ^ (h \div Halving))

\* shr64 of a word is a word.
ASSUME RewardAssumption ==
    \A h \in 0 .. MaxHeight + MaxRecords + 1 : GetBlockReward(h) \in Nat

Reward(b, h) == IF IsStaked(b) THEN PosReward ELSE GetBlockReward(h)

Plain(t) == ~IsAppRoot(t) /\ ~IsStaking(t) /\ ~IsCoinbase(t)
Fee(t) == TotalIn(t) - TotalOut(t)
Fees(b) == MapThenSumSet(LAMBDA i : Fee(b[i]), {i \in DOMAIN b : Plain(b[i])}) % AmountMod
ListReward == IF minter = None THEN 0
                               ELSE (TotalOut(minter) - TotalIn(minter)) % AmountMod

-----------------------------------------------------------------------------
(* Checking a block *)

Receive(b) ==
    /\ pc = "idle"
    /\ Height < MaxHeight /\ Len(blocks) < MaxRecords
    /\ SeqRange(b) \cap ChainTxs = {}   \* hashes tell transactions apart
    /\ pc' = "check"
    /\ cur' = b
    /\ k' = IF IsTxNull(b[1]) THEN 2 ELSE 1
    /\ root' = {} /\ objs' = {} /\ minter' = None
    /\ UNCHANGED <<chainVars, stateVars, pending, failed>>

\* Mutant: the outputs spent earlier in the same block are not looked up.
CheckTxInputsNoRoot(t) ==
    /\ RefsOfKind(t, {"none"}) = {}
    /\ \A i \in IndexesOfKind(t, {"spend"}) : Ins[t][i] \in utxo
CheckTxInputs(t) ==
    /\ RefsOfKind(t, {"none"}) = {}
    /\ \A kind \in {"coinbase", "newapp", "item"} :
            Cardinality(IndexesOfKind(t, {kind})) <= 1
    /\ \A i \in IndexesOfKind(t, {"spend"}) :
            /\ Ins[t][i] \in utxo \ root
            /\ \A j \in DOMAIN Ins[t] : Ins[t][j] = Ins[t][i] => j = i
    /\ \A i, j \in DOMAIN Ins[t] :
            i # j => ObjectsOf(Ins[t][i], t) \cap ObjectsOf(Ins[t][j], t) = {}

CheckTxOutputs(t) ==
    LET first == Outs[t][1]
        codes == {o.val : o \in {p \in SeqRange(Outs[t]) : p.kind = "root"}}
        plain == {"null", "func"}
    IN CASE HasAppName(t)
              -> /\ codes = 1 .. 5
                 /\ \A o \in SeqRange(Outs[t]) : o.kind # "move"
         [] ~HasAppName(t) /\ AppItems(t) # {}
              -> 2 \in AppItems(t) => first.kind \in plain \cup {"object"}
         [] ~HasAppName(t) /\ AppItems(t) = {} /\ Parents(t) # {}
              -> /\ first.kind \in plain \cup {"move", "link"}
                 /\ first.kind = "move" => t \in ObjSigned
         [] OTHER -> TRUE

\* check_object_balance: only the transfer of an object by its first owner
\* puts an object in outobjs.
CheckObjectBalance(t) ==
    (Parents(t) # {} /\ Outs[t][1].kind = "move") => Outs[t][1].obj \in InObjs(t)

\* Mutant: what an ordinary transaction pays out is not compared with its inputs.
CheckRoleAnySum(t) == (IsStaking(t) \/ IsCoinbase(t)) => minter = None
CheckRole(t) ==
    CASE IsStaking(t) -> IsTxNull(cur[1]) /\ minter = None
      [] ~IsStaking(t) /\ IsCoinbase(t) -> ~IsTxNull(cur[1]) /\ minter = None
      [] OTHER -> TotalOut(t) <= TotalIn(t)

CheckAppFee(t) == HasAppName(t) => RootAmount(t) >= AppFee

\* One turn of the loop of check_tx_list on an ordinary transaction ...
CheckTx ==
    /\ pc = "check" /\ k <= Len(cur)
    /\ LET t == cur[k] IN
         /\ ~IsAppRoot(t)
         /\ CheckTxInputs(t)
         /\ CheckTxOutputs(t)
         /\ CheckRole(t)
         /\ CheckObjectBalance(t)
         /\ CheckAppFee(t)
         /\ root' = root \cup RefsOfKind(t, {"spend"})
         /\ objs' = IF \/ \E o \in SeqRange(Outs[t]) : o.kind = "func"
                       \/ Outs[t][1].kind = "object" /\ 2 \in AppItems(t)
                    THEN objs \cup {t} ELSE objs
         /\ minter' = IF IsStaking(t) \/ IsCoinbase(t) THEN t ELSE minter
    /\ k' = k + 1
    /\ UNCHANGED <<chainVars, stateVars, pc, cur, pending, failed>>

\* ... and on the root of the applications, which may be declared once.
CheckAppRoot ==
    /\ pc = "check" /\ k <= Len(cur)
    /\ IsAppRoot(cur[k]) /\ ~hasRoot
    /\ k' = k + 1
    /\ UNCHANGED <<chainVars, stateVars, pc, cur, checkVars, pending, failed>>

\* The checks above, or one of those the model leaves out (proof of work or of
\* stake, times, merkle root, signatures, scripts), refuse the block.
Reject ==
    /\ pc = "check"
    /\ pc' = "idle" /\ cur' = <<>> /\ k' = 1
    /\ root' = {} /\ objs' = {} /\ minter' = None
    /\ UNCHANGED <<chainVars, stateVars, pending, failed>>

\* The end of check_tx_list accepts the block; store_block appends its header.
AcceptList ==
    /\ pc = "check" /\ k > Len(cur)
    /\ ListReward <= Reward(cur, BlockHeight) + Fees(cur)
    /\ pc' = "store" /\ k' = 1
    /\ UNCHANGED <<index, supply, stateVars, cur, checkVars, pending, failed>>

Accept == AcceptList /\ blocks' = Append(blocks, cur)

-----------------------------------------------------------------------------
(* Storing a block *)

Storable(o) == o.kind \in {"coin", "fee", "object", "move"}

\* store_tx_outputs writes these; the creation of an item skips empty amounts.
StoredOuts(t) ==
    {r \in OutRefs(t) :
        /\ Storable(OutAt(r))
        /\ (AppItems(t) # {} /\ IsMoney(OutAt(r))) => OutAt(r).val > 0}

\* Mutant: the loop over the inputs stops one too early.
LoadedButLast(t) == {i \in DOMAIN Ins[t] \ {Len(Ins[t])} : InKind(Ins[t][i]) = "spend"}
\* Mutant: an object that is handed over is passed over like a parent.
LoadedNoObject(t) == {i \in DOMAIN Ins[t] : Ins[t][i].src \notin apps /\ InKind(Ins[t][i]) = "spend"}

\* The inputs for which store_tx_inputs loads and deletes an unspent output.
\* One whose source is an application is passed over, and so is the parent
\* object of a new child.
Loaded(t) ==
    {i \in DOMAIN Ins[t] :
        /\ Ins[t][i].src \notin apps
        /\ \/ InKind(Ins[t][i]) = "spend"
           \/ InKind(Ins[t][i]) = "child" /\ ~IsNewChild(t)}

Missing(t) == {i \in Loaded(t) : Ins[t][i] \notin utxo}

StoreTx ==
    /\ pc = "store" /\ k <= Len(cur)
    /\ LET t == cur[k] IN
         /\ ~IsTxNull(t) /\ ~IsAppRoot(t)
         /\ Missing(t) = {}
         /\ txIndex' = txIndex \cup {t}
         /\ utxo' = (utxo \ {Ins[t][i] : i \in Loaded(t)}) \cup StoredOuts(t)
         /\ apps' = IF HasAppName(t) THEN apps \cup {t} ELSE apps
    /\ k' = k + 1
    /\ UNCHANGED <<chainVars, hasRoot, pc, cur, checkVars, pending, failed>>

\* A null transaction and the root of the applications touch no output.
StoreNullTx ==
    /\ pc = "store" /\ k <= Len(cur)
    /\ LET t == cur[k] IN
         /\ IsTxNull(t) \/ IsAppRoot(t)
         /\ txIndex' = txIndex \cup {t}
         /\ hasRoot' = (hasRoot \/ ~IsTxNull(t))
    /\ k' = k + 1
    /\ UNCHANGED <<chainVars, utxo, apps, pc, cur, checkVars, pending, failed>>

\* An output to load is not there: store_block returns 0 and add_new_block
\* with it. What was written for the block so far stays.
StoreFails ==
    /\ pc = "store" /\ k <= Len(cur)
    /\ LET t == cur[k] IN
         /\ ~IsTxNull(t) /\ ~IsAppRoot(t)
         /\ Missing(t) # {}
         /\ txIndex' = txIndex \cup {t}
         /\ utxo' = utxo \ {Ins[t][i] : i \in {j \in Loaded(t) : \A m \in Missing(t) : j < m}}
    /\ failed' = TRUE
    /\ pc' = "idle" /\ cur' = <<>> /\ k' = 1
    /\ UNCHANGED <<chainVars, apps, hasRoot, checkVars, pending>>

\* The rest of add_new_block: the money supply, then the chain.
SetLast ==
    /\ pc = "store" /\ k > Len(cur)
    /\ supply' = supply + Reward(cur, BlockHeight)
    /\ index' = Append(index, cur)
    /\ pc' = "idle" /\ cur' = <<>> /\ k' = 1
    /\ UNCHANGED <<stateVars, checkVars, pending, failed>>

\* store_blk_staking has put the record back as long as store_block wrote it.
SetLastBlock == SetLast /\ UNCHANGED blocks

-----------------------------------------------------------------------------
(* Removing the last block *)

\* One turn of the loop of truncate_chain. It counts the records of "blocks";
\* while they agree with the chain, node_remove_last_block undoes the last one.
BeginRemove ==
    /\ pc = "idle"
    /\ Height > 0 /\ Len(blocks) = Len(index)
    /\ pc' = "remove"
    /\ cur' = index[Len(index)]
    /\ pending' = SeqRange(index[Len(index)])
    /\ UNCHANGED <<chainVars, stateVars, k, checkVars, failed>>

\* The flags remove_tx gives a transaction before it undoes its outputs.
WasItem(t) == TxIsAppItem(Ins[t][1])
WasChild(t) ==
    LET r == Ins[t][1]
    IN r.src \in txIndex /\ r.idx = 1 /\ TxIsAppItem(Ins[r.src][1])

\* cancel_tx_outputs deletes these: what has an amount, except a first output
\* it takes for a definition or for a link to a child.
Cancelled(t) ==
    {r \in OutRefs(t) :
        /\ IsMoney(OutAt(r)) => OutAt(r).val > 0
        /\ r.idx = 1 => CASE WasItem(t) -> OutAt(Ins[t][1]).val \notin {1, 3}
                          [] ~WasItem(t) /\ WasChild(t) -> OutAt(r).kind = "move"
                          [] OTHER -> TRUE}

\* Mutant: only the first input is written back.
RestoredFirst(t) == {r \in {Ins[t][1]} : Exists(r) /\ ~TxIsAppItem(r)}
\* Mutant: an object goes back to the transaction that made it.
RestoredMaker(t) ==
    {IF OutAt(r).kind = "move" THEN [src |-> OutAt(r).obj, idx |-> 1] ELSE r :
        r \in {q \in Refs(t) : Exists(q) /\ ~TxIsAppItem(q) /\ OutAt(q).kind # "link"}}

\* cancel_tx_inputs writes back every output it can still read.
Restored(t) ==
    {r \in Refs(t) : /\ r.src \in txIndex /\ Exists(r)
                     /\ ~TxIsAppItem(r)
                     /\ Storable(OutAt(r))}

\* Mutant: the list of applications keeps the one that is removed.
AppsAfterKept(t) == apps
\* remove_tx looks for the name of an application in the first input only.
AppsAfter(t) == IF Ins[t][1].src = AppRootHash /\ hasRoot THEN apps \ {t} ELSE apps

\* node_remove_last_block calls remove_tx for each transaction, in an order
\* only that module knows.
RemoveTx(t) ==
    /\ pc = "remove" /\ t \in pending
    /\ ~IsAppRoot(t)
    /\ pending' = pending \ {t}
    /\ txIndex' = txIndex \ {t}
    /\ utxo' = (utxo \ Cancelled(t)) \cup Restored(t)
    /\ apps' = AppsAfter(t)
    /\ UNCHANGED <<chainVars, hasRoot, pc, cur, k, checkVars, failed>>

RemoveAppRoot(t) ==
    /\ pc = "remove" /\ t \in pending
    /\ IsAppRoot(t)
    /\ pending' = pending \ {t}
    /\ txIndex' = txIndex \ {t}
    /\ hasRoot' = FALSE
    /\ UNCHANGED <<chainVars, utxo, apps, pc, cur, k, checkVars, failed>>

\* Mutant: the reward of a mined block is taken back whatever the block.
RemovedRewardMined == GetBlockReward(Height)
\* is_pow_block_at tells which reward the block had.
RemovedReward == Reward(cur, Height)

EndRemove ==
    /\ pc = "remove" /\ pending = {}
    /\ blocks' = SubSeq(blocks, 1, Len(blocks) - 1)
    /\ index' = SubSeq(index, 1, Len(index) - 1)
    /\ supply' = supply - RemovedReward
    /\ pc' = "idle" /\ cur' = <<>>
    /\ UNCHANGED <<stateVars, k, checkVars, pending, failed>>

-----------------------------------------------------------------------------

Init ==
    /\ blocks = <<Genesis>> /\ index = <<Genesis>> /\ supply = 0
    /\ txIndex = {} /\ utxo = {} /\ apps = {} /\ hasRoot = FALSE
    /\ pc = "idle" /\ cur = <<>> /\ k = 1
    /\ root = {} /\ objs = {} /\ minter = None
    /\ pending = {} /\ failed = FALSE

Next ==
    \/ \E b \in Candidates : Receive(b)
    \/ CheckTx \/ CheckAppRoot \/ Reject \/ Accept
    \/ StoreTx \/ StoreNullTx \/ StoreFails \/ SetLastBlock
    \/ BeginRemove
    \/ \E t \in Tx : RemoveTx(t) \/ RemoveAppRoot(t)
    \/ EndRemove

Spec == Init /\ [][Next]_vars

-----------------------------------------------------------------------------
(* Correctness *)

\* Every file and every variable of the main loop holds what its type says; the
\* unspent outputs name outputs of transactions, never the input of a coinbase.
TypeOK ==
    /\ blocks \in Seq(Seq(Tx)) /\ index \in Seq(Seq(Tx))
    /\ Height \in 0 .. MaxHeight /\ supply \in Int
    /\ txIndex \subseteq Tx /\ utxo \subseteq OutRef /\ apps \subseteq Tx
    /\ hasRoot \in BOOLEAN
    /\ pc \in {"idle", "check", "store", "remove"}
    /\ cur \in Seq(Tx) /\ k \in Nat \ {0}
    /\ root \subseteq OutRef /\ objs \subseteq Tx /\ minter \in Tx \cup {None}
    /\ pending \subseteq Tx
    /\ failed \in BOOLEAN

\* Applications, their items and their children follow rules of their own; the
\* coins below are the outputs with an amount of every other transaction.
UsesApp(t) == Ins[t][1].src \in Tx /\ HasAppName(Ins[t][1].src)
UsesObject(t) ==
    Ins[t][1].src \in Tx /\ Ins[t][1].idx = 1 /\ UsesApp(Ins[t][1].src)

Coin(r) ==
    /\ Exists(r)
    /\ IsMoney(OutAt(r)) /\ OutAt(r).val > 0
    /\ ~HasAppName(r.src) /\ ~IsAppRoot(r.src)
    /\ r.idx = 1 => ~UsesApp(r.src) /\ ~UsesObject(r.src)

Makes(t) == {r \in OutRefs(t) : Coin(r)}
Spends(t) == IF IsTxNull(t) \/ IsAppRoot(t) THEN {} ELSE {r \in Refs(t) : Coin(r)}

\* The unspent outputs on disk are, at every step, the coins made by the
\* transactions on disk and spent by none of them: what store_tx_inputs
\* deletes, cancel_tx_inputs writes back, and nothing else does.
CoinUtxoExact ==
    ~failed => \A t \in Tx : \A r \in Makes(t) :
                  r \in utxo <=> t \in txIndex /\ \A s \in txIndex : r \notin Spends(s)

\* No two transactions on disk spend the same coin, whichever blocks they came
\* in and whatever was removed in between: check_utxo stops a second spender of
\* a later block, blk_root one of the same block.
SpentOnce ==
    ~failed => \A s, t \in txIndex : s # t => Spends(s) \cap Spends(t) = {}

\* store_tx_inputs finds every coin that check_tx_inputs saw: a block that was
\* accepted never stops half way because of a coin.
AcceptedCoinsAreThere ==
    (~failed /\ pc = "store" /\ k <= Len(cur) /\ ~IsTxNull(cur[k]) /\ ~IsAppRoot(cur[k])) =>
        \A i \in Missing(cur[k]) : ~Coin(Ins[cur[k]][i])

\* Nobody can spend more than the money supply add_new_block accounts for.
CoinTotal == MapThenSumSet(Amount, {r \in utxo : Coin(r)})
CoinsBacked == (pc = "idle" /\ ~failed) => CoinTotal <= supply

\* Where it does not depend on what the code leaves to its users: the amounts a
\* submitted transaction brings in are coins (those of an application can be
\* spent again), and what it pays fits in the word check_tx_outputs adds it up in.
Submitted == UNION {SeqRange(b) : b \in Candidates}
OnlyCoinsPay == \A t \in Submitted : \A r \in Refs(t) : Amount(r) > 0 => Coin(r)
PaidOut(t) == MapThenSumSet(Amount, OutRefs(t))
NoOverflow == \A t \in Submitted : PaidOut(t) < AmountMod

\* The money supply is the sum of the rewards of the blocks on the chain, which
\* rebuild_money_supply recomputes (it adds the genesis block): a block that was
\* removed, mined or staked, has taken its own reward back.
RebuiltSupply ==
    MapThenSumSet(LAMBDA h : Reward(index[h], h - 1), 2 .. Len(index))
SupplyIsRebuilt == ~failed => supply = RebuiltSupply

\* The list of applications is that of the transactions on disk, also after
\* some of them were removed (store_new_app, remove_tx).
AppsAreStored == ~failed => apps = {t \in txIndex : HasAppName(t)}

\* Where remove_tx, which looks at the first input only, tells an application from
\* other transactions; its transaction does not declare their root as well.
AppsNamedFirst ==
    \A t \in Submitted :
        /\ HasAppName(t) => Ins[t][1].src = AppRootHash /\ ~IsAppRoot(t) /\ ~IsTxNull(t)
        /\ IsTxNull(t) => ~IsAppRoot(t)

\* An object has at most one holder: its transfer deletes the output that gave
\* it to the previous one.
Holders(t) == {r \in utxo : \/ r.src = t /\ OutAt(r).kind = "object"
                            \/ OutAt(r).kind = "move" /\ OutAt(r).obj = t}
ObjectHeldOnce == ~failed => \A t \in Tx : Cardinality(Holders(t)) <= 1

\* "load the transaction with the spent output", "rewrite the original tx out"
\* (cancel_tx_inputs): removing a transaction gives back an output only if none
\* of those that stay has spent it.
TakenBy(t) == IF IsTxNull(t) \/ IsAppRoot(t) THEN {} ELSE {Ins[t][i] : i \in Loaded(t)}
GivesBackUnspent ==
    [][pc = "remove" => \A r \in utxo' \ utxo : \A t \in txIndex' : r \notin TakenBy(t)]_vars

-----------------------------------------------------------------------------
(* What the store is for: the ledger of the coins of the chain *)

ChainCoins ==
    {r \in UNION {Makes(t) : t \in ChainTxs} : \A s \in ChainTxs : r \notin Spends(s)}

LedgerCoins ==
    IF pc \in {"idle", "check"} THEN {r \in utxo : Coin(r)} ELSE ChainCoins

Ledger == INSTANCE CoinLedger WITH chain <- index, live <- LedgerCoins, sound <- ~failed
\* Storing a block transaction by transaction, and removing one in any order,
\* has the effect of one step of the ledger: the unspent outputs after
\* SetLastBlock or EndRemove are those of the chain, and a block got in only if
\* its coins were live.
ImplementsLedger == Ledger!Spec

=============================================================================
