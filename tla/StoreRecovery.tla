--------------------------- MODULE StoreRecovery ---------------------------
(***************************************************************************)
(* The block store of a node that may stop between any two writes to its   *)
(* files, and what the next start makes of them: block_check_last looks at *)
(* the last blocks of the index (block_adx/store.c), truncate_chain takes  *)
(* back the records behind the last good one (nodix/main.c), and           *)
(* block_load_index loads what is left; init_node (export/nodix.node)      *)
(* calls them in this order.                                               *)
(*                                                                         *)
(* A step of BlockStore writes several files one after the other: a stop   *)
(* leaves a prefix of these writes. Everything in memory is lost.          *)
(***************************************************************************)
EXTENDS BlockStore

CONSTANTS
    CheckNum,   \* checkNum: how many blocks the start looks at
    MaxStops    \* bound: how often the node stops

ASSUME RecoveryAssumption == CheckNum \in Nat \ {0} /\ MaxStops \in Nat

\* Objects and applications keep files of their own: the pool has coins only.
ASSUME CoinsOnly ==
    \A t \in Tx : \A r \in Refs(t) : r.src \notin {AppRootDecl, AppRootHash, FFHash}

VARIABLES
    times,    \* entries of the file "blk_times"
    mode,     \* "up", "down", or the step of the start that is next
    target,   \* the height truncate_chain was given by the start
    stops,    \* how often the node has stopped
    short,    \* the bytes of "blocks" behind its last whole record, as a sequence
              \* of at most one record
    torn      \* what a stop has left that the start does not see: "coins" that
              \* a block of the chain made or spent, a "record" that is short,
              \* "files" that do not agree

startVars == <<times, mode, target, stops, short, torn>>
lifeVars == <<vars, startVars>>

-----------------------------------------------------------------------------
(* While the node runs *)

\* Removing the last block takes what is behind its record with it.
Appends == Len(blocks') > Len(blocks) \/ Len(index') > Len(index)

Run ==
    /\ mode = "up"
    /\ Next
    /\ Appends => short = <<>>
    /\ times' = IF index' = index THEN times ELSE Len(index')
    /\ short' = IF Len(blocks') < Len(blocks) THEN <<>> ELSE short
    /\ UNCHANGED <<mode, target, stops, torn>>

\* A record of zeros, as long as any other.
Hole == <<>>

\* Behind a short record, store_block completes the record of the block it belongs
\* to with bytes of the new one, and what follows is short again ...
AcceptBehind ==
    /\ mode = "up" /\ short # <<>>
    /\ AcceptList
    /\ blocks' = Append(blocks, short[1])
    /\ short' = <<Hole>>
    /\ UNCHANGED <<times, mode, target, stops, torn>>

\* ... until store_blk_staking, which rewrites the end of the record behind the
\* last whole one, leaves zeros there and the length a multiple of 512.
SetLastBehind ==
    /\ mode = "up" /\ short # <<>>
    /\ SetLast
    /\ blocks' = Append(blocks, Hole)
    /\ short' = <<>>
    /\ times' = Len(index')
    /\ UNCHANGED <<mode, target, stops, torn>>

-----------------------------------------------------------------------------
(* Stops *)

\* What the main loop knew is gone.
ForgetAll ==
    /\ mode' = "down" /\ stops' = stops + 1
    /\ pc' = "idle" /\ cur' = <<>> /\ k' = 1 /\ pending' = {}
    /\ root' = {} /\ objs' = {} /\ minter' = None
    /\ target' = 0
    /\ UNCHANGED <<apps, hasRoot, failed>>

MayStop == mode # "down" /\ stops < MaxStops

\* A block is being checked, or the start has not got to the next record, or
\* the transactions of a block are removed and its record is not: no write is
\* half done.
StopIdle ==
    /\ MayStop
    /\ pc \in {"idle", "check"} \/ (pc = "remove" /\ pending = {})
    /\ ForgetAll
    /\ UNCHANGED <<chainVars, txIndex, utxo, times, short, torn>>

\* store_block had appended the record, and maybe the list of the hashes of the
\* block, but nothing yet of its next transaction.
StopBeforeTx ==
    /\ MayStop /\ pc = "store"
    /\ ForgetAll
    /\ UNCHANGED <<chainVars, txIndex, utxo, times, short, torn>>

\* store_block had written the transaction and its index; store_tx_inputs had
\* deleted the outputs of the first i inputs, and if it was through with them,
\* store_tx_outputs had written the outputs up to o.
StopInTx ==
    /\ MayStop /\ pc = "store" /\ k <= Len(cur)
    /\ LET t == cur[k] IN
         /\ Missing(t) = {}
         /\ txIndex' = txIndex \cup {t}
         /\ \E i \in 0 .. Len(Ins[t]), o \in 0 .. Len(Outs[t]) :
              /\ o > 0 => i = Len(Ins[t])
              /\ IsTxNull(t) => i = 0
              /\ utxo' = (utxo \ {Ins[t][j] : j \in {l \in Loaded(t) : l <= i}})
                             \cup {r \in StoredOuts(t) : r.idx <= o}
    /\ ForgetAll
    /\ UNCHANGED <<chainVars, times, short, torn>>

\* store_blk_staking was rewriting the end of the record: truncate_file had cut it
\* off and not yet appended the new one. A mined block has its reward by then.
StopInStaking ==
    /\ MayStop /\ pc = "store" /\ k > Len(cur)
    /\ IF short = <<>>
       THEN /\ blocks' = SubSeq(blocks, 1, Len(blocks) - 1)
            /\ short' = <<blocks[Len(blocks)]>>
       ELSE UNCHANGED <<blocks, short>>
    /\ supply' = IF IsStaked(cur) THEN supply ELSE supply + Reward(cur, BlockHeight)
    /\ torn' = torn \cup {"record"}
    /\ ForgetAll
    /\ UNCHANGED <<index, txIndex, utxo, times>>

\* add_new_block had added the reward, and store_blk_staking was done;
\* block_add_index, which node_set_last_block calls, appends to "blk_times" and
\* then to "blk_indexes".
StopBeforeIndex ==
    /\ MayStop /\ pc = "store" /\ k > Len(cur)
    /\ supply' = supply + Reward(cur, BlockHeight)
    /\ times' \in {times, times + 1}
    /\ blocks' = IF short = <<>> THEN blocks ELSE Append(blocks, Hole)
    /\ short' = <<>>
    /\ ForgetAll
    /\ UNCHANGED <<index, txIndex, utxo, torn>>

\* remove_tx was half way through a transaction: cancel_tx_outputs had deleted
\* its outputs up to o, and if it was through with them, cancel_tx_inputs had
\* written back the first i inputs. Its index is removed after that. When none
\* of the block has been removed before, block_check_last will find the block
\* in order.
StopInRemoval ==
    /\ MayStop /\ pending # {}
    /\ \E t \in pending \cap txIndex :
         \E o \in 0 .. Len(Outs[t]), i \in 0 .. Len(Ins[t]) :
            /\ i > 0 => o = Len(Outs[t])
            /\ utxo' = (utxo \ {r \in Cancelled(t) : r.idx <= o})
                           \cup (Restored(t) \cap {Ins[t][j] : j \in 1 .. i})
    /\ torn' = IF /\ Len(blocks) = Len(index)
                  /\ utxo' # utxo
                  /\ SeqRange(blocks[Len(blocks)]) \subseteq txIndex
               THEN torn \cup {"coins"} ELSE torn
    /\ ForgetAll
    /\ UNCHANGED <<chainVars, txIndex, times, short>>

\* node_remove_last_block was done, sub_moneysupply had not been called.
CutFiles ==
    /\ blocks' = SubSeq(blocks, 1, Len(blocks) - 1)
    /\ index' = SubSeq(index, 1, Min({Len(index), Len(blocks) - 1}))
    /\ times' = Min({times, Len(blocks) - 1})
    /\ short' = <<>>

StopBeforeSupply ==
    /\ MayStop /\ pc = "remove" /\ pending = {}
    /\ CutFiles
    /\ ForgetAll
    /\ UNCHANGED <<supply, txIndex, utxo, torn>>

-----------------------------------------------------------------------------
(* The next start *)

\* Mutant: a transaction is looked for, but not its block.
GoodSomeTx(n) ==
    /\ n < Len(blocks) /\ blocks[n + 1] = index[n + 1]
    /\ SeqRange(blocks[n + 1]) \cap txIndex # {}
\* The record at height n is the block of the index, and check_block_txs finds
\* each of its transactions in the index of transactions.
Good(n) ==
    /\ n < Len(blocks) /\ blocks[n + 1] = index[n + 1]
    /\ SeqRange(blocks[n + 1]) \subseteq txIndex

\* The shorter of the two files tells how many blocks there are.
CheckedHeight == IF Len(index) < times THEN Len(index) ELSE times

\* block_check_last looks at the heights FirstChecked to LastChecked - 1.
FirstChecked == IF CheckNum < CheckedHeight THEN CheckedHeight - CheckNum ELSE 1
LastChecked == Min({FirstChecked + CheckNum, CheckedHeight, Len(blocks)})

Goods == {n \in FirstChecked .. LastChecked - 1 : \A m \in FirstChecked .. n : Good(m)}

\* It answers the last good height, and init_node calls truncate_chain with it ...
CheckLast ==
    /\ mode = "down"
    /\ Goods # {}
    /\ target' = Max(Goods)
    /\ mode' = "cut"
    /\ UNCHANGED <<vars, times, stops, short, torn>>

\* ... or 0 when it could look at no block or the first one is not good: then
\* nothing is cut, whatever the files hold. The first one is not good when it is
\* the only one above the genesis block.
CheckFails ==
    /\ mode = "down"
    /\ Goods = {}
    /\ mode' = "load"
    /\ torn' = IF Len(blocks) # Len(index) \/ FirstChecked < LastChecked
               THEN torn \cup {"files"} ELSE torn
    /\ UNCHANGED <<vars, times, target, stops, short>>

\* truncate_chain counts the whole records of "blocks".
Behind == Len(blocks) - 1 > target

BeginCut ==
    /\ mode = "cut" /\ pc = "idle"
    /\ Behind
    /\ pc' = "remove"
    /\ cur' = blocks[Len(blocks)] /\ pending' = SeqRange(blocks[Len(blocks)])
    /\ UNCHANGED <<chainVars, stateVars, k, checkVars, failed, startVars>>

\* Mutant: what a transaction had spent is not given back.
CutUtxoKeep(t) == utxo \ Cancelled(t)
\* Mutant: what a transaction had made is not deleted.
CutUtxoAdd(t) == utxo \cup Restored(t)
CutUtxo(t) == (utxo \ Cancelled(t)) \cup Restored(t)

\* remove_tx as in BlockStore; a transaction load_tx does not find was never
\* stored, or is removed already.
CutTx(t) ==
    /\ mode = "cut" /\ pc = "remove" /\ t \in pending
    /\ pending' = pending \ {t}
    /\ txIndex' = txIndex \ {t}
    /\ utxo' = IF t \in txIndex THEN CutUtxo(t) ELSE utxo
    /\ UNCHANGED <<chainVars, apps, hasRoot, pc, cur, k, checkVars, failed, startVars>>

EndCut ==
    /\ mode = "cut" /\ pc = "remove" /\ pending = {}
    /\ CutFiles
    /\ supply' = supply - (IF cur = Hole THEN PosReward ELSE Reward(cur, Len(blocks) - 1))
    /\ pc' = "idle" /\ cur' = <<>>
    /\ UNCHANGED <<stateVars, k, checkVars, pending, failed, mode, target, stops, torn>>

CutDone ==
    /\ mode = "cut" /\ pc = "idle" /\ ~Behind
    /\ mode' = "load"
    /\ UNCHANGED <<vars, times, target, stops, short, torn>>

\* block_load_index wants as many times as hashes; it does not look at what "blocks"
\* has behind the chain, where the next block will be appended ...
LoadIndex ==
    /\ mode = "load" /\ Len(index) = times
    /\ mode' = "up"
    /\ torn' = IF short = <<>> THEN torn ELSE torn \cup {"files"}
    /\ UNCHANGED <<vars, times, target, stops, short>>

\* ... and loads no block at all otherwise ("block index size mistmatch").
LoadFails ==
    /\ mode = "load" /\ Len(index) # times
    /\ mode' = "lost"
    /\ UNCHANGED <<vars, times, target, stops, short, torn>>

-----------------------------------------------------------------------------

LifeInit ==
    /\ Init
    /\ times = 1 /\ mode = "up" /\ target = 0 /\ stops = 0
    /\ short = <<>> /\ torn = {}

LifeNext ==
    \/ Run \/ AcceptBehind \/ SetLastBehind
    \/ StopIdle \/ StopBeforeTx \/ StopInTx \/ StopInStaking \/ StopBeforeIndex
    \/ StopInRemoval \/ StopBeforeSupply
    \/ CheckLast \/ CheckFails
    \/ BeginCut \/ (\E t \in Tx : CutTx(t)) \/ EndCut \/ CutDone
    \/ LoadIndex \/ LoadFails

LifeSpec == LifeInit /\ [][LifeNext]_lifeVars

-----------------------------------------------------------------------------
(* Correctness *)

CoinsOf(txs) == {r \in UNION {Makes(t) : t \in txs} : \A s \in txs : r \notin Spends(s)}

HalfStored == UNION {SeqRange(short[i]) : i \in DOMAIN short}

\* A start that finds the chain of the index leaves the files as if the node had
\* never stopped: the index of transactions has those of the chain, and the
\* unspent outputs are the coins they made and did not spend, wherever
\* store_block, add_new_block, remove_tx or the cut of an earlier start was
\* interrupted. Only a record that store_blk_staking left short is not cut:
\* then the start leaves, besides the transactions of the chain, those of that
\* one block, complete, with the coins they made and without those they spent.
StartLeavesChain ==
    ~failed =>
        /\ (mode = "up" /\ pc = "idle" /\ torn = {}) =>
                txIndex = ChainTxs /\ {r \in utxo : Coin(r)} = ChainCoins
        /\ (mode = "load" /\ torn \subseteq {"record"}) =>
                /\ txIndex = ChainTxs \cup HalfStored
                /\ {r \in utxo : Coin(r)} = CoinsOf(txIndex)

\* When truncate_chain is done, every block block_load_index is going to load has
\* its record at its height and all its transactions in the index, also when a
\* stop in remove_tx has left the unspent outputs in between, or one in
\* store_blk_staking a short record behind them.
LoadedIsStored ==
    (mode = "cut" /\ pc = "idle" /\ ~Behind /\ "files" \notin torn /\ ~failed) =>
        \A h \in 2 .. Len(index) :
            /\ h <= Len(blocks) /\ blocks[h] = index[h]
            /\ SeqRange(index[h]) \subseteq txIndex

\* With stops between any two writes that leave no record short, the node is still
\* the ledger of the coins of its chain: a stop loses at most the block that was
\* being stored, a start takes a block off or leaves it with what it spends, and
\* no coin comes or goes otherwise.
LifeCoins == IF mode = "up" THEN LedgerCoins ELSE ChainCoins
LifeLedger ==
    INSTANCE CoinLedger WITH chain <- index, live <- LifeCoins, sound <- ~failed /\ torn = {}
SurvivesStops == LifeLedger!Spec

=============================================================================
