# A verification project for the Nodix block chain node

TLA+ modules that model the core of the node, the TLC runs that check them on
small instances, and TLAPS proofs of the results that matter most. Every
definition is translated from the C source; the file and the lines it stands
for are in the `map` of `PROJECT.json`, the hazards each property is for in its
`hazards`.

Contents: 1 the system, 2 the plan and its status, 3 to 9 the modules with
their runs, 10 what is proved, 11 what is only model-checked, 12 known limits of
the code that the properties leave out, 13 what is not modelled.

## 1. The system

A node is one executable (`launcher`) that loads modules (`*.tpo`, built by
`mod_maker`) and runs `app_loop` of `nodix/main.c` over and over: empty the
trash and sweep the memory, accept connections, read the messages of the peers
and handle them, try to stake, process the blocks and transactions submitted
by wallets. One main thread does all this. The HTTP service that wallets talk
to has threads of its own (`export/nodix.node`: `"useThread": true`,
`"nthreads": 4`); they call the RPC methods, which read the same files and
arrays and put blocks into lists the main loop empties.

### 1.1 Inventory

| Part | Source | State it keeps | Operations | Correct when | Module |
|---|---|---|---|---|---|
| Block checks | `block_adx/block.c` | `blk_root`, `blkobjs`, the list `apps`, `has_root_app` | `check_tx_list`, `check_tx_inputs`, `check_tx_outputs`, `check_object_balance`, `get_blockreward` | what is accepted can be stored, spends nothing twice and creates no value | BlockStore |
| Block store | `block_adx/store.c` | the files `blocks`, `txs/xx/yy`, `utxos/xx/yy`, `adrs`, the money supply | `store_block`, `store_tx_inputs`, `store_tx_outputs`, `remove_tx`, `cancel_tx_inputs`, `cancel_tx_outputs` | the unspent outputs are those of the chain, also after blocks were undone | BlockStore |
| Chain control | `nodix/main.c` | `block_height`, `last_block`, supply | `add_new_block`, `truncate_chain`, `rebuild_money_supply` | supply and indexes follow the chain | BlockStore |
| Index of hashes | `block_adx/store.c`, `block_adx/block.c` | `blk_indexes`, `blk_times`; in memory `block_index_node`, `block_rindex_node`, `sort_lock` | `block_add_index`, `add_sorted_block`, `create_sorted_block_index`, `find_block_hash` | every block of the chain is found at its height, by any thread | HashIndex |
| Recovery | `block_adx/store.c` | the same files | `block_check_last`, `block_load_index`, `clear_tx_index` | after a stop the files that were being written agree again, but for the cases of 12 | StoreRecovery |
| Applications | `block_adx/app_store.c` | files of types, objects, indexes, child lists, files, layouts | `add_app_tx_type`, `add_obj_index`, `store_app_obj_child`, `store_app_obj_txfr`, `rm_obj`, `rm_child_obj`, `rm_file_from_index` | lookups answer what the chain says | AppStore, BlockStore |
| Main loop | `nodix/main.c`, `rpc_wallet/rpc_methods.c` | "submitted blocks", the mining lock, `next_block` | `handle_block`, `process_submitted_blocks`, `do_staking`, `getwork`, `submitblock`, `signstakeblock` | whoever waits for a block gets an answer, and a candidate follows the chain | NodeLoop |
| Wallet files | `wallet/wallet.c` | files unspent, spent, objects, sentobjs, stakes of each address | `store_wallet_tx`, `remove_wallet_tx`, `rescan_addr` | the lists are those of the chain | WalletFiles |
| Payments | `rpc_wallet/rpc_methods.c`, `wallet/wallet.c` | `locked_input`, `tmp_txs`, "submitted txs", mempool | `maketxfrom`, `submittx`, `canceltx`, `lock_unspent`, `wallet_clear_locked_inputs` | no coin is in two payments | WalletLocks |
| Allocator | `libcon/base/mem_base.c` | areas, zones, free blocks | `allocate_new_zone`, `free_zone_area`, `realloc_zone`, `expand_zone` | a cell belongs to one zone or one free block | ZoneArea, FreeBlocks |
| References | `libcon/base/mem_base.c` | `n_refs`, the trash of each area | `copy_zone_ref`, `release_zone_ref`, `dec_zone_ref`, `free_zone`, `empty_trash` | a zone is freed once, when nothing refers to it | ZoneRefs |
| Synchronisation | `nodix/main.c`, script `export/nodix.node` | per peer: `emitted_queue`, `synching`, `testing_chain`, `last_header_hash` | `process_nodes`, `process_node_messages`, `handle_block`, `handle_headers` | the longest chain wins and a message is handled once | none, see 13 |
| Rewards and targets | `block_adx/block.c` | `last_pow_block`, `reward_halving` | `calc_new_target`, `get_blockreward`, `SetCompact`, `mul_compact` | targets and rewards are those every node computes | rewards: BlockStore |
| Proof of stake | `stake_pos3/kernel.c`, `stake_pos2/kernel.c` | stake modifiers by block, last difficulty, stakes of an address | `compute_tx_pos`, `compute_blk_staking`, `check_tx_pos`, `store_blk_staking`, `store_tx_staking` | a stake is old enough and pays once | stakes: WalletFiles |
| Scripts | `block_adx/script.c` | none | parse, serialise, evaluate | only the owner's script unlocks an output | none |
| Protocol | `protocol_adx/protocol.c` | none | serialise and parse messages | encodings are inverse | none |
| Helpers | `libcon/mem_stream.c`, `strs.c`, `bintree.c`, `string.c` | none shared | | sequential | none |
| Loader, OS layer | `libcon/tpo_mod.c`, `launcher/main.c`, `libcon/unix` | loaded modules | load and link at start; files, sockets, threads | | none |
| Explorer, web | `block_explorer`, `anon_rpc`, `export/web` | none | read only | | none |
| Outside the repository | `node_adx`, `http_service`, `stratum_service`, the tree manager of `libbase` | the node tree, the mining and mempool locks | | modelled from how the code uses them | external entries of `map` |

### 1.2 How the parts interact

* The main loop calls the checks, the store, the index and the wallet one after
  the other; handlers never interleave with each other. What makes them hard is
  that a block is written transaction by transaction, that a failure in the
  middle leaves what was written, and that `truncate_chain` undoes blocks with
  code written separately from the code that stores them.
* The RPC threads share with the main loop the arrays of the index (under
  `sort_lock`, taken only by some of the code that writes them), the list of
  submitted blocks (under the mining lock, taken only by some of the code that
  uses it), the wallet's files (under a lock file per address, which only scans
  look at), the mempool and the locked coins (under `mempool_lck`) and every
  zone of memory (by reference counts).
* Peers answer in any order and any time; a block whose predecessor is unknown
  stays in the queue and is retried for 30 seconds.

### 1.3 What is hard

Steps that fail half way (the store), a check that is stale when used (outputs
looked up when a block is checked and deleted when it is stored), operations
that must be exact inverses (store and remove), unlocked reads next to locked
writes (the index), threads that wait for each other (submitted blocks), a scan
that runs beside the writer it repeats (the wallet), a coin handed from one
guard to the next (payments), files appended one after the other with a stop in
between, or rewritten by a cut and an append (recovery), references dropped by two threads at once (memory).

## 2. The plan and its status

| | Modules | Status |
|---|---|---|
| 1 | BlockStore with the abstract specification CoinLedger | checked, proved with the refinement |
| 2 | HashIndex | checked, proved |
| 3 | ZoneArea with the abstract specification FreeBlocks; ZoneRefs | checked, proved with the refinement |
| 4 | NodeLoop | checked; safety proved |
| 5 | StoreRecovery, over BlockStore and CoinLedger | checked, proved with the refinement |
| 6 | AppStore | checked |
| 7 | WalletFiles, WalletLocks | checked; safety proved |
| 8 | ChainSync, Difficulty, StakeKernel | not to be modelled faithfully: see 13 |

Composition: StoreRecovery extends BlockStore and runs its whole next-state
relation between stops; BlockStore and StoreRecovery both implement CoinLedger,
ZoneArea implements FreeBlocks. NodeLoop, WalletFiles and WalletLocks take the
store as what it promises in BlockStore: a block is added as a whole, or refused.

Several modules have a constant `Uses`: a set of records, each one a way the node
is used with the bounds it needs, of which `Init` chooses one. One run then
covers configurations that would be too large together, and a property
that holds for some of them names the ones it is about.

## 3. BlockStore and CoinLedger

### 3.1 State and actions

A transaction is a model value; its inputs `Ins[t]` (source and index) and
outputs `Outs[t]` (kind, amount, object) are constants, so a run is a pool of
transactions and a set of blocks that may arrive. A script is reduced to the
kind of output it makes.

| Module | Code |
|---|---|
| `blocks`, `index` | the file `blocks`; `blk_indexes` and `blk_times` |
| `txIndex`, `utxo`, `apps`, `hasRoot`, `supply` | `txs/xx/yy`, `utxos/xx/yy`, the applications, `has_root_app`, the money supply |
| `root`, `objs`, `minter` | `blk_root`, `blkobjs`, the coinbase or staking transaction seen |
| `pc`, `cur`, `k`, `pending` | where the main loop is: which block, which transaction |
| `Receive`, `CheckTx`, `CheckAppRoot`, `Reject`, `Accept` | `check_tx_list`, one turn of its loop per step |
| `StoreTx`, `StoreNullTx`, `StoreFails`, `SetLastBlock` | `store_block`, one transaction per step, then the rest of `add_new_block` |
| `BeginRemove`, `RemoveTx`, `RemoveAppRoot`, `EndRemove` | `truncate_chain`, `remove_tx` for each transaction |

`failed` is history: it records that `store_block` stopped half way. The
properties about coins are promised until then.

### 3.2 What is assumed

* Hashes identify transactions: a block with a transaction that is on the chain
  does not arrive (`Receive`), and a block has no transaction twice
  (`CandidateAssumption`).
* `node_remove_last_block` is not in the repository: it calls `remove_tx` for
  the transactions of the last block in any order, takes the block off
  the files and the supply back as `truncate_chain` does for it. It starts
  only when the last record of `blocks` is the last block of the chain.
* A null transaction has the inputs `create_null_tx` gives it
  (`NullTxAssumption`). No transaction has the hash that stands for "none", and the
  name of a new application is none of the other special hashes (`TxAssumption`).
* `Reject` may refuse any block: it stands for every test that is left out
  (proof of work and stake, times, merkle root, signatures, scripts).
* `reward_halving` is 0, the default (`block.c:231`), in the run; the proofs
  hold for every value. `truncate_chain` sets `block_height` to the
  position of the last block, `block_load_index` to the number of blocks; with a
  reward that never halves the two cannot be told apart.
* The genesis block adds no reward; `rebuild_money_supply` adds that of the
  genesis block, so the sum is taken over the other blocks.

### 3.3 Run `store`

24 transactions of two pools that share a mined reward: payments that compete
for one output, one that spends two outputs, a fee, an overspender, a staked block; the
root of the applications, an application with fee and change, a type, objects
that are handed over once or twice, children, a function. Blocks of up to three
transactions, 5 blocks on the chain, 6 records in `blocks`.

It checks that the unspent outputs are exact (`CoinUtxoExact`) and backed by
the money supply (`CoinsBacked`), that the supply is what
`rebuild_money_supply` would compute (`SupplyIsRebuilt`), that an accepted block finds
its coins when it is stored (`AcceptedCoinsAreThere`), that an object has one
holder (`ObjectHeldOnce`), that the applications in memory are those of the chain
(`AppsAreStored`), that removing a block only gives back what the
chain made and nobody spends (`GivesBackUnspent`), and that the store refines
the ledger (`ImplementsLedger`).

Five blocks are enough for a coin to be mined, split, merged and spent by a
staked block and for any suffix of that to be removed and replaced; two
transactions that compete, inside one block and over two, are all a double
spend needs. The model stops at these bounds, so the run does not check deadlock.

## 4. HashIndex

`hashes` is `block_index_node`, `rindex` is `block_rindex_node`, `lock` the set of
threads whose flag is set in `sort_lock`. Each read or write of an entry is a
step, and so are taking and leaving the lock.

| Module | Code |
|---|---|
| `AppendIndex`, `WriteHash` | `block_add_index`: the files, then the array |
| `Place`, `AddFirst`, `LockIndex`, `Shift`, `Insert` | `add_sorted_block`: its binary search, the wait for a free lock, one shifted entry per step, the new entry with the release |
| `Truncate`, `Identity`, `Swap`, `Sorted` | `truncate_chain`, then `create_sorted_block_index`: one entry per step, then `qsort_c` as exchanges of entries that are out of order |
| `Call`, `Acquire`, `Search`, `Release`, `ReadHeight`, `Return` | `find_block_hash`, with `aquire_lock_excl` and `release_lock_excl`; one call of `binarySearch` per step |

`Call` takes the bound of the search from the number of records in the file, as
`get_last_block_height` does, before the lock is taken. A thread of the RPC
service may make a call at any time after the genesis block; the main loop when it
is not changing the index. `torn` is history: who looked at the array while it
was made anew.

Outside the repository, and assumed: the tree manager answers a read outside
the array with "not found"; `qsort_c` only exchanges entries and ends when they
are in order; `node_remove_last_block` and the rewriting of the files are one
step (`Truncate`). `check_sorted_block_index`, which only looks and logs, is
not a step: its tests are the properties.

Run `lookups` (main loop, one RPC thread, 3 hashes, 3 blocks, one removal,
`FairSpec`): the array is sorted and complete at rest (`SortedAtRest`), nobody
searches it while it is shifted (`SearchSeesWhole`), a search that no removal
disturbed is right (`SearchIsRight`), and every thread clears its flag
again (`LockIsLeft`). Three blocks give a binary search with both halves and a
shift over one or two entries; lookups do not disturb each other, since they
only read, so one thread beside the main loop (which looks up too) shows all
the order there is, and the proofs are for any number.

Fairness is weak fairness of what a thread has begun: they are threads of the
operating system. Nobody has to add, remove or look up a block. That a writer
gets the lock is *not* claimed: it waits until all flags are clear at once, and
new readers may come forever.

## 5. StoreRecovery

Extends BlockStore with stops. A step of BlockStore writes several files one
after the other; each `Stop...` action leaves a prefix of the writes of one of
them, in the order of the code, and forgets everything in memory:

| Stop | Where it leaves the files |
|---|---|
| `StopIdle`, `StopBeforeTx` | nothing half done; a record without its next transaction |
| `StopInTx` | the outputs deleted and written so far by `store_tx_inputs` and `store_tx_outputs` |
| `StopInStaking` | `store_blk_staking` rewrites the end of the record: `truncate_file` has cut it off, the append has not come (`kernel.c:288`) |
| `StopBeforeIndex` | the supply added, the two appends of `block_add_index` not both done |
| `StopInRemoval`, `StopBeforeSupply` | a half-done `remove_tx`; the files cut but the supply not taken back |

The start is `CheckLast` or `CheckFails` (`block_check_last`), `BeginCut`,
`CutTx`, `EndCut`, `CutDone` (`truncate_chain`), `LoadIndex` or `LoadFails`
(`block_load_index`), in the order of `export/nodix.node:271`, and may itself be
stopped at any point.

`short` is what `StopInStaking` leaves: the bytes behind the last whole record of
`blocks`. `truncate_chain` counts whole records (`main.c:119`), so the start does not
cut it. A node that runs on appends behind it: `store_block` completes the short record with bytes of
the new block (`AcceptBehind`), and the new `store_blk_staking` leaves zeros behind
(`SetLastBehind`, `Hole`), after which records and chain are no longer in step.
`torn` is history: the set of what a stop has left that the start does not see,
"record" (a short one), "coins" (a half-done removal), "files" (that do not agree).

Run `recovery`: 7 transactions, coins only, 4 blocks, 5 records, two stops, `CheckNum = 2`
for `checkNum = 200` (`export/nodix.node:141`); with two checked blocks the last one is
checked or is the one the stop has torn, which is all that a larger number
repeats. `StartLeavesChain`: after a start the index of
transactions and the unspent outputs are those of the chain; after a stop that left a
record short they are those of the chain and of that one block, complete, and nothing else.
`LoadedIsStored`: every block that is going to be loaded is in `blocks` with all its
transactions, after any stop unless "files" is in `torn`. `SurvivesStops`: with stops
that leave nothing in `torn` the store is still a
CoinLedger, in which a stop loses at most the block that was being stored; with one that does,
the ledger is broken there, as it is after a failure of `store_block`.

Assumed of what is not in the repository: `node_check_block_index` is
`block_check_last`; the script cuts only when it answers 1;
`node_remove_last_block` calls `remove_tx` for each transaction and then cuts
the three files in one step; `node_set_last_block` calls `block_add_index`. A single
append or `put_file` is done or not done.

## 6. AppStore

The files of one application with one type: `types`, the `list` of the
objects, the four indexes by time, number, name and address with the transfers
(`index`), child lists (`kids`), the index of files (`datas`) and pages
(`layouts`; modules are kept the same way). `known` is the type in memory,
`held` the outputs that hold an object.

`Accept` begins a block that the checks of BlockStore let pass, the `Store...`
actions enter one transaction each as `store_block` does, the `Remove...`
actions take one out again as `remove_tx` does, in any order within the block
(`node_remove_last_block` is external), and a start loads the types. The
lookups (`get_app_type_obj_hashes`, `get_app_type_last_objs_hashes`,
`load_obj_childs`, `find_objs_by_addr`, `find_index_str`, `find_obj_txfr`,
`get_appfile_tx`) are operators on the files, as the RPC and the explorer see
them. An index is kept in the order the code's insertion makes of it (in that of addresses a
new entry goes behind its equals, `app_store.c:1541`), and an
entry is removed the way the code moves memory.

Run `apps`: 13 transactions, of which two objects have the same name; 4 blocks,
two removals. `ObjectsAreListed`: list and sorted indexes have the objects of
the chain, once and in order. `ChildrenAreListed`: child lists have what the
chain added. `LookupsFollowChain`: names, holders, transfers, files and pages
are found as the chain has them, and a name is unique. The code loses entries
in known cases (12); `spoilt` records which index is no longer
claimed to follow the chain and why. `MaxEntries` is 4 because from five entries on
the code moves memory beyond its buffer, `MaxTimes` is 7 because the search for an
entry reads 32 bytes, eight times of four bytes.

## 7. NodeLoop

The threads of the RPC service put blocks into "submitted blocks" and wait until
the main loop has set `done`; most of it under the mining lock, which the main
loop takes too, when a peer sends a block. A block is a number, its hash that
number with how often its staking transaction was signed. The mining lock itself
is external (`node/node_impl.c` has stubs): a mutex.

`height` is `block_height`: counted up, or set to the number of blocks, by
`node_set_last_block` (external); after a switch of the chain it is the position of the last block, one
less, so that `find_block_hash` may miss the last one (`Finds`). `away` are the blocks that were cut off, which
peers may send again. `late` and `old` are history: the threads that read the height before a switch,
the candidates made before one or by such a thread.

| Module | Code |
|---|---|
| `PeerBlock`, `HandleLock`, `HandleBlock`, `NodesDone` | `process_nodes`, `handle_block`: a block that follows the last one is added under the mining lock |
| `SwitchChain` | the other branch of `handle_block` (`main.c:1118`): `truncate_chain` down to where the branches part, under the same lock; the blocks of the branch follow in later messages |
| `Stake`, `NoStake` | `do_staking` |
| `Pass`, `AcceptBlock`, `RefuseBlock`, `AddNewBlock`, `AddFails`, `MarkDone`, `Purge` | `process_submitted_blocks`, which walks the list without the lock |
| `GetWork` ... `WriteWork`, `SubmitWork` ... `WorkAnswer` | `getwork` without and with data |
| `GetTemplate` ... `WriteTemplate` | `getblocktemplate` |
| `SubmitBlock` ... `BlockAnswer` | `submitblock` |
| `GetStake` ... `GetStakeAnswer`, `SignTx`, `SignLookup`, `SignBlock`, `SignDone` | `getstaketx`, `signstaketx`, `signstakeblock` |

Runs. `mining` (two threads; four uses: miners and wallets beside a peer,
wallets that sign one another's blocks twice, programs that poll `getwork`, and the same while a
peer makes the node switch to another branch, with 5 blocks and 4 messages)
checks `Awaited` (who waits for a block is going to be answered: it is done, or
ready and in the list), `NoBlockTwice` (no block is added twice, not even under
two hashes) and `WorkIsFresh` (a candidate follows the last block of some moment
of the call, unless it was made before the chain was switched). `answered` (every method, no block from a peer, `FairSpec`) checks
`SubmissionAnswered` and `ListIsDrained`. `submit_deadlock` shows that with one
block of a peer `SubmissionAnswered` fails: `submitblock` waits with the mining lock
held, and `handle_block` waits for that lock.

Two threads are enough for every pair of methods to meet, with the main loop as
a third; three blocks let two wait while a third grows the chain. Fairness is weak
fairness of the main loop, which runs forever, and of each thread that has begun
a call; wallets need not come back to sign and nobody has to call. Calls are
bounded, so every lock is free again and again and weak fairness is enough.

## 8. WalletFiles and WalletLocks

### 8.1 WalletFiles

`book[a]` are the files of address `a`: `unspent`, `spent`, `objects`,
`sentobjs`, `stakes`. A file is the number of addresses its coin came from and
the transactions that were written into it as spenders, so that cutting it at the wrong
place shows. The main loop enters a block transaction by transaction, outputs
then inputs, and takes it out, the last first (`RemoveBlock`, `RemoveWalletTx`, `BlockRemoved`;
the call is in the node module). Storing comes first (`AddBlock`, `TxStored`, `BlockStored`). For each address a
transaction touches `store_tx_addresses` writes a new file, deletes the index and moves the new one
in its place (`DelIndex`, `MoveIndex`; `DelIndexes` on removal). Addresses with the same first
two characters share the file (`Suffix`, `SharedFiles`), and between the two steps the index of all of
them is `gone`. `BlockStored` is `store_blk_tx_staking`: of a block only the second transaction may stake, and
it does for the address its first input came from (`StakeTxs`, `Staker`). Then `StoreWalletOuts` and
`StoreWalletIns` enter the block in the files. `rescan_addr` is a step per directory it empties and per
transaction it enters (`TestLock`, `PutLock`, `Clear`, `MakeDir`, `Load`,
`StoreTxOuts`, `StoreTxGone`, `StoreTxIns`, `Unlock`), run by the main loop for
imported addresses and by RPC threads beside it. A scan that looks for an index that is `gone`
reads no transaction and ends, with the files cleared: the address is in `missed` until its next scan.

Run `files`: 8 transactions over two addresses that share their file of the index, three uses: blocks come and go
while the main loop scans; two RPC threads scan while blocks come; one scans
while blocks go. `Page = 2` stands for 1000 transactions, so that a scan loads
several pages. `ListsFollowChain`: without scans of RPC threads the files say what
the chain says. `CoinsAreListed`: also with them no coin the address can spend is
missing. `StakesFollowChain`: no block the address staked is missing and every record is of a
transaction of the chain that stakes for it, until a block is removed. The
history variables `undone`, `partial` and `missed` name addresses of removed blocks,
addresses imported without a scan, and addresses whose scan found no index; the properties
leave them out, see 12.

### 8.2 WalletLocks

`maketxfrom` chooses coins one by one, looks each up in the mempool under
`mempool_lck` (a spinning flag) and locks it for 120 seconds (`LockTime` ticks);
`submittx` checks and sends, `canceltx` unlocks; the main loop fills the mempool,
adds blocks, deletes from the mempool and clears the locks that have run out.
`locked_input` itself is guarded by nothing but its unique key.

Run `payments`: three coins, two threads, two payments; a second use with
`liststaking`, which releases `mempool_lck` without having taken it.
`CoinsUsedOnce`: no coin is in two transactions on their way. `MempoolIsAlone`:
who has `mempool_lck` is alone, if nobody calls `liststaking`. `Tick` waits for
calls to end and for the main loop to take what was submitted: a tick is tens of
seconds. `misused` records calls for transactions whose locks have run out, or two
calls for the same one; the first property is about the others.

## 9. FreeBlocks, ZoneArea, ZoneRefs

FreeBlocks is what an area promises: zones take, grow, move and give back memory
in any order, from any block that fits. ZoneArea is the code: the array
`zones_free`, first fit, blocks that touch joined and moved to the end, the records of
zones, `realloc_zone` in place (only when the block behind is as large as the
whole new zone) or by moving, `expand_zone` by doubling, empty zones at `PTR_FF`,
and what the owners have written.

Run `blocks` (9 cells, 4 records, lengths 1 to 3): `NoOverlap`, `NothingLost`,
`BlocksAreJoined`. Run `area` (8 cells, 3 records, cells of 2 bytes for 16):
`ContentIsKept` (what was written is still there wherever the zone was moved),
`RoomForRequest`, `ImplementsFreeBlocks`. A free block between two zones, with free
blocks on both sides, needs 5 cells and 3 records; the rest is room for sizes
that differ.

ZoneRefs: `copy_zone_ref` and `release_zone_ref` step by step (read, count up,
set, count down, test for the last), the trash of each area, and `realloc_zone` of
a zone of another area. A zone that finds no free slot in the trash is `lost`: it keeps its memory
and nobody knows it. Of `empty_trash` only the loop over the trash is modelled, not that over
the nodes of a tree area. One shared reference is set by the writer and copied by
all, under a lock of the program (`Locked`); without such a lock the code itself is not
safe, see 12. Run `refs`: 3 threads and 2 zones; 2 threads and 4 zones, three of which overflow the trash of their
owner; 2 threads, 2 zones with reallocations; a trash of 2 slots for 256. `NoDangling`: a reference in use leads to memory.
`CountsAreRight`: at rest counts are the numbers of references and what has none
is in a trash or `lost`, and only that. `TrashIsEmptied`: under strong fairness of the threads that empty
their trash (the main loop does in every round, whatever else it does) what is in
it is given back.

## 10. What is proved

TLC shows a property for the instance of a run; the theorems below hold for every
value of the constants that satisfies the named assumptions of the module (the
`ASSUME`s, which TLC evaluates in the run). No property is inductive as it stands. Each
proof has an invariant that is; where it is new, it was first checked by TLC.

### 10.1 Store_proofs: BlockStore

For every set of transactions and blocks, every bound and every halving of the
reward, `TypeCorrect`, `CoinsAreExact`, `NoDoubleSpend` and `AcceptedSpendsSucceed`, from

    CoinInv == TypeInv /\ AppsHaveName /\ (~failed => Sound)

where `Sound` says what every phase may rely on: a transaction is in one block
and spends coins of earlier blocks; the transactions on disk are those of the
chain, with those of the block being stored that were written, without those of
the block being removed that are gone; while a block is checked, `root` holds
the coins its transactions spend so far, each unspent and spent once; while it
is stored, what the rest of it spends is still there. The phases hand these
facts to each other, which is why the properties cannot be proved one at a
time. First come lemmas about the operators (`LoadedCoins`, `StoredCoins`,
`CancelledCoins`, `RestoredCoins`: on coins, what `store_tx_inputs` deletes is what
`cancel_tx_inputs` writes back), then a lemma per action.

`StoreImplementsLedger`: with the chain read from the index and the live coins
from `utxo` (from the chain while a block is half written), `SetLastBlock` is a
step `Extend` of CoinLedger, `EndRemove` a `Retract`, `StoreFails` a `Break`, and
every other step a stutter.

`SupplyRebuilt` and `CoinsAreBacked` are about sums. `MapThenSumSet` chooses a function
over the subsets of a set; the lemmas from `LeastSet` to `SumInto` show that it
exists, is unique on finite sets, and adds up in any order (`SumRemove`). They
need induction over finite sets, which is had without the library's induction
rules, whose parameter is an operator: strict inclusion is well founded, so a set of
counterexamples has a least one (`WFMin`), and the least one is refuted. Then:

* `SupplyInv`: the supply is the sum of the rewards of the heights 2 .. `Len(index)`. A
  block gets its reward at the height it is removed from, so the two cancel.
* `BackedInv`: of `CoinsBacked` alone nothing can be shown, for it says nothing of the
  block that is being checked. While it is (`Weighed`), its transactions so far make no more
  coins than they spend, plus the gain of the coinbase or stake, less the fees. The comparison at the end of
  `check_tx_list` turns that into `Earned`: the block gains at most its reward. So does
  every block of the chain (`BlocksEarned`); the coins of the chain are worth the
  sum of the gains (`Worth`), the supply is that of the rewards.
  The account of a transaction checked must not change while the rest is checked, though
  `blkobjs` grows: `KindStable`, for inputs that match something.

`CoinsAreBacked` has two hypotheses on the blocks, since without them the code does not do what it
says (12): every amount that is brought in is a coin (`OnlyCoinsPay`), and the outputs
of a transaction fit in a word (`NoOverflow`). `AppsAreListed` has one: a
transaction that names an application does so in its first input and does not declare
their root (`AppsNamedFirst`). MCBlockStore assumes all three of its blocks
(`PoolAssumption`), so TLC evaluates them: the run and the theorems speak of
the same case. Its invariant is that root and applications keep apart (`RootOrApps` within
a block, `RootFirst` along the chain), so that `has_root_app` is set whenever
`remove_tx` comes to an application; TLC checked it before, on the blocks of run `store`.

### 10.2 HashIndex_proofs

For any sets of hashes and threads, `IndexTypeCorrect`, `IndexSorted`,
`ReadersExcluded` and `SearchesAreRight`. The parts of `IndexInv`:

* `BoundsInv`: how far each loop is, and that `lock` is exactly the threads
  that search and the main loop while it shifts;
* `DistinctInv`, `NamesInv`: no hash twice, and the array names each block
  once. While entries are shifted one value is in it twice, so both are about
  `View`, the array without the free entry; a shift leaves the view as it is;
* `OrderInv`: the view is sorted, and the new hash belongs at `lo`;
* `SearchInv`: what a search has ruled out on both sides of its range, if no
  removal disturbed it.

A reader keeps the lock from `Acquire` to `Release`, so the array under its
search only changes when it is made anew; then its thread is in `torn`.

### 10.3 NodeLoop_proofs

For any number of threads, blocks and calls and any uses, `LoopTypeCorrect`,
`WaitersAwaited`, `BlocksOnce` and `CandidatesFresh`. The parts of `IInv`:

* `LockInv`: who is between taking and leaving the mining lock has it;
* `MadeInv`: numbers of blocks are given out once, before a block is listed,
  marked or worked on; the main loop only adds blocks that are ready;
* `KindInv`: what a thread waits for or signs is of the kind its method makes;
* `OwnInv`: unless wallets share blocks, only candidates are worked on by two
  threads, and nobody has marked a block that is still to be signed;
* `ChainInv`: every block of the chain follows the one before it, so the same
  block cannot be there twice, under whatever hash; what was cut off was made; and the
  block about to be added follows the last one: the main loop tests that in one step and
  adds it in a later one, and nobody else changes the chain between them;
* `FreshInv`, in six parts. `NextInv`: the height is at most the number of blocks, and a
  candidate that is not old was made for it or below; one made for this height follows the last
  block. `SeenInv`: a thread that is not late read a height that was at most this one, and has seen
  the last block. `CandidateInv`: the candidate a thread is about to answer follows a block it has
  seen, unless it is old. `PollInv`, `AnswerInv`: where programs that only poll can be, and
  that an answer is there when the call is over.

The height falls when the chain is switched, so none of this can be said of the height alone:
it is true since the last switch, and `old` and `late` are what a switch leaves behind.
`CandidatesFresh` therefore speaks of the candidates that are not old; for the others the code
promises nothing (12).

The work is in `Awaited` and `FreshInv`: both relate what a thread read at one
step to shared variables that others changed since. The lemmas are one for the
main loop (`...Main`) and one for the calls (`...Call`) for each part, with a
step per action.

### 10.4 WalletLocks_proofs

For any number of threads, coins and transactions and any life of a lock,
`PaymentTypeCorrect`, `CoinsAreUsedOnce` and `MempoolHasOneUser`. The parts of `IInv`:

* `MutexInv`: who looks into the mempool has `mempool_lck`, without `liststaking`;
* `MakeInv`: a transaction is made by one thread, before it is anywhere else;
* `WorkInv`: what is sent or canceled is in `tmp_txs`, in time, in one call;
* `LockedInv`: until the mempool has a transaction, each of its coins has an
  entry that is not done and lasts as long as the transaction's time;
* `LockingInv`: a thread between the look into the mempool and the lock may have
  missed a transaction that went into the mempool in between; if that
  uses the coin, the coin is still locked or spent, and `lock_unspent` refuses it;
* `DisjointInv`: the property.

The last three need each other: a lock is dropped by `canceltx` or a failed
`maketxfrom` for the coins of its own transaction, which by `DisjointInv`
are in no other. All but the first two hold while `misused` is empty.

### 10.5 FreeBlocks_proofs

For areas of any size, `NeverOverlaps`, `NeverLoses`, `AlwaysJoined` and the
types, which together are inductive. `TakenIsGood`, `TakenIsApart` and
`TakenLosesNothing` are about cutting a span out of a free block, `JoinedEnds` and
`GivenIsGood` about giving one back and joining it with its neighbours;
growing and moving are made of these.

### 10.6 ZoneRefs_proofs

For any number of threads, zones and slots of the trash, `CountsAreKept`,
`NoReferenceDangles` (the property `NoDangling`) and `QuietCountsAreRight`, what
`CountsAreRight` says of counts. They assume `Locked = TRUE`, the lock of the program
around a reference that threads share; where there is none, or where threads enlarge
zones of other areas, the code does not keep its counts (see 12), and the properties
leave the second case out in the same way. The parts of `IInv`:

* `TypeInv`, `LockInv`, `JobInv`: types, who has the lock, and what a thread
  knows of the references it works on;
* `CountInv`: `n_refs[z]` is the number of elements of `Hold(z)`, a set: the references
  to `z`, those about to be set to `z`, and those that led to `z` and are not
  counted down yet. Each half step of `copy_zone_ref` moves at most one element
  in or out, so a count is never a sum over threads and no induction is needed;
* `MemInv`: what is held is in memory and in no trash;
* `LastInv`: who has brought a count to zero is the only one that knows the zone;
* `TrashInv`: a zone is in one slot of its owner's trash, and in memory until
  that slot is cleared.

`NothingIsLeaked` is `CountsAreRight` as a whole, for a trash of any size: what has no reference
is in a trash or has found it full, and nothing else is. The further parts are
`FreeInv`: memory nobody holds is in a trash, `lost`, or known to the thread that has dropped
the last reference; `LostInv`: what found no slot is not held again, is in no trash and stays in
memory, which is the leak of `add_trashed_zone` when the 256 slots are taken (`mem_base.c:743`); `ClearInv`: a slot is emptied after its zone was given back.

### 10.7 Store_proofs: StoreRecovery

The second half of the module. For any set of coin transactions, any bounds, any number of stops and of blocks
`block_check_last` looks at, `LifeTypeCorrect`, `StartLoadsStored` (`LoadedIsStored`),
`StartKeepsChain` (`StartLeavesChain`) and the refinement `StopsKeepLedger`
(`SurvivesStops`), with stops between any two writes, also inside `store_blk_staking`. Neither property is inductive: both speak of the moment a start
is done, and say nothing of what the stop has left. `LifeInv` is in layers,
because less and less holds after the stops the start does not see (12):

* `LifeTypes`, always;
* unless `failed` or `torn` has "files" or "record", `RecordsInv`: the records are the
  chain with at most one behind it, and only of the last record the index of
  transactions may hold a part; and `StepInv`: so the answer of `block_check_last`
  is the height of the last record or the one before it, and one turn of
  `truncate_chain` makes the files agree, also when that turn is stopped;
* with nothing in `torn`, `CoinsInv`: while the node is up, the invariant of 10.1; while it
  is down or starts, `PartlyExact`: the coins of the last record are made,
  spent or given back in part, those of the records before it are exact.
  `NewSpends` says that the last record spends coins made before it and spent
  by no other, and therefore to take it back again is to take it back once;
* with "record" but not "files" in `torn`, `ShortInv`: from the stop inside `store_blk_staking` to the
  end of the start that loads, records and chain are level, the block of the short record is stored with all
  its transactions, and `truncate_chain` finds nothing to cut; the coins are exact
  for the chain with that block, also after a second stop.

While the node is up a step is one of BlockStore, and the lemmas of 10.1
are used for it. For the refinement a stop and the steps of a start are
stutters, or a `Retract` when the chain loses its last block, and a stop that
leaves something in `torn` is a `Break`. `CheckLast` takes a maximum of a set of heights:
`MaxOfNats` proves that there is one by the well-foundedness of strict inclusion
of finite sets, which needs no theorem with an operator parameter. TLC checked
`LifeInv` before, on the instance of run `recovery`.

The proof needs the reward to be known for the height of a record that is not
(yet) in the chain: `RewardAssumption` speaks of the heights up to
`MaxHeight + MaxRecords + 1`.

### 10.8 ZoneArea_proofs

For areas of any size, any number of records, any size of a cell and any
requests: `AreaImplementsFreeBlocks` (the property `ImplementsFreeBlocks`), `ContentStays`
(`ContentIsKept`), `RoomIsEnough` (`RoomForRequest`), `AreaTypeCorrect`, and
`ArrayHasRoom`, which no run asks: the loops over `zones_free` stop at a
`PTR_NULL` only, and there is always one.

The invariant of the area is that of FreeBlocks, through the instance `A` of its
proofs, and three things FreeBlocks knows nothing of: the array lists each block once,
the contents, the room. The work is in two lemmas about the array, `CutIsTaken`
(`allocate_zone` in place or out of the array is FreeBlocks' rest) and `FreedIsGiven`
(the search for neighbours, their removal and the append are FreeBlocks' join), and
one lemma per operation, which says what FreeBlocks sees of it. `AreaInvariant`
needs no second induction for overlaps and lost cells: each step is one of FreeBlocks
(`StepIsAreaStep`), and `A!NextInv` is cited.

Contents need more than the refinement: `ContentStep` says that copying from a zone to
its new place reads cells nobody has been given in between (`ApartCells`).
`FewBlocks` counts: every free block but the last in memory is followed by a zone
that begins where it ends, so blocks map one to one into the zones and one more.

`AreaAssumption` has `MaxFree >= NZones + 2`. So it is in the areas the
threads make (12).

### 10.9 WalletFiles_proofs

For every pool of transactions, every set of addresses, threads and uses, any size
of a page and any number of scans: `TypeCorrect`, `CoinsListed` (`CoinsAreListed`),
`StakesFollow` (`StakesFollowChain`) and `FilesFollow` (`ListsFollowChain`). The
properties speak of a node at rest, so the work is in saying what the files are
while block and scan are under way. `FilesInv` has five parts:

* `TypeInv`, with the shape of a book (`IsBook`) and of a scan's page;
* `OrderInv`: `ChainInv`, a transaction is on the chain once, after those it spends of,
  and no output is spent twice (`ConnectedBlock` derives it from the test of a
  block); `QueueInv`, the main loop is in the last block, what it has stored, entered or
  has still to remove (`Entered`) is closed: it has what it spends of; and files of the index are
  `gone` only while it stores or undoes; `IndexInv`, the index
  of an address has at least the transactions that are in it for all their addresses (`Listed`) and at most
  those on disk (`Indexed`), each once, in an
  order in which none comes before what it spends of. It is written address by address while the
  files of the wallet wait (`Settled` is what is in those), so a scan may be ahead of the main loop;
* `ScanInv`: an address that is being scanned has its directory;
* `GrowingInv`, when no block is removed and any number of threads scan: a coin or
  a stake that is missing in the files of an address is owed (`CoinsOwed`, `StakesOwed`) by the main
  loop, which still stores its block (`MainAddsCoins`, `MainAddsStakes`) or has not entered its transaction, or by a scan that has not reached it; and a
  lock file has a scan that will take it away. Addresses that are `missed` are owed nothing (`Filled`). Stakes
  are owed for the second transactions of the blocks (`Second`); records may be of any transaction of the chain
  that stakes, for a scan does not see where in its block it was. When a page is loaded, what lay beyond the last one
  is either in it or beyond it (`GrowingPage`);
* `AloneInv`, when only the main loop scans and blocks come and go: the files are
  exactly what the transactions entered so far leave (`Exact`), those of the
  index up to where the scan is (`Read`) or those the main loop has settled; the records of stakes
  lag by the block that is being stored (`StakesFit`). The names of the spenders
  are part of it, since a file that is cut wrongly shows later only. A scan
  that ends has read what touches the address, and the rest does not change its files
  (`TouchedExact`).

`Only`, the elements of a list that are in a set, is a recursive function, so what it
returns is shown by a least counterexample (`OnlyParts`, `LeastNumber`). The effects of the
helpers on a book are stated once (`OutputsAdded`, `InputsSpent`, `OutputsDropped`,
`InputsUnspent`, `StakesAdded`, `StakeDropped`) and used by every step.

`FilesFollow` has a hypothesis, `ObjectsMove`: an object is the first output of its
transaction, and what spends one gives an object away. Otherwise the code lists the
object at the wrong output or does not notice that it was given away (12). MCWalletFiles
assumes it of its pool, so TLC evaluates it: run and theorem speak of the
same case. The other three need no hypothesis. TLC checked each part of `FilesInv` on the run `files` before.

## 11. What is only model-checked

* Liveness: `LockIsLeft`, `SubmissionAnswered`, `ListIsDrained`, `TrashIsEmptied`.
  The prover has no rules for fairness.
* `ObjectHeldOnce`: true of the pool of run `store`; for every pool it needs assumptions
  on links and on inputs that the code does not test (12).
* AppStore: its indexes are made of lists that recursive definitions and folds
  compute, and the library's induction theorems, whose parameter is an operator,
  cannot be applied by the installed provers.

## 12. Known limits of the code

The properties leave these cases out, by a history variable, a `Use` or the
pool of a run; the models do what the code does in them unless noted.

Store and recovery:

* An object that is made and passed on in the same block, or passed on twice in
  one, makes an accepted block stop half way (`store.c:1689`); `failed` records it.
  The header is left behind and nothing is undone.
* The change of an application's creation can be spent more than once
  (`store.c:1667`); the removal of a child gives its object two holders
  (`store.c:1147`).
* The naming of a new application is not tested against the names in use
  (`block.c:3514`), and a later input may name its application (`store.c:1219`).
* A stop inside the first `remove_tx` of a removal is not seen at the next start
  (`store.c:1251`), nor are the files cut when the first checked block is bad
  (`store.c:2717`), nor the supply repaired after a stop between supply and
  files (`main.c:970`): `torn`.
* A stop inside `store_blk_staking`, between its `truncate_file` and its append
  (`kernel.c:288`), leaves the last record of `blocks` short. `truncate_chain` counts whole records
  (`main.c:119`), so the block is not taken back: its transactions stay on disk, and the next
  block is written into the gap: `torn` has "record", then "files".
* Sums of amounts are 64 bit words and are not checked for overflow (`block.c:4056`); so
  are the model's (`AmountMod`), and `NoOverflow` is a hypothesis of `CoinsAreBacked`.

Index: `find_block_hash` reads the height after the lock is released and the
bound before it is taken, and a removal sorts the array without the lock
(`block.c:5066`): `torn`. `block_index_node` is enlarged without it (`store.c:2845`).

Main loop:

* `submitblock` and `getwork` wait with the mining lock held, and `handle_block`
  waits for it (`rpc_methods.c:5382`, `4870`): run `submit_deadlock`.
* Wallets that sign each other's blocks may wait forever (`rpc_methods.c:4029`), the
  candidate may vanish under `submitblock` (`5398`), `getwork` may answer false
  for a block that is added later, blocks of `getstaketx` that nobody
  signs stay in the list (`4360`), `next_block_time` is read before it is set (`5077`).
* After a switch to another branch (`main.c:1156`) the node may come back to the height a candidate was
  made for. `getwork`, which looks at the height and an age of 30 seconds only (`rpc_methods.c:4770`), then
  answers it again, though it follows a block that is no longer there: `old`, `late`.
* Not modelled: the uninitialised hash in `handle_block` (`main.c:1083`), the answer
  0 of `truncate_chain` at genesis (`1156`), the retries of early blocks (`1391`).

Wallet: `store_tx_addresses` deletes an index before it moves the new one in place
(`store.c:1535`), and a scan that looks between the two finds none, ends, and leaves the files of the
address cleared (`wallet.c:3851`): `missed`. A scan's lock file stays after a stop (`wallet.c:3777`),
`add_wallet_obj` always writes index 0 (`wallet.c:2140`), and an object that is spent
without being given away stays in the list (`wallet.c:2744`): `ObjectsMove`;
`remove_tx_staking` removes the records behind the one it looks for
(`wallet.c:1944`), `liststaking` releases `mempool_lck` without having taken it
(`rpc_methods.c:3879`).

Applications:

* Removing an entry of a list moves memory from a distance counted twice
  (`app_store.c:144`), so entries are lost from names, holders and transfers;
  `_time.idx` is never cleaned; `rm_file_from_index` takes out the first entry of a
  file only; a child that is removed leaves a second entry in the index of holders.
* Second hand transfers are not indexed but are removed (`block.c:4446`), an
  object removed before its transfer of the same block leaves an entry, and on
  a rollback a hash is compared in another form (`store.c:1174`).
* A type stays in memory after `rm_type` (`app_store.c:398`); pages and modules are
  never removed; `clear_app_index` always answers 0, so the indexes are
  never rebuilt; an index is short for a moment while an entry is removed (`1452`).

Memory: a reference that several threads share needs a lock of the program;
without one a copy may find the zone freed (`mem_base.c:1372`). A zone enlarged by a
thread of another area is moved while the first may be using it (`1030`).
`find_null_ptr` answers 0xFFFFFFFF when no record is free (`1800`). A zone that finds the 256 slots of
a trash full is forgotten (`743`): `lost`. The launcher's area has
128K zones (`launcher/main.c:350`) and, as every area, 64K entries for free blocks: only
with more than 64K zones in use could the array fill, and lose its end (`923`).

Stakes: the search for the last staked block begins at `last_pow_block` at the
latest (`block.c:363`).

## 13. What is not modelled

* Synchronisation with the peers. Which chain wins is decided by
  `node_is_next_block`, `node_check_chain` and `node_add_block_header`, and the queues
  of a peer are kept by the node module; neither is in the repository (only stubs,
  `node/node_impl.c`). A model would be of code nobody can compare it with.
* `calc_new_target`, `SetCompact`, `mul_compact` and the kernels of proof of stake:
  arithmetic on 256 bit numbers, and TLC's integers have 32 bits.
* Scripts, addresses and messages: parsers and writers of bytes that keep nothing.
* The mark and sweep of tree areas (`mem_base.c:1583`): `useGC` is false in
  `export/nodix.node`, and the nodes it walks belong to the tree manager, outside
  the repository.
* Applications: running functions, loading scripts and modules.
* Accounts, keys and passwords of the wallet.
* Helpers for streams, strings and JSON, the tree of sorted hashes (a set in
  BlockStore), the module loader, the layer over the operating system, the
  explorer, anonymous RPC and web pages: no shared state of their own.
* Elliptic curves, zlib, minizip, expat and the libraries of the web pages: third
  party code, about half of the lines under `src/`.
