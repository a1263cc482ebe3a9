------------------------------ MODULE WalletFiles ------------------------------
(***************************************************************************)
(* The files a node keeps for each address of its wallet (wallet/wallet.c): *)
(* which coins it may spend, which it spent, which objects it holds and     *)
(* sent, and which blocks it staked. The main loop updates them             *)
(* transaction by transaction when a block is added (store_wallet_tx) or    *)
(* removed (remove_wallet_tx). A scan of an address (rescan_addr) deletes    *)
(* and makes them anew from the index of addresses (block_adx/store.c); the *)
(* main loop scans what was imported, threads of the RPC service what the   *)
(* user asks for, at the same time as the main loop adds blocks.            *)
(***************************************************************************)
EXTENDS Integers, Sequences, FiniteSets, SequencesExt, Functions

CONSTANTS
    Txs,       \* the transactions that may be made
    Ins,       \* Ins[t]: set of the outputs it spends: <<transaction, index>>
    Outs,      \* Outs[t]: sequence of outputs [kind, to, obj]; the first has index 1
    Stakes,    \* the transactions that stake: the first output is null
    First,     \* First[t]: the first input of one that stakes
    Uses,      \* the ways the node is used, each a record with the bounds it needs:
               \*   offered, the blocks that may arrive: sequences of transactions
               \*   scanners, the RPC threads that scan
               \*   blocks, how many blocks the chain may have
               \*   removals, how many are removed
    Addrs,     \* addresses
    Suffix,    \* Suffix[a]: two of its characters, which name the file of its index
    Rpc, Main, \* threads
    Page,      \* transactions load_tx_addresses returns at most: 1000
    MaxScans   \* bound: scans asked for

Output == UNION {{t} \X (1 .. Len(Outs[t])) : t \in Txs}
ASSUME PoolAssumption ==
    \A t \in Txs :
        /\ Ins[t] \subseteq Output /\ IsFiniteSet(Ins[t])
        /\ Outs[t] \in Seq([kind : {"coin", "obj", "op", "null"}, to : Addrs, obj : Txs])
\* A block has a transaction, and none twice: their hashes differ.
ASSUME UseAssumption ==
    \A u \in Uses :
        /\ \A b \in u.offered : /\ b \in Seq(Txs) /\ b # << >>
                                /\ \A i, j \in 1 .. Len(b) : b[i] = b[j] => i = j
        /\ u.scanners \subseteq Rpc /\ u.blocks \in Nat /\ u.removals \in Nat
ASSUME BoundAssumption == Page \in Nat \ {0} /\ MaxScans \in Nat
\* What is staked is the output of an address.
Out(o) == Outs[o[1]][o[2]]
ASSUME StakeAssumption == \A t \in Stakes : First[t] \in Ins[t] /\ Out(First[t]).kind # "op"
ASSUME NodeAssumption == Addrs # {} /\ Main \notin Rpc

\* The directories and the file of an address.
Parts == {"spent", "objects", "sentobjs", "unspent", "stakes"}
Threads == Rpc \cup {Main}

VARIABLES
    use,     \* how the node is used: never changes
    chain,   \* the blocks
    adr,     \* adr[a]: the transactions the index of addresses has for a
    gone,    \* the addresses whose file of the index is deleted and not yet made anew
    dirs,    \* the addresses with a directory adrs/<a>: those of the wallet
    book,    \* book[a]: its files by part
    mpc,     \* the main loop: "idle", "store" of a block, "outs" or "ins" of a
             \* transaction, "undo"
    queue,   \* the transactions of the block it has still to store, enter or remove
    todo,    \* "addr scan list"
    locks,   \* the lock files of scans
    spc,     \* spc[p]: where the scan of thread p is
    sadr,    \* sadr[p]: the address it scans
    sfirst,  \* sfirst[p]: idx, the transactions it has passed
    spage,   \* spage[p]: the rest of the page it has loaded
    scut,    \* scut[p]: the parts it has still to delete
    scans, removed, \* counters for the bounds
    missed,  \* history: addresses of which a scan found no index, and not scanned since
    undone,  \* history: addresses with blocks removed since their last scan
    partial  \* history: addresses imported without a scan, and not scanned since

chainVars == <<chain, adr, gone, removed>>
mainVars == <<mpc, queue>>
scanVars == <<spc, sadr, sfirst, spage, scut>>
histVars == <<missed, undone, partial>>
vars == <<use, chainVars, dirs, book, mainVars, todo, locks, scanVars, scans, histVars>>

-----------------------------------------------------------------------------
(* The chain *)

OnChain(t) == \E b \in 1 .. Len(chain) : \E i \in 1 .. Len(chain[b]) : chain[b][i] = t
Stored == {t \in Txs : OnChain(t)}
\* What load_tx finds while the last block is stored from its beginning, or
\* removed from its end.
Loadable(t) ==
    /\ OnChain(t)
    /\ mpc = "store" => \A i \in 2 .. Len(queue) : t # queue[i]
    /\ mpc = "undo" => t \notin ToSet(Last(chain)) \/ t \in ToSet(queue)

Pays(t, a) == {i \in 1 .. Len(Outs[t]) : Outs[t][i].to = a /\ Outs[t][i].kind \in {"coin", "obj"}}
\* The addresses of a transaction: of what it spends and of what it pays.
Payers(t) == {Out(o).to : o \in {o \in Ins[t] : Out(o).kind # "op"}}
Payees(t) == {Outs[t][i].to : i \in {i \in 1 .. Len(Outs[t]) : Outs[t][i].kind \in {"coin", "obj"}}}
Touched(t) == Payers(t) \cup Payees(t)
Staker(t) == Out(First[t]).to

\* The addresses that share the files of the index of those of as.
SharedFiles(as) == {b \in Addrs : \E a \in as : Suffix[a] = Suffix[b]}
\* Those of t that do not have it in the index.
Unindexed(t) == {a \in Touched(t) : t \notin ToSet(adr[a])}

\* hasobjtxfr: an output gives an object that another transaction made.
HasObjTxfr(t) == \E i \in 1 .. Len(Outs[t]) : Outs[t][i].kind = "obj" /\ Outs[t][i].obj # t

-----------------------------------------------------------------------------
(* The files. A coin's file has the number n of addresses it came from, if   *)
(* any, and after it was spent the transaction that spent it.                *)

Empty == [o \in {} |-> o]
NoFiles == [p \in Parts |-> IF p = "stakes" THEN << >> ELSE Empty]
Without(f, os) == Restrict(f, DOMAIN f \ os)
\* The files of g are added to those of f, or replace them.
With(f, g) == [o \in DOMAIN f \cup DOMAIN g |-> IF o \in DOMAIN g THEN g[o] ELSE f[o]]
\* The elements of s that are in S, in their order.
Only(s, S) ==
    LET only[n \in 0 .. Len(s)] ==
            IF n = 0 THEN << >>
            ELSE IF s[n] \in S THEN Append(only[n - 1], s[n]) ELSE only[n - 1]
    IN only[Len(s)]

\* Mutant: the last address is not counted.
SourcesButOne(t) == Cardinality(Payers(t)) - 1
Sources(t) == Cardinality(Payers(t))

\* add_unspent writes the coin; add_wallet_obj always writes index 0, here 1.
AddOutputs(f, a, t) ==
    LET coins == {<<t, i>> : i \in {i \in Pays(t, a) : Outs[t][i].kind = "coin"}}
        objs == IF \E i \in Pays(t, a) : Outs[t][i].kind = "obj" THEN {<<t, 1>>} ELSE {}
    IN [f EXCEPT !["unspent"] = With(@, [o \in coins |-> [n |-> Sources(t), by |-> << >>]]),
                 !["objects"] = With(@, [o \in objs |-> [n |-> 1, by |-> << >>]])]

\* The outputs of a kind that t spends of an address.
SpentOf(t, a, kind) == {o \in Ins[t] : Out(o).to = a /\ Out(o).kind = kind}
\* Of the files of os, those there are move from one directory to another,
\* where they are as in files.
MoveFiles(f, os, from, to, files) ==
    [f EXCEPT ![from] = Without(@, os), ![to] = With(@, Restrict(files, os \cap DOMAIN files))]

\* spend_tx_addr and send_obj append the spender to a file.
SpentFiles(files, t) == [o \in DOMAIN files |-> [n |-> files[o].n, by |-> Append(files[o].by, t)]]
SpendCoins(f, a, t) ==
    MoveFiles(f, SpentOf(t, a, "coin"), "unspent", "spent", SpentFiles(f["unspent"], t))
SendObjects(f, a, t) ==
    MoveFiles(f, SpentOf(t, a, "obj"), "objects", "sentobjs", SpentFiles(f["objects"], t))
SpendInputs(f, a, t) ==
    IF HasObjTxfr(t) THEN SendObjects(SpendCoins(f, a, t), a, t) ELSE SpendCoins(f, a, t)

\* Mutant: the spender stays in the file.
UncutFiles(files) == files
\* cancel_spend_tx_addr reads the number of addresses to find where to cut the
\* file; a coin without addresses has no such number: the first bytes of the
\* spender's hash are taken for it, and the file is not that long. The file
\* of an object is cut to 102 bytes.
CutFiles(files) ==
    [o \in DOMAIN files |->
        [n |-> files[o].n, by |-> IF files[o].n = 0 THEN files[o].by ELSE << >>]]
UnspendCoins(f, a, t) ==
    MoveFiles(f, SpentOf(t, a, "coin"), "spent", "unspent", CutFiles(f["spent"]))
UnspendInputs(f, a, t) ==
    MoveFiles(UnspendCoins(f, a, t), SpentOf(t, a, "obj"), "sentobjs", "objects",
              CutFiles(f["sentobjs"]))

\* cancel_unspend_tx_addr, cancel_unspend_obj_addr.
DropOutputs(f, a, t) ==
    LET outs(kind) == {<<t, i>> : i \in {i \in Pays(t, a) : Outs[t][i].kind = kind}}
    IN [f EXCEPT !["unspent"] = Without(@, outs("coin")), !["objects"] = Without(@, outs("obj"))]

\* store_tx_staking appends a record to those of the first input's address.
AddStakes(f, a, txs) ==
    [f EXCEPT !["stakes"] = @ \o Only(txs, {t \in Stakes : a = Staker(t)})]
\* store_blk_tx_staking looks at the second transaction of a block only.
StakeTxs(b) == IF Len(b) > 1 THEN <<b[2]>> ELSE << >>
\* remove_tx_staking does not look at the last record, and what it writes of
\* the records before the one it drops is overwritten by those after it.
DropStake(f, a, t) ==
    LET s == f["stakes"]
        at == {i \in 1 .. Len(s) - 1 : s[i] = t}
    IN IF a \in Payees(t) /\ at # {}
       THEN [f EXCEPT !["stakes"] = SubSeq(s, (CHOOSE i \in at : \A j \in at : i <= j) + 1, Len(s))]
       ELSE f

-----------------------------------------------------------------------------
(* The main loop *)

\* The outputs a block spends are there: BlockStore is about that.
Unspent == {o \in Output : OnChain(o[1]) /\ ~ \E t \in Stored : o \in Ins[t]}
Connectable(b) ==
    \A i \in 1 .. Len(b) :
        /\ ~OnChain(b[i])
        /\ \A o \in Ins[b[i]] : o \in Unspent \/ \E j \in 1 .. i - 1 : b[j] = o[1]
        /\ \A j \in 1 .. i - 1 : Ins[b[i]] \cap Ins[b[j]] = {}

\* add_new_block: the block is checked, and store_block begins.
AddBlock ==
    /\ mpc = "idle" /\ spc[Main] = "idle" /\ Len(chain) < use.blocks
    /\ \E b \in use.offered : Connectable(b) /\ chain' = Append(chain, b) /\ queue' = b
    /\ mpc' = "store"
    /\ UNCHANGED <<use, adr, gone, removed, dirs, book, todo, locks, scanVars, scans, histVars>>

\* store_tx_addresses, for each address of a transaction that does not have it:
\* the file of the index is deleted, then the new one is moved in its place. (The
\* first time there is none to delete: a scan finds no file all the same.)
DelIndex ==
    /\ mpc = "store" /\ queue # << >> /\ gone = {}
    /\ \E a \in Unindexed(Head(queue)) : gone' = SharedFiles({a})
    /\ UNCHANGED <<use, chain, adr, removed, dirs, book, mainVars, todo, locks, scanVars, scans,
                   histVars>>

MoveIndex ==
    /\ mpc = "store" /\ queue # << >>
    /\ \E a \in Unindexed(Head(queue)) \cap gone : adr' = [adr EXCEPT ![a] = Append(@, Head(queue))]
    /\ gone' = {}
    /\ UNCHANGED <<use, chain, removed, dirs, book, mainVars, todo, locks, scanVars, scans, histVars>>

TxStored ==
    /\ mpc = "store" /\ queue # << >> /\ gone = {} /\ Unindexed(Head(queue)) = {}
    /\ queue' = Tail(queue)
    /\ UNCHANGED <<use, chainVars, dirs, book, mpc, todo, locks, scanVars, scans, histVars>>

\* store_blk_tx_staking; the transactions then go into the wallet.
BlockStored ==
    /\ mpc = "store" /\ queue = << >>
    /\ book' = [a \in Addrs |-> IF a \in dirs THEN AddStakes(book[a], a, StakeTxs(Last(chain)))
                                              ELSE book[a]]
    /\ queue' = Last(chain)
    /\ mpc' = "outs"
    /\ UNCHANGED <<use, chainVars, dirs, todo, locks, scanVars, scans, histVars>>

\* store_wallet_tx: the outputs, then the inputs.
StoreWalletOuts ==
    /\ mpc = "outs"
    /\ book' = [a \in Addrs |-> IF a \in dirs THEN AddOutputs(book[a], a, Head(queue))
                                              ELSE book[a]]
    /\ mpc' = "ins"
    /\ UNCHANGED <<use, chainVars, dirs, queue, todo, locks, scanVars, scans, histVars>>

StoreWalletIns ==
    /\ mpc = "ins"
    /\ book' = [a \in Addrs |-> SpendInputs(book[a], a, Head(queue))]
    /\ queue' = Tail(queue)
    /\ mpc' = IF Tail(queue) = << >> THEN "idle" ELSE "outs"
    /\ UNCHANGED <<use, chainVars, dirs, todo, locks, scanVars, scans, histVars>>

\* A block is removed: for each transaction, the last first, remove_wallet_tx.
RemoveBlock ==
    /\ mpc = "idle" /\ spc[Main] = "idle" /\ chain # << >> /\ removed < use.removals
    /\ removed' = removed + 1
    /\ queue' = Last(chain)
    /\ mpc' = "undo"
    /\ UNCHANGED <<use, chain, adr, gone, dirs, book, todo, locks, scanVars, scans, histVars>>

\* remove_tx_addresses deletes and moves the files of the index as well.
DelIndexes ==
    /\ mpc = "undo" /\ queue # << >> /\ gone = {}
    /\ Touched(Last(queue)) # {} /\ gone' = SharedFiles(Touched(Last(queue)))
    /\ UNCHANGED <<use, chain, adr, removed, dirs, book, mainVars, todo, locks, scanVars, scans,
                   histVars>>

RemoveWalletTx ==
    /\ mpc = "undo" /\ queue # << >> /\ gone = SharedFiles(Touched(Last(queue)))
    /\ LET t == Last(queue)
       IN /\ book' = [a \in Addrs |->
                UnspendInputs(DropStake(DropOutputs(book[a], a, t), a, t), a, t)]
          /\ adr' = [a \in Addrs |-> IF a \in Touched(t) THEN Only(adr[a], Txs \ {t})
                                                          ELSE adr[a]]
          /\ undone' = undone \cup Touched(t)
    /\ gone' = {}
    /\ queue' = Front(queue)
    /\ UNCHANGED <<use, chain, removed, dirs, mpc, todo, locks, scanVars, scans, missed, partial>>

BlockRemoved ==
    /\ mpc = "undo" /\ queue = << >>
    /\ chain' = Front(chain)
    /\ mpc' = "idle"
    /\ UNCHANGED <<use, adr, gone, removed, dirs, book, queue, todo, locks, scanVars, scans,
                   histVars>>

-----------------------------------------------------------------------------
(* Scans *)

\* importaddress; the caller may ask for no scan.
Import(a) ==
    /\ scans < MaxScans
    /\ scans' = scans + 1
    /\ dirs' = dirs \cup {a}
    /\ \/ todo' = todo \cup {a} /\ UNCHANGED partial
       \/ partial' = partial \cup ({a} \ dirs) /\ UNCHANGED todo
    /\ UNCHANGED <<use, chainVars, book, mainVars, locks, scanVars, missed, undone>>

\* rescan_addr, of rescanaddrs or of scan_addresses in the main loop.
StartScan(p, a) ==
    /\ spc[p] = "idle"
    /\ spc' = [spc EXCEPT ![p] = "test"]
    /\ sadr' = [sadr EXCEPT ![p] = a]
    /\ UNCHANGED <<use, sfirst, spage, scut>>

Rescan(p) ==
    /\ p \in use.scanners /\ scans < MaxScans
    /\ scans' = scans + 1
    /\ \E a \in Addrs : StartScan(p, a)
    /\ UNCHANGED <<use, chainVars, dirs, book, mainVars, todo, locks, histVars>>

ScanAddresses ==
    /\ mpc = "idle"
    /\ \E a \in todo : StartScan(Main, a) /\ todo' = todo \ {a}
    /\ UNCHANGED <<use, chainVars, dirs, book, mainVars, locks, scans, histVars>>

\* lock_addr_scan: no scan while the lock file is there.
TestLock(p) ==
    /\ spc[p] = "test"
    /\ spc' = [spc EXCEPT ![p] = IF sadr[p] \in locks THEN "idle" ELSE "lock"]
    /\ UNCHANGED <<use, chainVars, dirs, book, mainVars, todo, locks, sadr, sfirst, spage, scut,
                   scans, histVars>>

\* Mutant: the stakes are kept.
ClearedDirs == <<"spent", "objects", "sentobjs", "unspent">>
\* The order in which a scan deletes them.
ClearedParts == <<"spent", "objects", "sentobjs", "unspent", "stakes">>
PutLock(p) ==
    /\ spc[p] = "lock"
    /\ locks' = locks \cup {sadr[p]}
    /\ spc' = [spc EXCEPT ![p] = "clear"]
    /\ scut' = [scut EXCEPT ![p] = IF sadr[p] \in dirs THEN ClearedParts ELSE << >>]
    /\ UNCHANGED <<use, chainVars, dirs, book, mainVars, todo, sadr, sfirst, spage, scans, histVars>>

\* One directory after the other is emptied.
Clear(p) ==
    /\ spc[p] = "clear" /\ scut[p] # << >>
    /\ book' = [book EXCEPT ![sadr[p]][Head(scut[p])] = NoFiles[Head(scut[p])]]
    /\ scut' = [scut EXCEPT ![p] = Tail(@)]
    /\ UNCHANGED <<use, chainVars, dirs, mainVars, todo, locks, spc, sadr, sfirst, spage, scans, histVars>>

\* The directory of the address is made, if it was not there.
MakeDir(p) ==
    /\ spc[p] = "clear" /\ scut[p] = << >>
    /\ dirs' = dirs \cup {sadr[p]}
    /\ spc' = [spc EXCEPT ![p] = "load"]
    /\ sfirst' = [sfirst EXCEPT ![p] = 0]
    /\ missed' = missed \ {sadr[p]}
    /\ UNCHANGED <<use, chainVars, book, mainVars, todo, locks, sadr, spage, scut, scans, undone,
                   partial>>

\* Mutant: the next page begins one transaction late.
PageFrom1(first) == first + (IF first > 0 THEN 1 ELSE 0)
PageFrom(first) == first
\* load_tx_addresses: transactions of the address that are on the chain, none
\* when there is no file: the scan ends.
LoadPage(a, first) ==
    LET known == Only(adr[a], {t \in Txs : Loadable(t)})
    IN SubSeq(known, PageFrom(first) + 1,
              IF PageFrom(first) + Page < Len(known) THEN PageFrom(first) + Page ELSE Len(known))

Load(p) ==
    /\ spc[p] = "load"
    /\ spage' = [spage EXCEPT ![p] = IF sadr[p] \in gone THEN << >>
                                     ELSE LoadPage(sadr[p], sfirst[p])]
    /\ missed' = missed \cup ({sadr[p]} \cap gone)
    /\ sfirst' = [sfirst EXCEPT ![p] = @ + Page]
    /\ spc' = [spc EXCEPT ![p] = IF spage'[p] = << >> THEN "unlock" ELSE "outs"]
    /\ UNCHANGED <<use, chainVars, dirs, book, mainVars, todo, locks, sadr, scut, scans, undone,
                   partial>>

NextTx(p) ==
    /\ spage' = [spage EXCEPT ![p] = Tail(@)]
    /\ spc' = [spc EXCEPT ![p] = IF Tail(spage[p]) = << >> THEN "load" ELSE "outs"]

\* store_tx_wallet: a transaction that is gone meanwhile is passed over.
StoreTxOuts(p) ==
    /\ spc[p] = "outs" /\ Loadable(Head(spage[p]))
    /\ book' = [book EXCEPT ![sadr[p]] = AddOutputs(@, sadr[p], Head(spage[p]))]
    /\ spc' = [spc EXCEPT ![p] = "ins"]
    /\ UNCHANGED <<use, chainVars, dirs, mainVars, todo, locks, sadr, sfirst, spage, scut, scans, histVars>>

StoreTxGone(p) ==
    /\ spc[p] = "outs" /\ ~Loadable(Head(spage[p]))
    /\ NextTx(p)
    /\ UNCHANGED <<use, chainVars, dirs, book, mainVars, todo, locks, sadr, sfirst, scut, scans, histVars>>

StoreTxIns(p) ==
    /\ spc[p] = "ins"
    /\ LET a == sadr[p] t == Head(spage[p])
       IN book' = [book EXCEPT ![a] = AddStakes(SpendInputs(@, a, t), a, <<t>>)]
    /\ NextTx(p)
    /\ UNCHANGED <<use, chainVars, dirs, mainVars, todo, locks, sadr, sfirst, scut, scans, histVars>>

RmAddrScan(a) == locks \ {a}
Unlock(p) ==
    /\ spc[p] = "unlock"
    /\ locks' = RmAddrScan(sadr[p])
    /\ undone' = undone \ {sadr[p]}
    /\ partial' = partial \ {sadr[p]}
    /\ spc' = [spc EXCEPT ![p] = "idle"]
    /\ UNCHANGED <<use, chainVars, dirs, book, mainVars, todo, sadr, sfirst, spage, scut, scans,
                   missed>>

-----------------------------------------------------------------------------

Init ==
    /\ use \in Uses
    /\ chain = << >> /\ adr = [a \in Addrs |-> << >>] /\ gone = {} /\ removed = 0
    /\ dirs = {} /\ book = [a \in Addrs |-> NoFiles]
    /\ mpc = "idle" /\ queue = << >>
    /\ todo = {} /\ locks = {}
    /\ spc = [p \in Threads |-> "idle"] /\ sadr = [p \in Threads |-> CHOOSE a \in Addrs : TRUE]
    /\ sfirst = [p \in Threads |-> 0] /\ spage = [p \in Threads |-> << >>]
    /\ scut = [p \in Threads |-> << >>]
    /\ scans = 0 /\ missed = {} /\ undone = {} /\ partial = {}

MainLoop == AddBlock \/ DelIndex \/ MoveIndex \/ TxStored \/ BlockStored
            \/ StoreWalletOuts \/ StoreWalletIns
            \/ RemoveBlock \/ DelIndexes \/ RemoveWalletTx \/ BlockRemoved \/ ScanAddresses
ScanStep(p) == TestLock(p) \/ PutLock(p) \/ Clear(p) \/ MakeDir(p) \/ Load(p) \/ StoreTxOuts(p)
               \/ StoreTxGone(p) \/ StoreTxIns(p) \/ Unlock(p)
Next == \/ MainLoop
        \/ \E a \in Addrs : Import(a)
        \/ \E p \in Rpc : Rescan(p)
        \/ \E p \in Threads : ScanStep(p)

Spec == Init /\ [][Next]_vars

-----------------------------------------------------------------------------
(* Properties *)

File == [n : Nat, by : Seq(Txs)]
IsFiles(f) == DOMAIN f \subseteq Output /\ \A o \in DOMAIN f : f[o] \in File
TypeOK ==
    /\ use \in Uses /\ chain \in Seq(use.offered) /\ adr \in [Addrs -> Seq(Txs)]
    /\ gone \subseteq Addrs /\ missed \subseteq Addrs
    /\ dirs \subseteq Addrs /\ todo \subseteq dirs /\ locks \subseteq Addrs
    /\ \A a \in Addrs : /\ \A p \in Parts \ {"stakes"} : IsFiles(book[a][p])
                        /\ book[a]["stakes"] \in Seq(Txs)
    /\ mpc \in {"idle", "store", "outs", "ins", "undo"} /\ queue \in Seq(Txs)
    /\ spc \in [Threads -> {"idle", "test", "lock", "clear", "load", "outs", "ins", "unlock"}]
    /\ sadr \in [Threads -> Addrs] /\ spage \in [Threads -> Seq(Txs)]

AtRest == mpc = "idle" /\ todo = {} /\ \A p \in Threads : spc[p] = "idle"

Made(a, kind) == {o \in Output : OnChain(o[1]) /\ Out(o).to = a /\ Out(o).kind = kind}
Spender(o) == CHOOSE t \in Stored : o \in Ins[t]

\* An object is the first output of its transaction, and what spends it gives
\* an object away.
ObjectsMove ==
    /\ \A t \in Txs : \A i \in 1 .. Len(Outs[t]) : Outs[t][i].kind = "obj" => i = 1
    /\ \A t \in Txs : \A o \in Ins[t] : Out(o).kind = "obj" => HasObjTxfr(t)

\* When nobody but the main loop scans, the files of an address say what the
\* chain says: its coins are those nobody spent, the spent ones name the
\* transaction that spent them, and its objects are those it has not given
\* away, also after blocks were removed and others added.
ListsFollowChain ==
    AtRest /\ use.scanners = {} => \A a \in dirs \ partial :
        /\ DOMAIN book[a]["unspent"] = Made(a, "coin") \cap Unspent
        /\ DOMAIN book[a]["spent"] = Made(a, "coin") \ Unspent
        /\ \A o \in DOMAIN book[a]["spent"] :
            LET f == book[a]["spent"][o]
            IN f.by # << >> /\ Last(f.by) = Spender(o) /\ (f.n > 0 => Len(f.by) = 1)
        /\ DOMAIN book[a]["objects"] = Made(a, "obj") \cap Unspent
        /\ DOMAIN book[a]["sentobjs"] = Made(a, "obj") \ Unspent

\* A scan of an RPC thread runs while the main loop adds blocks, or beside
\* another scan: afterwards no coin the address can spend is missing, unless a
\* scan has come to the index just when it was deleted. (One that was spent
\* meanwhile may be listed as well: the main loop had nothing to move when it
\* came to the spender.)
CoinsAreListed ==
    AtRest /\ (use.scanners = {} \/ use.removals = 0) => \A a \in dirs \ (partial \cup missed) :
        Made(a, "coin") \cap Unspent \subseteq DOMAIN book[a]["unspent"]

\* The record of staked blocks of an address names the transaction that staked
\* each, whether it was written block by block or by a scan, and nothing that did
\* not stake for the address, until a block is removed: remove_tx_staking drops
\* the wrong records.
StakeOf(a) == {t \in Stored \cap Stakes : Staker(t) = a}
StakedBlocks(a) == {k \in 1 .. Len(chain) : Len(chain[k]) > 1 /\ chain[k][2] \in StakeOf(a)}
StakesFollowChain ==
    AtRest /\ (use.scanners = {} \/ use.removals = 0) =>
        \A a \in dirs \ (undone \cup partial \cup missed) :
            /\ ToSet(book[a]["stakes"]) \subseteq StakeOf(a)
            /\ \A k \in StakedBlocks(a) : chain[k][2] \in ToSet(book[a]["stakes"])

=============================================================================
