------------------------------ MODULE AppStore ------------------------------
(***************************************************************************)
(* The files an application keeps for the objects of one of its types      *)
(* (block_adx/app_store.c): the list of the objects, their indexes by      *)
(* time, by a number, by a unique name and by the address of the holder,   *)
(* the transfers, the lists of children, and the index of the application's*)
(* files. store_block enters the transactions of a block one by one,       *)
(* remove_tx takes them out again (block_adx/store.c).                     *)
(*                                                                         *)
(* The main loop is the only writer. A block here is stored to its end:    *)
(* blocks that stop half way, coins and signatures are in BlockStore.      *)
(***************************************************************************)
EXTENDS Integers, FiniteSets, SequencesExt

CONSTANTS
    Tx,          \* the transactions of the application
    Item,        \* what each one makes, by its kind:
                 \*   "type"    the type of the objects
                 \*   "object"  .name .rank .time .addr
                 \*   "child"   .of, the parent, and .new, the object added to it
                 \*   "move"    .obj and .addr: the object leaves its first holder
                 \*   "again"   .obj .from .addr: handed on by who has it from .from
                 \*   "file"    .data, its hash
                 \*   "layout"  .name of the page; modules are kept the same way
    Hash,        \* the order of the transactions by their hashes
    Candidates,  \* the blocks that may come
    MaxHeight,   \* bound: blocks on the chain
    MaxUndo,     \* bound: blocks removed
    MaxEntries,  \* bound: entries in an index. From five on the code moves
                 \* entries beyond the end of its buffer
    MaxTimes     \* bound: entries in the index of the times

ASSUME AppAssumption ==
    /\ DOMAIN Item = Tx
    /\ Hash \in [Tx -> Nat]
    /\ Candidates \subseteq Seq(Tx)
    /\ MaxHeight \in Nat /\ MaxUndo \in Nat /\ MaxEntries \in 0 .. 4 /\ MaxTimes \in 0 .. 7

OfKind(kind) == {t \in Tx : Item[t].kind = kind}
Objects == OfKind("object")
Moves == OfKind("move")
Pages == {Item[t].name : t \in OfKind("layout")}
HexOf(t) == <<"hex", t>>   \* the hash of a transaction, written as text

VARIABLES
    chain,    \* the blocks
    stored,   \* the transactions load_tx finds
    types,    \* apps/<app>/types: the transactions that declare the type
    known,    \* whether the application in memory knows the type
    list,     \* apps/<app>/objs/<type>
    index,    \* ..._time.idx, _<key>.idx, _addr.idx and _txfr.idx
    kids,     \* apps/<app>/objs/<object>_<key>
    datas,    \* apps/<app>/datas/index
    layouts,  \* apps/<app>/layouts: the transaction a page is from
    held,     \* the transactions whose first output holds an object, unspent
    pc,       \* "idle", "store" or "remove"
    cur, k,   \* the block, and its next transaction to store
    pending,  \* those still to be removed
    undone,   \* how many blocks have been removed
    spoilt    \* what does not follow the chain any more

files == <<types, list, index, kids, datas, layouts>>
loopVars == <<chain, pc, cur, pending, undone>>
vars == <<files, loopVars, stored, known, held, k, spoilt>>

ChainTxs == FlattenSeq(chain)
OnChain(kind) == SelectSeq(ChainTxs, LAMBDA t : Item[t].kind = kind)

-----------------------------------------------------------------------------
(* The indexes *)

\* A new entry goes to position i, before the first one that follows it; if
\* none does, to the end.
Enter(f, e, i) == IF i = 0 THEN Append(f, e) ELSE InsertAt(f, i, e)

\* Numbers and addresses go down and names go up, equal ones in the order they
\* came; transfers go down by the hash of the object, and a new entry comes
\* before its equals.
add_index(f, val, t) == Enter(f, <<val, t>>, SelectInSeq(f, LAMBDA e : val > e[1]))
add_index_str(f, val, t) == Enter(f, <<val, t>>, SelectInSeq(f, LAMBDA e : e[1] > val))
add_index_addr(f, addr, t) == Enter(f, <<addr, t>>, SelectInSeq(f, LAMBDA e : e[1] < addr))
add_obj_txfr(f, o, t) == Enter(f, <<o, t>>, SelectInSeq(f, LAMBDA e : Hash[e[1]] <= Hash[o]))

EntryOf(f, i, x) == SelectInSeq(f, LAMBDA e : e[i] = x)
Without(f, i) == IF i = 0 THEN f ELSE RemoveAt(f, i)

\* All indexes but one move the entries behind a removed one down, and one entry
\* too few when it is the first: the last is lost then, and of two entries the
\* removed one stays.
CutShort(f, i) ==
    IF i = 0 THEN f
    ELSE [j \in 1 .. Len(f) - 1 |-> IF i < Len(f) /\ j \in i .. i + Len(f) - 3 THEN f[j + 1] ELSE f[j]]

\* Mutant: that one is cut like the others.
rm_hash_from_index_short(f, t) == CutShort(f, EntryOf(f, 2, t))
rm_hash_from_index(f, t) == Without(f, EntryOf(f, 2, t))
rm_hash_from_index_str(f, t) == CutShort(f, EntryOf(f, 2, t))
rm_hash_from_index_addr(f, t) == CutShort(f, EntryOf(f, 2, t))
rm_hash_from_obj_txfr(f, o) == CutShort(f, EntryOf(f, 1, o))

\* The index `name` after a removal that should leave `right`.
Spoils(name, is, right) == IF is = right THEN {} ELSE {name}

-----------------------------------------------------------------------------
(* Checking a block *)

Earlier(b, i) == {b[j] : j \in 1 .. i - 1}

\* The names of the objects on disk are looked up, not those of the block.
check_app_obj_unique(t) == EntryOf(index.name, 1, Item[t].name) = 0

\* The source of a second hand transfer must be among the unspent outputs; an
\* object itself is not looked up there (BlockStore), but a block that spends one
\* its holder has passed on stops half way.
Valid(b, i) ==
    LET t == b[i]
        Found(o) == o \in stored \cup Earlier(b, i)
    IN  /\ t \notin stored \cup Earlier(b, i)
        /\ CASE Item[t].kind = "object" -> known /\ check_app_obj_unique(t)
             [] Item[t].kind = "child" -> known /\ Found(Item[t].of)
             [] Item[t].kind = "move" ->
                  /\ Item[t].obj \in held \cup Earlier(b, i)
                  /\ \A j \in 1 .. i - 1 : b[j] \in Moves => Item[b[j]].obj # Item[t].obj
             [] Item[t].kind = "again" -> Item[t].from \in held
             [] OTHER -> TRUE

CountIn(b, kind) == Cardinality({i \in 1 .. Len(b) : Item[b[i]].kind = kind})
Fits(b, adds) ==
    /\ Len(index.addr) + CountIn(b, adds) <= MaxEntries
    /\ Len(index.txfr) + CountIn(b, "move") <= MaxEntries
    /\ Len(index.time) + CountIn(b, "object") <= MaxTimes

Accept(b) ==
    /\ pc = "idle" /\ Len(chain) < MaxHeight
    /\ \A i \in 1 .. Len(b) : Valid(b, i)
    /\ Fits(b, "object")
    /\ pc' = "store" /\ cur' = b /\ k' = 1
    /\ UNCHANGED <<chain, pending, undone, files, stored, known, held, spoilt>>

-----------------------------------------------------------------------------
(* Storing it *)

\* The next transaction is of this kind; its index is written first.
Storing(kind) ==
    /\ pc = "store" /\ k <= Len(cur) /\ Item[cur[k]].kind = kind
    /\ k' = k + 1 /\ stored' = stored \cup {cur[k]}
    /\ UNCHANGED loopVars

StoreType ==
    /\ Storing("type")
    /\ types' = types \cup {cur[k]} /\ known' = TRUE
    /\ UNCHANGED <<list, index, kids, datas, layouts, held, spoilt>>

\* store_app_item and add_obj_index. The type in memory may be one whose
\* transaction has been removed.
StoreObject ==
    /\ Storing("object")
    /\ LET t == cur[k]  o == Item[t] IN
         /\ list' = Append(list, t)
         /\ index' = [index EXCEPT
              !.time = add_index(@, o.time, t), !.addr = add_index_addr(@, o.addr, t),
              !.rank = add_index(@, o.rank, t), !.name = add_index_str(@, o.name, t)]
         /\ held' = held \cup {t}
    /\ spoilt' = IF types = {} THEN spoilt \cup {"type"} ELSE spoilt
    /\ UNCHANGED <<types, kids, datas, layouts, known>>

\* store_app_obj_child; the output of the parent is not spent.
StoreChild ==
    /\ Storing("child")
    /\ kids' = [kids EXCEPT ![Item[cur[k]].of] = Append(@, Item[cur[k]].new)]
    /\ UNCHANGED <<types, list, index, datas, layouts, known, held, spoilt>>

\* Mutant: the entry of the holder before stays.
MovedToBoth(f, o, t) == add_index_addr(f, Item[t].addr, o)
MovedTo(f, o, t) == add_index_addr(rm_hash_from_index_addr(f, o), Item[t].addr, o)

\* store_app_obj_txfr, and the outputs of the object and of the transfer.
StoreMove ==
    /\ Storing("move")
    /\ LET t == cur[k]  o == Item[t].obj IN
         /\ index' = [index EXCEPT
              !.addr = MovedTo(@, o, t), !.txfr = add_obj_txfr(@, o, t)]
         /\ held' = (held \ {o}) \cup {t}
         /\ spoilt' = spoilt \cup Spoils("addr", rm_hash_from_index_addr(index.addr, o),
                                         rm_hash_from_index(index.addr, o))
    /\ UNCHANGED <<types, list, kids, datas, layouts, known>>

\* A second hand transfer enters no index.
StoreAgain ==
    /\ Storing("again")
    /\ held' = (held \ {Item[cur[k]].from}) \cup {cur[k]}
    /\ UNCHANGED <<files, known, spoilt>>

StoreFile ==
    /\ Storing("file")
    /\ datas' = Append(datas, <<Item[cur[k]].data, cur[k]>>)
    /\ UNCHANGED <<types, list, index, kids, layouts, known, held, spoilt>>

StoreLayout ==
    /\ Storing("layout")
    /\ layouts' = [layouts EXCEPT ![Item[cur[k]].name] = {cur[k]}]
    /\ UNCHANGED <<types, list, index, kids, datas, known, held, spoilt>>

EndStore ==
    /\ pc = "store" /\ k > Len(cur)
    /\ chain' = Append(chain, cur)
    /\ pc' = "idle" /\ cur' = <<>> /\ k' = 1
    /\ UNCHANGED <<pending, undone, files, stored, known, held, spoilt>>

-----------------------------------------------------------------------------
(* Removing the last block *)

BeginRemove ==
    /\ pc = "idle" /\ chain # <<>> /\ undone < MaxUndo
    /\ Fits(Last(chain), "child")
    /\ pc' = "remove" /\ cur' = Last(chain) /\ pending' = ToSet(Last(chain))
    /\ undone' = undone + 1
    /\ UNCHANGED <<chain, files, stored, known, held, k, spoilt>>

\* The node module calls remove_tx for the transactions in any order.
Removing(t, kind) ==
    /\ pc = "remove" /\ t \in pending /\ Item[t].kind = kind
    /\ pending' = pending \ {t} /\ stored' = stored \ {t}
    /\ UNCHANGED <<chain, pc, cur, undone, known, k>>

\* rm_type: the type stays in memory.
RemoveType(t) ==
    /\ Removing(t, "type")
    /\ types' = types \ {t} /\ list' = <<>> /\ index' = [index EXCEPT !.time = <<>>]
    /\ UNCHANGED <<kids, datas, layouts, held, spoilt>>

\* Mutant: the lists of the children of a removed object stay.
KidsWithoutNone(o) == kids
KidsWithout(o) == [kids EXCEPT ![o] = <<>>]

\* rm_obj: the keys are those of the type in memory. Its entry in the index of
\* the times is never found: the search goes by 32 bytes, entries have 36.
RemoveObject(t) ==
    /\ Removing(t, "object")
    /\ list' = Remove(list, t)
    /\ kids' = IF known THEN KidsWithout(t) ELSE kids
    /\ index' = [index EXCEPT
         !.addr = rm_hash_from_index_addr(@, t),
         !.rank = IF known THEN rm_hash_from_index(@, t) ELSE @,
         !.name = IF known THEN rm_hash_from_index_str(@, t) ELSE @]
    /\ held' = held \ {t}
    /\ spoilt' = spoilt
         \cup Spoils("addr", index'.addr, Without(index.addr, EntryOf(index.addr, 2, t)))
         \cup Spoils("name", index'.name, Without(index.name, EntryOf(index.name, 2, t)))
    /\ UNCHANGED <<types, datas, layouts>>

\* cancel_tx_outputs takes the child off the list; cancel_tx_inputs writes back
\* the output of the parent, as if it had been spent, with a second entry in the
\* index of the addresses.
RemoveChild(t) ==
    /\ Removing(t, "child")
    /\ LET p == Item[t].of IN
         IF p \in stored
         THEN /\ kids' = [kids EXCEPT ![p] = RemoveFirst(@, Item[t].new)]
              /\ index' = [index EXCEPT !.addr = add_index_addr(@, Item[p].addr, p)]
              /\ held' = held \cup {p}
              /\ spoilt' = spoilt \cup {"addr"}
         ELSE UNCHANGED <<kids, index, held, spoilt>>
    /\ UNCHANGED <<types, list, datas, layouts>>

\* The transfer and the address are taken out, the output of the object and its
\* first address written back; nothing but the output when the object is removed
\* before its transfer.
RemoveMove(t) ==
    /\ Removing(t, "move")
    /\ LET o == Item[t].obj IN
         IF o \in stored
         THEN /\ index' = [index EXCEPT
                   !.addr = add_index_addr(rm_hash_from_index_addr(@, o), Item[o].addr, o),
                   !.txfr = rm_hash_from_obj_txfr(@, o)]
              /\ held' = (held \ {t}) \cup {o}
              /\ spoilt' = spoilt
                   \cup Spoils("addr", rm_hash_from_index_addr(index.addr, o),
                               rm_hash_from_index(index.addr, o))
                   \cup Spoils("txfr", index'.txfr, Without(index.txfr, EntryOf(index.txfr, 1, o)))
         ELSE /\ held' = held \ {t}
              /\ spoilt' = spoilt \cup {"txfr"}
              /\ UNCHANGED index
    /\ UNCHANGED <<types, list, kids, datas, layouts>>

\* The same for a second hand transfer, which had no entries: those of the
\* transfer before are taken out, and that transfer is entered again by its hash
\* as text. The object and the transfer before are of earlier blocks.
RemoveAgain(t) ==
    /\ Removing(t, "again")
    /\ LET o == Item[t].obj  from == Item[t].from IN
         /\ index' = [index EXCEPT
              !.addr = add_index_addr(rm_hash_from_index_addr(@, o), Item[from].addr, o),
              !.txfr = add_obj_txfr(rm_hash_from_obj_txfr(@, o), o, HexOf(from))]
         /\ held' = (held \ {t}) \cup {from}
         /\ spoilt' = spoilt \cup {"txfr"}
              \cup Spoils("addr", rm_hash_from_index_addr(index.addr, o),
                          rm_hash_from_index(index.addr, o))
    /\ UNCHANGED <<types, list, kids, datas, layouts>>

\* rm_file_from_index looks at the first entry only.
rm_file_from_index(f, d) == IF f # <<>> /\ f[1][1] = d THEN Tail(f) ELSE f

RemoveFile(t) ==
    /\ Removing(t, "file")
    /\ datas' = rm_file_from_index(datas, Item[t].data)
    /\ spoilt' = spoilt \cup Spoils("datas", datas', rm_hash_from_index(datas, t))
    /\ UNCHANGED <<types, list, index, kids, layouts, held>>

\* Nothing takes a page back.
RemoveLayout(t) ==
    /\ Removing(t, "layout")
    /\ spoilt' = spoilt \cup {"layouts"}
    /\ UNCHANGED <<files, held>>

EndRemove ==
    /\ pc = "remove" /\ pending = {}
    /\ chain' = Front(chain)
    /\ pc' = "idle" /\ cur' = <<>>
    /\ UNCHANGED <<pending, undone, files, stored, known, held, k, spoilt>>

\* A new start reads the types from their files.
blk_load_app_types ==
    /\ pc = "idle" /\ known # (types # {})
    /\ known' = (types # {})
    /\ UNCHANGED <<files, loopVars, stored, held, k, spoilt>>

-----------------------------------------------------------------------------

Init ==
    /\ chain = <<>> /\ stored = {} /\ types = {} /\ known = FALSE
    /\ list = <<>> /\ datas = <<>> /\ held = {}
    /\ index = [time |-> <<>>, addr |-> <<>>, rank |-> <<>>, name |-> <<>>, txfr |-> <<>>]
    /\ kids = [o \in Objects |-> <<>>]
    /\ layouts = [n \in Pages |-> {}]
    /\ pc = "idle" /\ cur = <<>> /\ k = 1 /\ pending = {} /\ undone = 0 /\ spoilt = {}

Next ==
    \/ \E b \in Candidates : Accept(b)
    \/ StoreType \/ StoreObject \/ StoreChild \/ StoreMove \/ StoreAgain \/ StoreFile \/ StoreLayout
    \/ EndStore \/ BeginRemove
    \/ \E t \in Tx :
         \/ RemoveType(t) \/ RemoveObject(t) \/ RemoveChild(t)
         \/ RemoveMove(t) \/ RemoveAgain(t) \/ RemoveFile(t) \/ RemoveLayout(t)
    \/ EndRemove \/ blk_load_app_types

Spec == Init /\ [][Next]_vars

-----------------------------------------------------------------------------
(* What the RPC methods read *)

get_app_type_obj_hashes == list
get_app_type_last_objs_hashes == [i \in 1 .. Len(index.time) |-> index.time[i][2]]
load_obj_childs(o) == kids[o]
find_objs_by_addr(addr) == {e[2] : e \in {f \in ToSet(index.addr) : f[1] = addr}}
find_index_str(name) == {index.name[i][2] : i \in {EntryOf(index.name, 1, name)} \ {0}}
find_obj_txfr(o) == {index.txfr[i][2] : i \in {EntryOf(index.txfr, 1, o)} \ {0}}
get_appfile_tx(d) == {datas[i][2] : i \in {EntryOf(datas, 1, d)} \ {0}}

-----------------------------------------------------------------------------
(* Correctness *)

Idle == pc = "idle"

\* When no block is under way, the list has the objects of the chain in their
\* order, the index by a number has each of them once and is sorted, and the
\* last objects by time miss none: whatever add_obj_index and rm_obj have entered
\* and taken out, in any order within a block.
ObjectsAreListed ==
    (Idle /\ "type" \notin spoilt) =>
        /\ get_app_type_obj_hashes = OnChain("object")
        /\ Len(index.rank) = Len(list) /\ {e[2] : e \in ToSet(index.rank)} = ToSet(list)
        /\ IsSorted(index.rank, LAMBDA d, e : d[1] >= e[1])
        /\ IsSorted(index.time, LAMBDA d, e : d[1] >= e[1])
        /\ ToSet(list) \subseteq ToSet(get_app_type_last_objs_hashes)

\* When no block is under way, the children load_obj_childs shows are those the
\* transactions of the chain have added, each as often; an object off the chain
\* has none, also when rm_obj came before the removal of its children.
ChildrenAreListed ==
    (Idle /\ "type" \notin spoilt) =>
        \A o \in Objects :
            ToBag(load_obj_childs(o)) =
                ToBag(LET c == SelectSeq(OnChain("child"), LAMBDA t : Item[t].of = o)
                      IN  [i \in 1 .. Len(c) |-> Item[c[i]].new])

\* The parts of LookupsFollowChain
NamesFollow ==
    \A o \in Objects :
        (o \in find_index_str(Item[o].name)) => o \in ToSet(list)
NamesFound ==
    \A o \in ToSet(OnChain("object")) : find_index_str(Item[o].name) # {}
NamesUnique ==
    \A h, g \in 1 .. Len(chain) :
        \A o \in ToSet(chain[h]) \cap Objects, p \in ToSet(chain[g]) \cap Objects :
            (h # g) => Item[o].name # Item[p].name
MovesOf(o) == {t \in ToSet(OnChain("move")) : Item[t].obj = o}
HandedOn == {Item[t].obj : t \in ToSet(OnChain("again"))}
HoldersFollow ==
    \A o \in Objects \ HandedOn : \A e \in {f \in ToSet(index.addr) : f[2] = o} :
        \/ o \in ToSet(OnChain("object")) /\ MovesOf(o) = {} /\ e[1] = Item[o].addr
        \/ \E t \in MovesOf(o) : e[1] = Item[t].addr
HoldersFound ==
    \A o \in ToSet(OnChain("object")) \ HandedOn :
        IF MovesOf(o) = {} THEN o \in find_objs_by_addr(Item[o].addr)
        ELSE \E t \in MovesOf(o) : o \in find_objs_by_addr(Item[t].addr)
TransfersFollow == \A o \in Objects : find_obj_txfr(o) = MovesOf(o)
FilesFollow ==
    \A t \in OfKind("file") :
        get_appfile_tx(Item[t].data) = {u \in ToSet(OnChain("file")) : Item[u].data = Item[t].data}

PagesFollow ==
    \A n \in Pages :
        LET c == SelectSeq(OnChain("layout"), LAMBDA t : Item[t].name = n)
        IN  layouts[n] = IF c = <<>> THEN {} ELSE {Last(c)}

\* When no block is under way, what the lookups answer follows the chain, each
\* until the code has got its index wrong: an object is found by its name and by
\* the address of who holds it, as long as it has not changed hands twice, its
\* transfer is the one of the chain, a file is found by its hash,
\* and a page is the last one stored under its name. No two objects of different
\* blocks have the same name.
LookupsFollowChain ==
    (Idle /\ "type" \notin spoilt) =>
        /\ "name" \notin spoilt => NamesFollow /\ NamesFound /\ NamesUnique
        /\ "addr" \notin spoilt => HoldersFollow /\ HoldersFound
        /\ "txfr" \notin spoilt => TransfersFollow
        /\ "datas" \notin spoilt => FilesFollow
        /\ "layouts" \notin spoilt => PagesFollow

=============================================================================
