------------------------------ MODULE HashIndex ------------------------------
(***************************************************************************)
(* The index of the block hashes in memory (block_adx/block.c, the end of  *)
(* block_adx/store.c): block_index_node holds the hashes by height,        *)
(* block_rindex_node the heights sorted by hash. The main loop adds blocks *)
(* one by one, shifting entries under sort_lock, and sorts the whole array *)
(* anew after blocks were removed; the threads of the RPC service look     *)
(* hashes up by binary search under the same lock.                         *)
(*                                                                         *)
(* A hash is the number cmph compares. Each read or write of an entry is a *)
(* step of its own, and so are taking and leaving the lock.                *)
(***************************************************************************)
EXTENDS Integers, FiniteSets

CONSTANTS
    Hash,        \* the hashes a block may have
    Main,        \* the thread of the main loop
    Rpc,         \* the threads of the RPC service
    MaxBlocks,   \* bound: blocks on the chain
    MaxRemovals  \* bound: calls of truncate_chain

Threads == Rpc \cup {Main}
Slots == 0 .. MaxBlocks
Missing == -1

ASSUME HashAssumption == Hash \subseteq Nat
ASSUME ThreadAssumption == Main \notin Rpc
ASSUME BoundAssumption == MaxBlocks \in Nat /\ MaxRemovals \in Nat

VARIABLES
    files,    \* records of the file blk_indexes
    count,    \* blocks on the chain: block_height of the node
    hashes,   \* block_index_node
    rindex,   \* block_rindex_node
    alloc,    \* entries of rindex that were ever written
    lock,     \* sort_lock: the threads whose flag is set
    pc,       \* what the main loop does with the index
    new,      \* the hash it adds
    lo, hi,   \* its binary search: l and r
    n,        \* its loop over the entries
    removals, \* calls of truncate_chain so far
    rd,       \* rd[t]: what thread t does in find_block_hash
    want,     \* want[t]: the hash it looks up
    bound,    \* bound[t]: the block_height it was given
    left, right, \* left[t], right[t]: l and r of its binary search
    res,      \* res[t]: the position it found, then the height
    torn      \* history: the threads that looked at an array being rebuilt

mainVars == <<pc, new, lo, hi, n, removals>>
arrays == <<files, count, hashes, rindex, alloc>>
readVars == <<rd, want, bound, left, right, res, torn>>
vars == <<arrays, lock, mainVars, readVars>>

-----------------------------------------------------------------------------

Mid(l, r) == l + (r - l) \div 2
KeyAt(i) == hashes[rindex[i]]
OnChain(h) == \E i \in 0 .. count - 1 : hashes[i] = h

\* block_add_index: the file first, then the array of the hashes.
AppendIndex(h) ==
    /\ pc = "idle" /\ rd[Main] = "idle"
    /\ count < MaxBlocks
    /\ ~OnChain(h)
    /\ files' = files + 1
    /\ new' = h
    /\ pc' = "hash"
    /\ UNCHANGED <<count, hashes, rindex, alloc, lock, lo, hi, n, removals, readVars>>

WriteHash ==
    /\ pc = "hash"
    /\ hashes' = [hashes EXCEPT ![count] = new]
    /\ lo' = 0 /\ hi' = count - 1
    /\ pc' = "place"
    /\ UNCHANGED <<files, count, rindex, alloc, lock, new, n, removals, readVars>>

\* binarySearchg: one call. The hash is not in the array.
Place ==
    /\ pc = "place" /\ lo <= hi
    /\ IF KeyAt(Mid(lo, hi)) > new
       THEN hi' = Mid(lo, hi) - 1 /\ lo' = lo
       ELSE lo' = Mid(lo, hi) + 1 /\ hi' = hi
    /\ UNCHANGED <<arrays, lock, pc, new, n, removals, readVars>>

\* Mutant: the lock is taken over the flags of the readers.
LockFreeAlways == TRUE
\* compare_z_exchange_c: nobody's flag may be set.
LockFree == lock = {}

\* The first block is written without the lock.
AddFirst ==
    /\ pc = "place" /\ count = 0
    /\ rindex' = [rindex EXCEPT ![0] = 0]
    /\ alloc' = IF alloc > 0 THEN alloc ELSE 1
    /\ count' = 1
    /\ pc' = "idle" /\ new' = 0 /\ hi' = 0
    /\ UNCHANGED <<files, hashes, lock, lo, n, removals, readVars>>

LockIndex ==
    /\ pc = "place" /\ lo > hi /\ count > 0
    /\ LockFree
    /\ lock' = lock \cup {Main}
    /\ alloc' = IF alloc > count THEN alloc ELSE count + 1
    /\ n' = count
    /\ pc' = "shift"
    /\ UNCHANGED <<files, count, hashes, rindex, new, lo, hi, removals, readVars>>

\* Mutant: the entry is shifted the other way.
ShiftedDown == [rindex EXCEPT ![n - 1] = rindex[n]]
Shifted == [rindex EXCEPT ![n] = rindex[n - 1]]

Shift ==
    /\ pc = "shift" /\ n > lo
    /\ rindex' = Shifted
    /\ n' = n - 1
    /\ UNCHANGED <<files, count, hashes, alloc, lock, pc, new, lo, hi, removals, readVars>>

Insert ==
    /\ pc = "shift" /\ n = lo
    /\ rindex' = [rindex EXCEPT ![n] = count]
    /\ lock' = {}
    /\ count' = count + 1
    /\ pc' = "idle" /\ new' = 0 /\ lo' = 0 /\ hi' = 0 /\ n' = 0
    /\ UNCHANGED <<files, hashes, alloc, removals, readVars>>

\* truncate_chain: node_remove_last_block takes the last blocks off the files
\* and the chain, then create_sorted_block_index makes the array anew.
Truncate(height) ==
    /\ pc = "idle" /\ rd[Main] = "idle"
    /\ removals < MaxRemovals
    /\ files' = height + 1 /\ count' = height + 1
    /\ removals' = removals + 1
    /\ n' = 0
    /\ pc' = "identity"
    /\ torn' = torn \cup {t \in Threads : rd[t] \in {"search", "release"}}
    /\ UNCHANGED <<hashes, rindex, alloc, lock, new, lo, hi,
                   rd, want, bound, left, right, res>>

Identity ==
    /\ pc = "identity"
    /\ rindex' = [rindex EXCEPT ![n] = n]
    /\ n' = n + 1
    /\ pc' = IF n < count THEN "identity" ELSE "sort"
    /\ UNCHANGED <<files, count, hashes, alloc, lock, new, lo, hi, removals, readVars>>

\* qsort_c exchanges entries until all are in order.
Inverted == {p \in (0 .. count - 1) \X (0 .. count - 1) :
                 p[1] < p[2] /\ KeyAt(p[1]) > KeyAt(p[2])}

Swap(p) ==
    /\ pc = "sort" /\ p \in Inverted
    /\ rindex' = [rindex EXCEPT ![p[1]] = rindex[p[2]], ![p[2]] = rindex[p[1]]]
    /\ UNCHANGED <<files, count, hashes, alloc, lock, mainVars, readVars>>

Sorted ==
    /\ pc = "sort" /\ Inverted = {}
    /\ pc' = "idle" /\ n' = 0
    /\ UNCHANGED <<arrays, lock, new, lo, hi, removals, readVars>>

-----------------------------------------------------------------------------
(* find_block_hash *)

\* Most callers pass get_last_block_height(), load_block_size one more. The
\* threads of the RPC service are started after the genesis block was made.
Call(t, h, more) ==
    /\ rd[t] = "idle"
    /\ IF t = Main THEN pc = "idle" ELSE count > 0
    /\ want' = [want EXCEPT ![t] = h]
    /\ bound' = [bound EXCEPT ![t] = files + more]
    /\ rd' = [rd EXCEPT ![t] = "acquire"]
    /\ UNCHANGED <<arrays, lock, mainVars, left, right, res, torn>>

\* aquire_lock_excl(&sort_lock, 1): flag 1 is the flag of the main thread and
\* the value the writer puts there.
Acquire(t) ==
    /\ rd[t] = "acquire"
    /\ Main \notin lock
    /\ lock' = lock \cup {t}
    /\ left' = [left EXCEPT ![t] = 0]
    /\ right' = [right EXCEPT ![t] = bound[t] - 1]
    /\ rd' = [rd EXCEPT ![t] = "search"]
    /\ torn' = IF pc \in {"identity", "sort"} THEN torn \cup {t} ELSE torn
    /\ UNCHANGED <<arrays, mainVars, want, bound, res>>

\* Mutants: the half that is kept leaves out the neighbour of the middle, or it
\* keeps the middle.
LeftHalfShort(m) == m - 2
LeftHalfSame(m) == m
LeftHalf(m) == m - 1

\* One call of binarySearch; an entry outside the array ends it.
Search(t) ==
    /\ rd[t] = "search"
    /\ LET m == Mid(left[t], right[t]) IN
         CASE left[t] > right[t] \/ m >= alloc ->
                /\ res' = [res EXCEPT ![t] = Missing]
                /\ rd' = [rd EXCEPT ![t] = "release"]
                /\ UNCHANGED <<left, right>>
           [] left[t] <= right[t] /\ m < alloc /\ KeyAt(m) = want[t] ->
                /\ res' = [res EXCEPT ![t] = m]
                /\ rd' = [rd EXCEPT ![t] = "release"]
                /\ UNCHANGED <<left, right>>
           [] left[t] <= right[t] /\ m < alloc /\ KeyAt(m) > want[t] ->
                /\ right' = [right EXCEPT ![t] = LeftHalf(m)]
                /\ UNCHANGED <<left, res, rd>>
           [] OTHER ->
                /\ left' = [left EXCEPT ![t] = m + 1]
                /\ UNCHANGED <<right, res, rd>>
    /\ UNCHANGED <<arrays, lock, mainVars, want, bound, torn>>

Release(t) ==
    /\ rd[t] = "release"
    /\ lock' = lock \ {t}
    /\ left' = [left EXCEPT ![t] = 0] /\ right' = [right EXCEPT ![t] = 0]
    /\ rd' = [rd EXCEPT ![t] = IF res[t] = Missing THEN "done" ELSE "read"]
    /\ UNCHANGED <<arrays, mainVars, want, bound, res, torn>>

\* The height is read from the array after the lock was left.
ReadHeight(t) ==
    /\ rd[t] = "read"
    /\ res' = [res EXCEPT ![t] = rindex[res[t]]]
    /\ rd' = [rd EXCEPT ![t] = "done"]
    /\ UNCHANGED <<arrays, lock, mainVars, want, bound, left, right, torn>>

Return(t) ==
    /\ rd[t] = "done"
    /\ rd' = [rd EXCEPT ![t] = "idle"]
    /\ want' = [want EXCEPT ![t] = 0] /\ bound' = [bound EXCEPT ![t] = 0]
    /\ res' = [res EXCEPT ![t] = Missing]
    /\ torn' = torn \ {t}
    /\ UNCHANGED <<arrays, lock, mainVars, left, right>>

-----------------------------------------------------------------------------

Init ==
    /\ files = 0 /\ count = 0 /\ alloc = 0
    /\ hashes = [i \in Slots |-> 0] /\ rindex = [i \in Slots |-> 0]
    /\ lock = {}
    /\ pc = "idle" /\ new = 0 /\ lo = 0 /\ hi = 0 /\ n = 0 /\ removals = 0
    /\ rd = [t \in Threads |-> "idle"]
    /\ want = [t \in Threads |-> 0]
    /\ bound = [t \in Threads |-> 0]
    /\ left = [t \in Threads |-> 0] /\ right = [t \in Threads |-> 0]
    /\ res = [t \in Threads |-> Missing]
    /\ torn = {}

MainStep ==
    \/ \E h \in Hash : AppendIndex(h)
    \/ WriteHash \/ Place \/ AddFirst \/ LockIndex \/ Shift \/ Insert
    \/ \E height \in 0 .. count - 2 : Truncate(height)
    \/ Identity \/ Sorted
    \/ \E p \in Inverted : Swap(p)

Lookup(t) ==
    \/ \E h \in Hash, more \in {0, 1} : Call(t, h, more)
    \/ Acquire(t) \/ Search(t) \/ Release(t) \/ ReadHeight(t) \/ Return(t)

Next == MainStep \/ \E t \in Threads : Lookup(t)

Spec == Init /\ [][Next]_vars

\* Every thread that has begun something is scheduled again: they are threads
\* of the operating system. Nobody has to add, remove or look up a block.
Begun == WriteHash \/ Place \/ AddFirst \/ LockIndex \/ Shift \/ Insert
         \/ Identity \/ Sorted \/ \E p \in Inverted : Swap(p)
Called(t) == Acquire(t) \/ Search(t) \/ Release(t) \/ ReadHeight(t) \/ Return(t)
FairSpec == Spec /\ WF_vars(Begun) /\ \A t \in Threads : WF_vars(Called(t))

-----------------------------------------------------------------------------
(* Correctness *)

\* The arrays, the counters and the locals of every thread hold what their
\* types say, and no loop leaves the arrays.
TypeOK ==
    /\ files \in 0 .. MaxBlocks /\ count \in 0 .. MaxBlocks
    /\ alloc \in 0 .. MaxBlocks /\ removals \in 0 .. MaxRemovals
    /\ hashes \in [Slots -> Nat] /\ rindex \in [Slots -> Slots]
    /\ lock \subseteq Threads
    /\ pc \in {"idle", "hash", "place", "shift", "identity", "sort"}
    /\ new \in Nat
    /\ lo \in 0 .. MaxBlocks /\ hi \in -1 .. MaxBlocks /\ n \in 0 .. MaxBlocks + 1
    /\ rd \in [Threads -> {"idle", "acquire", "search", "release", "read", "done"}]
    /\ want \in [Threads -> Nat] /\ bound \in [Threads -> 0 .. MaxBlocks + 1]
    /\ left \in [Threads -> Nat] /\ right \in [Threads -> -1 .. MaxBlocks]
    /\ res \in [Threads -> Slots \cup {Missing}]
    /\ torn \subseteq Threads

\* What check_sorted_block_index tests after create_sorted_block_index, and what
\* add_sorted_block has to keep: at rest the array names every block once, in
\* the order of the hashes.
SortedAtRest ==
    (pc = "idle") =>
        /\ \A i \in 0 .. count - 1 : rindex[i] \in 0 .. count - 1
        /\ \A i, j \in 0 .. count - 1 : i < j => KeyAt(i) < KeyAt(j)

\* No thread looks at the array while add_sorted_block shifts it: the flag of
\* the writer and those of the readers exclude each other (sort_lock).
SearchSeesWhole ==
    (pc = "shift") => \A t \in Threads : rd[t] \notin {"search", "release"}

\* A binary search that no removal disturbed is right when it ends under the
\* lock: a hit among the blocks of the chain is
\* the hash; and if it was given the number of blocks on the
\* chain, or the one block more that is in the file already, a miss means that
\* the block is not on the chain (binarySearch, find_block_hash).
SearchIsRight ==
    \A t \in Threads :
        (rd[t] = "release" /\ t \notin torn) =>
            /\ res[t] \in 0 .. count - 1 => KeyAt(res[t]) = want[t]
            /\ (res[t] = Missing /\ bound[t] \in {count, count + 1}) => ~OnChain(want[t])

\* Whoever has set its flag in sort_lock clears it again: the writer's loop ends,
\* and so does a binary search, even over an array that is being sorted.
LockIsLeft == \A t \in Threads : (t \in lock) ~> (t \notin lock)

=============================================================================
