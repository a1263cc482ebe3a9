-------------------------- MODULE ZoneRefs_proofs --------------------------
(***************************************************************************)
(* Why the counts of ZoneRefs are right, for any number of threads, zones  *)
(* and slots, when the program holds its lock around the shared reference  *)
(* and nobody reallocates a zone another thread refers to: the two cases   *)
(* in which the runs find n_refs wrong.                                    *)
(*                                                                         *)
(* n_refs[z] counts a set, Hold(z): the references to z, those that are    *)
(* about to be set to z, and those that led to z and are not counted down  *)
(* yet (CountInv). What is held is in memory and in no trash (MemInv); a   *)
(* thread that has brought a count to zero is the only one that knows the  *)
(* zone (LastInv); a zone is in one slot of the trash of its owner, and in *)
(* memory until that slot is cleared (TrashInv).                           *)
(*                                                                         *)
(* A lemma ...Step has a step per action; a lemma ...Holders says what one *)
(* action does to the sets Hold(z).                                        *)
(***************************************************************************)
EXTENDS ZoneRefs, FiniteSetTheorems, FunctionTheorems, TLAPS

\* The steps of copy_zone_ref, and those of release_zone_ref.
Copying == {"read", "count up", "set", "count down", "last"}
Releasing == {"release", "last released", "forget"}
Pcs == Copying \cup Releasing \cup {"idle", "trash", "clear slot"}
Refs == Threads \cup {"shared"}

TypeInv ==
    /\ alive \in [Zones -> BOOLEAN] /\ n_refs \in [Zones -> Int]
    /\ ref \in [Refs -> Zones \cup {None}]
    /\ trash \in [Threads -> [1 .. TrashSize -> Zones \cup {None}]]
    /\ lock \in Threads \cup {None} /\ pc \in [Threads -> Pcs]
    /\ dst \in [Threads -> Refs \cup {None}] /\ src \in [Threads -> Refs \cup {None}]
    /\ zone \in [Threads -> Zones \cup {None}] /\ old \in [Threads -> Zones \cup {None}]
    /\ slot \in [Threads -> 0 .. TrashSize + 1]

\* Who sets, copies or releases the shared reference has the lock.
AtShared(t) == pc[t] \in Copying \/ (pc[t] \in Releasing /\ dst[t] = "shared")
LockInv == \A t \in Threads : AtShared(t) => lock = t

\* A thread sets and releases its own reference or the shared one, and knows what
\* the references it works on hold.
CopyInv(t) == pc[t] \in Copying =>
    /\ (dst[t] = t /\ src[t] = "shared") \/ (dst[t] = "shared" /\ src[t] = t)
    /\ pc[t] \in {"read", "count up"} => ref[src[t]] # None
    /\ pc[t] = "count up" => zone[t] = ref[src[t]]
    /\ pc[t] \in {"read", "count up", "set"} => old[t] = ref[dst[t]]
    /\ pc[t] \in {"count down", "last"} => old[t] # None
ReleaseInv(t) == pc[t] \in Releasing =>
    dst[t] \in {t, "shared"} /\ old[t] = ref[dst[t]] /\ old[t] # None
SlotInv(t) ==
    /\ pc[t] = "trash" => slot[t] >= 1
    /\ pc[t] = "clear slot" => slot[t] \in 1 .. TrashSize
JobInv == \A t \in Threads : CopyInv(t) /\ ReleaseInv(t) /\ SlotInv(t)

\* A reference that is still set but not counted any more.
Dropped(r) == \E t \in Threads : pc[t] \in {"last released", "forget"} /\ dst[t] = r

\* What n_refs counts: the references, those that are about to be set, and those
\* that were overwritten and are about to be counted down.
Holds(k, r, z) ==
    \/ k = "ref" /\ r \in Refs /\ ref[r] = z /\ ~Dropped(r)
    \/ k = "new" /\ r \in Threads /\ pc[r] = "set" /\ zone[r] = z
    \/ k = "old" /\ r \in Threads /\ pc[r] = "count down" /\ old[r] = z
Kinds == {"ref", "new", "old"}
Holders == Kinds \X Refs
Hold(z) == {h \in Holders : Holds(h[1], h[2], z)}
CountInv == \A z \in Zones : IsFiniteSet(Hold(z)) /\ n_refs[z] = Cardinality(Hold(z))

Free(z) == \A k \in Kinds, r \in Refs : ~Holds(k, r, z)
NotTrashed(z) == \A t \in Threads, i \in 1 .. TrashSize : trash[t][i] # z

\* What is counted is there, and in no trash.
MemInv == \A z \in Zones : Free(z) \/ (alive[z] /\ NotTrashed(z))

\* A thread that has dropped the last reference is the only one that knows the zone.
Lasts == {"last", "last released"}
LastInv == \A t \in Threads : pc[t] \in Lasts =>
    /\ alive[old[t]] /\ NotTrashed(old[t]) /\ Free(old[t])
    /\ \A u \in Threads : u # t /\ pc[u] \in Lasts => old[u] # old[t]

\* A zone is in the trash of its area, once, and its memory is there until the slot
\* is being cleared.
TrashInv == \A t \in Threads, i \in 1 .. TrashSize : trash[t][i] # None =>
    /\ Owner[trash[t][i]] = t
    /\ alive[trash[t][i]] \/ (pc[t] = "clear slot" /\ slot[t] = i)
    /\ \A j \in 1 .. TrashSize : j # i => trash[t][j] # trash[t][i]

\* Memory that nobody holds is in a trash, or found it full, or is known to the
\* thread that has dropped its last reference.
FreeInv == \A z \in Zones : alive[z] /\ Free(z) =>
    z \in lost \/ ~NotTrashed(z) \/ \E t \in Threads : pc[t] \in Lasts /\ old[t] = z

\* A zone that found the trash full is not held again, and stays in memory.
Forgotten(z) ==
    /\ alive[z] /\ Free(z) /\ NotTrashed(z)
    /\ \A t \in Threads : ~(pc[t] \in Lasts /\ old[t] = z)
LostInv == \A z \in Zones : z \in lost => Forgotten(z)

\* The slot that is being cleared leads to no memory.
ClearInv == \A t \in Threads : pc[t] = "clear slot" =>
    trash[t][slot[t]] \in Zones /\ ~alive[trash[t][slot[t]]]

SafeInv == TypeInv /\ LockInv /\ JobInv /\ CountInv /\ MemInv /\ LastInv /\ TrashInv
IInv == ~use.reallocs => SafeInv

\* What a thread knows of the references and zones it works on.
Knows(t) ==
    /\ t \in Refs /\ "shared" \in Refs /\ t # "shared" /\ None # "shared" /\ None \notin Zones
    /\ pc[t] \in Copying => dst[t] \in {t, "shared"} /\ src[t] \in {t, "shared"} /\ dst[t] # src[t]
    /\ pc[t] \in Releasing => dst[t] \in {t, "shared"}
    /\ pc[t] \in {"read", "count up"} => ref[src[t]] \in Zones
    /\ pc[t] = "count up" => zone[t] = ref[src[t]] /\ zone[t] \in Zones
    /\ pc[t] \in Releasing \cup {"count down", "last"} => old[t] \in Zones

RefStep(t) ==
    \/ allocate_new_zone(t)
    \/ BeginCopy(t, t, "shared")
    \/ BeginCopy(t, "shared", t)
    \/ BeginRelease(t, t)
    \/ BeginRelease(t, "shared")
    \/ BeginTrash(t)
    \/ FreeSlot(t)
    \/ ClearSlot(t)
    \/ EndTrash(t)
    \/ ReadSource(t)
    \/ CountUp(t)
    \/ SetRef(t)
    \/ CountDown(t)
    \/ Last(t)
    \/ Release(t)
    \/ LastReleased(t)
    \/ Forget(t)

USE DEF mem, job, Goto, Idle

\* Counts, places in the trash and slots stay in their types when one changes.
LEMMA CountUpdate ==
    ASSUME NEW f \in [Zones -> Int], NEW z \in Zones, NEW n \in Int
    PROVE  [f EXCEPT ![z] = n] \in [Zones -> Int]
BY SMT

LEMMA SlotUpdate ==
    ASSUME NEW f \in [Threads -> 0 .. TrashSize + 1], NEW t \in Threads,
           NEW n \in 0 .. TrashSize + 1
    PROVE  [f EXCEPT ![t] = n] \in [Threads -> 0 .. TrashSize + 1]
BY SMT

LEMMA TrashUpdate ==
    ASSUME NEW f \in [Threads -> [1 .. TrashSize -> Zones \cup {None}]], NEW t \in Threads,
           NEW i \in 1 .. TrashSize, NEW z \in Zones \cup {None}
    PROVE  [f EXCEPT ![t][i] = z] \in [Threads -> [1 .. TrashSize -> Zones \cup {None}]]
BY SMT

\* Without reallocations, every step of a thread is one of those above.
LEMMA Steps ==
    ASSUME ~use.reallocs, TypeInv, NEW t \in Threads, Begin(t) \/ BeginTrash(t) \/ Proceed(t)
    PROVE  RefStep(t)
<1>1. ~BeginRealloc(t)
    BY DEF BeginRealloc
<1>2. pc[t] \in Pcs
    BY DEF TypeInv
<1>3. ~LastMoved(t) /\ ~TrashOld(t)
    BY <1>2 DEF LastMoved, TrashOld, Pcs, Copying, Releasing
<1> QED BY <1>1, <1>3 DEF Begin, Proceed, RefStep

\* What the job of a thread tells of the references it works on.
LEMMA Known ==
    ASSUME TypeInv, JobInv, NEW t \in Threads
    PROVE  Knows(t)
<1>1. CopyInv(t) /\ ReleaseInv(t)
    BY DEF JobInv
<1>2. t \in Refs /\ "shared" \in Refs /\ t # "shared" /\ None # "shared" /\ None \notin Zones
    BY NameAssumption DEF None, Refs
<1>3. pc[t] \in Copying => dst[t] \in Refs /\ src[t] \in Refs
    BY <1>1, <1>2 DEF CopyInv
<1>4. /\ zone[t] \in Zones \cup {None} /\ old[t] \in Zones \cup {None}
      /\ \A r \in Refs : ref[r] \in Zones \cup {None}
    BY DEF TypeInv
<1>6. /\ pc[t] \in {"read", "count up"} => ref[src[t]] \in Zones
      /\ pc[t] = "count up" => zone[t] = ref[src[t]] /\ zone[t] \in Zones
    BY <1>1, <1>3, <1>4 DEF CopyInv, Copying
<1>7. pc[t] \in Releasing \cup {"count down", "last"} => old[t] \in Zones
    BY <1>1, <1>4 DEF CopyInv, ReleaseInv, Copying
<1>8. pc[t] \in Copying => dst[t] \in {t, "shared"} /\ src[t] \in {t, "shared"} /\ dst[t] # src[t]
    BY <1>1, <1>2 DEF CopyInv
<1>9. pc[t] \in Releasing => dst[t] \in {t, "shared"}
    BY <1>1 DEF ReleaseInv
<1> QED BY <1>2, <1>6, <1>7, <1>8, <1>9 DEF Knows

\* Every step keeps the types.
LEMMA TypeStep ==
    ASSUME NEW t \in Threads, use \in Uses, TypeInv, JobInv, RefStep(t)
    PROVE  TypeInv'
<1> USE DEF mem, job, Goto, Idle
<1>t1. alive \in [Zones -> BOOLEAN] /\ n_refs \in [Zones -> Int]
    BY DEF TypeInv
<1>t2. ref \in [Refs -> Zones \cup {None}]
    BY DEF TypeInv
<1>t3. trash \in [Threads -> [1 .. TrashSize -> Zones \cup {None}]]
    BY DEF TypeInv
<1>t4. lock \in Threads \cup {None}
    BY DEF TypeInv
<1>t5. pc \in [Threads -> Pcs]
    BY DEF TypeInv
<1>t6. dst \in [Threads -> Refs \cup {None}] /\ src \in [Threads -> Refs \cup {None}]
    BY DEF TypeInv
<1>t7. zone \in [Threads -> Zones \cup {None}] /\ old \in [Threads -> Zones \cup {None}]
    BY DEF TypeInv
<1>t8. slot \in [Threads -> 0 .. TrashSize + 1]
    BY DEF TypeInv
<1>a. SlotInv(t) /\ TrashSize \in Nat /\ slot[t] \in 0 .. TrashSize + 1
    BY RefAssumption DEF JobInv, TypeInv
<1>b. Knows(t)
    BY Known
<1>c. use.zones \subseteq Zones
    BY RefAssumption
<1>d. Owner \in [Zones -> Threads]
    BY RefAssumption
<1>1. CASE allocate_new_zone(t)
    <2>1. alive' \in [Zones -> BOOLEAN] /\ n_refs' \in [Zones -> Int]
        <3>1. PICK z \in Zones : alive' = [alive EXCEPT ![z] = TRUE] /\ n_refs' = [n_refs EXCEPT ![z] = 1]
            BY <1>1, <1>c DEF allocate_new_zone
        <3> QED BY <3>1, <1>t1, CountUpdate
    <2>2. ref' \in [Refs -> Zones \cup {None}]
        <3>1. PICK z \in Zones : ref' = [ref EXCEPT ![t] = z]
            BY <1>1, <1>c DEF allocate_new_zone
        <3> QED BY <3>1, <1>t2, <1>b DEF Knows
    <2>3. trash' \in [Threads -> [1 .. TrashSize -> Zones \cup {None}]]
        BY <1>1, <1>t3 DEF allocate_new_zone
    <2>4. lock' \in Threads \cup {None}
        BY <1>1, <1>t4 DEF allocate_new_zone
    <2>5. pc' \in [Threads -> Pcs]
        BY <1>1, <1>t5, <1>b DEF Knows, Refs, Pcs, Copying, Releasing, allocate_new_zone
    <2>6. dst' \in [Threads -> Refs \cup {None}] /\ src' \in [Threads -> Refs \cup {None}]
        BY <1>1, <1>t6, <1>b DEF Knows, Refs, Pcs, Copying, Releasing, allocate_new_zone
    <2>7. zone' \in [Threads -> Zones \cup {None}] /\ old' \in [Threads -> Zones \cup {None}]
        BY <1>1, <1>t7, <1>b, <1>t2 DEF Knows, Refs, Pcs, Copying, Releasing, allocate_new_zone
    <2>8. slot' \in [Threads -> 0 .. TrashSize + 1]
        BY <1>1, <1>t8 DEF allocate_new_zone
    <2> QED BY <2>1, <2>2, <2>3, <2>4, <2>5, <2>6, <2>7, <2>8 DEF TypeInv
<1>2. CASE BeginCopy(t, t, "shared")
    <2>1. alive' \in [Zones -> BOOLEAN] /\ n_refs' \in [Zones -> Int]
        BY <1>2, <1>t1 DEF BeginCopy, Take
    <2>2. ref' \in [Refs -> Zones \cup {None}]
        BY <1>2, <1>t2, <1>b, <1>t7 DEF Knows, Refs, Pcs, Copying, Releasing, BeginCopy, Take
    <2>3. trash' \in [Threads -> [1 .. TrashSize -> Zones \cup {None}]]
        BY <1>2, <1>t3 DEF BeginCopy, Take
    <2>4. lock' \in Threads \cup {None}
        BY <1>2, <1>t4 DEF BeginCopy, Take
    <2>5. pc' \in [Threads -> Pcs]
        BY <1>2, <1>t5, <1>b DEF Knows, Refs, Pcs, Copying, Releasing, BeginCopy, Take
    <2>6. dst' \in [Threads -> Refs \cup {None}] /\ src' \in [Threads -> Refs \cup {None}]
        BY <1>2, <1>t6, <1>b DEF Knows, Refs, Pcs, Copying, Releasing, BeginCopy, Take
    <2>7. zone' \in [Threads -> Zones \cup {None}] /\ old' \in [Threads -> Zones \cup {None}]
        BY <1>2, <1>t7, <1>b, <1>t2 DEF Knows, Refs, Pcs, Copying, Releasing, BeginCopy, Take
    <2>8. slot' \in [Threads -> 0 .. TrashSize + 1]
        BY <1>2, <1>t8 DEF BeginCopy, Take
    <2> QED BY <2>1, <2>2, <2>3, <2>4, <2>5, <2>6, <2>7, <2>8 DEF TypeInv
<1>3. CASE BeginCopy(t, "shared", t)
    <2>1. alive' \in [Zones -> BOOLEAN] /\ n_refs' \in [Zones -> Int]
        BY <1>3, <1>t1 DEF BeginCopy, Take
    <2>2. ref' \in [Refs -> Zones \cup {None}]
        BY <1>3, <1>t2, <1>b, <1>t7 DEF Knows, Refs, Pcs, Copying, Releasing, BeginCopy, Take
    <2>3. trash' \in [Threads -> [1 .. TrashSize -> Zones \cup {None}]]
        BY <1>3, <1>t3 DEF BeginCopy, Take
    <2>4. lock' \in Threads \cup {None}
        BY <1>3, <1>t4 DEF BeginCopy, Take
    <2>5. pc' \in [Threads -> Pcs]
        BY <1>3, <1>t5, <1>b DEF Knows, Refs, Pcs, Copying, Releasing, BeginCopy, Take
    <2>6. dst' \in [Threads -> Refs \cup {None}] /\ src' \in [Threads -> Refs \cup {None}]
        BY <1>3, <1>t6, <1>b DEF Knows, Refs, Pcs, Copying, Releasing, BeginCopy, Take
    <2>7. zone' \in [Threads -> Zones \cup {None}] /\ old' \in [Threads -> Zones \cup {None}]
        BY <1>3, <1>t7, <1>b, <1>t2 DEF Knows, Refs, Pcs, Copying, Releasing, BeginCopy, Take
    <2>8. slot' \in [Threads -> 0 .. TrashSize + 1]
        BY <1>3, <1>t8 DEF BeginCopy, Take
    <2> QED BY <2>1, <2>2, <2>3, <2>4, <2>5, <2>6, <2>7, <2>8 DEF TypeInv
<1>4. CASE BeginRelease(t, t)
    <2>1. alive' \in [Zones -> BOOLEAN] /\ n_refs' \in [Zones -> Int]
        BY <1>4, <1>t1 DEF BeginRelease, Take
    <2>2. ref' \in [Refs -> Zones \cup {None}]
        BY <1>4, <1>t2, <1>b, <1>t7 DEF Knows, Refs, Pcs, Copying, Releasing, BeginRelease, Take
    <2>3. trash' \in [Threads -> [1 .. TrashSize -> Zones \cup {None}]]
        BY <1>4, <1>t3 DEF BeginRelease, Take
    <2>4. lock' \in Threads \cup {None}
        BY <1>4, <1>t4 DEF BeginRelease, Take
    <2>5. pc' \in [Threads -> Pcs]
        BY <1>4, <1>t5, <1>b DEF Knows, Refs, Pcs, Copying, Releasing, BeginRelease, Take
    <2>6. dst' \in [Threads -> Refs \cup {None}] /\ src' \in [Threads -> Refs \cup {None}]
        BY <1>4, <1>t6, <1>b DEF Knows, Refs, Pcs, Copying, Releasing, BeginRelease, Take
    <2>7. zone' \in [Threads -> Zones \cup {None}] /\ old' \in [Threads -> Zones \cup {None}]
        BY <1>4, <1>t7, <1>b, <1>t2 DEF Knows, Refs, Pcs, Copying, Releasing, BeginRelease, Take
    <2>8. slot' \in [Threads -> 0 .. TrashSize + 1]
        BY <1>4, <1>t8 DEF BeginRelease, Take
    <2> QED BY <2>1, <2>2, <2>3, <2>4, <2>5, <2>6, <2>7, <2>8 DEF TypeInv
<1>5. CASE BeginRelease(t, "shared")
    <2>1. alive' \in [Zones -> BOOLEAN] /\ n_refs' \in [Zones -> Int]
        BY <1>5, <1>t1 DEF BeginRelease, Take
    <2>2. ref' \in [Refs -> Zones \cup {None}]
        BY <1>5, <1>t2, <1>b, <1>t7 DEF Knows, Refs, Pcs, Copying, Releasing, BeginRelease, Take
    <2>3. trash' \in [Threads -> [1 .. TrashSize -> Zones \cup {None}]]
        BY <1>5, <1>t3 DEF BeginRelease, Take
    <2>4. lock' \in Threads \cup {None}
        BY <1>5, <1>t4 DEF BeginRelease, Take
    <2>5. pc' \in [Threads -> Pcs]
        BY <1>5, <1>t5, <1>b DEF Knows, Refs, Pcs, Copying, Releasing, BeginRelease, Take
    <2>6. dst' \in [Threads -> Refs \cup {None}] /\ src' \in [Threads -> Refs \cup {None}]
        BY <1>5, <1>t6, <1>b DEF Knows, Refs, Pcs, Copying, Releasing, BeginRelease, Take
    <2>7. zone' \in [Threads -> Zones \cup {None}] /\ old' \in [Threads -> Zones \cup {None}]
        BY <1>5, <1>t7, <1>b, <1>t2 DEF Knows, Refs, Pcs, Copying, Releasing, BeginRelease, Take
    <2>8. slot' \in [Threads -> 0 .. TrashSize + 1]
        BY <1>5, <1>t8 DEF BeginRelease, Take
    <2> QED BY <2>1, <2>2, <2>3, <2>4, <2>5, <2>6, <2>7, <2>8 DEF TypeInv
<1>6. CASE BeginTrash(t)
    <2>1. alive' \in [Zones -> BOOLEAN] /\ n_refs' \in [Zones -> Int]
        BY <1>6, <1>t1 DEF BeginTrash, FirstSlot
    <2>2. ref' \in [Refs -> Zones \cup {None}]
        BY <1>6, <1>t2, <1>b, <1>t7 DEF Knows, Refs, Pcs, Copying, Releasing, BeginTrash, FirstSlot
    <2>3. trash' \in [Threads -> [1 .. TrashSize -> Zones \cup {None}]]
        BY <1>6, <1>t3 DEF BeginTrash, FirstSlot
    <2>4. lock' \in Threads \cup {None}
        BY <1>6, <1>t4 DEF BeginTrash, FirstSlot
    <2>5. pc' \in [Threads -> Pcs]
        BY <1>6, <1>t5, <1>b DEF Knows, Refs, Pcs, Copying, Releasing, BeginTrash, FirstSlot
    <2>6. dst' \in [Threads -> Refs \cup {None}] /\ src' \in [Threads -> Refs \cup {None}]
        BY <1>6, <1>t6, <1>b DEF Knows, Refs, Pcs, Copying, Releasing, BeginTrash, FirstSlot
    <2>7. zone' \in [Threads -> Zones \cup {None}] /\ old' \in [Threads -> Zones \cup {None}]
        BY <1>6, <1>t7, <1>b, <1>t2 DEF Knows, Refs, Pcs, Copying, Releasing, BeginTrash, FirstSlot
    <2>8. slot' \in [Threads -> 0 .. TrashSize + 1]
        <3>1. slot' = [slot EXCEPT ![t] = 1]
            BY <1>6 DEF BeginTrash, FirstSlot
        <3>0. pc[t] = "clear slot" => slot[t] \in 1 .. TrashSize
            BY <1>a DEF SlotInv
        <3>2. 1 \in 0 .. TrashSize + 1
            BY <1>6, <3>0, <1>a DEF BeginTrash, FirstSlot
        <3> QED BY <3>1, <3>2, <1>t8, SlotUpdate
    <2> QED BY <2>1, <2>2, <2>3, <2>4, <2>5, <2>6, <2>7, <2>8 DEF TypeInv
<1>7. CASE FreeSlot(t)
    <2>1. alive' \in [Zones -> BOOLEAN] /\ n_refs' \in [Zones -> Int]
        BY <1>7, <1>t1 DEF FreeSlot
    <2>2. ref' \in [Refs -> Zones \cup {None}]
        BY <1>7, <1>t2, <1>b, <1>t7 DEF Knows, Refs, Pcs, Copying, Releasing, FreeSlot
    <2>3. trash' \in [Threads -> [1 .. TrashSize -> Zones \cup {None}]]
        BY <1>7, <1>t3 DEF FreeSlot
    <2>4. lock' \in Threads \cup {None}
        BY <1>7, <1>t4 DEF FreeSlot
    <2>5. pc' \in [Threads -> Pcs]
        BY <1>7, <1>t5, <1>b DEF Knows, Refs, Pcs, Copying, Releasing, FreeSlot
    <2>6. dst' \in [Threads -> Refs \cup {None}] /\ src' \in [Threads -> Refs \cup {None}]
        BY <1>7, <1>t6, <1>b DEF Knows, Refs, Pcs, Copying, Releasing, FreeSlot
    <2>7. zone' \in [Threads -> Zones \cup {None}] /\ old' \in [Threads -> Zones \cup {None}]
        BY <1>7, <1>t7, <1>b, <1>t2 DEF Knows, Refs, Pcs, Copying, Releasing, FreeSlot
    <2>8. slot' \in [Threads -> 0 .. TrashSize + 1]
        <3>1. CASE UNCHANGED slot
            BY <3>1, <1>t8
        <3>2. CASE slot' = [slot EXCEPT ![t] = slot[t] + 1]
            <4>0. slot[t] <= TrashSize
                BY <1>7 DEF FreeSlot
            <4>1. slot[t] + 1 \in 0 .. TrashSize + 1
                BY <4>0, <1>a
            <4> QED BY <3>2, <4>1, <1>t8, SlotUpdate
        <3> QED BY <1>7, <3>1, <3>2 DEF FreeSlot
    <2> QED BY <2>1, <2>2, <2>3, <2>4, <2>5, <2>6, <2>7, <2>8 DEF TypeInv
<1>8. CASE ClearSlot(t)
    <2>1. alive' \in [Zones -> BOOLEAN] /\ n_refs' \in [Zones -> Int]
        BY <1>8, <1>t1 DEF ClearSlot
    <2>2. ref' \in [Refs -> Zones \cup {None}]
        BY <1>8, <1>t2, <1>b, <1>t7 DEF Knows, Refs, Pcs, Copying, Releasing, ClearSlot
    <2>3. trash' \in [Threads -> [1 .. TrashSize -> Zones \cup {None}]]
        BY <1>8, <1>t3 DEF ClearSlot
    <2>4. lock' \in Threads \cup {None}
        BY <1>8, <1>t4 DEF ClearSlot
    <2>5. pc' \in [Threads -> Pcs]
        BY <1>8, <1>t5, <1>b DEF Knows, Refs, Pcs, Copying, Releasing, ClearSlot
    <2>6. dst' \in [Threads -> Refs \cup {None}] /\ src' \in [Threads -> Refs \cup {None}]
        BY <1>8, <1>t6, <1>b DEF Knows, Refs, Pcs, Copying, Releasing, ClearSlot
    <2>7. zone' \in [Threads -> Zones \cup {None}] /\ old' \in [Threads -> Zones \cup {None}]
        BY <1>8, <1>t7, <1>b, <1>t2 DEF Knows, Refs, Pcs, Copying, Releasing, ClearSlot
    <2>8. slot' \in [Threads -> 0 .. TrashSize + 1]
        <3>1. slot' = [slot EXCEPT ![t] = slot[t] + 1] /\ pc[t] = "clear slot"
            BY <1>8 DEF ClearSlot
        <3>2. slot[t] \in 1 .. TrashSize
            BY <3>1, <1>a DEF SlotInv
        <3>3. slot[t] + 1 \in 0 .. TrashSize + 1
            BY <3>2, <1>a
        <3> QED BY <3>1, <3>3, <1>t8, SlotUpdate
    <2> QED BY <2>1, <2>2, <2>3, <2>4, <2>5, <2>6, <2>7, <2>8 DEF TypeInv
<1>9. CASE EndTrash(t)
    <2>1. alive' \in [Zones -> BOOLEAN] /\ n_refs' \in [Zones -> Int]
        BY <1>9, <1>t1 DEF EndTrash
    <2>2. ref' \in [Refs -> Zones \cup {None}]
        BY <1>9, <1>t2, <1>b, <1>t7 DEF Knows, Refs, Pcs, Copying, Releasing, EndTrash
    <2>3. trash' \in [Threads -> [1 .. TrashSize -> Zones \cup {None}]]
        BY <1>9, <1>t3 DEF EndTrash
    <2>4. lock' \in Threads \cup {None}
        BY <1>9, <1>t4 DEF EndTrash
    <2>5. pc' \in [Threads -> Pcs]
        BY <1>9, <1>t5, <1>b DEF Knows, Refs, Pcs, Copying, Releasing, EndTrash
    <2>6. dst' \in [Threads -> Refs \cup {None}] /\ src' \in [Threads -> Refs \cup {None}]
        BY <1>9, <1>t6, <1>b DEF Knows, Refs, Pcs, Copying, Releasing, EndTrash
    <2>7. zone' \in [Threads -> Zones \cup {None}] /\ old' \in [Threads -> Zones \cup {None}]
        BY <1>9, <1>t7, <1>b, <1>t2 DEF Knows, Refs, Pcs, Copying, Releasing, EndTrash
    <2>8. slot' \in [Threads -> 0 .. TrashSize + 1]
        <3>1. slot' = [slot EXCEPT ![t] = 0]
            BY <1>9 DEF EndTrash
        <3>0. pc[t] = "clear slot" => slot[t] \in 1 .. TrashSize
            BY <1>a DEF SlotInv
        <3>2. 0 \in 0 .. TrashSize + 1
            BY <1>9, <3>0, <1>a DEF EndTrash
        <3> QED BY <3>1, <3>2, <1>t8, SlotUpdate
    <2> QED BY <2>1, <2>2, <2>3, <2>4, <2>5, <2>6, <2>7, <2>8 DEF TypeInv
<1>10. CASE ReadSource(t)
    <2>1. alive' \in [Zones -> BOOLEAN] /\ n_refs' \in [Zones -> Int]
        BY <1>10, <1>t1 DEF ReadSource
    <2>2. ref' \in [Refs -> Zones \cup {None}]
        BY <1>10, <1>t2, <1>b, <1>t7 DEF Knows, Refs, Pcs, Copying, Releasing, ReadSource
    <2>3. trash' \in [Threads -> [1 .. TrashSize -> Zones \cup {None}]]
        BY <1>10, <1>t3 DEF ReadSource
    <2>4. lock' \in Threads \cup {None}
        BY <1>10, <1>t4 DEF ReadSource
    <2>5. pc' \in [Threads -> Pcs]
        BY <1>10, <1>t5, <1>b DEF Knows, Refs, Pcs, Copying, Releasing, ReadSource
    <2>6. dst' \in [Threads -> Refs \cup {None}] /\ src' \in [Threads -> Refs \cup {None}]
        BY <1>10, <1>t6, <1>b DEF Knows, Refs, Pcs, Copying, Releasing, ReadSource
    <2>7. zone' \in [Threads -> Zones \cup {None}] /\ old' \in [Threads -> Zones \cup {None}]
        BY <1>10, <1>t7, <1>b, <1>t2 DEF Knows, Refs, Pcs, Copying, Releasing, ReadSource
    <2>8. slot' \in [Threads -> 0 .. TrashSize + 1]
        BY <1>10, <1>t8 DEF ReadSource
    <2> QED BY <2>1, <2>2, <2>3, <2>4, <2>5, <2>6, <2>7, <2>8 DEF TypeInv
<1>11. CASE CountUp(t)
    <2>1. alive' \in [Zones -> BOOLEAN] /\ n_refs' \in [Zones -> Int]
        <3>1. n_refs' = [n_refs EXCEPT ![zone[t]] = n_refs[zone[t]] + 1]
            BY <1>11 DEF CountUp, Counted
        <3>z. zone[t] \in Zones
            BY <1>11, <1>b DEF Knows, Releasing, CountUp, Counted
        <3>2. zone[t] \in Zones /\ n_refs[zone[t]] + 1 \in Int
            <4>1. n_refs[zone[t]] \in Int
                BY <3>z, <1>t1
            <4> QED BY <3>z, <4>1
        <3>3. n_refs' \in [Zones -> Int]
            BY <3>1, <3>2, <1>t1, CountUpdate
        <3> QED BY <1>11, <3>3, <1>t1 DEF CountUp, Counted
    <2>2. ref' \in [Refs -> Zones \cup {None}]
        BY <1>11, <1>t2, <1>b, <1>t7 DEF Knows, Refs, Pcs, Copying, Releasing, CountUp, Counted
    <2>3. trash' \in [Threads -> [1 .. TrashSize -> Zones \cup {None}]]
        BY <1>11, <1>t3 DEF CountUp, Counted
    <2>4. lock' \in Threads \cup {None}
        BY <1>11, <1>t4 DEF CountUp, Counted
    <2>5. pc' \in [Threads -> Pcs]
        BY <1>11, <1>t5, <1>b DEF Knows, Refs, Pcs, Copying, Releasing, CountUp, Counted
    <2>6. dst' \in [Threads -> Refs \cup {None}] /\ src' \in [Threads -> Refs \cup {None}]
        BY <1>11, <1>t6, <1>b DEF Knows, Refs, Pcs, Copying, Releasing, CountUp, Counted
    <2>7. zone' \in [Threads -> Zones \cup {None}] /\ old' \in [Threads -> Zones \cup {None}]
        BY <1>11, <1>t7, <1>b, <1>t2 DEF Knows, Refs, Pcs, Copying, Releasing, CountUp, Counted
    <2>8. slot' \in [Threads -> 0 .. TrashSize + 1]
        BY <1>11, <1>t8 DEF CountUp, Counted
    <2> QED BY <2>1, <2>2, <2>3, <2>4, <2>5, <2>6, <2>7, <2>8 DEF TypeInv
<1>12. CASE SetRef(t)
    <2>1. alive' \in [Zones -> BOOLEAN] /\ n_refs' \in [Zones -> Int]
        BY <1>12, <1>t1 DEF SetRef, Leave
    <2>2. ref' \in [Refs -> Zones \cup {None}]
        BY <1>12, <1>t2, <1>b, <1>t7 DEF Knows, Refs, Pcs, Copying, Releasing, SetRef, Leave
    <2>3. trash' \in [Threads -> [1 .. TrashSize -> Zones \cup {None}]]
        BY <1>12, <1>t3 DEF SetRef, Leave
    <2>4. lock' \in Threads \cup {None}
        BY <1>12, <1>t4 DEF SetRef, Leave
    <2>5. pc' \in [Threads -> Pcs]
        BY <1>12, <1>t5, <1>b DEF Knows, Refs, Pcs, Copying, Releasing, SetRef, Leave
    <2>6. dst' \in [Threads -> Refs \cup {None}] /\ src' \in [Threads -> Refs \cup {None}]
        BY <1>12, <1>t6, <1>b DEF Knows, Refs, Pcs, Copying, Releasing, SetRef, Leave
    <2>7. zone' \in [Threads -> Zones \cup {None}] /\ old' \in [Threads -> Zones \cup {None}]
        BY <1>12, <1>t7, <1>b, <1>t2 DEF Knows, Refs, Pcs, Copying, Releasing, SetRef, Leave
    <2>8. slot' \in [Threads -> 0 .. TrashSize + 1]
        BY <1>12, <1>t8 DEF SetRef, Leave
    <2> QED BY <2>1, <2>2, <2>3, <2>4, <2>5, <2>6, <2>7, <2>8 DEF TypeInv
<1>13. CASE CountDown(t)
    <2>1. alive' \in [Zones -> BOOLEAN] /\ n_refs' \in [Zones -> Int]
        <3>1. n_refs' = [n_refs EXCEPT ![old[t]] = n_refs[old[t]] - 1]
            BY <1>13 DEF CountDown
        <3>z. old[t] \in Zones
            BY <1>13, <1>b DEF Knows, Releasing, CountDown
        <3>2. old[t] \in Zones /\ n_refs[old[t]] - 1 \in Int
            <4>1. n_refs[old[t]] \in Int
                BY <3>z, <1>t1
            <4> QED BY <3>z, <4>1
        <3>3. n_refs' \in [Zones -> Int]
            BY <3>1, <3>2, <1>t1, CountUpdate
        <3> QED BY <1>13, <3>3, <1>t1 DEF CountDown
    <2>2. ref' \in [Refs -> Zones \cup {None}]
        BY <1>13, <1>t2, <1>b, <1>t7 DEF Knows, Refs, Pcs, Copying, Releasing, CountDown, Leave
    <2>3. trash' \in [Threads -> [1 .. TrashSize -> Zones \cup {None}]]
        BY <1>13, <1>t3 DEF CountDown, Leave
    <2>4. lock' \in Threads \cup {None}
        BY <1>13, <1>t4 DEF CountDown, Leave
    <2>5. pc' \in [Threads -> Pcs]
        BY <1>13, <1>t5, <1>b DEF Knows, Refs, Pcs, Copying, Releasing, CountDown, Leave
    <2>6. dst' \in [Threads -> Refs \cup {None}] /\ src' \in [Threads -> Refs \cup {None}]
        BY <1>13, <1>t6, <1>b DEF Knows, Refs, Pcs, Copying, Releasing, CountDown, Leave
    <2>7. zone' \in [Threads -> Zones \cup {None}] /\ old' \in [Threads -> Zones \cup {None}]
        BY <1>13, <1>t7, <1>b, <1>t2 DEF Knows, Refs, Pcs, Copying, Releasing, CountDown, Leave
    <2>8. slot' \in [Threads -> 0 .. TrashSize + 1]
        BY <1>13, <1>t8 DEF CountDown, Leave
    <2> QED BY <2>1, <2>2, <2>3, <2>4, <2>5, <2>6, <2>7, <2>8 DEF TypeInv
<1>14. CASE Last(t)
    <2>1. alive' \in [Zones -> BOOLEAN] /\ n_refs' \in [Zones -> Int]
        <3>1. old[t] \in Zones
            BY <1>14, <1>b DEF Knows, Releasing, Last
        <3>2. CASE UNCHANGED mem
            BY <3>2, <1>t1
        <3>3. CASE alive' = [alive EXCEPT ![old[t]] = FALSE] /\ n_refs' = [n_refs EXCEPT ![old[t]] = 0]
            BY <3>1, <3>3, <1>t1, CountUpdate
        <3> QED BY <1>14, <3>2, <3>3 DEF Last, free_zone
    <2>2. ref' \in [Refs -> Zones \cup {None}]
        BY <1>14, <1>t2, <1>b, <1>t7 DEF Knows, Refs, Pcs, Copying, Releasing, Last, free_zone,
            IsOwn, Trash, SlotsFor, Leave
    <2>3. trash' \in [Threads -> [1 .. TrashSize -> Zones \cup {None}]]
        <3>1. CASE UNCHANGED trash
            BY <3>1, <1>t3
        <3>2. CASE Trash(old[t])
            <4>1. old[t] \in Zones
                BY <1>14, <1>b DEF Knows, Releasing, Last
            <4>2. CASE \E i \in 1 .. TrashSize : trash' = [trash EXCEPT ![Owner[old[t]]][i] = old[t]]
                BY <4>1, <4>2, <1>t3, <1>d, TrashUpdate
            <4> QED BY <3>1, <3>2, <4>2 DEF Trash, SlotsFor
        <3> QED BY <1>14, <3>1, <3>2 DEF Last, free_zone
    <2>4. lock' \in Threads \cup {None}
        BY <1>14, <1>t4 DEF Last, free_zone, IsOwn, Trash, SlotsFor, Leave
    <2>5. pc' \in [Threads -> Pcs]
        BY <1>14, <1>t5, <1>b DEF Knows, Refs, Pcs, Copying, Releasing, Last, free_zone, IsOwn,
            Trash, SlotsFor, Leave
    <2>6. dst' \in [Threads -> Refs \cup {None}] /\ src' \in [Threads -> Refs \cup {None}]
        BY <1>14, <1>t6, <1>b DEF Knows, Refs, Pcs, Copying, Releasing, Last, free_zone, IsOwn,
            Trash, SlotsFor, Leave
    <2>7. zone' \in [Threads -> Zones \cup {None}] /\ old' \in [Threads -> Zones \cup {None}]
        BY <1>14, <1>t7, <1>b, <1>t2 DEF Knows, Refs, Pcs, Copying, Releasing, Last, free_zone,
            IsOwn, Trash, SlotsFor, Leave
    <2>8. slot' \in [Threads -> 0 .. TrashSize + 1]
        BY <1>14, <1>t8 DEF Last, free_zone, IsOwn, Trash, SlotsFor, Leave
    <2> QED BY <2>1, <2>2, <2>3, <2>4, <2>5, <2>6, <2>7, <2>8 DEF TypeInv
<1>15. CASE Release(t)
    <2>1. alive' \in [Zones -> BOOLEAN] /\ n_refs' \in [Zones -> Int]
        <3>1. n_refs' = [n_refs EXCEPT ![old[t]] = n_refs[old[t]] - 1]
            BY <1>15 DEF Release
        <3>z. old[t] \in Zones
            BY <1>15, <1>b DEF Knows, Releasing, Release
        <3>2. old[t] \in Zones /\ n_refs[old[t]] - 1 \in Int
            <4>1. n_refs[old[t]] \in Int
                BY <3>z, <1>t1
            <4> QED BY <3>z, <4>1
        <3>3. n_refs' \in [Zones -> Int]
            BY <3>1, <3>2, <1>t1, CountUpdate
        <3> QED BY <1>15, <3>3, <1>t1 DEF Release
    <2>2. ref' \in [Refs -> Zones \cup {None}]
        BY <1>15, <1>t2, <1>b, <1>t7 DEF Knows, Refs, Pcs, Copying, Releasing, Release, WasLast
    <2>3. trash' \in [Threads -> [1 .. TrashSize -> Zones \cup {None}]]
        BY <1>15, <1>t3 DEF Release, WasLast
    <2>4. lock' \in Threads \cup {None}
        BY <1>15, <1>t4 DEF Release, WasLast
    <2>5. pc' \in [Threads -> Pcs]
        BY <1>15, <1>t5, <1>b DEF Knows, Refs, Pcs, Copying, Releasing, Release, WasLast
    <2>6. dst' \in [Threads -> Refs \cup {None}] /\ src' \in [Threads -> Refs \cup {None}]
        BY <1>15, <1>t6, <1>b DEF Knows, Refs, Pcs, Copying, Releasing, Release, WasLast
    <2>7. zone' \in [Threads -> Zones \cup {None}] /\ old' \in [Threads -> Zones \cup {None}]
        BY <1>15, <1>t7, <1>b, <1>t2 DEF Knows, Refs, Pcs, Copying, Releasing, Release, WasLast
    <2>8. slot' \in [Threads -> 0 .. TrashSize + 1]
        BY <1>15, <1>t8 DEF Release, WasLast
    <2> QED BY <2>1, <2>2, <2>3, <2>4, <2>5, <2>6, <2>7, <2>8 DEF TypeInv
<1>16. CASE LastReleased(t)
    <2>1. alive' \in [Zones -> BOOLEAN] /\ n_refs' \in [Zones -> Int]
        <3>1. old[t] \in Zones
            BY <1>16, <1>b DEF Knows, Releasing, LastReleased
        <3>2. CASE UNCHANGED mem
            BY <3>2, <1>t1
        <3>3. CASE alive' = [alive EXCEPT ![old[t]] = FALSE] /\ n_refs' = [n_refs EXCEPT ![old[t]] = 0]
            BY <3>1, <3>3, <1>t1, CountUpdate
        <3> QED BY <1>16, <3>2, <3>3 DEF LastReleased, free_zone
    <2>2. ref' \in [Refs -> Zones \cup {None}]
        BY <1>16, <1>t2, <1>b, <1>t7 DEF Knows, Refs, Pcs, Copying, Releasing, LastReleased,
            free_zone, IsOwn, Trash, SlotsFor, StillLast
    <2>3. trash' \in [Threads -> [1 .. TrashSize -> Zones \cup {None}]]
        <3>1. CASE UNCHANGED trash
            BY <3>1, <1>t3
        <3>2. CASE Trash(old[t])
            <4>1. old[t] \in Zones
                BY <1>16, <1>b DEF Knows, Releasing, LastReleased
            <4>2. CASE \E i \in 1 .. TrashSize : trash' = [trash EXCEPT ![Owner[old[t]]][i] = old[t]]
                BY <4>1, <4>2, <1>t3, <1>d, TrashUpdate
            <4> QED BY <3>1, <3>2, <4>2 DEF Trash, SlotsFor
        <3> QED BY <1>16, <3>1, <3>2 DEF LastReleased, free_zone
    <2>4. lock' \in Threads \cup {None}
        BY <1>16, <1>t4 DEF LastReleased, free_zone, IsOwn, Trash, SlotsFor, StillLast
    <2>5. pc' \in [Threads -> Pcs]
        BY <1>16, <1>t5, <1>b DEF Knows, Refs, Pcs, Copying, Releasing, LastReleased, free_zone,
            IsOwn, Trash, SlotsFor, StillLast
    <2>6. dst' \in [Threads -> Refs \cup {None}] /\ src' \in [Threads -> Refs \cup {None}]
        BY <1>16, <1>t6, <1>b DEF Knows, Refs, Pcs, Copying, Releasing, LastReleased, free_zone,
            IsOwn, Trash, SlotsFor, StillLast
    <2>7. zone' \in [Threads -> Zones \cup {None}] /\ old' \in [Threads -> Zones \cup {None}]
        BY <1>16, <1>t7, <1>b, <1>t2 DEF Knows, Refs, Pcs, Copying, Releasing, LastReleased,
            free_zone, IsOwn, Trash, SlotsFor, StillLast
    <2>8. slot' \in [Threads -> 0 .. TrashSize + 1]
        BY <1>16, <1>t8 DEF LastReleased, free_zone, IsOwn, Trash, SlotsFor, StillLast
    <2> QED BY <2>1, <2>2, <2>3, <2>4, <2>5, <2>6, <2>7, <2>8 DEF TypeInv
<1>17. CASE Forget(t)
    <2>1. alive' \in [Zones -> BOOLEAN] /\ n_refs' \in [Zones -> Int]
        BY <1>17, <1>t1 DEF Forget, Leave
    <2>2. ref' \in [Refs -> Zones \cup {None}]
        BY <1>17, <1>t2, <1>b, <1>t7 DEF Knows, Refs, Pcs, Copying, Releasing, Forget, Leave
    <2>3. trash' \in [Threads -> [1 .. TrashSize -> Zones \cup {None}]]
        BY <1>17, <1>t3 DEF Forget, Leave
    <2>4. lock' \in Threads \cup {None}
        BY <1>17, <1>t4 DEF Forget, Leave
    <2>5. pc' \in [Threads -> Pcs]
        BY <1>17, <1>t5, <1>b DEF Knows, Refs, Pcs, Copying, Releasing, Forget, Leave
    <2>6. dst' \in [Threads -> Refs \cup {None}] /\ src' \in [Threads -> Refs \cup {None}]
        BY <1>17, <1>t6, <1>b DEF Knows, Refs, Pcs, Copying, Releasing, Forget, Leave
    <2>7. zone' \in [Threads -> Zones \cup {None}] /\ old' \in [Threads -> Zones \cup {None}]
        BY <1>17, <1>t7, <1>b, <1>t2 DEF Knows, Refs, Pcs, Copying, Releasing, Forget, Leave
    <2>8. slot' \in [Threads -> 0 .. TrashSize + 1]
        BY <1>17, <1>t8 DEF Forget, Leave
    <2> QED BY <2>1, <2>2, <2>3, <2>4, <2>5, <2>6, <2>7, <2>8 DEF TypeInv
<1> QED BY <1>1, <1>2, <1>3, <1>4, <1>5, <1>6, <1>7, <1>8, <1>9, <1>10, <1>11, <1>12, <1>13,
    <1>14, <1>15, <1>16, <1>17 DEF RefStep

\* A step of a thread leaves the locals of the others alone.
LEMMA Others ==
    ASSUME NEW t \in Threads, TypeInv, NEW u \in Threads, u # t, RefStep(t)
    PROVE  /\ pc'[u] = pc[u] /\ dst'[u] = dst[u] /\ src'[u] = src[u]
           /\ zone'[u] = zone[u] /\ old'[u] = old[u] /\ slot'[u] = slot[u]
<1> USE DEF mem, job, Goto, Idle, TypeInv
<1>1. CASE allocate_new_zone(t)
    BY <1>1 DEF allocate_new_zone
<1>2. CASE BeginCopy(t, t, "shared")
    BY <1>2 DEF BeginCopy, Take
<1>3. CASE BeginCopy(t, "shared", t)
    BY <1>3 DEF BeginCopy, Take
<1>4. CASE BeginRelease(t, t)
    BY <1>4 DEF BeginRelease, Take
<1>5. CASE BeginRelease(t, "shared")
    BY <1>5 DEF BeginRelease, Take
<1>6. CASE BeginTrash(t)
    BY <1>6 DEF BeginTrash, FirstSlot
<1>7. CASE FreeSlot(t)
    BY <1>7 DEF FreeSlot
<1>8. CASE ClearSlot(t)
    BY <1>8 DEF ClearSlot
<1>9. CASE EndTrash(t)
    BY <1>9 DEF EndTrash
<1>10. CASE ReadSource(t)
    BY <1>10 DEF ReadSource
<1>11. CASE CountUp(t)
    BY <1>11 DEF CountUp, Counted
<1>12. CASE SetRef(t)
    BY <1>12 DEF SetRef, Leave
<1>13. CASE CountDown(t)
    BY <1>13 DEF CountDown, Leave
<1>14. CASE Last(t)
    BY <1>14 DEF Last, free_zone, IsOwn, Trash, SlotsFor, Leave
<1>15. CASE Release(t)
    BY <1>15 DEF Release, WasLast
<1>16. CASE LastReleased(t)
    BY <1>16 DEF LastReleased, free_zone, IsOwn, Trash, SlotsFor, StillLast
<1>17. CASE Forget(t)
    BY <1>17 DEF Forget, Leave
<1> QED BY <1>1, <1>2, <1>3, <1>4, <1>5, <1>6, <1>7, <1>8, <1>9, <1>10, <1>11, <1>12, <1>13,
    <1>14, <1>15, <1>16, <1>17 DEF RefStep

\* The shared reference is worked on by the thread that has its lock.
LEMMA LockStep ==
    ASSUME NEW t \in Threads, Locked = TRUE, TypeInv, JobInv, LockInv, RefStep(t)
    PROVE  LockInv'
<1> USE DEF mem, job, Goto, Idle
<1> SUFFICES ASSUME NEW u \in Threads, AtShared(u)' PROVE lock' = u
    BY DEF LockInv
<1>a. u # t => pc'[u] = pc[u] /\ dst'[u] = dst[u]
    BY Others
<1>b. AtShared(u) => lock = u
    BY DEF LockInv
<1>c. u # t => lock = u
    BY <1>a, <1>b DEF AtShared
<1>d. u # None /\ t # None /\ t # "shared" /\ lock \in Threads \cup {None}
    BY NameAssumption DEF TypeInv
<1>e. pc \in [Threads -> Pcs] /\ dst \in [Threads -> Refs \cup {None}]
    BY DEF TypeInv
<1>f. Knows(t)
    BY Known
<1>1. CASE allocate_new_zone(t)
    BY <1>1, <1>a, <1>b, <1>c, <1>d, <1>e DEF AtShared, Copying, Releasing, Crashed,
        allocate_new_zone
<1>2. CASE BeginCopy(t, t, "shared")
    BY <1>2, <1>a, <1>b, <1>c, <1>d, <1>e DEF AtShared, Copying, Releasing, Crashed, BeginCopy, Take
<1>3. CASE BeginCopy(t, "shared", t)
    BY <1>3, <1>a, <1>b, <1>c, <1>d, <1>e DEF AtShared, Copying, Releasing, Crashed, BeginCopy, Take
<1>4. CASE BeginRelease(t, t)
    BY <1>4, <1>a, <1>b, <1>c, <1>d, <1>e DEF AtShared, Copying, Releasing, Crashed,
        BeginRelease, Take
<1>5. CASE BeginRelease(t, "shared")
    BY <1>5, <1>a, <1>b, <1>c, <1>d, <1>e DEF AtShared, Copying, Releasing, Crashed,
        BeginRelease, Take
<1>6. CASE BeginTrash(t)
    BY <1>6, <1>a, <1>b, <1>c, <1>d, <1>e DEF AtShared, Copying, Releasing, Crashed, BeginTrash,
        FirstSlot
<1>7. CASE FreeSlot(t)
    BY <1>7, <1>a, <1>b, <1>c, <1>d, <1>e DEF AtShared, Copying, Releasing, Crashed, FreeSlot
<1>8. CASE ClearSlot(t)
    BY <1>8, <1>a, <1>b, <1>c, <1>d, <1>e DEF AtShared, Copying, Releasing, Crashed, ClearSlot
<1>9. CASE EndTrash(t)
    BY <1>9, <1>a, <1>b, <1>c, <1>d, <1>e DEF AtShared, Copying, Releasing, Crashed, EndTrash
<1>10. CASE ReadSource(t)
    BY <1>10, <1>a, <1>b, <1>c, <1>d, <1>e, <1>f DEF AtShared, Copying, Releasing, Knows, ReadSource
<1>11. CASE CountUp(t)
    BY <1>11, <1>a, <1>b, <1>c, <1>d, <1>e DEF AtShared, Copying, Releasing, Crashed, CountUp,
        Counted
<1>12. CASE SetRef(t)
    BY <1>12, <1>a, <1>b, <1>c, <1>d, <1>e DEF AtShared, Copying, Releasing, Crashed, SetRef, Leave
<1>13. CASE CountDown(t)
    BY <1>13, <1>a, <1>b, <1>c, <1>d, <1>e DEF AtShared, Copying, Releasing, Crashed, CountDown,
        Leave
<1>14. CASE Last(t)
    BY <1>14, <1>a, <1>b, <1>c, <1>d, <1>e DEF AtShared, Copying, Releasing, Crashed, Last,
        free_zone, IsOwn, Trash, SlotsFor, Leave
<1>15. CASE Release(t)
    BY <1>15, <1>a, <1>b, <1>c, <1>d, <1>e DEF AtShared, Copying, Releasing, Crashed, Release,
        WasLast
<1>16. CASE LastReleased(t)
    BY <1>16, <1>a, <1>b, <1>c, <1>d, <1>e DEF AtShared, Copying, Releasing, Crashed,
        LastReleased, free_zone, IsOwn, Trash, SlotsFor, StillLast
<1>17. CASE Forget(t)
    BY <1>17, <1>a, <1>b, <1>c, <1>d, <1>e DEF AtShared, Copying, Releasing, Crashed, Forget, Leave
<1> QED BY <1>1, <1>2, <1>3, <1>4, <1>5, <1>6, <1>7, <1>8, <1>9, <1>10, <1>11, <1>12, <1>13,
    <1>14, <1>15, <1>16, <1>17 DEF RefStep

\* Nor does it change their references, or the shared one while they have it.
LEMMA RefOthers ==
    ASSUME NEW t \in Threads, TypeInv, JobInv, LockInv, NEW u \in Threads, u # t, RefStep(t)
    PROVE  ref'[u] = ref[u] /\ (AtShared(u) => ref'["shared"] = ref["shared"])
<1> USE DEF mem, job, Goto, Idle
<1>a. Knows(t) /\ t # u /\ u # "shared" /\ ref \in [Refs -> Zones \cup {None}] /\ u \in Refs /\ "shared" \in Refs
    BY Known, NameAssumption DEF Refs, TypeInv
<1>b. AtShared(u) => lock = u
    BY DEF LockInv
<1>c. AtShared(t) => lock = t
    BY DEF LockInv
<1>1. CASE allocate_new_zone(t)
    <2>1. PICK z : ref' = [ref EXCEPT ![t] = z]
        BY <1>1 DEF allocate_new_zone
    <2> QED BY <2>1, <1>a DEF Knows
<1>2. CASE BeginCopy(t, t, "shared")
    BY <1>2, <1>a DEF BeginCopy, Take
<1>3. CASE BeginCopy(t, "shared", t)
    BY <1>3, <1>a DEF BeginCopy, Take
<1>4. CASE BeginRelease(t, t)
    BY <1>4, <1>a DEF BeginRelease, Take
<1>5. CASE BeginRelease(t, "shared")
    BY <1>5, <1>a DEF BeginRelease, Take
<1>6. CASE BeginTrash(t)
    BY <1>6, <1>a DEF BeginTrash, FirstSlot
<1>7. CASE FreeSlot(t)
    BY <1>7, <1>a DEF FreeSlot
<1>8. CASE ClearSlot(t)
    BY <1>8, <1>a DEF ClearSlot
<1>9. CASE EndTrash(t)
    BY <1>9, <1>a DEF EndTrash
<1>10. CASE ReadSource(t)
    BY <1>10, <1>a DEF ReadSource
<1>11. CASE CountUp(t)
    BY <1>11, <1>a DEF CountUp, Counted
<1>12. CASE SetRef(t)
    BY <1>12, <1>a, <1>b, <1>c DEF AtShared, Copying, Releasing, Knows, SetRef, Leave
<1>13. CASE CountDown(t)
    BY <1>13, <1>a DEF CountDown, Leave
<1>14. CASE Last(t)
    BY <1>14, <1>a DEF Last, free_zone, IsOwn, Trash, SlotsFor, Leave
<1>15. CASE Release(t)
    BY <1>15, <1>a DEF Release, WasLast
<1>16. CASE LastReleased(t)
    BY <1>16, <1>a DEF LastReleased, free_zone, IsOwn, Trash, SlotsFor, StillLast
<1>17. CASE Forget(t)
    BY <1>17, <1>a, <1>b, <1>c DEF AtShared, Copying, Releasing, Knows, Forget, Leave
<1> QED BY <1>1, <1>2, <1>3, <1>4, <1>5, <1>6, <1>7, <1>8, <1>9, <1>10, <1>11, <1>12, <1>13,
    <1>14, <1>15, <1>16, <1>17 DEF RefStep

\* So what the others know of their jobs stays true ...
LEMMA JobOthers ==
    ASSUME NEW t \in Threads, TypeInv, JobInv, LockInv, NEW u \in Threads, u # t, RefStep(t)
    PROVE  (CopyInv(u) /\ ReleaseInv(u) /\ SlotInv(u))'
<1>1. /\ pc'[u] = pc[u] /\ dst'[u] = dst[u] /\ src'[u] = src[u]
      /\ zone'[u] = zone[u] /\ old'[u] = old[u] /\ slot'[u] = slot[u]
    BY Others
<1>2. ref'[u] = ref[u] /\ (AtShared(u) => ref'["shared"] = ref["shared"])
    BY RefOthers
<1>3. CopyInv(u) /\ ReleaseInv(u) /\ SlotInv(u)
    BY DEF JobInv
<1>4. CopyInv(u)'
    BY <1>1, <1>2, <1>3 DEF CopyInv, AtShared, Copying
<1>5. ReleaseInv(u)'
    BY <1>1, <1>2, <1>3 DEF ReleaseInv, AtShared, Releasing
<1>6. SlotInv(u)'
    BY <1>1, <1>3 DEF SlotInv
<1> QED BY <1>4, <1>5, <1>6

\* ... and what the thread itself knows: of the references it copies ...
LEMMA CopyStep ==
    ASSUME NEW t \in Threads, TypeInv, JobInv, RefStep(t)
    PROVE  CopyInv(t)'
<1> USE DEF mem, job, Goto, Idle
<1>a. CopyInv(t) /\ ReleaseInv(t) /\ SlotInv(t) /\ Knows(t)
    BY Known DEF JobInv
<1>b. /\ ref \in [Refs -> Zones \cup {None}] /\ pc \in [Threads -> Pcs]
      /\ dst \in [Threads -> Refs \cup {None}] /\ src \in [Threads -> Refs \cup {None}]
    BY DEF TypeInv
<1>c. zone \in [Threads -> Zones \cup {None}] /\ old \in [Threads -> Zones \cup {None}]
    BY DEF TypeInv
<1>d. slot \in [Threads -> 0 .. TrashSize + 1] /\ TrashSize \in Nat
    BY RefAssumption DEF TypeInv
<1>1. CASE allocate_new_zone(t)
    BY <1>1, <1>a, <1>b, <1>c DEF CopyInv, Copying, Knows, Crashed, allocate_new_zone
<1>2. CASE BeginCopy(t, t, "shared")
    BY <1>2, <1>a, <1>b, <1>c DEF CopyInv, Copying, Knows, Crashed, BeginCopy, Take
<1>3. CASE BeginCopy(t, "shared", t)
    BY <1>3, <1>a, <1>b, <1>c DEF CopyInv, Copying, Knows, Crashed, BeginCopy, Take
<1>4. CASE BeginRelease(t, t)
    BY <1>4, <1>a, <1>b, <1>c DEF CopyInv, Copying, Knows, Crashed, BeginRelease, Take
<1>5. CASE BeginRelease(t, "shared")
    BY <1>5, <1>a, <1>b, <1>c DEF CopyInv, Copying, Knows, Crashed, BeginRelease, Take
<1>6. CASE BeginTrash(t)
    BY <1>6, <1>a, <1>b, <1>c DEF CopyInv, Copying, Knows, Crashed, BeginTrash, FirstSlot
<1>7. CASE FreeSlot(t)
    BY <1>7, <1>a, <1>b, <1>c DEF CopyInv, Copying, Knows, Crashed, FreeSlot
<1>8. CASE ClearSlot(t)
    BY <1>8, <1>a, <1>b, <1>c DEF CopyInv, Copying, Knows, Crashed, ClearSlot
<1>9. CASE EndTrash(t)
    BY <1>9, <1>a, <1>b, <1>c DEF CopyInv, Copying, Knows, Crashed, EndTrash
<1>10. CASE ReadSource(t)
    BY <1>10, <1>a, <1>b, <1>c DEF CopyInv, Copying, Knows, Crashed, ReadSource
<1>11. CASE CountUp(t)
    BY <1>11, <1>a, <1>b, <1>c DEF CopyInv, Copying, Knows, Crashed, CountUp, Counted
<1>12. CASE SetRef(t)
    BY <1>12, <1>a, <1>b, <1>c DEF CopyInv, Copying, Knows, Crashed, SetRef, Leave
<1>13. CASE CountDown(t)
    BY <1>13, <1>a, <1>b, <1>c DEF CopyInv, Copying, Knows, Crashed, CountDown, Leave
<1>14. CASE Last(t)
    BY <1>14, <1>a, <1>b, <1>c DEF CopyInv, Copying, Knows, Crashed, Last, free_zone, IsOwn,
        Trash, SlotsFor, Leave
<1>15. CASE Release(t)
    BY <1>15, <1>a, <1>b, <1>c DEF CopyInv, Copying, Knows, Crashed, Release, WasLast
<1>16. CASE LastReleased(t)
    BY <1>16, <1>a, <1>b, <1>c DEF CopyInv, Copying, Knows, Crashed, LastReleased, free_zone,
        IsOwn, Trash, SlotsFor, StillLast
<1>17. CASE Forget(t)
    BY <1>17, <1>a, <1>b, <1>c DEF CopyInv, Copying, Knows, Crashed, Forget, Leave
<1> QED BY <1>1, <1>2, <1>3, <1>4, <1>5, <1>6, <1>7, <1>8, <1>9, <1>10, <1>11, <1>12, <1>13,
    <1>14, <1>15, <1>16, <1>17 DEF RefStep

\* ... of the one it releases ...
LEMMA ReleaseStep ==
    ASSUME NEW t \in Threads, TypeInv, JobInv, RefStep(t)
    PROVE  ReleaseInv(t)'
<1> USE DEF mem, job, Goto, Idle
<1>a. CopyInv(t) /\ ReleaseInv(t) /\ SlotInv(t) /\ Knows(t)
    BY Known DEF JobInv
<1>b. /\ ref \in [Refs -> Zones \cup {None}] /\ pc \in [Threads -> Pcs]
      /\ dst \in [Threads -> Refs \cup {None}] /\ src \in [Threads -> Refs \cup {None}]
    BY DEF TypeInv
<1>c. zone \in [Threads -> Zones \cup {None}] /\ old \in [Threads -> Zones \cup {None}]
    BY DEF TypeInv
<1>d. slot \in [Threads -> 0 .. TrashSize + 1] /\ TrashSize \in Nat
    BY RefAssumption DEF TypeInv
<1>1. CASE allocate_new_zone(t)
    BY <1>1, <1>a, <1>b, <1>c DEF ReleaseInv, Releasing, Knows, Crashed, allocate_new_zone
<1>2. CASE BeginCopy(t, t, "shared")
    BY <1>2, <1>a, <1>b, <1>c DEF ReleaseInv, Releasing, Knows, Crashed, BeginCopy, Take
<1>3. CASE BeginCopy(t, "shared", t)
    BY <1>3, <1>a, <1>b, <1>c DEF ReleaseInv, Releasing, Knows, Crashed, BeginCopy, Take
<1>4. CASE BeginRelease(t, t)
    BY <1>4, <1>a, <1>b, <1>c DEF ReleaseInv, Releasing, Knows, Crashed, BeginRelease, Take
<1>5. CASE BeginRelease(t, "shared")
    BY <1>5, <1>a, <1>b, <1>c DEF ReleaseInv, Releasing, Knows, Crashed, BeginRelease, Take
<1>6. CASE BeginTrash(t)
    BY <1>6, <1>a, <1>b, <1>c DEF ReleaseInv, Releasing, Knows, Crashed, BeginTrash, FirstSlot
<1>7. CASE FreeSlot(t)
    BY <1>7, <1>a, <1>b, <1>c DEF ReleaseInv, Releasing, Knows, Crashed, FreeSlot
<1>8. CASE ClearSlot(t)
    BY <1>8, <1>a, <1>b, <1>c DEF ReleaseInv, Releasing, Knows, Crashed, ClearSlot
<1>9. CASE EndTrash(t)
    BY <1>9, <1>a, <1>b, <1>c DEF ReleaseInv, Releasing, Knows, Crashed, EndTrash
<1>10. CASE ReadSource(t)
    BY <1>10, <1>a, <1>b, <1>c DEF ReleaseInv, Releasing, Knows, Crashed, ReadSource
<1>11. CASE CountUp(t)
    BY <1>11, <1>a, <1>b, <1>c DEF ReleaseInv, Releasing, Knows, Crashed, CountUp, Counted
<1>12. CASE SetRef(t)
    BY <1>12, <1>a, <1>b, <1>c DEF ReleaseInv, Releasing, Knows, Crashed, SetRef, Leave
<1>13. CASE CountDown(t)
    BY <1>13, <1>a, <1>b, <1>c DEF ReleaseInv, Releasing, Knows, Crashed, CountDown, Leave
<1>14. CASE Last(t)
    BY <1>14, <1>a, <1>b, <1>c DEF ReleaseInv, Releasing, Knows, Crashed, Last, free_zone, IsOwn,
        Trash, SlotsFor, Leave
<1>15. CASE Release(t)
    BY <1>15, <1>a, <1>b, <1>c DEF ReleaseInv, Releasing, Knows, Crashed, Release, WasLast
<1>16. CASE LastReleased(t)
    BY <1>16, <1>a, <1>b, <1>c DEF ReleaseInv, Releasing, Knows, Crashed, LastReleased,
        free_zone, IsOwn, Trash, SlotsFor, StillLast
<1>17. CASE Forget(t)
    BY <1>17, <1>a, <1>b, <1>c DEF ReleaseInv, Releasing, Knows, Crashed, Forget, Leave
<1> QED BY <1>1, <1>2, <1>3, <1>4, <1>5, <1>6, <1>7, <1>8, <1>9, <1>10, <1>11, <1>12, <1>13,
    <1>14, <1>15, <1>16, <1>17 DEF RefStep

\* ... and of its place in the trash.
LEMMA SlotStep ==
    ASSUME NEW t \in Threads, TypeInv, JobInv, RefStep(t)
    PROVE  SlotInv(t)'
<1> USE DEF mem, job, Goto, Idle
<1>a. CopyInv(t) /\ ReleaseInv(t) /\ SlotInv(t) /\ Knows(t)
    BY Known DEF JobInv
<1>b. /\ ref \in [Refs -> Zones \cup {None}] /\ pc \in [Threads -> Pcs]
      /\ dst \in [Threads -> Refs \cup {None}] /\ src \in [Threads -> Refs \cup {None}]
    BY DEF TypeInv
<1>c. zone \in [Threads -> Zones \cup {None}] /\ old \in [Threads -> Zones \cup {None}]
    BY DEF TypeInv
<1>d. slot \in [Threads -> 0 .. TrashSize + 1] /\ TrashSize \in Nat
    BY RefAssumption DEF TypeInv
<1>1. CASE allocate_new_zone(t)
    BY <1>1, <1>a, <1>b, <1>d DEF SlotInv, Crashed, allocate_new_zone
<1>2. CASE BeginCopy(t, t, "shared")
    BY <1>2, <1>a, <1>b, <1>d DEF SlotInv, Crashed, BeginCopy, Take
<1>3. CASE BeginCopy(t, "shared", t)
    BY <1>3, <1>a, <1>b, <1>d DEF SlotInv, Crashed, BeginCopy, Take
<1>4. CASE BeginRelease(t, t)
    BY <1>4, <1>a, <1>b, <1>d DEF SlotInv, Crashed, BeginRelease, Take
<1>5. CASE BeginRelease(t, "shared")
    BY <1>5, <1>a, <1>b, <1>d DEF SlotInv, Crashed, BeginRelease, Take
<1>6. CASE BeginTrash(t)
    BY <1>6, <1>a, <1>b, <1>d DEF SlotInv, Crashed, BeginTrash, FirstSlot
<1>7. CASE FreeSlot(t)
    <2>0. slot[t] <= TrashSize /\ slot[t] >= 1 /\ slot[t] \in 0 .. TrashSize + 1
        BY <1>7, <1>a, <1>d DEF SlotInv, FreeSlot
    <2>1. slot[t] \in 1 .. TrashSize
        BY <2>0, <1>d
    <2>2. CASE slot' = [slot EXCEPT ![t] = slot[t] + 1] /\ pc' = pc
        <3>1. slot'[t] = slot[t] + 1 /\ pc'[t] = "trash"
            BY <1>7, <2>2, <1>d DEF FreeSlot
        <3> QED BY <2>1, <3>1 DEF SlotInv
    <2>3. CASE slot' = slot
        BY <2>0, <2>1, <2>3 DEF SlotInv
    <2> QED BY <1>7, <2>2, <2>3 DEF FreeSlot
<1>8. CASE ClearSlot(t)
    <2>0. slot[t] \in 1 .. TrashSize
        BY <1>8, <1>a DEF SlotInv, ClearSlot
    <2>1. slot[t] + 1 >= 1
        BY <2>0, <1>d
    <2>2. slot'[t] = slot[t] + 1 /\ pc'[t] = "trash"
        BY <1>8, <1>b, <1>d DEF ClearSlot
    <2> QED BY <2>1, <2>2 DEF SlotInv
<1>9. CASE EndTrash(t)
    BY <1>9, <1>a, <1>b, <1>d DEF SlotInv, Crashed, EndTrash
<1>10. CASE ReadSource(t)
    BY <1>10, <1>a, <1>b, <1>d DEF SlotInv, Crashed, ReadSource
<1>11. CASE CountUp(t)
    BY <1>11, <1>a, <1>b, <1>d DEF SlotInv, Crashed, CountUp, Counted
<1>12. CASE SetRef(t)
    BY <1>12, <1>a, <1>b, <1>d DEF SlotInv, Crashed, SetRef, Leave
<1>13. CASE CountDown(t)
    BY <1>13, <1>a, <1>b, <1>d DEF SlotInv, Crashed, CountDown, Leave
<1>14. CASE Last(t)
    BY <1>14, <1>a, <1>b, <1>d DEF SlotInv, Crashed, Last, free_zone, IsOwn, Trash, SlotsFor, Leave
<1>15. CASE Release(t)
    BY <1>15, <1>a, <1>b, <1>d DEF SlotInv, Crashed, Release, WasLast
<1>16. CASE LastReleased(t)
    BY <1>16, <1>a, <1>b, <1>d DEF SlotInv, Crashed, LastReleased, free_zone, IsOwn, Trash,
        SlotsFor, StillLast
<1>17. CASE Forget(t)
    BY <1>17, <1>a, <1>b, <1>d DEF SlotInv, Crashed, Forget, Leave
<1> QED BY <1>1, <1>2, <1>3, <1>4, <1>5, <1>6, <1>7, <1>8, <1>9, <1>10, <1>11, <1>12, <1>13,
    <1>14, <1>15, <1>16, <1>17 DEF RefStep

\* Every step keeps what all threads know.
LEMMA JobStep ==
    ASSUME NEW t \in Threads, TypeInv, JobInv, LockInv, RefStep(t)
    PROVE  JobInv'
BY JobOthers, CopyStep, ReleaseStep, SlotStep DEF JobInv


\* The holders of a zone, counted: the same ...
LEMMA HoldSame ==
    ASSUME NEW z, IsFiniteSet(Hold(z)), \A k \in Kinds, r \in Refs : Holds(k, r, z)' <=> Holds(k,
           r, z)
    PROVE  IsFiniteSet(Hold(z)') /\ Cardinality(Hold(z)') = Cardinality(Hold(z))
<1>1. Hold(z)' = Hold(z)
    BY DEF Hold, Holders
<1> QED BY <1>1

\* ... one more ...
LEMMA HoldMore ==
    ASSUME NEW z, IsFiniteSet(Hold(z)), NEW k0 \in Kinds, NEW r0 \in Refs, ~Holds(k0, r0, z),
           \A k \in Kinds, r \in Refs : Holds(k, r, z)' <=> Holds(k, r, z) \/ (k = k0 /\ r = r0)
    PROVE  IsFiniteSet(Hold(z)') /\ Cardinality(Hold(z)') = Cardinality(Hold(z)) + 1
<1>1. Hold(z)' = Hold(z) \cup {<<k0, r0>>}
    BY DEF Hold, Holders
<1>2. <<k0, r0>> \notin Hold(z)
    BY DEF Hold, Holders
<1> QED BY <1>1, <1>2, FS_AddElement

\* ... one less ...
LEMMA HoldLess ==
    ASSUME NEW z, IsFiniteSet(Hold(z)), NEW k0 \in Kinds, NEW r0 \in Refs, Holds(k0, r0, z),
           \A k \in Kinds, r \in Refs : Holds(k, r, z)' <=> Holds(k, r, z) /\ ~(k = k0 /\ r = r0)
    PROVE  IsFiniteSet(Hold(z)') /\ Cardinality(Hold(z)') = Cardinality(Hold(z)) - 1
<1>1. Hold(z)' = Hold(z) \ {<<k0, r0>>}
    BY DEF Hold, Holders
<1>2. <<k0, r0>> \in Hold(z)
    BY DEF Hold, Holders
<1> QED BY <1>1, <1>2, FS_RemoveElement

\* ... one in the place of another.
LEMMA HoldSwap ==
    ASSUME NEW z, IsFiniteSet(Hold(z)), NEW k0 \in Kinds, NEW r0 \in Refs, Holds(k0, r0, z),
           NEW k1 \in Kinds, NEW r1 \in Refs, ~Holds(k1, r1, z),
           \A k \in Kinds, r \in Refs :
               Holds(k, r, z)' <=> (Holds(k, r, z) /\ ~(k = k0 /\ r = r0)) \/ (k = k1 /\ r = r1)
    PROVE  IsFiniteSet(Hold(z)') /\ Cardinality(Hold(z)') = Cardinality(Hold(z))
<1> DEFINE S == Hold(z) \ {<<k0, r0>>}
<1>1. Hold(z)' = S \cup {<<k1, r1>>}
    BY DEF Hold, Holders
<1>2. <<k0, r0>> \in Hold(z) /\ <<k1, r1>> \notin S
    BY DEF Hold, Holders
<1>3. IsFiniteSet(S) /\ Cardinality(S) = Cardinality(Hold(z)) - 1
    BY <1>2, FS_RemoveElement
<1>4. IsFiniteSet(S \cup {<<k1, r1>>}) /\ Cardinality(S \cup {<<k1, r1>>}) = Cardinality(S) + 1
    BY <1>2, <1>3, FS_AddElement
<1>5. Cardinality(Hold(z)) \in Nat
    BY FS_CardinalityType
<1> QED BY <1>1, <1>3, <1>4, <1>5

\* Nobody holds a zone when its holders are none.
LEMMA HeldIsCounted ==
    ASSUME NEW z, IsFiniteSet(Hold(z))
    PROVE  Cardinality(Hold(z)) \in Nat /\ (Cardinality(Hold(z)) = 0 <=> Free(z))
<1>1. ASSUME Free(z)
      PROVE  Hold(z) = {}
    BY <1>1 DEF Hold, Holders, Free
<1>2. ASSUME Hold(z) = {}, NEW k \in Kinds, NEW r \in Refs
      PROVE  ~Holds(k, r, z)
    <2>1. <<k, r>> \in Holders
        BY DEF Holders
    <2>2. <<k, r>> \notin Hold(z)
        BY <1>2
    <2> QED BY <2>1, <2>2 DEF Hold
<1> QED BY <1>1, <1>2, FS_CardinalityType, FS_EmptySet DEF Free

\* Who drops a reference works on it: nobody else does.
LEMMA OneDropper ==
    ASSUME TypeInv, JobInv, LockInv, NEW t \in Threads
    PROVE  /\ Dropped(t) => pc[t] \in {"last released", "forget"} /\ dst[t] = t
           /\ AtShared(t) /\ Dropped("shared") => pc[t] \in {"last released", "forget"} /\ dst[t] = "shared"
<1>1. ASSUME NEW u \in Threads, pc[u] \in {"last released", "forget"}, dst[u] = t
      PROVE  u = t
    BY <1>1, Known, NameAssumption DEF Knows, Releasing
<1>2. ASSUME NEW u \in Threads, pc[u] \in {"last released", "forget"}, dst[u] = "shared",
    AtShared(t)
      PROVE  u = t
    BY <1>2 DEF LockInv, AtShared, Releasing
<1> QED BY <1>1, <1>2 DEF Dropped

\* How each step changes what is counted.
LEMMA DroppedOthers ==
    ASSUME NEW t \in Threads, TypeInv, RefStep(t),
           \/ pc[t] \notin {"last released", "forget"} /\ pc'[t] \notin {"last released", "forget"}
           \/ {pc[t], pc'[t]} \subseteq {"last released", "forget"} /\ dst'[t] = dst[t]
    PROVE  \A r \in Refs : Dropped(r)' <=> Dropped(r)
<1>1. \A u \in Threads : u # t => pc'[u] = pc[u] /\ dst'[u] = dst[u]
    BY Others
<1> QED BY <1>1 DEF Dropped

\* These steps change nobody's hold on a zone.
LEMMA SameHolders ==
    ASSUME NEW t \in Threads, TypeInv, JobInv, LockInv,
           \/ BeginCopy(t, t, "shared")
           \/ BeginCopy(t, "shared", t)
           \/ BeginRelease(t, t)
           \/ BeginRelease(t, "shared")
           \/ BeginTrash(t)
           \/ FreeSlot(t)
           \/ ClearSlot(t)
           \/ EndTrash(t)
           \/ ReadSource(t)
           \/ Last(t)
           \/ LastReleased(t)
    PROVE  \A k \in Kinds, r \in Refs, z \in Zones : Holds(k, r, z)' <=> Holds(k, r, z)
<1> USE DEF mem, job, Goto, Idle
<1>h. RefStep(t)
    BY DEF RefStep
<1>a. Knows(t) /\ t \in Refs /\ t # "shared"
    BY Known DEF Knows
<1>b. \A u \in Threads : u # t => pc'[u] = pc[u] /\ dst'[u] = dst[u] /\ zone'[u] = zone[u] /\ old'[u] = old[u]
    BY Others, <1>h
<1>c. /\ pc \in [Threads -> Pcs] /\ dst \in [Threads -> Refs \cup {None}]
      /\ zone \in [Threads -> Zones \cup {None}] /\ old \in [Threads -> Zones \cup {None}]
      /\ ref \in [Refs -> Zones \cup {None}]
    BY DEF TypeInv
<1>d. None \notin Zones
    BY NameAssumption
<1> SUFFICES ASSUME NEW k \in Kinds, NEW r \in Refs, NEW z \in Zones PROVE Holds(k, r,
    z)' <=> Holds(k, r, z)
    OBVIOUS
<1>1. CASE BeginCopy(t, t, "shared")
    <2>0. \/ pc[t] \notin {"last released", "forget"} /\ pc'[t] \notin {"last released", "forget"}
          \/ {pc[t], pc'[t]} \subseteq {"last released", "forget"} /\ dst'[t] = dst[t]
        BY <1>1, <1>c DEF Crashed, BeginCopy, Take
    <2>1. Dropped(r)' <=> Dropped(r)
        BY <2>0, <1>h, DroppedOthers
    <2>2. ref' = ref
        BY <1>1 DEF BeginCopy, Take
    <2>3. pc[t] \notin {"set", "count down"}
        BY <1>1 DEF BeginCopy, Take
    <2>4. pc'[t] = "count down" \/ (pc'[t] = "set" /\ zone'[t] # None) => FALSE
        BY <1>1, <1>c DEF Crashed, BeginCopy, Take
    <2> QED BY <2>1, <2>2, <2>3, <2>4, <1>a, <1>b, <1>d DEF Holds, Refs
<1>2. CASE BeginCopy(t, "shared", t)
    <2>0. \/ pc[t] \notin {"last released", "forget"} /\ pc'[t] \notin {"last released", "forget"}
          \/ {pc[t], pc'[t]} \subseteq {"last released", "forget"} /\ dst'[t] = dst[t]
        BY <1>2, <1>c DEF Crashed, BeginCopy, Take
    <2>1. Dropped(r)' <=> Dropped(r)
        BY <2>0, <1>h, DroppedOthers
    <2>2. ref' = ref
        BY <1>2 DEF BeginCopy, Take
    <2>3. pc[t] \notin {"set", "count down"}
        BY <1>2 DEF BeginCopy, Take
    <2>4. pc'[t] = "count down" \/ (pc'[t] = "set" /\ zone'[t] # None) => FALSE
        BY <1>2, <1>c DEF Crashed, BeginCopy, Take
    <2> QED BY <2>1, <2>2, <2>3, <2>4, <1>a, <1>b, <1>d DEF Holds, Refs
<1>3. CASE BeginRelease(t, t)
    <2>0. \/ pc[t] \notin {"last released", "forget"} /\ pc'[t] \notin {"last released", "forget"}
          \/ {pc[t], pc'[t]} \subseteq {"last released", "forget"} /\ dst'[t] = dst[t]
        BY <1>3, <1>c DEF Crashed, BeginRelease, Take
    <2>1. Dropped(r)' <=> Dropped(r)
        BY <2>0, <1>h, DroppedOthers
    <2>2. ref' = ref
        BY <1>3 DEF BeginRelease, Take
    <2>3. pc[t] \notin {"set", "count down"}
        BY <1>3 DEF BeginRelease, Take
    <2>4. pc'[t] = "count down" \/ (pc'[t] = "set" /\ zone'[t] # None) => FALSE
        BY <1>3, <1>c DEF Crashed, BeginRelease, Take
    <2> QED BY <2>1, <2>2, <2>3, <2>4, <1>a, <1>b, <1>d DEF Holds, Refs
<1>4. CASE BeginRelease(t, "shared")
    <2>0. \/ pc[t] \notin {"last released", "forget"} /\ pc'[t] \notin {"last released", "forget"}
          \/ {pc[t], pc'[t]} \subseteq {"last released", "forget"} /\ dst'[t] = dst[t]
        BY <1>4, <1>c DEF Crashed, BeginRelease, Take
    <2>1. Dropped(r)' <=> Dropped(r)
        BY <2>0, <1>h, DroppedOthers
    <2>2. ref' = ref
        BY <1>4 DEF BeginRelease, Take
    <2>3. pc[t] \notin {"set", "count down"}
        BY <1>4 DEF BeginRelease, Take
    <2>4. pc'[t] = "count down" \/ (pc'[t] = "set" /\ zone'[t] # None) => FALSE
        BY <1>4, <1>c DEF Crashed, BeginRelease, Take
    <2> QED BY <2>1, <2>2, <2>3, <2>4, <1>a, <1>b, <1>d DEF Holds, Refs
<1>5. CASE BeginTrash(t)
    <2>0. \/ pc[t] \notin {"last released", "forget"} /\ pc'[t] \notin {"last released", "forget"}
          \/ {pc[t], pc'[t]} \subseteq {"last released", "forget"} /\ dst'[t] = dst[t]
        BY <1>5, <1>c DEF Crashed, BeginTrash, FirstSlot
    <2>1. Dropped(r)' <=> Dropped(r)
        BY <2>0, <1>h, DroppedOthers
    <2>2. ref' = ref
        BY <1>5 DEF BeginTrash, FirstSlot
    <2>3. pc[t] \notin {"set", "count down"}
        BY <1>5 DEF BeginTrash, FirstSlot
    <2>4. pc'[t] = "count down" \/ (pc'[t] = "set" /\ zone'[t] # None) => FALSE
        BY <1>5, <1>c DEF Crashed, BeginTrash, FirstSlot
    <2> QED BY <2>1, <2>2, <2>3, <2>4, <1>a, <1>b, <1>d DEF Holds, Refs
<1>6. CASE FreeSlot(t)
    <2>0. \/ pc[t] \notin {"last released", "forget"} /\ pc'[t] \notin {"last released", "forget"}
          \/ {pc[t], pc'[t]} \subseteq {"last released", "forget"} /\ dst'[t] = dst[t]
        BY <1>6, <1>c DEF Crashed, FreeSlot
    <2>1. Dropped(r)' <=> Dropped(r)
        BY <2>0, <1>h, DroppedOthers
    <2>2. ref' = ref
        BY <1>6 DEF FreeSlot
    <2>3. pc[t] \notin {"set", "count down"}
        BY <1>6 DEF FreeSlot
    <2>4. pc'[t] = "count down" \/ (pc'[t] = "set" /\ zone'[t] # None) => FALSE
        BY <1>6, <1>c DEF Crashed, FreeSlot
    <2> QED BY <2>1, <2>2, <2>3, <2>4, <1>a, <1>b, <1>d DEF Holds, Refs
<1>7. CASE ClearSlot(t)
    <2>0. \/ pc[t] \notin {"last released", "forget"} /\ pc'[t] \notin {"last released", "forget"}
          \/ {pc[t], pc'[t]} \subseteq {"last released", "forget"} /\ dst'[t] = dst[t]
        BY <1>7, <1>c DEF Crashed, ClearSlot
    <2>1. Dropped(r)' <=> Dropped(r)
        BY <2>0, <1>h, DroppedOthers
    <2>2. ref' = ref
        BY <1>7 DEF ClearSlot
    <2>3. pc[t] \notin {"set", "count down"}
        BY <1>7 DEF ClearSlot
    <2>4. pc'[t] = "count down" \/ (pc'[t] = "set" /\ zone'[t] # None) => FALSE
        BY <1>7, <1>c DEF Crashed, ClearSlot
    <2> QED BY <2>1, <2>2, <2>3, <2>4, <1>a, <1>b, <1>d DEF Holds, Refs
<1>8. CASE EndTrash(t)
    <2>0. \/ pc[t] \notin {"last released", "forget"} /\ pc'[t] \notin {"last released", "forget"}
          \/ {pc[t], pc'[t]} \subseteq {"last released", "forget"} /\ dst'[t] = dst[t]
        BY <1>8, <1>c DEF Crashed, EndTrash
    <2>1. Dropped(r)' <=> Dropped(r)
        BY <2>0, <1>h, DroppedOthers
    <2>2. ref' = ref
        BY <1>8 DEF EndTrash
    <2>3. pc[t] \notin {"set", "count down"}
        BY <1>8 DEF EndTrash
    <2>4. pc'[t] = "count down" \/ (pc'[t] = "set" /\ zone'[t] # None) => FALSE
        BY <1>8, <1>c DEF Crashed, EndTrash
    <2> QED BY <2>1, <2>2, <2>3, <2>4, <1>a, <1>b, <1>d DEF Holds, Refs
<1>9. CASE ReadSource(t)
    <2>0. \/ pc[t] \notin {"last released", "forget"} /\ pc'[t] \notin {"last released", "forget"}
          \/ {pc[t], pc'[t]} \subseteq {"last released", "forget"} /\ dst'[t] = dst[t]
        BY <1>9, <1>c DEF Crashed, ReadSource
    <2>1. Dropped(r)' <=> Dropped(r)
        BY <2>0, <1>h, DroppedOthers
    <2>2. ref' = ref
        BY <1>9 DEF ReadSource
    <2>3. pc[t] \notin {"set", "count down"}
        BY <1>9 DEF ReadSource
    <2>4. pc'[t] = "count down" \/ (pc'[t] = "set" /\ zone'[t] # None) => FALSE
        BY <1>9, <1>c DEF Crashed, ReadSource
    <2> QED BY <2>1, <2>2, <2>3, <2>4, <1>a, <1>b, <1>d DEF Holds, Refs
<1>10. CASE Last(t)
    <2>0. \/ pc[t] \notin {"last released", "forget"} /\ pc'[t] \notin {"last released", "forget"}
          \/ {pc[t], pc'[t]} \subseteq {"last released", "forget"} /\ dst'[t] = dst[t]
        BY <1>10, <1>c DEF Crashed, Last, free_zone, IsOwn, Trash, SlotsFor, Leave
    <2>1. Dropped(r)' <=> Dropped(r)
        BY <2>0, <1>h, DroppedOthers
    <2>2. ref' = ref
        BY <1>10 DEF Last, free_zone, IsOwn, Trash, SlotsFor, Leave
    <2>3. pc[t] \notin {"set", "count down"}
        BY <1>10 DEF Last, free_zone, IsOwn, Trash, SlotsFor, Leave
    <2>4. pc'[t] = "count down" \/ (pc'[t] = "set" /\ zone'[t] # None) => FALSE
        BY <1>10, <1>c DEF Crashed, Last, free_zone, IsOwn, Trash, SlotsFor, Leave
    <2> QED BY <2>1, <2>2, <2>3, <2>4, <1>a, <1>b, <1>d DEF Holds, Refs
<1>11. CASE LastReleased(t)
    <2>0. \/ pc[t] \notin {"last released", "forget"} /\ pc'[t] \notin {"last released", "forget"}
          \/ {pc[t], pc'[t]} \subseteq {"last released", "forget"} /\ dst'[t] = dst[t]
        BY <1>11, <1>c DEF Crashed, LastReleased, free_zone, IsOwn, Trash, SlotsFor, StillLast
    <2>1. Dropped(r)' <=> Dropped(r)
        BY <2>0, <1>h, DroppedOthers
    <2>2. ref' = ref
        BY <1>11 DEF LastReleased, free_zone, IsOwn, Trash, SlotsFor, StillLast
    <2>3. pc[t] \notin {"set", "count down"}
        BY <1>11 DEF LastReleased, free_zone, IsOwn, Trash, SlotsFor, StillLast
    <2>4. pc'[t] = "count down" \/ (pc'[t] = "set" /\ zone'[t] # None) => FALSE
        BY <1>11, <1>c DEF Crashed, LastReleased, free_zone, IsOwn, Trash, SlotsFor, StillLast
    <2> QED BY <2>1, <2>2, <2>3, <2>4, <1>a, <1>b, <1>d DEF Holds, Refs
<1> QED BY <1>1, <1>2, <1>3, <1>4, <1>5, <1>6, <1>7, <1>8, <1>9, <1>10, <1>11

\* A new zone is held by the reference of its thread.
LEMMA AllocateHolders ==
    ASSUME NEW t \in Threads, TypeInv, JobInv, LockInv, NEW z \in Zones, allocate_new_zone(t),
           ref' = [ref EXCEPT ![t] = z]
    PROVE  \A k \in Kinds, r \in Refs, x \in Zones :
               Holds(k, r, x)' <=> Holds(k, r, x) \/ (x = z /\ k = "ref" /\ r = t)
<1> USE DEF mem, job, Goto, Idle
<1>h. RefStep(t)
    BY DEF RefStep
<1>a. Knows(t) /\ t \in Refs /\ "shared" \in Refs /\ t # "shared"
    BY Known DEF Knows
<1>b. \A u \in Threads : u # t => pc'[u] = pc[u] /\ dst'[u] = dst[u] /\ zone'[u] = zone[u] /\ old'[u] = old[u]
    BY Others, <1>h
<1>c. /\ pc \in [Threads -> Pcs] /\ dst \in [Threads -> Refs \cup {None}]
      /\ zone \in [Threads -> Zones \cup {None}] /\ old \in [Threads -> Zones \cup {None}]
      /\ ref \in [Refs -> Zones \cup {None}]
    BY DEF TypeInv
<1>d. None \notin Zones
    BY NameAssumption
<1>1. \A r \in Refs : Dropped(r)' <=> Dropped(r)
    <2>1. pc[t] \notin {"last released", "forget"} /\ pc'[t] \notin {"last released", "forget"}
        BY <1>c DEF allocate_new_zone
    <2> QED BY <2>1, <1>h, DroppedOthers
<1>2. ~Dropped(t) /\ ref[t] = None /\ pc[t] = "idle" /\ pc' = pc /\ zone' = zone /\ old' = old
    BY OneDropper DEF allocate_new_zone
<1>3. ASSUME NEW r \in Refs, NEW x \in Zones
      PROVE  Holds("ref", r, x)' <=> Holds("ref", r, x) \/ (x = z /\ r = t)
    BY <1>1, <1>2, <1>a, <1>c, <1>d DEF Holds
<1>4. ASSUME NEW r \in Refs, NEW x \in Zones
      PROVE  (Holds("new", r, x)' <=> Holds("new", r, x)) /\ (Holds("old", r,
      x)' <=> Holds("old", r, x))
    BY <1>2 DEF Holds
<1> QED BY <1>3, <1>4 DEF Kinds

\* Counting up makes the thread itself a holder, of a zone that is held already.
LEMMA CountUpHolders ==
    ASSUME NEW t \in Threads, TypeInv, JobInv, LockInv, CountUp(t)
    PROVE  /\ Holds("ref", src[t], zone[t]) /\ ~Holds("new", t, zone[t]) /\ zone[t] \in Zones
           /\ n_refs[zone[t]] >= 1 =>
               \A k \in Kinds, r \in Refs, z \in Zones :
                   Holds(k, r, z)' <=> Holds(k, r, z) \/ (z = zone[t] /\ k = "new" /\ r = t)
<1> USE DEF mem, job, Goto, Idle
<1>h. RefStep(t)
    BY DEF RefStep
<1>a. Knows(t) /\ t \in Refs /\ "shared" \in Refs /\ t # "shared"
    BY Known DEF Knows
<1>b. \A u \in Threads : u # t => pc'[u] = pc[u] /\ dst'[u] = dst[u] /\ zone'[u] = zone[u] /\ old'[u] = old[u]
    BY Others, <1>h
<1>c. /\ pc \in [Threads -> Pcs] /\ dst \in [Threads -> Refs \cup {None}]
      /\ zone \in [Threads -> Zones \cup {None}] /\ old \in [Threads -> Zones \cup {None}]
      /\ ref \in [Refs -> Zones \cup {None}]
    BY DEF TypeInv
<1>d. None \notin Zones
    BY NameAssumption
<1>1. \A r \in Refs : Dropped(r)' <=> Dropped(r)
    <2>1. pc[t] \notin {"last released", "forget"} /\ pc'[t] \notin {"last released", "forget"}
        BY <1>c DEF CountUp
    <2> QED BY <2>1, <1>h, DroppedOthers
<1>2. pc[t] = "count up" /\ ref[src[t]] = zone[t] /\ zone[t] \in Zones /\ src[t] \in {t, "shared"}
    BY <1>a DEF CountUp, Knows, Copying
<1>3. ~Dropped(src[t])
    BY <1>2, OneDropper DEF AtShared, Copying
<1>4. Holds("ref", src[t], zone[t]) /\ ~Holds("new", t, zone[t])
    BY <1>2, <1>3, <1>a DEF Holds
<1>5. ASSUME n_refs[zone[t]] >= 1
      PROVE  pc'[t] = "set" /\ ref' = ref /\ zone' = zone /\ old' = old
    BY <1>5, <1>c DEF CountUp
<1>6. ASSUME n_refs[zone[t]] >= 1, NEW r \in Refs, NEW z \in Zones
      PROVE  /\ Holds("ref", r, z)' <=> Holds("ref", r, z)
             /\ Holds("new", r, z)' <=> Holds("new", r, z) \/ (z = zone[t] /\ r = t)
             /\ Holds("old", r, z)' <=> Holds("old", r, z)
    BY <1>1, <1>2, <1>5, <1>6, <1>a, <1>b DEF Holds, Refs
<1> QED BY <1>2, <1>4, <1>6 DEF Kinds

\* Setting a reference hands over the hold on the new zone, and keeps that on the old one.
LEMMA SetRefHolders ==
    ASSUME NEW t \in Threads, TypeInv, JobInv, LockInv, SetRef(t)
    PROVE  /\ \A z \in Zones : Holds("new", t, z) <=> zone[t] = z
           /\ \A z \in Zones : Holds("ref", dst[t], z) <=> old[t] = z
           /\ \A z \in Zones : ~Holds("old", t, z)
           /\ dst[t] \in Refs
           /\ \A k \in Kinds, r \in Refs, z \in Zones : Holds(k, r, z)' <=>
                  \/ Holds(k, r, z) /\ ~(k = "new" /\ r = t) /\ ~(k = "ref" /\ r = dst[t])
                  \/ k = "ref" /\ r = dst[t] /\ z = zone[t]
                  \/ k = "old" /\ r = t /\ z = old[t]
<1> USE DEF mem, job, Goto, Idle
<1>h. RefStep(t)
    BY DEF RefStep
<1>a. Knows(t) /\ t \in Refs /\ "shared" \in Refs /\ t # "shared"
    BY Known DEF Knows
<1>b. \A u \in Threads : u # t => pc'[u] = pc[u] /\ dst'[u] = dst[u] /\ zone'[u] = zone[u] /\ old'[u] = old[u]
    BY Others, <1>h
<1>c. /\ pc \in [Threads -> Pcs] /\ dst \in [Threads -> Refs \cup {None}]
      /\ zone \in [Threads -> Zones \cup {None}] /\ old \in [Threads -> Zones \cup {None}]
      /\ ref \in [Refs -> Zones \cup {None}]
    BY DEF TypeInv
<1>d. None \notin Zones
    BY NameAssumption
<1>1. \A r \in Refs : Dropped(r)' <=> Dropped(r)
    <2>1. pc[t] \notin {"last released", "forget"} /\ pc'[t] \notin {"last released", "forget"}
        BY <1>c DEF SetRef
    <2> QED BY <2>1, <1>h, DroppedOthers
<1>2. pc[t] = "set" /\ dst[t] \in {t, "shared"} /\ old[t] = ref[dst[t]] /\ dst[t] \in Refs
    BY <1>a DEF SetRef, Knows, Copying, JobInv, CopyInv
<1>3. ~Dropped(dst[t])
    BY <1>2, OneDropper DEF AtShared, Copying
<1>4. ref' = [ref EXCEPT ![dst[t]] = zone[t]] /\ zone' = zone /\ old' = old
    BY DEF SetRef
<1>5. pc'[t] = IF old[t] = None THEN "idle" ELSE "count down"
    BY <1>c DEF SetRef
<1>6. ASSUME NEW z \in Zones
      PROVE  /\ Holds("new", t, z) <=> zone[t] = z
             /\ Holds("ref", dst[t], z) <=> old[t] = z
             /\ ~Holds("old", t, z)
    BY <1>2, <1>3 DEF Holds
<1>7. ASSUME NEW r \in Refs, NEW z \in Zones
      PROVE  Holds("ref", r, z)' <=> (Holds("ref", r,
      z) /\ r # dst[t]) \/ (r = dst[t] /\ z = zone[t])
    BY <1>1, <1>2, <1>3, <1>4, <1>c DEF Holds
<1>8. ASSUME NEW r \in Refs, NEW z \in Zones
      PROVE  Holds("new", r, z)' <=> Holds("new", r, z) /\ r # t
    BY <1>4, <1>5, <1>b DEF Holds, Refs
<1>9. ASSUME NEW r \in Refs, NEW z \in Zones
      PROVE  Holds("old", r, z)' <=> Holds("old", r, z) \/ (r = t /\ z = old[t])
    BY <1>2, <1>4, <1>5, <1>b, <1>d DEF Holds, Refs
<1> QED BY <1>2, <1>6, <1>7, <1>8, <1>9 DEF Kinds

\* Counting down ends the hold on the zone the reference led to.
LEMMA CountDownHolders ==
    ASSUME NEW t \in Threads, TypeInv, JobInv, LockInv, CountDown(t)
    PROVE  /\ old[t] \in Zones /\ Holds("old", t, old[t])
           /\ \A k \in Kinds, r \in Refs, z \in Zones :
                  Holds(k, r, z)' <=> Holds(k, r, z) /\ ~(z = old[t] /\ k = "old" /\ r = t)
<1> USE DEF mem, job, Goto, Idle
<1>h. RefStep(t)
    BY DEF RefStep
<1>a. Knows(t) /\ t \in Refs /\ "shared" \in Refs /\ t # "shared"
    BY Known DEF Knows
<1>b. \A u \in Threads : u # t => pc'[u] = pc[u] /\ dst'[u] = dst[u] /\ zone'[u] = zone[u] /\ old'[u] = old[u]
    BY Others, <1>h
<1>c. /\ pc \in [Threads -> Pcs] /\ dst \in [Threads -> Refs \cup {None}]
      /\ zone \in [Threads -> Zones \cup {None}] /\ old \in [Threads -> Zones \cup {None}]
      /\ ref \in [Refs -> Zones \cup {None}]
    BY DEF TypeInv
<1>d. None \notin Zones
    BY NameAssumption
<1>1. \A r \in Refs : Dropped(r)' <=> Dropped(r)
    <2>1. pc[t] \notin {"last released", "forget"} /\ pc'[t] \notin {"last released", "forget"}
        BY <1>c DEF CountDown
    <2> QED BY <2>1, <1>h, DroppedOthers
<1>2. pc[t] = "count down" /\ old[t] \in Zones
    BY <1>a DEF CountDown, Knows
<1>3. pc'[t] \in {"last", "idle"} /\ ref' = ref /\ zone' = zone /\ old' = old
    BY <1>c DEF CountDown
<1> QED BY <1>1, <1>2, <1>3, <1>a, <1>b, <1>d DEF Holds, Refs

\* Releasing a reference ends its hold.
LEMMA ReleaseHolders ==
    ASSUME NEW t \in Threads, TypeInv, JobInv, LockInv, Release(t)
    PROVE  /\ old[t] \in Zones /\ dst[t] \in Refs /\ Holds("ref", dst[t], old[t])
           /\ \A k \in Kinds, r \in Refs, z \in Zones :
                  Holds(k, r, z)' <=> Holds(k, r, z) /\ ~(z = old[t] /\ k = "ref" /\ r = dst[t])
<1> USE DEF mem, job, Goto, Idle
<1>h. RefStep(t)
    BY DEF RefStep
<1>a. Knows(t) /\ t \in Refs /\ "shared" \in Refs /\ t # "shared"
    BY Known DEF Knows
<1>b. \A u \in Threads : u # t => pc'[u] = pc[u] /\ dst'[u] = dst[u] /\ zone'[u] = zone[u] /\ old'[u] = old[u]
    BY Others, <1>h
<1>c. /\ pc \in [Threads -> Pcs] /\ dst \in [Threads -> Refs \cup {None}]
      /\ zone \in [Threads -> Zones \cup {None}] /\ old \in [Threads -> Zones \cup {None}]
      /\ ref \in [Refs -> Zones \cup {None}]
    BY DEF TypeInv
<1>d. None \notin Zones
    BY NameAssumption
<1>2. pc[t] = "release" /\ old[t] \in Zones /\ dst[t] \in {t,
    "shared"} /\ old[t] = ref[dst[t]] /\ dst[t] \in Refs
    BY <1>a DEF Release, Knows, Releasing, JobInv, ReleaseInv
<1>3. pc'[t] \in {"last released",
    "forget"} /\ ref' = ref /\ zone' = zone /\ old' = old /\ dst' = dst
    BY <1>c DEF Release
<1>4. ~Dropped(dst[t])
    BY <1>2, OneDropper DEF AtShared, Releasing
<1>5. \A r \in Refs : Dropped(r)' <=> Dropped(r) \/ r = dst[t]
    BY <1>2, <1>3, <1>b DEF Dropped
<1> QED BY <1>2, <1>3, <1>4, <1>5, <1>a, <1>b, <1>d DEF Holds, Refs

\* A reference that is set to nothing at last had no hold any more.
LEMMA ForgetHolders ==
    ASSUME NEW t \in Threads, TypeInv, JobInv, LockInv, Forget(t)
    PROVE  \A k \in Kinds, r \in Refs, z \in Zones : Holds(k, r, z)' <=> Holds(k, r, z)
<1> USE DEF mem, job, Goto, Idle
<1>h. RefStep(t)
    BY DEF RefStep
<1>a. Knows(t) /\ t \in Refs /\ "shared" \in Refs /\ t # "shared"
    BY Known DEF Knows
<1>b. \A u \in Threads : u # t => pc'[u] = pc[u] /\ dst'[u] = dst[u] /\ zone'[u] = zone[u] /\ old'[u] = old[u]
    BY Others, <1>h
<1>c. /\ pc \in [Threads -> Pcs] /\ dst \in [Threads -> Refs \cup {None}]
      /\ zone \in [Threads -> Zones \cup {None}] /\ old \in [Threads -> Zones \cup {None}]
      /\ ref \in [Refs -> Zones \cup {None}]
    BY DEF TypeInv
<1>d. None \notin Zones
    BY NameAssumption
<1>2. pc[t] = "forget" /\ dst[t] \in {t, "shared"} /\ dst[t] \in Refs
    BY <1>a DEF Forget, Knows, Releasing
<1>3. pc'[t] = "idle" /\ ref' = [ref EXCEPT ![dst[t]] = None] /\ zone' = zone /\ old' = old /\ dst' = dst
    BY <1>c DEF Forget
<1>4. Dropped(dst[t])
    BY <1>2 DEF Dropped
<1>5. \A r \in Refs : r # dst[t] => (Dropped(r)' <=> Dropped(r))
    BY <1>2, <1>3, <1>b DEF Dropped
<1>6. ASSUME NEW r \in Refs, NEW z \in Zones
      PROVE  Holds("ref", r, z)' <=> Holds("ref", r, z)
    BY <1>2, <1>3, <1>4, <1>5, <1>c, <1>d DEF Holds
<1>7. ASSUME NEW r \in Refs, NEW z \in Zones
      PROVE  (Holds("new", r, z)' <=> Holds("new", r, z)) /\ (Holds("old", r,
      z)' <=> Holds("old", r, z))
    BY <1>2, <1>3, <1>a, <1>b DEF Holds, Refs
<1> QED BY <1>6, <1>7 DEF Kinds

\* n_refs is 0 when nobody holds the zone ...
LEMMA CountedIsHeld ==
    ASSUME CountInv, NEW z \in Zones
    PROVE  n_refs[z] \in Nat /\ (n_refs[z] = 0 <=> Free(z))
BY HeldIsCounted DEF CountInv

\* ... also after a step.
LEMMA CountedIsHeldNext ==
    ASSUME CountInv', NEW z \in Zones
    PROVE  n_refs'[z] = 0 => Free(z)'
<1>1. IsFiniteSet(Hold(z)') /\ n_refs'[z] = Cardinality(Hold(z)')
    BY DEF CountInv
<1>2. ASSUME Hold(z)' = {}, NEW k \in Kinds, NEW r \in Refs
      PROVE  ~Holds(k, r, z)'
    <2>1. <<k, r>> \in Holders
        BY DEF Holders
    <2>2. <<k, r>> \notin Hold(z)'
        BY <1>2
    <2> QED BY <2>1, <2>2 DEF Hold
<1> QED BY <1>1, <1>2, FS_EmptySet DEF Free

\* A zone a thread counts up is held by the reference the thread copies.
LEMMA CountUpCounted ==
    ASSUME NEW t \in Threads, TypeInv, JobInv, LockInv, CountInv, CountUp(t)
    PROVE  n_refs[zone[t]] >= 1
<1>1. Holds("ref", src[t], zone[t]) /\ zone[t] \in Zones
    BY CountUpHolders
<1>2. src[t] \in Refs
    BY Known DEF Knows, Copying, Refs, CountUp
<1>3. ~Free(zone[t])
    BY <1>1, <1>2 DEF Free, Kinds
<1> QED BY <1>1, <1>3, CountedIsHeld

\* Every step changes n_refs as it changes the holders.
LEMMA CountStep ==
    ASSUME NEW t \in Threads, use \in Uses, TypeInv, JobInv, LockInv, CountInv, MemInv, LastInv,
           RefStep(t)
    PROVE  CountInv'
<1> USE DEF mem, job, Goto, Idle
<1> SUFFICES ASSUME NEW z \in Zones PROVE IsFiniteSet(Hold(z)') /\ n_refs'[z] = Cardinality(Hold(z)')
    BY DEF CountInv
<1>a. IsFiniteSet(Hold(z)) /\ n_refs[z] = Cardinality(Hold(z)) /\ n_refs[z] \in Nat
    BY CountedIsHeld DEF CountInv
<1>b. n_refs \in [Zones -> Int]
    BY DEF TypeInv
<1>s. ASSUME n_refs'[z] = n_refs[z], \A k \in Kinds, r \in Refs : Holds(k, r, z)' <=> Holds(k, r, z)
      PROVE  IsFiniteSet(Hold(z)') /\ n_refs'[z] = Cardinality(Hold(z)')
    BY <1>a, <1>s, HoldSame
<1>1. CASE allocate_new_zone(t)
    <2>1. PICK y \in Zones : /\ ~alive[y] /\ ref' = [ref EXCEPT ![t] = y]
                             /\ n_refs' = [n_refs EXCEPT ![y] = 1]
        BY <1>1, RefAssumption DEF allocate_new_zone
    <2>2. \A k \in Kinds, r \in Refs, x \in Zones :
              Holds(k, r, x)' <=> Holds(k, r, x) \/ (x = y /\ k = "ref" /\ r = t)
        BY <1>1, <2>1, AllocateHolders
    <2>3. CASE z # y
        <3>1. n_refs'[z] = n_refs[z]
            BY <2>1, <2>3, <1>b
        <3> QED BY <2>2, <2>3, <3>1, <1>s
    <2>4. CASE z = y
        <3>1. Free(y)
            BY <2>1 DEF MemInv
        <3>2. n_refs[z] = 0 /\ n_refs'[z] = 1
            BY <2>1, <2>4, <3>1, <1>b, CountedIsHeld
        <3>3. "ref" \in Kinds /\ t \in Refs /\ ~Holds("ref", t, z)
            BY <2>4, <3>1 DEF Free, Kinds, Refs
        <3>4. \A k \in Kinds, r \in Refs : Holds(k, r, z)' <=> Holds(k, r, z) \/ (k = "ref" /\ r = t)
            BY <2>2, <2>4
        <3> QED BY <3>2, <3>3, <3>4, <1>a, HoldMore
    <2> QED BY <2>3, <2>4
<1>2. CASE BeginCopy(t, t, "shared")
    BY <1>2, <1>s, SameHolders DEF BeginCopy, Take
<1>3. CASE BeginCopy(t, "shared", t)
    BY <1>3, <1>s, SameHolders DEF BeginCopy, Take
<1>4. CASE BeginRelease(t, t)
    BY <1>4, <1>s, SameHolders DEF BeginRelease, Take
<1>5. CASE BeginRelease(t, "shared")
    BY <1>5, <1>s, SameHolders DEF BeginRelease, Take
<1>6. CASE BeginTrash(t)
    BY <1>6, <1>s, SameHolders DEF BeginTrash, FirstSlot
<1>7. CASE FreeSlot(t)
    BY <1>7, <1>s, SameHolders DEF FreeSlot
<1>8. CASE ClearSlot(t)
    BY <1>8, <1>s, SameHolders DEF ClearSlot
<1>9. CASE EndTrash(t)
    BY <1>9, <1>s, SameHolders DEF EndTrash
<1>10. CASE ReadSource(t)
    BY <1>10, <1>s, SameHolders DEF ReadSource
<1>11. CASE CountUp(t)
    <2>0. /\ Holds("ref", src[t], zone[t]) /\ ~Holds("new", t, zone[t]) /\ zone[t] \in Zones
          /\ n_refs[zone[t]] >= 1 => \A k \in Kinds, r \in Refs, x \in Zones :
                 Holds(k, r, x)' <=> Holds(k, r, x) \/ (x = zone[t] /\ k = "new" /\ r = t)
        BY <1>11, CountUpHolders
    <2>1. n_refs[zone[t]] >= 1
        BY <1>11, <2>0, CountUpCounted
    <2>2. n_refs' = [n_refs EXCEPT ![zone[t]] = n_refs[zone[t]] + 1]
        BY <1>11 DEF CountUp, Counted
    <2>3. CASE z # zone[t]
        <3>1. n_refs'[z] = n_refs[z]
            BY <2>0, <2>2, <2>3, <1>b
        <3> QED BY <2>0, <2>1, <2>3, <3>1, <1>s
    <2>4. CASE z = zone[t]
        <3>1. n_refs'[z] = n_refs[z] + 1
            BY <2>2, <2>4, <1>b
        <3>2. "new" \in Kinds /\ t \in Refs /\ ~Holds("new", t, z)
            BY <2>0, <2>4 DEF Kinds, Refs
        <3>3. \A k \in Kinds, r \in Refs : Holds(k, r, z)' <=> Holds(k, r, z) \/ (k = "new" /\ r = t)
            BY <2>0, <2>1, <2>4
        <3> QED BY <3>1, <3>2, <3>3, <1>a, HoldMore
    <2> QED BY <2>3, <2>4
<1>12. CASE SetRef(t)
    <2>0. /\ Holds("new", t, z) <=> zone[t] = z
          /\ Holds("ref", dst[t], z) <=> old[t] = z
          /\ ~Holds("old", t, z)
          /\ dst[t] \in Refs /\ t \in Refs /\ "ref" \in Kinds /\ "new" \in Kinds /\ "old" \in Kinds
          /\ \A k \in Kinds, r \in Refs : Holds(k, r, z)' <=>
                 \/ Holds(k, r, z) /\ ~(k = "new" /\ r = t) /\ ~(k = "ref" /\ r = dst[t])
                 \/ k = "ref" /\ r = dst[t] /\ z = zone[t]
                 \/ k = "old" /\ r = t /\ z = old[t]
        BY <1>12, SetRefHolders DEF Kinds, Refs
    <2>1. n_refs'[z] = n_refs[z]
        BY <1>12 DEF SetRef
    <2>2. CASE z # zone[t] /\ z # old[t]
        BY <2>0, <2>1, <2>2, <1>s
    <2>3. CASE z = zone[t] /\ z # old[t]
        <3>1. \A k \in Kinds, r \in Refs :
                  Holds(k, r, z)' <=> (Holds(k, r,
                  z) /\ ~(k = "new" /\ r = t)) \/ (k = "ref" /\ r = dst[t])
            BY <2>0, <2>3
        <3> QED BY <2>0, <2>1, <2>3, <3>1, <1>a, HoldSwap
    <2>4. CASE z # zone[t] /\ z = old[t]
        <3>1. \A k \in Kinds, r \in Refs :
                  Holds(k, r, z)' <=> (Holds(k, r,
                  z) /\ ~(k = "ref" /\ r = dst[t])) \/ (k = "old" /\ r = t)
            BY <2>0, <2>4
        <3> QED BY <2>0, <2>1, <2>4, <3>1, <1>a, HoldSwap
    <2>5. CASE z = zone[t] /\ z = old[t]
        <3>1. \A k \in Kinds, r \in Refs :
                  Holds(k, r, z)' <=> (Holds(k, r,
                  z) /\ ~(k = "new" /\ r = t)) \/ (k = "old" /\ r = t)
            BY <2>0, <2>5
        <3> QED BY <2>0, <2>1, <2>5, <3>1, <1>a, HoldSwap
    <2> QED BY <2>2, <2>3, <2>4, <2>5
<1>13. CASE CountDown(t)
    <2>0. /\ old[t] \in Zones /\ t \in Refs /\ "old" \in Kinds /\ Holds("old", t, old[t])
          /\ \A k \in Kinds, r \in Refs, x \in Zones :
                 Holds(k, r, x)' <=> Holds(k, r, x) /\ ~(x = old[t] /\ k = "old" /\ r = t)
        BY <1>13, CountDownHolders DEF Kinds, Refs
    <2>1. n_refs' = [n_refs EXCEPT ![old[t]] = n_refs[old[t]] - 1]
        BY <1>13 DEF CountDown
    <2>2. CASE z # old[t]
        <3>1. n_refs'[z] = n_refs[z]
            BY <2>0, <2>1, <2>2, <1>b
        <3> QED BY <2>0, <2>2, <3>1, <1>s
    <2>3. CASE z = old[t]
        <3>1. n_refs'[z] = n_refs[z] - 1
            BY <2>1, <2>3, <1>b
        <3>2. \A k \in Kinds, r \in Refs : Holds(k, r, z)' <=> Holds(k, r, z) /\ ~(k = "old" /\ r = t)
            BY <2>0, <2>3
        <3> QED BY <2>0, <2>3, <3>1, <3>2, <1>a, HoldLess
    <2> QED BY <2>2, <2>3
<1>14. CASE Last(t)
    <2>1. old[t] \in Zones
        BY <1>14, Known DEF Knows, Releasing, Last
    <2>2. n_refs[old[t]] = 0
        BY <1>14, <2>1, CountedIsHeld DEF LastInv, Lasts, Last
    <2>3. n_refs' = n_refs \/ n_refs' = [n_refs EXCEPT ![old[t]] = 0]
        BY <1>14 DEF free_zone, Last
    <2>4. n_refs'[z] = n_refs[z]
        BY <2>1, <2>2, <2>3, <1>b
    <2> QED BY <1>14, <2>4, <1>s, SameHolders
<1>15. CASE Release(t)
    <2>0. /\ old[t] \in Zones /\ dst[t] \in Refs /\ "ref" \in Kinds /\ Holds("ref", dst[t], old[t])
          /\ \A k \in Kinds, r \in Refs, x \in Zones :
                 Holds(k, r, x)' <=> Holds(k, r, x) /\ ~(x = old[t] /\ k = "ref" /\ r = dst[t])
        BY <1>15, ReleaseHolders DEF Kinds, Refs
    <2>1. n_refs' = [n_refs EXCEPT ![old[t]] = n_refs[old[t]] - 1]
        BY <1>15 DEF Release
    <2>2. CASE z # old[t]
        <3>1. n_refs'[z] = n_refs[z]
            BY <2>0, <2>1, <2>2, <1>b
        <3> QED BY <2>0, <2>2, <3>1, <1>s
    <2>3. CASE z = old[t]
        <3>1. n_refs'[z] = n_refs[z] - 1
            BY <2>1, <2>3, <1>b
        <3>2. \A k \in Kinds, r \in Refs : Holds(k, r, z)' <=> Holds(k, r, z) /\ ~(k = "ref" /\ r = dst[t])
            BY <2>0, <2>3
        <3> QED BY <2>0, <2>3, <3>1, <3>2, <1>a, HoldLess
    <2> QED BY <2>2, <2>3
<1>16. CASE LastReleased(t)
    <2>1. old[t] \in Zones
        BY <1>16, Known DEF Knows, Releasing, LastReleased
    <2>2. n_refs[old[t]] = 0
        BY <1>16, <2>1, CountedIsHeld DEF LastInv, Lasts, LastReleased
    <2>3. n_refs' = n_refs \/ n_refs' = [n_refs EXCEPT ![old[t]] = 0]
        BY <1>16 DEF free_zone, LastReleased
    <2>4. n_refs'[z] = n_refs[z]
        BY <2>1, <2>2, <2>3, <1>b
    <2> QED BY <1>16, <2>4, <1>s, SameHolders
<1>17. CASE Forget(t)
    BY <1>17, <1>s, ForgetHolders DEF Forget
<1> QED BY <1>1, <1>2, <1>3, <1>4, <1>5, <1>6, <1>7, <1>8, <1>9, <1>10, <1>11, <1>12, <1>13,
    <1>14, <1>15, <1>16, <1>17 DEF RefStep

\* A zone that nobody holds is held again only when its record is allocated.
LEMMA FreeKept ==
    ASSUME NEW t \in Threads, use \in Uses, TypeInv, JobInv, LockInv, CountInv, NEW z \in Zones,
           Free(z), RefStep(t)
    PROVE  Free(z)' \/ (~alive[z] /\ alive'[z] /\ allocate_new_zone(t))
<1> USE DEF mem, job, Goto, Idle
<1>s. ASSUME \A k \in Kinds, r \in Refs : Holds(k, r, z)' <=> Holds(k, r, z)
      PROVE  Free(z)'
    BY <1>s DEF Free
<1>f. \A k \in Kinds, r \in Refs : ~Holds(k, r, z)
    BY DEF Free
<1>1. CASE allocate_new_zone(t)
    <2>1. PICK y \in Zones : /\ ~alive[y] /\ ref' = [ref EXCEPT ![t] = y]
                             /\ alive' = [alive EXCEPT ![y] = TRUE]
        BY <1>1, RefAssumption DEF allocate_new_zone
    <2>2. \A k \in Kinds, r \in Refs, x \in Zones :
              Holds(k, r, x)' <=> Holds(k, r, x) \/ (x = y /\ k = "ref" /\ r = t)
        BY <1>1, <2>1, AllocateHolders
    <2>3. CASE z # y
        BY <2>2, <2>3, <1>s
    <2>4. CASE z = y
        BY <1>1, <2>1, <2>4 DEF TypeInv
    <2> QED BY <2>3, <2>4
<1>2. CASE BeginCopy(t, t, "shared")
    BY <1>2, <1>s, SameHolders
<1>3. CASE BeginCopy(t, "shared", t)
    BY <1>3, <1>s, SameHolders
<1>4. CASE BeginRelease(t, t)
    BY <1>4, <1>s, SameHolders
<1>5. CASE BeginRelease(t, "shared")
    BY <1>5, <1>s, SameHolders
<1>6. CASE BeginTrash(t)
    BY <1>6, <1>s, SameHolders
<1>7. CASE FreeSlot(t)
    BY <1>7, <1>s, SameHolders
<1>8. CASE ClearSlot(t)
    BY <1>8, <1>s, SameHolders
<1>9. CASE EndTrash(t)
    BY <1>9, <1>s, SameHolders
<1>10. CASE ReadSource(t)
    BY <1>10, <1>s, SameHolders
<1>11. CASE CountUp(t)
    <2>1. src[t] \in Refs
        BY <1>11, Known DEF Knows, Copying, Refs, CountUp
    <2>2. z # zone[t]
        BY <1>11, <2>1, <1>f, CountUpHolders DEF Kinds
    <2>3. n_refs[zone[t]] >= 1
        BY <1>11, CountUpCounted
    <2> QED BY <1>11, <2>2, <2>3, <1>s, CountUpHolders
<1>12. CASE SetRef(t)
    <2>1. dst[t] \in Refs /\ t \in Refs
        BY <1>12, SetRefHolders DEF Refs
    <2>2. z # zone[t] /\ z # old[t]
        BY <1>12, <2>1, <1>f, SetRefHolders DEF Kinds
    <2> QED BY <1>12, <2>2, <1>f, SetRefHolders DEF Free
<1>13. CASE CountDown(t)
    BY <1>13, <1>f, CountDownHolders DEF Free
<1>14. CASE Last(t)
    BY <1>14, <1>s, SameHolders
<1>15. CASE Release(t)
    BY <1>15, <1>f, ReleaseHolders DEF Free
<1>16. CASE LastReleased(t)
    BY <1>16, <1>s, SameHolders
<1>17. CASE Forget(t)
    BY <1>17, <1>s, ForgetHolders
<1> QED BY <1>1, <1>2, <1>3, <1>4, <1>5, <1>6, <1>7, <1>8, <1>9, <1>10, <1>11, <1>12, <1>13,
    <1>14, <1>15, <1>16, <1>17 DEF RefStep

\* Memory that is in no trash is given back, or put into one, by the thread only
\* that has dropped its last reference.
LEMMA MemoryIsKept ==
    ASSUME NEW t \in Threads, TypeInv, JobInv, NEW z \in Zones, alive[z], NotTrashed(z),
           ~(pc[t] \in Lasts /\ old[t] = z), RefStep(t)
    PROVE  alive'[z] /\ NotTrashed(z)'
<1> USE DEF mem, job, Goto, Idle
<1>a. alive \in [Zones -> BOOLEAN] /\ trash \in [Threads -> [1 .. TrashSize -> Zones \cup {None}]]
    BY DEF TypeInv
<1>b. Owner \in [Zones -> Threads] /\ TrashSize \in Nat /\ None # z
    BY RefAssumption, NameAssumption
<1>c. SlotInv(t) /\ Knows(t)
    BY Known DEF JobInv
<1>1. CASE allocate_new_zone(t)
    <2>1. PICK y : alive' = [alive EXCEPT ![y] = TRUE] /\ trash' = trash
        BY <1>1 DEF allocate_new_zone
    <2> QED BY <2>1, <1>a DEF NotTrashed
<1>2. CASE BeginCopy(t, t, "shared")
    BY <1>2, <1>a DEF NotTrashed, BeginCopy, Take
<1>3. CASE BeginCopy(t, "shared", t)
    BY <1>3, <1>a DEF NotTrashed, BeginCopy, Take
<1>4. CASE BeginRelease(t, t)
    BY <1>4, <1>a DEF NotTrashed, BeginRelease, Take
<1>5. CASE BeginRelease(t, "shared")
    BY <1>5, <1>a DEF NotTrashed, BeginRelease, Take
<1>6. CASE BeginTrash(t)
    BY <1>6, <1>a DEF NotTrashed, BeginTrash, FirstSlot
<1>7. CASE FreeSlot(t)
    <2>1. slot[t] \in 1 .. TrashSize
        <3>1. slot[t] >= 1 /\ slot[t] <= TrashSize /\ slot[t] \in 0 .. TrashSize + 1
            BY <1>7, <1>c DEF SlotInv, FreeSlot, TypeInv
        <3> QED BY <3>1, <1>b
    <2>2. trash[t][slot[t]] # z
        BY <2>1 DEF NotTrashed
    <2>3. trash' = trash /\ (alive' = alive \/ alive' = [alive EXCEPT ![trash[t][slot[t]]] = FALSE])
        BY <1>7 DEF FreeSlot
    <2> QED BY <2>2, <2>3, <1>a DEF NotTrashed
<1>8. CASE ClearSlot(t)
    <2>1. trash' = [trash EXCEPT ![t][slot[t]] = None] /\ alive' = alive
        BY <1>8 DEF ClearSlot
    <2>2. \A u \in Threads, i \in 1 .. TrashSize : trash'[u][i] \in {trash[u][i], None}
        BY <2>1, <1>a
    <2> QED BY <2>1, <2>2, <1>b DEF NotTrashed
<1>9. CASE EndTrash(t)
    BY <1>9, <1>a DEF NotTrashed, EndTrash
<1>10. CASE ReadSource(t)
    BY <1>10, <1>a DEF NotTrashed, ReadSource
<1>11. CASE CountUp(t)
    BY <1>11, <1>a DEF NotTrashed, CountUp, Counted
<1>12. CASE SetRef(t)
    BY <1>12, <1>a DEF NotTrashed, SetRef, Leave
<1>13. CASE CountDown(t)
    BY <1>13, <1>a DEF NotTrashed, CountDown, Leave
<1>14. CASE Last(t)
    <2>1. z # old[t] /\ old[t] \in Zones
        BY <1>14, <1>c DEF Lasts, Knows, Releasing, Last
    <2>2. CASE UNCHANGED <<alive, trash>>
        BY <2>2 DEF NotTrashed
    <2>3. CASE alive' = [alive EXCEPT ![old[t]] = FALSE] /\ trash' = trash
        BY <2>1, <2>3, <1>a DEF NotTrashed
    <2>4. CASE Trash(old[t]) /\ alive' = alive
        <3>1. CASE \E i \in 1 .. TrashSize : trash' = [trash EXCEPT ![Owner[old[t]]][i] = old[t]]
            <4>1. \A u \in Threads, i \in 1 .. TrashSize : trash'[u][i] \in {trash[u][i], old[t]}
                BY <2>1, <3>1, <1>a
            <4> QED BY <2>1, <2>4, <4>1 DEF NotTrashed
        <3> QED BY <2>2, <2>4, <3>1 DEF Trash, SlotsFor
    <2> QED BY <1>14, <2>2, <2>3, <2>4 DEF Last, free_zone
<1>15. CASE Release(t)
    BY <1>15, <1>a DEF NotTrashed, Release, WasLast
<1>16. CASE LastReleased(t)
    <2>1. z # old[t] /\ old[t] \in Zones
        BY <1>16, <1>c DEF Lasts, Knows, Releasing, LastReleased
    <2>2. CASE UNCHANGED <<alive, trash>>
        BY <2>2 DEF NotTrashed
    <2>3. CASE alive' = [alive EXCEPT ![old[t]] = FALSE] /\ trash' = trash
        BY <2>1, <2>3, <1>a DEF NotTrashed
    <2>4. CASE Trash(old[t]) /\ alive' = alive
        <3>1. CASE \E i \in 1 .. TrashSize : trash' = [trash EXCEPT ![Owner[old[t]]][i] = old[t]]
            <4>1. \A u \in Threads, i \in 1 .. TrashSize : trash'[u][i] \in {trash[u][i], old[t]}
                BY <2>1, <3>1, <1>a
            <4> QED BY <2>1, <2>4, <4>1 DEF NotTrashed
        <3> QED BY <2>2, <2>4, <3>1 DEF Trash, SlotsFor
    <2> QED BY <1>16, <2>2, <2>3, <2>4 DEF LastReleased, free_zone, StillLast
<1>17. CASE Forget(t)
    BY <1>17, <1>a DEF NotTrashed, Forget, Leave
<1> QED BY <1>1, <1>2, <1>3, <1>4, <1>5, <1>6, <1>7, <1>8, <1>9, <1>10, <1>11, <1>12, <1>13,
    <1>14, <1>15, <1>16, <1>17 DEF RefStep

\* What is held stays in memory, and out of the trash.
LEMMA MemStep ==
    ASSUME NEW t \in Threads, use \in Uses, TypeInv, JobInv, LockInv, CountInv, MemInv, LastInv,
           TrashInv, RefStep(t)
    PROVE  MemInv'
<1> SUFFICES ASSUME NEW z \in Zones, ~Free(z)' PROVE alive'[z] /\ NotTrashed(z)'
    BY DEF MemInv
<1>1. CASE ~Free(z)
    <2>1. alive[z] /\ NotTrashed(z)
        BY <1>1 DEF MemInv
    <2>2. ~(pc[t] \in Lasts /\ old[t] = z)
        BY <1>1 DEF LastInv
    <2> QED BY <2>1, <2>2, MemoryIsKept
<1>2. CASE Free(z)
    <2>1. ~alive[z] /\ alive'[z] /\ allocate_new_zone(t)
        BY <1>2, FreeKept
    <2>2. pc[t] = "idle" /\ trash' = trash /\ Owner[z] = t
        <3>1. PICK y \in Zones : Owner[y] = t /\ alive' = [alive EXCEPT ![y] = TRUE]
            BY <2>1, RefAssumption DEF allocate_new_zone
        <3>2. z = y
            BY <2>1, <3>1 DEF TypeInv
        <3> QED BY <2>1, <3>1, <3>2 DEF allocate_new_zone, Idle
    <2>3. NotTrashed(z)
        <3>1. None # z
            BY NameAssumption
        <3>2. ASSUME NEW u \in Threads, NEW i \in 1 .. TrashSize, trash[u][i] = z
              PROVE  FALSE
            <4>1. Owner[z] = u /\ (alive[z] \/ pc[u] = "clear slot")
                BY <3>1, <3>2 DEF TrashInv
            <4> QED BY <2>1, <2>2, <4>1
        <3> QED BY <3>2 DEF NotTrashed
    <2> QED BY <2>1, <2>2, <2>3 DEF NotTrashed
<1> QED BY <1>1, <1>2

\* A thread is the last to know a zone after it has counted it down, and held it
\* before.
LEMMA DropStep ==
    ASSUME NEW t \in Threads, TypeInv, JobInv, LockInv, RefStep(t), pc'[t] \in Lasts
    PROVE  /\ CountDown(t) \/ Release(t)
           /\ old' = old /\ old[t] \in Zones /\ ~Free(old[t])
<1> USE DEF mem, job, Goto, Idle
<1>1. pc \in [Threads -> Pcs]
    BY DEF TypeInv
<1>2. CountDown(t) \/ Release(t)
    <2>1. CASE allocate_new_zone(t)
        BY <1>1, <2>1 DEF Lasts, Crashed, allocate_new_zone
    <2>2. CASE BeginCopy(t, t, "shared")
        BY <1>1, <2>2 DEF Lasts, Crashed, BeginCopy, Take
    <2>3. CASE BeginCopy(t, "shared", t)
        BY <1>1, <2>3 DEF Lasts, Crashed, BeginCopy, Take
    <2>4. CASE BeginRelease(t, t)
        BY <1>1, <2>4 DEF Lasts, Crashed, BeginRelease, Take
    <2>5. CASE BeginRelease(t, "shared")
        BY <1>1, <2>5 DEF Lasts, Crashed, BeginRelease, Take
    <2>6. CASE BeginTrash(t)
        BY <1>1, <2>6 DEF Lasts, Crashed, BeginTrash, FirstSlot
    <2>7. CASE FreeSlot(t)
        BY <1>1, <2>7 DEF Lasts, Crashed, FreeSlot
    <2>8. CASE ClearSlot(t)
        BY <1>1, <2>8 DEF Lasts, Crashed, ClearSlot
    <2>9. CASE EndTrash(t)
        BY <1>1, <2>9 DEF Lasts, Crashed, EndTrash
    <2>10. CASE ReadSource(t)
        BY <1>1, <2>10 DEF Lasts, Crashed, ReadSource
    <2>11. CASE CountUp(t)
        BY <1>1, <2>11 DEF Lasts, Crashed, CountUp, Counted
    <2>12. CASE SetRef(t)
        BY <1>1, <2>12 DEF Lasts, Crashed, SetRef, Leave
    <2>14. CASE Last(t)
        BY <1>1, <2>14 DEF Lasts, Crashed, Last, free_zone, IsOwn, Trash, SlotsFor, Leave
    <2>16. CASE LastReleased(t)
        BY <1>1, <2>16 DEF Lasts, Crashed, LastReleased, free_zone, IsOwn, Trash,
            SlotsFor, StillLast
    <2>17. CASE Forget(t)
        BY <1>1, <2>17 DEF Lasts, Crashed, Forget, Leave
    <2> QED BY <2>1, <2>2, <2>3, <2>4, <2>5, <2>6, <2>7, <2>8, <2>9, <2>10, <2>11, <2>12,
        <2>14, <2>16, <2>17 DEF RefStep
<1>3. old' = old
    BY <1>2 DEF CountDown, Release
<1>4. old[t] \in Zones
    BY <1>2, Known DEF Knows, Releasing, CountDown, Release
<1>5. ~Free(old[t])
    <2>1. PICK z \in Zones : z = old[t]
        BY <1>4
    <2>2. ~Free(z)
        BY <1>2, <2>1, CountDownHolders, ReleaseHolders DEF Free, Kinds, Refs
    <2> QED BY <2>1, <2>2
<1> QED BY <1>2, <1>3, <1>4, <1>5

\* Who has dropped the last reference stays the only one that knows the zone.
LEMMA LastStep ==
    ASSUME NEW t \in Threads, use \in Uses, TypeInv, JobInv, LockInv, CountInv, MemInv, LastInv,
           CountInv', RefStep(t)
    PROVE  LastInv'
<1> USE DEF mem, job, Goto, Idle
<1>1. ASSUME NEW u \in Threads, u # t, pc'[u] \in Lasts
      PROVE  (alive[old[u]] /\ NotTrashed(old[u]) /\ Free(old[u]))' /\ old'[u] = old[u] /\ pc[u] \in Lasts
    <2>1. pc'[u] = pc[u] /\ old'[u] = old[u]
        BY Others, <1>1
    <2>2. PICK z \in Zones : z = old[u]
        BY <1>1, <2>1, Known DEF Knows, Lasts, Releasing
    <2>3. alive[z] /\ NotTrashed(z) /\ Free(z)
        BY <1>1, <2>1, <2>2 DEF LastInv
    <2>4. ~(pc[t] \in Lasts /\ old[t] = z)
        BY <1>1, <2>1, <2>2 DEF LastInv
    <2>5. alive'[z] /\ NotTrashed(z)'
        BY <2>3, <2>4, MemoryIsKept
    <2>6. Free(z)'
        BY <2>3, FreeKept
    <2>7. (old[u])' = z
        BY <2>1, <2>2
    <2> QED BY <1>1, <2>1, <2>5, <2>6, <2>7
<1>2. ASSUME pc'[t] \in Lasts
      PROVE  /\ (alive[old[t]] /\ NotTrashed(old[t]) /\ Free(old[t]))'
             /\ old'[t] \in Zones /\ ~Free(old'[t])
    <2>1. pc \in [Threads -> Pcs] /\ n_refs \in [Zones -> Int]
        BY DEF TypeInv
    <2>2. CountDown(t) \/ Release(t)
        BY <1>2, DropStep
    <2>3. /\ old' = old /\ pc[t] \notin Lasts
          /\ n_refs' = [n_refs EXCEPT ![old[t]] = n_refs[old[t]] - 1]
        BY <2>2 DEF CountDown, Release, Lasts
    <2>4. PICK z \in Zones : z = old[t] /\ ~Free(z)
        BY <1>2, DropStep
    <2>5. ~Free(z)
        BY <2>4
    <2>6. alive[z] /\ NotTrashed(z)
        BY <2>5 DEF MemInv
    <2>7. alive'[z] /\ NotTrashed(z)'
        BY <2>3, <2>6, MemoryIsKept
    <2>8. n_refs[z] = 1 \/ n_refs[z] <= 1
        BY <1>2, <2>1, <2>2, <2>4 DEF CountDown, Release, WasLast, Lasts
    <2>9. n_refs[z] = 1
        BY <2>5, <2>8, CountedIsHeld
    <2>10. n_refs'[z] = 0
        BY <2>1, <2>3, <2>4, <2>9
    <2>11. Free(z)'
        BY <2>10, CountedIsHeldNext
    <2>12. (old[t])' = z
        BY <2>3, <2>4
    <2> QED BY <2>5, <2>7, <2>11, <2>12
<1>3. ASSUME NEW u \in Threads, NEW v \in Threads, u # v, pc'[u] \in Lasts, pc'[v] \in Lasts
      PROVE  old'[u] # old'[v]
    <2>1. CASE u # t /\ v # t
        BY <1>1, <1>3, <2>1 DEF LastInv
    <2>2. CASE u = t
        BY <1>1, <1>2, <1>3, <2>2 DEF LastInv
    <2>3. CASE v = t
        BY <1>1, <1>2, <1>3, <2>3 DEF LastInv
    <2> QED BY <2>1, <2>2, <2>3
<1> QED BY <1>1, <1>2, <1>3 DEF LastInv

\* A zone is put into the trash of its owner once, and leaves it before it is given back twice.
LEMMA TrashStep ==
    ASSUME NEW t \in Threads, TypeInv, JobInv, LastInv, TrashInv, RefStep(t)
    PROVE  TrashInv'
<1> USE DEF mem, job, Goto, Idle
<1> SUFFICES ASSUME NEW u \in Threads, NEW i \in 1 .. TrashSize, trash'[u][i] # None
             PROVE  /\ Owner[trash'[u][i]] = u
                    /\ alive'[trash'[u][i]] \/ (pc'[u] = "clear slot" /\ slot'[u] = i)
                    /\ \A j \in 1 .. TrashSize : j # i => trash'[u][j] # trash'[u][i]
    BY DEF TrashInv
<1>a. /\ alive \in [Zones -> BOOLEAN] /\ trash \in [Threads -> [1 .. TrashSize -> Zones \cup {None}]]
      /\ pc \in [Threads -> Pcs] /\ slot \in [Threads -> 0 .. TrashSize + 1]
    BY DEF TypeInv
<1>e. trash[u][i] \in Zones \cup {None}
    BY <1>a
<1>b. trash[u][i] # None =>
          /\ Owner[trash[u][i]] = u
          /\ alive[trash[u][i]] \/ (pc[u] = "clear slot" /\ slot[u] = i)
          /\ \A j \in 1 .. TrashSize : j # i => trash[u][j] # trash[u][i]
    BY DEF TrashInv
<1>c. u # t => pc'[u] = pc[u] /\ slot'[u] = slot[u]
    BY Others
<1>s. ASSUME trash' = trash, pc[t] # "clear slot", trash[u][i] # None,
             alive'[trash[u][i]] = alive[trash[u][i]]
      PROVE  /\ Owner[trash'[u][i]] = u
             /\ alive'[trash'[u][i]] \/ (pc'[u] = "clear slot" /\ slot'[u] = i)
             /\ \A j \in 1 .. TrashSize : j # i => trash'[u][j] # trash'[u][i]
    BY <1>b, <1>c, <1>s
<1>d. SlotInv(t) /\ Knows(t) /\ TrashSize \in Nat /\ Owner \in [Zones -> Threads] /\ None \notin Zones
    BY Known, RefAssumption, NameAssumption DEF JobInv
<1>1. CASE allocate_new_zone(t)
    <2>1. PICK y : alive' = [alive EXCEPT ![y] = TRUE] /\ trash' = trash /\ pc' = pc /\ slot' = slot
        BY <1>1 DEF allocate_new_zone
    <2>2. trash[u][i] \in Zones
        BY <2>1, <1>e
    <2> QED BY <2>1, <2>2, <1>a, <1>b
<1>2. CASE BeginCopy(t, t, "shared")
    BY <1>2, <1>s DEF BeginCopy, Take
<1>3. CASE BeginCopy(t, "shared", t)
    BY <1>3, <1>s DEF BeginCopy, Take
<1>4. CASE BeginRelease(t, t)
    BY <1>4, <1>s DEF BeginRelease, Take
<1>5. CASE BeginRelease(t, "shared")
    BY <1>5, <1>s DEF BeginRelease, Take
<1>6. CASE BeginTrash(t)
    BY <1>6, <1>s DEF BeginTrash, FirstSlot
<1>7. CASE FreeSlot(t)
    <2>0. pc[t] = "trash" /\ trash' = trash
        BY <1>7 DEF FreeSlot
    <2>1. CASE alive' = alive
        BY <2>0, <2>1, <1>s
    <2>2. CASE /\ alive' = [alive EXCEPT ![trash[t][slot[t]]] = FALSE]
               /\ pc'[t] = "clear slot" /\ slot' = slot /\ trash[t][slot[t]] # None
        <3>1. slot[t] \in 1 .. TrashSize
            <4>1. slot[t] >= 1 /\ slot[t] <= TrashSize /\ slot[t] \in 0 .. TrashSize + 1
                BY <1>7, <1>a, <1>d DEF SlotInv, FreeSlot
            <4> QED BY <4>1, <1>d
        <3>2. CASE trash[u][i] # trash[t][slot[t]]
            <4>1. alive'[trash[u][i]] = alive[trash[u][i]]
                <5>1. trash[u][i] \in Zones
                    BY <2>0, <1>e
                <5> QED BY <2>2, <3>2, <5>1, <1>a
            <4> QED BY <2>0, <3>2, <4>1, <1>s
        <3>3. CASE trash[u][i] = trash[t][slot[t]]
            <4>1. Owner[trash[t][slot[t]]] = t
                BY <2>2, <3>1 DEF TrashInv
            <4>2. u = t /\ i = slot[t]
                BY <2>0, <3>1, <3>3, <4>1, <1>b
            <4> QED BY <2>0, <2>2, <4>2, <1>b
        <3> QED BY <3>2, <3>3
    <2> QED BY <1>7, <2>1, <2>2, <1>a DEF FreeSlot
<1>8. CASE ClearSlot(t)
    <2>1. /\ trash' = [trash EXCEPT ![t][slot[t]] = None] /\ alive' = alive
          /\ pc[t] = "clear slot" /\ slot[t] \in 1 .. TrashSize
        BY <1>8, <1>d DEF SlotInv, ClearSlot
    <2>2. ~(u = t /\ i = slot[t])
        BY <2>1, <1>a
    <2>3. trash'[u][i] = trash[u][i] /\ \A j \in 1 .. TrashSize : trash'[u][j] \in {trash[u][j],
        None}
        BY <2>1, <2>2, <1>a
    <2>4. alive[trash[u][i]] \/ (pc'[u] = "clear slot" /\ slot'[u] = i)
        <3>1. trash[u][i] # None
            BY <2>3
        <3> QED BY <2>1, <2>2, <3>1, <1>b, <1>c
    <2> QED BY <2>1, <2>3, <2>4, <1>b
<1>9. CASE EndTrash(t)
    BY <1>9, <1>s DEF EndTrash
<1>10. CASE ReadSource(t)
    BY <1>10, <1>s DEF ReadSource
<1>11. CASE CountUp(t)
    BY <1>11, <1>s DEF CountUp, Counted
<1>12. CASE SetRef(t)
    BY <1>12, <1>s DEF SetRef, Leave
<1>13. CASE CountDown(t)
    BY <1>13, <1>s DEF CountDown, Leave
<1>14. CASE Last(t)
    <2>1. /\ old[t] \in Zones /\ alive[old[t]] /\ NotTrashed(old[t]) /\ pc[t] # "clear slot"
        BY <1>14, <1>d DEF Lasts, Knows, Releasing, LastInv, Last
    <2>2. CASE UNCHANGED <<alive, trash>>
        BY <2>1, <2>2, <1>s
    <2>3. CASE alive' = [alive EXCEPT ![old[t]] = FALSE] /\ trash' = trash
        <3>1. trash[u][i] # old[t] /\ trash[u][i] \in Zones
            BY <2>1, <2>3, <1>e DEF NotTrashed
        <3> QED BY <2>1, <2>3, <3>1, <1>a, <1>s
    <2>4. CASE Trash(old[t]) /\ alive' = alive
        <3>1. CASE \E j \in 1 .. TrashSize : trash[Owner[old[t]]][j] \in {None, old[t]}
                       /\ trash' = [trash EXCEPT ![Owner[old[t]]][j] = old[t]]
            <4>1. PICK j \in 1 .. TrashSize : trash' = [trash EXCEPT ![Owner[old[t]]][j] = old[t]]
                BY <3>1
            <4>2. Owner[old[t]] \in Threads
                BY <2>1, <1>d
            <4>3. CASE u = Owner[old[t]] /\ i = j
                <5>1. trash'[u][i] = old[t] /\ \A k \in 1 .. TrashSize : k # i => trash'[u][k] = trash[u][k]
                    BY <4>1, <4>2, <4>3, <1>a
                <5> QED BY <2>1, <2>4, <4>3, <5>1 DEF NotTrashed
            <4>4. CASE ~(u = Owner[old[t]] /\ i = j)
                <5>1. trash'[u][i] = trash[u][i] /\ \A k \in 1 .. TrashSize : trash'[u][k] \in {trash[u][k], old[t]}
                    BY <4>1, <4>2, <4>4, <1>a
                <5>2. trash[u][i] # old[t]
                    BY <2>1 DEF NotTrashed
                <5>3. alive[trash[u][i]] \/ (pc'[u] = "clear slot" /\ slot'[u] = i)
                    BY <2>1, <5>1, <1>b, <1>c
                <5> QED BY <2>4, <5>1, <5>2, <5>3, <1>b
            <4> QED BY <4>3, <4>4
        <3> QED BY <2>2, <2>4, <3>1 DEF Trash, SlotsFor
    <2> QED BY <1>14, <2>2, <2>3, <2>4 DEF Last, free_zone
<1>15. CASE Release(t)
    BY <1>15, <1>s DEF Release, WasLast
<1>16. CASE LastReleased(t)
    <2>1. /\ old[t] \in Zones /\ alive[old[t]] /\ NotTrashed(old[t]) /\ pc[t] # "clear slot"
        BY <1>16, <1>d DEF Lasts, Knows, Releasing, LastInv, LastReleased
    <2>2. CASE UNCHANGED <<alive, trash>>
        BY <2>1, <2>2, <1>s
    <2>3. CASE alive' = [alive EXCEPT ![old[t]] = FALSE] /\ trash' = trash
        <3>1. trash[u][i] # old[t] /\ trash[u][i] \in Zones
            BY <2>1, <2>3, <1>e DEF NotTrashed
        <3> QED BY <2>1, <2>3, <3>1, <1>a, <1>s
    <2>4. CASE Trash(old[t]) /\ alive' = alive
        <3>1. CASE \E j \in 1 .. TrashSize : trash[Owner[old[t]]][j] \in {None, old[t]}
                       /\ trash' = [trash EXCEPT ![Owner[old[t]]][j] = old[t]]
            <4>1. PICK j \in 1 .. TrashSize : trash' = [trash EXCEPT ![Owner[old[t]]][j] = old[t]]
                BY <3>1
            <4>2. Owner[old[t]] \in Threads
                BY <2>1, <1>d
            <4>3. CASE u = Owner[old[t]] /\ i = j
                <5>1. trash'[u][i] = old[t] /\ \A k \in 1 .. TrashSize : k # i => trash'[u][k] = trash[u][k]
                    BY <4>1, <4>2, <4>3, <1>a
                <5> QED BY <2>1, <2>4, <4>3, <5>1 DEF NotTrashed
            <4>4. CASE ~(u = Owner[old[t]] /\ i = j)
                <5>1. trash'[u][i] = trash[u][i] /\ \A k \in 1 .. TrashSize : trash'[u][k] \in {trash[u][k], old[t]}
                    BY <4>1, <4>2, <4>4, <1>a
                <5>2. trash[u][i] # old[t]
                    BY <2>1 DEF NotTrashed
                <5>3. alive[trash[u][i]] \/ (pc'[u] = "clear slot" /\ slot'[u] = i)
                    BY <2>1, <5>1, <1>b, <1>c
                <5> QED BY <2>4, <5>1, <5>2, <5>3, <1>b
            <4> QED BY <4>3, <4>4
        <3> QED BY <2>2, <2>4, <3>1 DEF Trash, SlotsFor
    <2> QED BY <1>16, <2>2, <2>3, <2>4 DEF LastReleased, free_zone, StillLast
<1>17. CASE Forget(t)
    BY <1>17, <1>s DEF Forget, Leave
<1> QED BY <1>1, <1>2, <1>3, <1>4, <1>5, <1>6, <1>7, <1>8, <1>9, <1>10, <1>11, <1>12, <1>13,
    <1>14, <1>15, <1>16, <1>17 DEF RefStep

\* Nothing is allocated, held or in a trash at first.
LEMMA InitInv ==
    ASSUME Init
    PROVE  SafeInv
<1> USE DEF Init
<1>1. TypeInv
    BY RefAssumption DEF TypeInv, Pcs, Refs
<1>2. LockInv /\ JobInv
    BY DEF LockInv, AtShared, Copying, Releasing, JobInv, CopyInv, ReleaseInv, SlotInv
<1>3. \A k \in Kinds, r \in Refs, z \in Zones : ~Holds(k, r, z)
    BY NameAssumption DEF Holds, Kinds, Refs
<1>4. \A z \in Zones : Free(z) /\ n_refs[z] = 0
    BY <1>3 DEF Free
<1>5. ASSUME NEW z \in Zones
      PROVE  IsFiniteSet(Hold(z)) /\ n_refs[z] = Cardinality(Hold(z))
    <2>1. Hold(z) = {}
        BY <1>3 DEF Hold, Holders
    <2> QED BY <1>4, <2>1, FS_EmptySet
<1>6. MemInv /\ LastInv
    BY <1>4 DEF MemInv, LastInv, Lasts
<1>7. TrashInv
    BY DEF TrashInv
<1> QED BY <1>1, <1>2, <1>5, <1>6, <1>7 DEF SafeInv, CountInv

\* Every step of a thread keeps the invariant.
LEMMA NextInv ==
    ASSUME Locked = TRUE, use \in Uses, ~use.reallocs, SafeInv, Next
    PROVE  SafeInv'
<1> USE DEF SafeInv
<1>1. PICK t \in Threads : Begin(t) \/ BeginTrash(t) \/ Proceed(t)
    BY DEF Next
<1>2. RefStep(t)
    BY <1>1, Steps
<1>3. TypeInv'
    BY <1>2, TypeStep
<1>4. LockInv'
    BY <1>2, LockStep
<1>5. JobInv'
    BY <1>2, JobStep
<1>6. CountInv'
    BY <1>2, CountStep
<1>7. MemInv'
    BY <1>2, MemStep
<1>8. LastInv'
    BY <1>2, <1>6, LastStep
<1>9. TrashInv'
    BY <1>2, TrashStep
<1> QED BY <1>3, <1>4, <1>5, <1>6, <1>7, <1>8, <1>9

\* Nothing changes while no thread moves.
LEMMA StutterInv ==
    ASSUME SafeInv, UNCHANGED vars
    PROVE  SafeInv'
<1> USE DEF SafeInv
<1>0. /\ alive' = alive /\ n_refs' = n_refs /\ ref' = ref /\ trash' = trash /\ lock' = lock /\ pc' = pc
      /\ dst' = dst /\ src' = src /\ zone' = zone /\ old' = old /\ slot' = slot
    BY DEF vars, mem, job
<1>1. TypeInv' /\ LockInv'
    BY <1>0 DEF TypeInv, LockInv, AtShared
<1>2. JobInv'
    BY <1>0 DEF JobInv, CopyInv, ReleaseInv, SlotInv
<1>3. \A z \in Zones : Hold(z)' = Hold(z)
    BY <1>0 DEF Hold, Holds, Dropped
<1>4. \A z : (Free(z)' <=> Free(z)) /\ (NotTrashed(z)' <=> NotTrashed(z))
    BY <1>0 DEF Free, Holds, Dropped, NotTrashed
<1>5. CountInv' /\ MemInv'
    BY <1>0, <1>3, <1>4 DEF CountInv, MemInv
<1>6. LastInv'
    <2>1. \A t \in Threads : (NotTrashed(old[t]) /\ Free(old[t]))' <=> NotTrashed(old[t]) /\ Free(old[t])
        BY <1>0 DEF Free, Holds, Dropped, NotTrashed
    <2> QED BY <1>0, <2>1 DEF LastInv
<1>7. TrashInv'
    <2> SUFFICES ASSUME NEW t \in Threads, NEW i \in 1 .. TrashSize, trash'[t][i] # None
                 PROVE  /\ Owner[trash'[t][i]] = t
                        /\ alive'[trash'[t][i]] \/ (pc'[t] = "clear slot" /\ slot'[t] = i)
                        /\ \A j \in 1 .. TrashSize : j # i => trash'[t][j] # trash'[t][i]
        BY DEF TrashInv
    <2>1. /\ Owner[trash[t][i]] = t
          /\ alive[trash[t][i]] \/ (pc[t] = "clear slot" /\ slot[t] = i)
          /\ \A j \in 1 .. TrashSize : j # i => trash[t][j] # trash[t][i]
        BY <1>0 DEF TrashInv
    <2> QED BY <1>0, <2>1
<1> QED BY <1>1, <1>2, <1>5, <1>6, <1>7

\* The way zones are used never changes.
LEMMA UseStep ==
    ASSUME Next
    PROVE  use' = use
BY DEF Next, Begin, Proceed, allocate_new_zone, BeginRealloc, BeginCopy, BeginRelease,
    BeginTrash, FreeSlot,
    ClearSlot, EndTrash, ReadSource, CountUp, SetRef, CountDown, Last, Release, LastReleased,
    Forget, LastMoved, TrashOld

\* When a lock guards the shared reference, and threads do not enlarge zones of
\* other areas, n_refs[z] is the number of references to z at every moment.
THEOREM CountsAreKept == Locked = TRUE => (Spec => [](use \in Uses /\ IInv))
<1> SUFFICES ASSUME Locked = TRUE PROVE Spec => [](use \in Uses /\ IInv)
    OBVIOUS
<1>1. Init => use \in Uses /\ IInv
    BY InitInv DEF IInv, Init
<1>2. (use \in Uses /\ IInv) /\ [Next]_vars => (use \in Uses /\ IInv)'
    <2> SUFFICES ASSUME use \in Uses, IInv, [Next]_vars PROVE use' \in Uses /\ IInv'
        OBVIOUS
    <2>1. use' = use
        BY UseStep DEF vars
    <2>2. ASSUME ~use.reallocs
          PROVE  SafeInv'
        BY <2>2, NextInv, StutterInv DEF IInv
    <2> QED BY <2>1, <2>2 DEF IInv
<1> QED BY <1>1, <1>2, PTL DEF Spec

\* Under the same conditions a reference in use leads to memory that nobody has
\* given back or put into a trash, and copying follows no null pointer
\* (copy_zone_ref, dec_zone_ref, release_zone_ref), whatever the number of threads,
\* of zones and of slots.
THEOREM NoReferenceDangles == Locked = TRUE => (Spec => []NoDangling)
<1> SUFFICES ASSUME Locked = TRUE PROVE Spec => []NoDangling
    OBVIOUS
<1>1. use \in Uses /\ IInv => NoDangling
    <2> SUFFICES ASSUME SafeInv
                 PROVE  /\ \A t \in Threads : pc[t] # Crashed
                        /\ \A z \in Zones : InUse(z) # {} => alive[z] /\ NotTrashed(z)
        BY DEF IInv, NoDangling, NotTrashed
    <2>1. \A t \in Threads : pc[t] # Crashed
        BY DEF SafeInv, TypeInv, Pcs, Copying, Releasing, Crashed
    <2>2. ASSUME NEW z \in Zones, NEW r \in InUse(z)
          PROVE  alive[z] /\ NotTrashed(z)
        <3>1. r \in Refs /\ ref[r] = z /\ ~Dropped(r)
            BY DEF InUse, BeingReleased, Dropped, SafeInv, TypeInv
        <3>2. ~Free(z)
            BY <3>1 DEF Free, Kinds, Holds
        <3> QED BY <3>2 DEF SafeInv, MemInv
    <2> QED BY <2>1, <2>2
<1> QED BY <1>1, CountsAreKept, PTL

\* Under the same conditions, whenever no thread is at work n_refs[z] is the number
\* of references to z: what CountsAreRight says of counts, for any number of
\* threads and zones, and of zones whose memory was given back too.
THEOREM QuietCountsAreRight ==
    Locked = TRUE => (Spec => [](~use.reallocs /\ (\A t \in Threads : pc[t] = "idle") =>
                                     \A z \in Zones : n_refs[z] = Cardinality(InUse(z))))
<1> DEFINE Quiet == ~use.reallocs /\ \A t \in Threads : pc[t] = "idle"
<1> SUFFICES ASSUME Locked = TRUE PROVE Spec => [](Quiet => \A z \in Zones : n_refs[z] = Cardinality(InUse(z)))
    OBVIOUS
<1>1. use \in Uses /\ IInv => (Quiet => \A z \in Zones : n_refs[z] = Cardinality(InUse(z)))
    <2> SUFFICES ASSUME SafeInv, \A t \in Threads : pc[t] = "idle", NEW z \in Zones
                 PROVE  n_refs[z] = Cardinality(InUse(z))
        BY DEF IInv
    <2>1. DOMAIN ref = Refs /\ BeingReleased = {} /\ \A r \in Refs : ~Dropped(r)
        BY DEF SafeInv, TypeInv, BeingReleased, Dropped
    <2>2. \A k \in Kinds, r \in Refs : Holds(k, r, z) <=> k = "ref" /\ ref[r] = z
        BY <2>1 DEF Holds, Kinds
    <2>3. InUse(z) = {r \in Refs : ref[r] = z}
        BY <2>1 DEF InUse
    <2>4. Hold(z) = {<<"ref", r>> : r \in InUse(z)}
        BY <2>2, <2>3 DEF Hold, Holders, Kinds
    <2> DEFINE F == [h \in Hold(z) |-> h[2]]
    <2>5. F \in Bijection(Hold(z), InUse(z))
        <3>1. F \in [Hold(z) -> InUse(z)]
            BY <2>4
        <3>2. \A a, b \in Hold(z) : F[a] = F[b] => a = b
            BY <2>4
        <3>3. \A r \in InUse(z) : \E h \in Hold(z) : F[h] = r
            <4> SUFFICES ASSUME NEW r \in InUse(z) PROVE \E h \in Hold(z) : F[h] = r
                OBVIOUS
            <4>1. <<"ref", r>> \in Hold(z)
                BY <2>4
            <4>2. F[<<"ref", r>>] = r
                BY <4>1
            <4> QED BY <4>1, <4>2
        <3> QED BY <3>1, <3>2, <3>3 DEF Bijection, Injection, Surjection, IsInjective
    <2>6. IsFiniteSet(Hold(z)) /\ n_refs[z] = Cardinality(Hold(z))
        BY DEF SafeInv, CountInv
    <2> QED BY <2>5, <2>6, FS_Bijection DEF ExistsBijection
<1> QED BY <1>1, CountsAreKept, PTL

\* Only a thread that counts down can be the last to hold a zone.
LEMMA FreeMade ==
    ASSUME NEW t \in Threads, use \in Uses, TypeInv, JobInv, LockInv, CountInv, NEW z \in Zones,
           ~Free(z), Free(z)', RefStep(t)
    PROVE  (CountDown(t) \/ Release(t)) /\ old[t] = z
<1> USE DEF mem, job, Goto, Idle
<1>1. PICK k \in Kinds, r \in Refs : Holds(k, r, z) /\ ~Holds(k, r, z)'
    BY DEF Free
<1>2. ~allocate_new_zone(t)
    <2> SUFFICES ASSUME allocate_new_zone(t) PROVE FALSE
        OBVIOUS
    <2>1. PICK y \in Zones : ref' = [ref EXCEPT ![t] = y]
        BY RefAssumption DEF allocate_new_zone
    <2> QED BY <1>1, <2>1, AllocateHolders
<1>3. ~CountUp(t)
    <2> SUFFICES ASSUME CountUp(t) PROVE FALSE
        OBVIOUS
    <2>1. n_refs[zone[t]] >= 1
        BY CountUpCounted
    <2> QED BY <1>1, <2>1, CountUpHolders
<1>4. ~SetRef(t)
    <2> SUFFICES ASSUME SetRef(t) PROVE FALSE
        OBVIOUS
    <2>0. /\ Holds("new", t, z) <=> zone[t] = z
          /\ Holds("ref", dst[t], z) <=> old[t] = z
          /\ dst[t] \in Refs /\ t \in Refs
          /\ \A q \in Kinds, s \in Refs : Holds(q, s, z)' <=>
                 \/ Holds(q, s, z) /\ ~(q = "new" /\ s = t) /\ ~(q = "ref" /\ s = dst[t])
                 \/ q = "ref" /\ s = dst[t] /\ z = zone[t]
                 \/ q = "old" /\ s = t /\ z = old[t]
        BY SetRefHolders DEF Refs
    <2>1. zone[t] # z /\ old[t] # z
        BY <2>0 DEF Free, Kinds
    <2> QED BY <1>1, <2>0, <2>1
<1>5. ~Forget(t)
    BY <1>1, ForgetHolders
<1>6. CASE CountDown(t)
    BY <1>1, <1>6, CountDownHolders
<1>7. CASE Release(t)
    BY <1>1, <1>7, ReleaseHolders
<1>8. CASE ~CountDown(t) /\ ~Release(t)
    BY <1>1, <1>2, <1>3, <1>4, <1>5, <1>8, SameHolders DEF RefStep
<1> QED BY <1>6, <1>7, <1>8

\* What a step does to memory and to the trash, when it does something.
LEMMA MemorySteps ==
    ASSUME NEW t \in Threads, RefStep(t)
    PROVE  \/ alive' = alive /\ trash' = trash /\ lost' = lost
           \/ allocate_new_zone(t) \/ FreeSlot(t) \/ ClearSlot(t) \/ Last(t) \/ LastReleased(t)
<1> USE DEF mem, job, Goto, Idle
<1>1. BeginCopy(t, t, "shared") => alive' = alive /\ trash' = trash /\ lost' = lost
    BY DEF BeginCopy
<1>2. BeginCopy(t, "shared", t) => alive' = alive /\ trash' = trash /\ lost' = lost
    BY DEF BeginCopy
<1>3. BeginRelease(t, t) => alive' = alive /\ trash' = trash /\ lost' = lost
    BY DEF BeginRelease
<1>4. BeginRelease(t, "shared") => alive' = alive /\ trash' = trash /\ lost' = lost
    BY DEF BeginRelease
<1>5. BeginTrash(t) \/ EndTrash(t) => alive' = alive /\ trash' = trash /\ lost' = lost
    BY DEF BeginTrash, EndTrash
<1>6. ReadSource(t) \/ CountUp(t) \/ SetRef(t) => alive' = alive /\ trash' = trash /\ lost' = lost
    BY DEF ReadSource, CountUp, SetRef
<1>7. CountDown(t) \/ Release(t) \/ Forget(t) => alive' = alive /\ trash' = trash /\ lost' = lost
    BY DEF CountDown, Release, Forget
<1> QED BY <1>1, <1>2, <1>3, <1>4, <1>5, <1>6, <1>7 DEF RefStep

\* The thread that has dropped the last reference gives memory of its own area
\* back, and puts that of another into the trash, or finds the trash full.
LEMMA LastGives ==
    ASSUME NEW t \in Threads, TypeInv, JobInv, CountInv, LastInv, TrashInv,
           Last(t) \/ LastReleased(t)
    PROVE  /\ pc[t] \in Lasts /\ old[t] \in Zones
           /\ \/ alive' = [alive EXCEPT ![old[t]] = FALSE] /\ trash' = trash /\ lost' = lost
              \/ alive' = alive /\ trash' = trash /\ lost' = lost \cup {old[t]}
              \/ /\ alive' = alive /\ lost' = lost
                 /\ \E i \in 1 .. TrashSize :
                        /\ trash[Owner[old[t]]][i] \in {None, old[t]}
                        /\ trash' = [trash EXCEPT ![Owner[old[t]]][i] = old[t]]
<1> USE DEF mem, job, Goto, Idle
<1>1. pc[t] \in Lasts
    BY DEF Last, LastReleased, Lasts
<1>2. old[t] \in Zones
    BY <1>1, Known DEF Knows, Lasts, Releasing
<1>3. Free(old[t]) /\ NotTrashed(old[t])
    BY <1>1 DEF LastInv
<1>4. n_refs[old[t]] = 0
    BY <1>2, <1>3, CountedIsHeld
<1>5. free_zone(t, old[t])
    <2>1. 0 <= 0
        OBVIOUS
    <2>2. StillLast(old[t])
        BY <1>4, <2>1 DEF StillLast
    <2> QED BY <1>4, <2>2 DEF Last, LastReleased
<1> QED BY <1>1, <1>2, <1>5 DEF free_zone, Trash, SlotsFor

\* What found the trash full is not taken up again.
LEMMA LostGrows ==
    ASSUME NEW t \in Threads, TypeInv, JobInv, CountInv, LastInv, TrashInv, RefStep(t)
    PROVE  lost \subseteq lost'
<1>1. CASE Last(t) \/ LastReleased(t)
    BY <1>1, LastGives
<1>2. CASE allocate_new_zone(t) \/ FreeSlot(t) \/ ClearSlot(t)
    BY <1>2 DEF allocate_new_zone, FreeSlot, ClearSlot
<1> QED BY <1>1, <1>2, MemorySteps

\* The slot of the trash that a thread looks at is one of its slots.
LEMMA SlotInRange ==
    ASSUME NEW t \in Threads, TypeInv, JobInv, FreeSlot(t) \/ ClearSlot(t)
    PROVE  slot[t] \in 1 .. TrashSize
<1>1. slot[t] \in 0 .. TrashSize + 1 /\ TrashSize \in Nat /\ SlotInv(t)
    BY RefAssumption DEF TypeInv, JobInv
<1>2. CASE FreeSlot(t)
    <2>1. slot[t] >= 1 /\ slot[t] <= TrashSize
        BY <1>1, <1>2 DEF SlotInv, FreeSlot
    <2> QED BY <1>1, <2>1
<1>3. CASE ClearSlot(t)
    BY <1>1, <1>3 DEF SlotInv, ClearSlot
<1> QED BY <1>2, <1>3

\* A slot is cleared after its zone was given back, and only then.
LEMMA ClearStep ==
    ASSUME NEW t \in Threads, use \in Uses, TypeInv, JobInv, CountInv, LastInv, TrashInv,
           ClearInv, RefStep(t)
    PROVE  ClearInv'
<1> USE DEF mem, job, Goto, Idle
<1> SUFFICES ASSUME NEW u \in Threads, pc'[u] = "clear slot"
             PROVE  trash'[u][slot'[u]] \in Zones /\ ~alive'[trash'[u][slot'[u]]]
    BY DEF ClearInv
<1>a. /\ alive \in [Zones -> BOOLEAN] /\ trash \in [Threads -> [1 .. TrashSize -> Zones \cup {None}]]
      /\ pc \in [Threads -> Pcs]
    BY DEF TypeInv
<1>b. Owner \in [Zones -> Threads] /\ None \notin Zones
    BY RefAssumption, NameAssumption
<1>1. CASE u = t
    <2>1. FreeSlot(t)
        <3>1. CASE allocate_new_zone(t)
            BY <1>1, <1>a, <3>1 DEF allocate_new_zone
        <3>2. CASE BeginCopy(t, t, "shared")
            BY <1>1, <1>a, <3>2 DEF BeginCopy
        <3>3. CASE BeginCopy(t, "shared", t)
            BY <1>1, <1>a, <3>3 DEF BeginCopy
        <3>4. CASE BeginRelease(t, t)
            BY <1>1, <1>a, <3>4 DEF BeginRelease
        <3>5. CASE BeginRelease(t, "shared")
            BY <1>1, <1>a, <3>5 DEF BeginRelease
        <3>6. CASE BeginTrash(t)
            BY <1>1, <1>a, <3>6 DEF BeginTrash
        <3>8. CASE ClearSlot(t)
            BY <1>1, <1>a, <3>8 DEF ClearSlot
        <3>9. CASE EndTrash(t)
            BY <1>1, <1>a, <3>9 DEF EndTrash
        <3>10. CASE ReadSource(t)
            BY <1>1, <1>a, <3>10 DEF ReadSource, Crashed
        <3>11. CASE CountUp(t)
            BY <1>1, <1>a, <3>11 DEF CountUp
        <3>12. CASE SetRef(t)
            BY <1>1, <1>a, <3>12 DEF SetRef
        <3>13. CASE CountDown(t)
            BY <1>1, <1>a, <3>13 DEF CountDown
        <3>14. CASE Last(t)
            BY <1>1, <1>a, <3>14 DEF Last
        <3>15. CASE Release(t)
            BY <1>1, <1>a, <3>15 DEF Release
        <3>16. CASE LastReleased(t)
            BY <1>1, <1>a, <3>16 DEF LastReleased
        <3>17. CASE Forget(t)
            BY <1>1, <1>a, <3>17 DEF Forget
        <3> QED BY <3>1, <3>2, <3>3, <3>4, <3>5, <3>6, <3>8, <3>9, <3>10, <3>11, <3>12, <3>13,
            <3>14, <3>15, <3>16, <3>17 DEF RefStep
    <2>2. slot[t] \in 1 .. TrashSize
        BY <2>1, SlotInRange
    <2>3. trash[t][slot[t]] # None
        BY <1>1, <1>a, <2>1 DEF FreeSlot
    <2>4. trash[t][slot[t]] \in Zones
        <3>1. trash[t] \in [1 .. TrashSize -> Zones \cup {None}]
            BY <1>a
        <3> QED BY <2>2, <2>3, <3>1
    <2> QED BY <1>1, <1>a, <2>1, <2>3, <2>4 DEF FreeSlot
<1>2. CASE u # t
    <2>1. pc[u] = "clear slot" /\ slot'[u] = slot[u]
        BY <1>2, Others
    <2> DEFINE i == slot[u]
               y == trash[u][i]
    <2>2. i \in 1 .. TrashSize
        BY <2>1 DEF JobInv, SlotInv
    <2>3. y \in Zones /\ ~alive[y]
        BY <2>1 DEF ClearInv
    <2>4. Owner[y] = u
        BY <1>b, <2>2, <2>3 DEF TrashInv
    <2> SUFFICES trash'[u][i] = y /\ ~alive'[y]
        BY <2>1, <2>3
    <2> HIDE DEF i, y
    <2>0. y = trash[u][i]
        BY DEF y
    <2>5. CASE alive' = alive /\ trash' = trash
        BY <2>0, <2>3, <2>5
    <2>6. CASE allocate_new_zone(t)
        <3>1. PICK x \in Zones : Owner[x] = t /\ alive' = [alive EXCEPT ![x] = TRUE] /\ trash' = trash
            BY <2>6, RefAssumption DEF allocate_new_zone
        <3> QED BY <1>2, <1>a, <2>0, <2>3, <2>4, <3>1
    <2>7. CASE FreeSlot(t)
        <3>1. trash' = trash /\ (alive' = alive \/ \E x : alive' = [alive EXCEPT ![x] = FALSE])
            BY <2>7 DEF FreeSlot
        <3> QED BY <1>a, <2>0, <2>3, <3>1
    <2>8. CASE ClearSlot(t)
        <3>1. trash' = [trash EXCEPT ![t][slot[t]] = None] /\ alive' = alive
            BY <2>8 DEF ClearSlot
        <3> QED BY <1>2, <1>a, <2>0, <2>3, <3>1
    <2>9. CASE Last(t) \/ LastReleased(t)
        <3>1. old[t] \in Zones
            BY <2>9, LastGives
        <3>2. CASE alive' = [alive EXCEPT ![old[t]] = FALSE] /\ trash' = trash
            BY <1>a, <2>0, <2>3, <3>2
        <3>3. CASE /\ alive' = alive
                   /\ \E j \in 1 .. TrashSize :
                          /\ trash[Owner[old[t]]][j] \in {None, old[t]}
                          /\ trash' = [trash EXCEPT ![Owner[old[t]]][j] = old[t]]
            <4>1. PICK j \in 1 .. TrashSize :
                      /\ trash[Owner[old[t]]][j] \in {None, old[t]}
                      /\ trash' = [trash EXCEPT ![Owner[old[t]]][j] = old[t]]
                BY <3>3
            <4>2. CASE Owner[old[t]] = u /\ j = i
                BY <1>a, <1>b, <2>0, <2>2, <2>3, <3>3, <4>1, <4>2
            <4>3. CASE ~(Owner[old[t]] = u /\ j = i)
                BY <1>a, <1>b, <2>0, <2>2, <2>3, <3>1, <3>3, <4>1, <4>3
            <4> QED BY <4>2, <4>3
        <3> QED BY <2>5, <2>9, <3>2, <3>3, LastGives
    <2> QED BY <2>5, <2>6, <2>7, <2>8, <2>9, MemorySteps
<1> QED BY <1>1, <1>2

\* Memory that nobody holds is not forgotten.
LEMMA FreeStep ==
    ASSUME NEW t \in Threads, use \in Uses, TypeInv, JobInv, LockInv, CountInv, MemInv, LastInv,
           TrashInv, FreeInv, ClearInv, CountInv', RefStep(t)
    PROVE  FreeInv'
<1> USE DEF mem, job, Goto, Idle
<1> SUFFICES ASSUME NEW z \in Zones, alive'[z], Free(z)'
             PROVE  z \in lost' \/ ~NotTrashed(z)' \/ \E u \in Threads : pc'[u] \in Lasts /\ old'[u] = z
    BY DEF FreeInv
<1>a. /\ alive \in [Zones -> BOOLEAN] /\ trash \in [Threads -> [1 .. TrashSize -> Zones \cup {None}]]
      /\ pc \in [Threads -> Pcs]
    BY DEF TypeInv
<1>b. Owner \in [Zones -> Threads] /\ None \notin Zones
    BY RefAssumption, NameAssumption
<1>1. CASE ~alive[z]
    <2>1. allocate_new_zone(t)
        <3>1. CASE FreeSlot(t)
            BY <1>1, <1>a, <3>1 DEF FreeSlot
        <3>2. CASE ClearSlot(t)
            BY <1>1, <3>2 DEF ClearSlot
        <3>3. CASE Last(t) \/ LastReleased(t)
            BY <1>1, <1>a, <3>3, LastGives
        <3> QED BY <1>1, <3>1, <3>2, <3>3, MemorySteps
    <2>2. PICK y \in Zones : ref' = [ref EXCEPT ![t] = y] /\ alive' = [alive EXCEPT ![y] = TRUE]
        BY <2>1, RefAssumption DEF allocate_new_zone
    <2>3. y = z
        BY <1>1, <1>a, <2>2
    <2>4. Holds("ref", t, z)'
        BY <2>1, <2>2, <2>3, AllocateHolders DEF Kinds, Refs
    <2> QED BY <2>4 DEF Free, Kinds, Refs
<1>2. CASE alive[z] /\ ~Free(z)
    <2>1. (CountDown(t) \/ Release(t)) /\ old[t] = z
        BY <1>2, FreeMade
    <2>2. n_refs[z] \in Nat /\ n_refs[z] # 0
        BY <1>2, CountedIsHeld
    <2>3. n_refs' = [n_refs EXCEPT ![z] = n_refs[z] - 1] /\ old' = old
        BY <2>1 DEF CountDown, Release
    <2>4. n_refs'[z] = 0
        <3>1. IsFiniteSet(Hold(z)') /\ n_refs'[z] = Cardinality(Hold(z)')
            BY DEF CountInv
        <3>2. Hold(z)' = {}
            BY DEF Free, Hold, Holders
        <3> QED BY <3>1, <3>2, FS_EmptySet
    <2>5. n_refs[z] = 1
        <3>1. n_refs'[z] = n_refs[z] - 1
            BY <2>3 DEF TypeInv
        <3> QED BY <2>2, <2>4, <3>1
    <2>6. pc'[t] \in Lasts
        <3>1. 1 <= 1 /\ n_refs[old[t]] = 1 /\ alive[old[t]]
            BY <1>2, <2>1, <2>5
        <3>2. CASE CountDown(t)
            BY <1>a, <3>1, <3>2 DEF CountDown, Lasts
        <3>3. CASE Release(t)
            <4>1. WasLast(old[t])
                BY <3>1 DEF WasLast
            <4> QED BY <1>a, <3>1, <3>3, <4>1 DEF Release, Lasts
        <3> QED BY <2>1, <3>2, <3>3
    <2> QED BY <2>1, <2>3, <2>6
<1>3. CASE alive[z] /\ Free(z) /\ ~NotTrashed(z)
    <2>1. PICK u \in Threads, i \in 1 .. TrashSize : trash[u][i] = z
        BY <1>3 DEF NotTrashed
    <2> SUFFICES trash'[u][i] = z
        BY DEF NotTrashed
    <2>2. CASE trash' = trash
        BY <2>1, <2>2
    <2>3. CASE ClearSlot(t)
        <3>1. trash' = [trash EXCEPT ![t][slot[t]] = None]
            BY <2>3 DEF ClearSlot
        <3>2. ~alive[trash[t][slot[t]]]
            BY <2>3 DEF ClearInv, ClearSlot
        <3>3. ~(u = t /\ i = slot[t])
            BY <1>3, <2>1, <3>2
        <3> QED BY <1>a, <2>1, <3>1, <3>3
    <2>4. CASE Last(t) \/ LastReleased(t)
        <3>1. CASE \E j \in 1 .. TrashSize :
                       /\ trash[Owner[old[t]]][j] \in {None, old[t]}
                       /\ trash' = [trash EXCEPT ![Owner[old[t]]][j] = old[t]]
            <4>1. PICK j \in 1 .. TrashSize :
                      /\ trash[Owner[old[t]]][j] \in {None, old[t]}
                      /\ trash' = [trash EXCEPT ![Owner[old[t]]][j] = old[t]]
                BY <3>1
            <4>2. CASE Owner[old[t]] = u /\ j = i
                BY <1>a, <1>b, <2>1, <4>1, <4>2
            <4>3. CASE ~(Owner[old[t]] = u /\ j = i)
                <5>1. old[t] \in Zones
                    BY <2>4, LastGives
                <5> QED BY <1>a, <1>b, <2>1, <4>1, <4>3, <5>1
            <4> QED BY <4>2, <4>3
        <3> QED BY <2>2, <2>4, <3>1, LastGives
    <2>5. CASE allocate_new_zone(t) \/ FreeSlot(t)
        BY <2>2, <2>5 DEF allocate_new_zone, FreeSlot
    <2> QED BY <2>2, <2>3, <2>4, <2>5, MemorySteps
<1>5. CASE z \in lost
    BY <1>5, LostGrows
<1>4. CASE alive[z] /\ Free(z) /\ NotTrashed(z) /\ z \notin lost
    <2>1. PICK u \in Threads : pc[u] \in Lasts /\ old[u] = z
        BY <1>4 DEF FreeInv
    <2>2. CASE u # t
        BY <2>1, <2>2, Others
    <2>3. CASE u = t
        <3>1. Last(t) \/ LastReleased(t)
            BY <1>a, <2>1, <2>3 DEF RefStep, Lasts, allocate_new_zone, BeginCopy, BeginRelease,
                BeginTrash, FreeSlot, ClearSlot, EndTrash, ReadSource, CountUp, SetRef, CountDown,
                Release, Forget
        <3>2. CASE z \in lost'
            BY <3>2
        <3>3. CASE \E i \in 1 .. TrashSize : trash' = [trash EXCEPT ![Owner[z]][i] = z]
            <4>1. PICK i \in 1 .. TrashSize : trash' = [trash EXCEPT ![Owner[z]][i] = z]
                BY <3>3
            <4>2. trash'[Owner[z]][i] = z
                BY <1>a, <1>b, <4>1
            <4> QED BY <1>b, <4>2 DEF NotTrashed
        <3> QED BY <1>a, <2>1, <2>3, <3>1, <3>2, <3>3, LastGives
    <2> QED BY <2>2, <2>3
<1> QED BY <1>1, <1>2, <1>3, <1>4, <1>5

\* A zone that found the trash full stays as it is.
LEMMA LostStep ==
    ASSUME NEW t \in Threads, use \in Uses, TypeInv, JobInv, LockInv, CountInv, LastInv,
           TrashInv, LostInv, RefStep(t)
    PROVE  LostInv'
<1> SUFFICES ASSUME NEW z \in Zones, z \in lost' PROVE Forgotten(z)'
    BY DEF LostInv
<1>1. \A u \in Threads : u # t => pc'[u] = pc[u] /\ old'[u] = old[u]
    BY Others
<1>2. Free(z) => ~(pc'[t] \in Lasts /\ old'[t] = z)
    BY DropStep
<1>3. CASE z \in lost
    <2>1. Forgotten(z)
        BY <1>3 DEF LostInv
    <2>2. alive'[z] /\ NotTrashed(z)'
        BY <2>1, MemoryIsKept DEF Forgotten
    <2>3. Free(z)'
        BY <2>1, FreeKept DEF Forgotten
    <2>4. \A u \in Threads : ~(pc'[u] \in Lasts /\ old'[u] = z)
        BY <1>1, <1>2, <2>1 DEF Forgotten
    <2> QED BY <2>2, <2>3, <2>4 DEF Forgotten
<1>4. CASE z \notin lost
    <2>1. Last(t) \/ LastReleased(t)
        BY <1>4, MemorySteps DEF allocate_new_zone, FreeSlot, ClearSlot
    <2>2. alive' = alive /\ trash' = trash /\ old[t] = z /\ pc[t] \in Lasts
        BY <1>4, <2>1, LastGives
    <2>3. alive[z] /\ NotTrashed(z) /\ Free(z)
        BY <2>2 DEF LastInv
    <2>4. Free(z)'
        BY <2>1, <2>3, FreeKept DEF Last, LastReleased, allocate_new_zone, Idle
    <2>5. \A u \in Threads : ~(pc'[u] \in Lasts /\ old'[u] = z)
        BY <1>1, <1>2, <2>2, <2>3 DEF LastInv
    <2> QED BY <2>2, <2>3, <2>4, <2>5 DEF Forgotten, NotTrashed
<1> QED BY <1>3, <1>4

\* Memory that nobody holds is in a trash, or about to be put there, or found the
\* trash full (add_trashed_zone, find_null_ptr, empty_trash).
LEMMA NothingIsForgotten ==
    ASSUME Locked = TRUE
    PROVE  Spec => [](~use.reallocs => FreeInv /\ ClearInv /\ LostInv)
<1> DEFINE J == ~use.reallocs => FreeInv /\ ClearInv /\ LostInv
           I == use \in Uses /\ IInv
<1>1. Init => J
    BY DEF Init, FreeInv, ClearInv, LostInv
<1>2. I /\ I' /\ J /\ [Next]_vars => J'
    <2> SUFFICES ASSUME I, I', J, [Next]_vars, ~use'.reallocs PROVE FreeInv' /\ ClearInv' /\ LostInv'
        OBVIOUS
    <2>1. use' = use
        BY UseStep DEF vars
    <2>2. SafeInv /\ FreeInv /\ ClearInv /\ LostInv
        BY <2>1 DEF IInv
    <2>3. CountInv'
        BY <2>1 DEF IInv, SafeInv
    <2>4. CASE Next
        <3>1. PICK t \in Threads : RefStep(t)
            BY <2>1, <2>2, <2>4, Steps DEF Next, SafeInv
        <3> QED BY <2>2, <2>3, <3>1, ClearStep, FreeStep, LostStep DEF SafeInv
    <2>5. CASE UNCHANGED vars
        <3>1. /\ alive' = alive /\ n_refs' = n_refs /\ ref' = ref /\ trash' = trash /\ lost' = lost
              /\ pc' = pc
              /\ dst' = dst /\ zone' = zone /\ old' = old /\ slot' = slot
            BY <2>5 DEF vars, mem, job
        <3>2. \A z : (Free(z)' <=> Free(z)) /\ (NotTrashed(z)' <=> NotTrashed(z))
            BY <3>1 DEF Free, Holds, Dropped, NotTrashed
        <3>3. FreeInv'
            BY <2>2, <3>1, <3>2 DEF FreeInv
        <3>4. ClearInv'
            BY <2>2, <3>1 DEF ClearInv
        <3>5. LostInv'
            BY <2>2, <3>1, <3>2 DEF LostInv, Forgotten
        <3> QED BY <3>3, <3>4, <3>5
    <2> QED BY <2>4, <2>5
<1>3. Spec => []I
    BY CountsAreKept
<1> QED BY <1>1, <1>2, <1>3, PTL DEF Spec

\* Whenever no thread is at work n_refs of a zone in memory is the number of
\* references to it, and a zone without references waits in a trash, or was dropped
\* when the 256 slots of add_trashed_zone were taken: no zone is counted wrong, and
\* none is leaked in another way, for any number of threads, zones and slots.
THEOREM NothingIsLeaked == Locked = TRUE => (Spec => []CountsAreRight)
<1> SUFFICES ASSUME Locked = TRUE PROVE Spec => []CountsAreRight
    OBVIOUS
<1> DEFINE I == use \in Uses /\ IInv
           J == ~use.reallocs => FreeInv /\ ClearInv /\ LostInv
           Q == ~use.reallocs /\ (\A t \in Threads : pc[t] = "idle") =>
                    \A z \in Zones : n_refs[z] = Cardinality(InUse(z))
<1>1. I /\ J /\ Q => CountsAreRight
    <2> SUFFICES ASSUME I, J, Q, ~use.reallocs, \A t \in Threads : pc[t] = "idle", NEW z \in Zones, alive[z]
                 PROVE  /\ n_refs[z] = Cardinality(InUse(z))
                        /\ n_refs[z] = 0 <=> z \in lost \/ ~NotTrashed(z)
        BY DEF CountsAreRight, NotTrashed
    <2>1. n_refs[z] = 0 <=> Free(z)
        BY CountedIsHeld DEF IInv, SafeInv
    <2>2. ~NotTrashed(z) => Free(z)
        BY DEF IInv, SafeInv, MemInv
    <2>3. Free(z) => z \in lost \/ ~NotTrashed(z)
        BY DEF FreeInv, Lasts
    <2>4. z \in lost => Free(z)
        BY DEF LostInv, Forgotten
    <2> QED BY <2>1, <2>2, <2>3, <2>4
<1>2. Spec => []I /\ []J
    BY CountsAreKept, NothingIsForgotten
<1>3. Spec => []Q
    BY QuietCountsAreRight
<1> HIDE DEF I, J, Q
<1> QED BY <1>1, <1>2, <1>3, PTL

=============================================================================
