------------------------------- MODULE ZoneRefs -------------------------------
(***************************************************************************)
(* The counts of references to zones (libcon/base/mem_base.c): threads     *)
(* copy and release references without locks, by atomic additions to       *)
(* n_refs. A zone belongs to the area of one thread. When another thread   *)
(* drops its last reference, the zone goes to the trash of its area, which *)
(* the owner empties.                                                      *)
(*                                                                         *)
(* One reference is shared, such as the one to a list in the tree of the   *)
(* node: the writer sets and releases it, every thread copies it.          *)
(***************************************************************************)
EXTENDS Integers, FiniteSets

CONSTANTS
    Threads,
    Zones,
    Owner,     \* Owner[z]: the thread in whose area z is
    Writer,    \* the thread that sets the shared reference
    Emptiers,  \* threads that call empty_trash
    TrashSize, \* slots of a trash: 256
    Locked,    \* a lock of the program guards the shared reference
    Uses       \* the ways zones are used: records of threads and zones, those that
               \* take part, and reallocs: do threads enlarge zones of other areas

ASSUME RefAssumption == /\ Owner \in [Zones -> Threads] /\ Writer \in Threads
                        /\ Emptiers \subseteq Threads /\ TrashSize \in Nat
                        /\ Locked \in BOOLEAN
                        /\ Uses \subseteq [threads : SUBSET Threads, zones : SUBSET Zones,
                                           reallocs : BOOLEAN]

None == "none"
Crashed == "crashed"
ASSUME NameAssumption == {None, "shared"} \cap (Threads \cup Zones) = {}

VARIABLES
    use,       \* how zones are used: never changes
    alive,     \* alive[z]: mem.ptr is not PTR_NULL
    n_refs,
    ref,       \* ref[t]: the reference of thread t; ref["shared"]
    trash,     \* trash[t][i]: the slots of the area of t
    lost,      \* history: the zones that found their trash full
    lock,      \* the lock of the program
    pc,        \* pc[t]: what thread t does
    dst,       \* dst[t]: the reference it sets or releases
    src,       \* src[t]: the reference it copies
    zone,      \* zone[t]: the zone it is about to count up
    old,       \* old[t]: the zone it is about to count down
    slot       \* slot[t]: where it is in its trash

mem == <<alive, n_refs>>
job == <<dst, src, zone, old, slot>>
vars == <<use, mem, ref, trash, lost, lock, pc, job>>

Goto(t, l) == pc' = [pc EXCEPT ![t] = l]
Idle(t) == t \in use.threads /\ pc[t] = "idle"

-----------------------------------------------------------------------------
(* The area of a zone *)

\* allocate_new_zone, find_null_ptr: any record without memory.
allocate_new_zone(t) ==
    /\ Idle(t) /\ ref[t] = None
    /\ \E z \in use.zones :
        /\ Owner[z] = t /\ ~alive[z]
        /\ alive' = [alive EXCEPT ![z] = TRUE] /\ n_refs' = [n_refs EXCEPT ![z] = 1]
        /\ ref' = [ref EXCEPT ![t] = z]
    /\ UNCHANGED <<use, trash, lost, lock, pc, job>>

\* add_trashed_zone takes the first slot that is empty or has the zone; with no
\* such slot the zone is forgotten: nothing but its memory is left of it.
SlotsFor(z) == {i \in 1 .. TrashSize : trash[Owner[z]][i] \in {None, z}}
Trash(z) ==
    \/ SlotsFor(z) = {} /\ lost' = lost \cup {z} /\ UNCHANGED trash
    \/ \E i \in SlotsFor(z) :
        /\ \A j \in SlotsFor(z) : i <= j
        /\ trash' = [trash EXCEPT ![Owner[z]][i] = z]
        /\ UNCHANGED lost

IsOwn(t, z) == Owner[z] = t
\* free_zone, and the end of copy_zone_ref.
free_zone(t, z) ==
    IF IsOwn(t, z)
    THEN /\ alive' = [alive EXCEPT ![z] = FALSE] /\ n_refs' = [n_refs EXCEPT ![z] = 0]
         /\ UNCHANGED <<trash, lost>>
    ELSE Trash(z) /\ UNCHANGED mem

\* Mutant: the first slot is left out.
SecondSlot == 2
FirstSlot == 1
\* empty_trash goes through the slots of the calling thread. What it does then
\* with the trash of the area of the tree is not modelled.
BeginTrash(t) ==
    /\ Idle(t) /\ t \in Emptiers /\ \E i \in 1 .. TrashSize : trash[t][i] # None
    /\ slot' = [slot EXCEPT ![t] = FirstSlot]
    /\ Goto(t, "trash")
    /\ UNCHANGED <<use, mem, ref, trash, lost, lock, dst, src, zone, old>>

FreeSlot(t) ==
    /\ pc[t] = "trash" /\ slot[t] <= TrashSize
    /\ IF trash[t][slot[t]] = None
       THEN /\ slot' = [slot EXCEPT ![t] = @ + 1]
            /\ UNCHANGED <<mem, pc>>
       ELSE /\ alive' = [alive EXCEPT ![trash[t][slot[t]]] = FALSE]
            /\ Goto(t, "clear slot")
            /\ UNCHANGED <<n_refs, slot>>
    /\ UNCHANGED <<use, ref, trash, lost, lock, dst, src, zone, old>>

ClearSlot(t) ==
    /\ pc[t] = "clear slot"
    /\ trash' = [trash EXCEPT ![t][slot[t]] = None]
    /\ slot' = [slot EXCEPT ![t] = @ + 1]
    /\ Goto(t, "trash")
    /\ UNCHANGED <<use, mem, ref, lost, lock, dst, src, zone, old>>

EndTrash(t) ==
    /\ pc[t] = "trash" /\ slot[t] > TrashSize
    /\ slot' = [slot EXCEPT ![t] = 0]
    /\ Goto(t, "idle")
    /\ UNCHANGED <<use, mem, ref, trash, lost, lock, dst, src, zone, old>>

-----------------------------------------------------------------------------
(* copy_zone_ref *)

\* Who uses the shared reference takes the lock, if there is one.
Take(t) == IF Locked THEN lock = None /\ lock' = t ELSE UNCHANGED lock
Leave(t) == lock' = IF lock = t THEN None ELSE lock

BeginCopy(t, d, s) ==
    /\ Idle(t) /\ Take(t)
    /\ {ref[d], ref[s]} # {None}
    /\ dst' = [dst EXCEPT ![t] = d] /\ src' = [src EXCEPT ![t] = s]
    /\ old' = [old EXCEPT ![t] = ref[d]]
    /\ Goto(t, IF ref[s] = None THEN "set" ELSE "read")
    /\ zone' = [zone EXCEPT ![t] = None]
    /\ UNCHANGED <<use, mem, ref, trash, lost, slot>>

\* The loop reads the source again, without the test for PTR_NULL.
ReadSource(t) ==
    /\ pc[t] = "read"
    /\ zone' = [zone EXCEPT ![t] = ref[src[t]]]
    /\ Goto(t, IF ref[src[t]] = None THEN Crashed ELSE "count up")
    /\ UNCHANGED <<use, mem, ref, trash, lost, lock, dst, src, old, slot>>

\* Mutant: the new reference is not counted.
NotCounted(n) == n
Counted(n) == n + 1

\* fetch_add_c: a zone whose count was zero is tried again, with the count up.
CountUp(t) ==
    /\ pc[t] = "count up"
    /\ n_refs' = [n_refs EXCEPT ![zone[t]] = Counted(@)]
    /\ Goto(t, IF n_refs[zone[t]] >= 1 THEN "set" ELSE "read")
    /\ UNCHANGED <<use, alive, ref, trash, lost, lock, job>>

SetRef(t) ==
    /\ pc[t] = "set"
    /\ ref' = [ref EXCEPT ![dst[t]] = zone[t]]
    /\ IF old[t] = None THEN Goto(t, "idle") /\ Leave(t) ELSE Goto(t, "count down") /\ UNCHANGED lock
    /\ UNCHANGED <<use, mem, trash, lost, job>>

CountDown(t) ==
    /\ pc[t] = "count down"
    /\ n_refs' = [n_refs EXCEPT ![old[t]] = @ - 1]
    /\ IF n_refs[old[t]] = 1 /\ alive[old[t]]
       THEN Goto(t, "last") /\ UNCHANGED lock
       ELSE Goto(t, "idle") /\ Leave(t)
    /\ UNCHANGED <<use, alive, ref, trash, lost, job>>

Last(t) ==
    /\ pc[t] = "last"
    /\ IF n_refs[old[t]] = 0 THEN free_zone(t, old[t]) ELSE UNCHANGED <<mem, trash, lost>>
    /\ Goto(t, "idle") /\ Leave(t)
    /\ UNCHANGED <<use, ref, job>>

-----------------------------------------------------------------------------
(* release_zone_ref *)

BeginRelease(t, d) ==
    /\ Idle(t) /\ (IF d = "shared" THEN Take(t) ELSE UNCHANGED lock)
    /\ ref[d] # None
    /\ dst' = [dst EXCEPT ![t] = d] /\ old' = [old EXCEPT ![t] = ref[d]]
    /\ Goto(t, "release")
    /\ UNCHANGED <<use, mem, ref, trash, lost, src, zone, slot>>

\* dec_zone_ref.
\* Mutant: the count is taken for the one after the subtraction.
WasNone(z) == n_refs[z] <= 0
WasLast(z) == n_refs[z] <= 1
Release(t) ==
    /\ pc[t] = "release"
    /\ n_refs' = [n_refs EXCEPT ![old[t]] = @ - 1]
    /\ Goto(t, IF WasLast(old[t]) /\ alive[old[t]] THEN "last released" ELSE "forget")
    /\ UNCHANGED <<use, alive, ref, trash, lost, lock, job>>

StillLast(z) == n_refs[z] <= 0
LastReleased(t) ==
    /\ pc[t] = "last released"
    /\ IF StillLast(old[t]) THEN free_zone(t, old[t]) ELSE UNCHANGED <<mem, trash, lost>>
    /\ Goto(t, "forget")
    /\ UNCHANGED <<use, ref, lock, job>>

Forget(t) ==
    /\ pc[t] = "forget"
    /\ ref' = [ref EXCEPT ![dst[t]] = None]
    /\ Goto(t, "idle") /\ Leave(t)
    /\ UNCHANGED <<use, mem, trash, lost, job>>

-----------------------------------------------------------------------------
(* realloc_zone of a zone in another area: a new zone, the old one released, *)
(* its memory copied, and the old one put into the trash                     *)

BeginRealloc(t) ==
    /\ use.reallocs /\ Idle(t) /\ ref[t] # None /\ ~IsOwn(t, ref[t])
    /\ \E z \in use.zones :
        /\ Owner[z] = t /\ ~alive[z]
        /\ alive' = [alive EXCEPT ![z] = TRUE]
        /\ n_refs' = [n_refs EXCEPT ![z] = 1, ![ref[t]] = @ - 1]
        /\ ref' = [ref EXCEPT ![t] = z]
    /\ old' = [old EXCEPT ![t] = ref[t]]
    /\ Goto(t, IF WasLast(ref[t]) /\ alive[ref[t]] THEN "last moved" ELSE "trash old")
    /\ UNCHANGED <<use, trash, lost, lock, dst, src, zone, slot>>

LastMoved(t) ==
    /\ pc[t] = "last moved"
    /\ IF StillLast(old[t]) THEN free_zone(t, old[t]) ELSE UNCHANGED <<mem, trash, lost>>
    /\ Goto(t, "trash old")
    /\ UNCHANGED <<use, ref, lock, job>>

\* What old[t] holds is read here, if it is still there.
TrashOld(t) ==
    /\ pc[t] = "trash old"
    /\ Trash(old[t])
    /\ Goto(t, "idle")
    /\ UNCHANGED <<use, mem, ref, lock, job>>

-----------------------------------------------------------------------------

Init ==
    /\ use \in Uses
    /\ alive = [z \in Zones |-> FALSE] /\ n_refs = [z \in Zones |-> 0]
    /\ ref = [r \in Threads \cup {"shared"} |-> None]
    /\ trash = [t \in Threads |-> [i \in 1 .. TrashSize |-> None]] /\ lost = {}
    /\ lock = None /\ pc = [t \in Threads |-> "idle"]
    /\ dst = [t \in Threads |-> None] /\ src = [t \in Threads |-> None]
    /\ zone = [t \in Threads |-> None] /\ old = [t \in Threads |-> None]
    /\ slot = [t \in Threads |-> 0]

Begin(t) ==
    \/ allocate_new_zone(t) \/ BeginRealloc(t)
    \/ BeginCopy(t, t, "shared") \/ BeginRelease(t, t)
    \/ t = Writer /\ (BeginCopy(t, "shared", t) \/ BeginRelease(t, "shared"))
Proceed(t) ==
    \/ FreeSlot(t) \/ ClearSlot(t) \/ EndTrash(t)
    \/ ReadSource(t) \/ CountUp(t) \/ SetRef(t) \/ CountDown(t) \/ Last(t)
    \/ Release(t) \/ LastReleased(t) \/ Forget(t) \/ LastMoved(t) \/ TrashOld(t)
Next == \E t \in Threads : Begin(t) \/ BeginTrash(t) \/ Proceed(t)

Spec == Init /\ [][Next]_vars
\* Threads go on with what they have begun; who empties his trash does so again
\* and again, whatever else he does.
FairSpec == Spec /\ \A t \in Threads : WF_vars(Proceed(t)) /\ SF_vars(BeginTrash(t))

-----------------------------------------------------------------------------
(* Properties *)

TypeOK ==
    /\ use \in Uses
    /\ alive \in [Zones -> BOOLEAN] /\ n_refs \in [Zones -> Int]
    /\ ref \in [Threads \cup {"shared"} -> Zones \cup {None}]
    /\ trash \in [Threads -> [1 .. TrashSize -> Zones \cup {None}]] /\ lost \subseteq Zones
    /\ lock \in Threads \cup {None}
    /\ dst \in [Threads -> Threads \cup {"shared", None}] /\ src \in [Threads -> Threads \cup {"shared", None}]
    /\ zone \in [Threads -> Zones \cup {None}] /\ old \in [Threads -> Zones \cup {None}]
    /\ slot \in [Threads -> 0 .. TrashSize + 1]

\* The references in use: not the one that is being released.
BeingReleased == {dst[t] : t \in {t \in Threads : pc[t] \in {"release", "last released", "forget"}}}
InUse(z) == {r \in DOMAIN ref \ BeingReleased : ref[r] = z}

\* A reference in use leads to memory: nobody gives memory back, or puts it into
\* the trash, that another reference leads to, and copying never follows a null
\* pointer.
NoDangling == ~use.reallocs =>
    /\ \A t \in Threads : pc[t] # Crashed
    /\ \A z \in Zones : InUse(z) # {} => alive[z] /\ \A t \in Threads, i \in 1 .. TrashSize : trash[t][i] # z

\* When no thread is at work, counts are the numbers of references, and memory
\* without references is in a trash, or found it full: nothing else is leaked.
CountsAreRight ==
    ~use.reallocs /\ (\A t \in Threads : pc[t] = "idle") =>
        \A z \in Zones : alive[z] =>
            /\ n_refs[z] = Cardinality(InUse(z))
            /\ n_refs[z] = 0 <=> z \in lost \/ \E t \in Threads, i \in 1 .. TrashSize : trash[t][i] = z

\* Memory in the trash of a thread that empties it is given back.
TrashIsEmptied ==
    \A z \in Zones : Owner[z] \in Emptiers =>
        ((\E i \in 1 .. TrashSize : trash[Owner[z]][i] = z) ~> ~alive[z])

=============================================================================
