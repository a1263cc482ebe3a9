------------------------------- MODULE ZoneArea -------------------------------
(***************************************************************************)
(* An area of the allocator (libcon/base/mem_base.c) as its thread uses it:*)
(* the array zones_free of free blocks, taken first fit and kept joined,   *)
(* the records of the zones, and what the zones hold. Sizes are in bytes,  *)
(* memory in cells of Unit bytes (16 in the code). Pointer 0 is PTR_NULL.  *)
(***************************************************************************)
EXTENDS Integers, Sequences, FiniteSets, SequencesExt

CONSTANTS
    Size,      \* cells of the area: 1 .. Size
    NZones,    \* records: zones_buffer
    Unit,      \* bytes of a cell
    MaxFree,   \* MAX_FREE_ZONES
    Requests   \* sizes in bytes that are asked for

\* Between two free blocks there is a zone, so the array of them, closed by a PTR_NULL,
\* does not fill. An area of a thread has 8K records for its 64K free blocks
\* (stat_file.c:235); for the launcher's, NZones is the records it has in use.
ASSUME AreaAssumption == /\ Size \in Nat \ {0} /\ NZones \in Nat \ {0} /\ Unit \in Nat \ {0}
                         /\ MaxFree \in Nat /\ MaxFree >= NZones + 2 /\ Requests \subseteq Nat \ {0}

Records == 1 .. NZones
PTR_FF == Size + 2   \* the address of no cell

VARIABLES
    zones_free, \* the free blocks, up to the first PTR_NULL
    mem,        \* mem[r]: the memory of record r
    cells,      \* cells[p]: the record whose owner wrote it and still relies on
                \* it; 0 for anything else
    asked,      \* history: asked[r], the bytes that were asked for
    wrote       \* history: wrote[r], the cells of r that its owner has written

vars == <<zones_free, mem, cells, asked, wrote>>

Span(p, n) == [ptr |-> p, size |-> n]
Nothing == Span(0, 0)
End(b) == b.ptr + b.size
Extent(b) == b.ptr .. End(b) - 1

-----------------------------------------------------------------------------
(* The free blocks *)

\* allocate_new_zone adds a cell in any case, realloc_zone rounds up.
NewLength(s) == s \div Unit + 1
\* Mutant: bytes of a begun cell are forgotten.
RoundedDown(s) == s \div Unit
Rounded(s) == (s + Unit - 1) \div Unit

Fits(F, i, n) == i < MaxFree /\ F[i].size >= n
FreeZones(n) == {i \in 1 .. Len(zones_free) : Fits(zones_free, i, n)}
First(S) == CHOOSE i \in S : \A j \in S : i <= j
\* find_free_zone: the first that is large enough.
find_free_zone(n) == First(FreeZones(n))

\* allocate_zone: the block at i loses its first n cells.
Cut(F, i, n) ==
    IF F[i].size > n THEN [F EXCEPT ![i] = Span(@.ptr + n, @.size - n)] ELSE RemoveAt(F, i)

\* The places in F of blocks that end, or begin, at p.
EndsAt(F, p) == {i \in 1 .. Len(F) : End(F[i]) = p}
BeginsAt(F, p) == {i \in 1 .. Len(F) : F[i].ptr = p}
JoinedBlock(F, z) ==
    LET before == EndsAt(F, z.ptr)
        behind == BeginsAt(F, End(z))
        first  == IF before = {} THEN z.ptr ELSE F[First(before)].ptr
        last   == IF behind = {} THEN End(z) ELSE End(F[First(behind)])
    IN  Span(first, last - first)
TakeOut(F, S) == IF S = {} THEN F ELSE RemoveAt(F, First(S))
\* Mutant: a block before the memory is not joined with it.
JoinBehind(F, z) ==
    IF z.size = 0 THEN F
    ELSE Append(TakeOut(F, BeginsAt(F, End(z))),
                Span(z.ptr, End(JoinedBlock(F, z)) - z.ptr))
\* free_zone_area: blocks that touch leave the list, what they make with the
\* memory goes to its end.
free_zone_area(F, z) ==
    IF z.size = 0 THEN F
    ELSE LET G == TakeOut(F, BeginsAt(F, End(z)))
         IN  Append(TakeOut(G, EndsAt(G, z.ptr)), JoinedBlock(F, z))

-----------------------------------------------------------------------------
(* The operations *)

\* find_null_ptr: the first record without memory. The code writes behind the
\* array when there is none; the model does not ask then.
FreeRecords == {r \in Records : mem[r].ptr = 0}
find_null_ptr == First(FreeRecords)

\* allocate_new_zone; malloc_c asks for one more cell. Nothing is cleared.
allocate_new_zone(s) ==
    /\ FreeRecords # {} /\ FreeZones(NewLength(s)) # {}
    /\ LET r == find_null_ptr
           i == find_free_zone(NewLength(s))
       IN  /\ mem' = [mem EXCEPT ![r] = Span(zones_free[i].ptr, NewLength(s))]
           /\ zones_free' = Cut(zones_free, i, NewLength(s))
           /\ asked' = [asked EXCEPT ![r] = s]
    /\ UNCHANGED <<cells, wrote>>

\* allocate_new_empty_zone: a record without memory; the last is never taken.
allocate_new_empty_zone ==
    /\ FreeRecords \ {NZones} # {}
    /\ mem' = [mem EXCEPT ![find_null_ptr] = Span(PTR_FF, 0)]
    /\ UNCHANGED <<zones_free, cells, asked, wrote>>

\* free_zone of the last reference, free_c.
free_zone(r) ==
    /\ mem[r].ptr # 0
    /\ zones_free' = free_zone_area(zones_free, mem[r])
    /\ mem' = [mem EXCEPT ![r] = Nothing]
    /\ cells' = [p \in 1 .. Size |-> IF p \in Extent(mem[r]) THEN 0 ELSE cells[p]]
    /\ asked' = [asked EXCEPT ![r] = 0] /\ wrote' = [wrote EXCEPT ![r] = 0]

\* The blocks right behind zone r that are as large as the new zone altogether.
Contiguous(r, n) ==
    {i \in 1 .. Len(zones_free) : zones_free[i].ptr = End(mem[r]) /\ n <= zones_free[i].size}

GrowZone(r, s) ==
    \E i \in Contiguous(r, Rounded(s)) :
        /\ mem[r].size \in 1 .. Rounded(s) - 1
        /\ zones_free' = [zones_free EXCEPT ![i] =
                              Span(mem[r].ptr + Rounded(s), End(@) - (mem[r].ptr + Rounded(s)))]
        /\ cells' = [p \in 1 .. Size |->
                        IF p \in End(mem[r]) .. mem[r].ptr + Rounded(s) - 1 THEN 0 ELSE cells[p]]
        /\ mem' = [mem EXCEPT ![r].size = Rounded(s)]
        /\ asked' = [asked EXCEPT ![r] = s]
        /\ UNCHANGED wrote

\* memset_c and memcpy_c into the n cells from p on; nobody relies on z any more.
\* Mutant: nothing is copied.
NotCopied(z, p, n) == [q \in 1 .. Size |-> IF q \in p + z.size .. p + n - 1 THEN 0 ELSE cells[q]]
CopiedTo(z, p, n) ==
    [q \in 1 .. Size |-> IF q \in p .. p + z.size - 1 THEN cells[z.ptr + (q - p)]
                        ELSE IF q \in p + z.size .. p + n - 1 \/ q \in Extent(z) THEN 0
                        ELSE cells[q]]

\* The old memory is given back when the new has been taken.
MoveZone(r, s) ==
    LET n == Rounded(s)
        i == find_free_zone(n)
        p == zones_free[i].ptr
    IN  /\ mem[r].ptr # 0 /\ mem[r].size < n
        /\ mem[r].size = 0 \/ Contiguous(r, n) = {}
        /\ FreeZones(n) # {}
        /\ zones_free' = free_zone_area(Cut(zones_free, i, n), mem[r])
        /\ cells' = CopiedTo(mem[r], p, n)
        /\ mem' = [mem EXCEPT ![r] = Span(p, n)]
        /\ asked' = [asked EXCEPT ![r] = s]
        /\ UNCHANGED wrote

\* realloc_zone: a zone large enough stays; with no room at all it answers -1.
realloc_zone(r, s) == GrowZone(r, s) \/ MoveZone(r, s)

\* expand_zone doubles the size until it is enough; more than the area has
\* finds no room.
Doublings == {m \in 1 .. Size : \E k \in 0 .. Size : m = 2 ^ k}
IsDoubled(n, m, s) == n * m * Unit >= s /\ (m = 1 \/ n * (m \div 2) * Unit < s)
expand_zone(r, s) ==
    LET n == IF mem[r].size = 0 THEN 1 ELSE mem[r].size
    IN  /\ mem[r].size * Unit < s
        /\ \E m \in Doublings : IsDoubled(n, m, s) /\ realloc_zone(r, Unit * n * m)

\* The owner fills its zone.
WriteZone(r) ==
    /\ mem[r].size > wrote[r]
    /\ wrote' = [wrote EXCEPT ![r] = mem[r].size]
    /\ cells' = [p \in 1 .. Size |-> IF p \in Extent(mem[r]) THEN r ELSE cells[p]]
    /\ UNCHANGED <<zones_free, mem, asked>>

-----------------------------------------------------------------------------

\* init_new_mem_area: one free block.
Init ==
    /\ zones_free = <<Span(1, Size)>> /\ mem = [r \in Records |-> Nothing]
    /\ cells = [p \in 1 .. Size |-> 0]
    /\ asked = [r \in Records |-> 0] /\ wrote = [r \in Records |-> 0]

Next ==
    \/ allocate_new_empty_zone
    \/ \E s \in Requests : allocate_new_zone(s)
    \/ \E r \in Records :
        \/ free_zone(r) \/ WriteZone(r)
        \/ \E s \in Requests : realloc_zone(r, s) \/ expand_zone(r, s)
Spec == Init /\ [][Next]_vars

-----------------------------------------------------------------------------
(* Properties *)

TypeOK ==
    /\ zones_free \in Seq([ptr : 1 .. Size, size : 1 .. Size])
    /\ mem \in [Records -> [ptr : 0 .. Size + 2, size : 0 .. Size]]
    /\ cells \in [1 .. Size -> 0 .. NZones]
    /\ wrote \in [Records -> 0 .. Size] /\ asked \in [Records -> Nat]

\* The area keeps what FreeBlocks promises, taking the first block that fits.
Area == INSTANCE FreeBlocks WITH
            Lengths <- 1 .. Size,
            blocks <- ToSet(zones_free),
            zones <- [r \in Records |-> IF mem[r].size = 0 THEN Nothing ELSE mem[r]]
ImplementsFreeBlocks == Area!Spec

\* What the owner has written is in its zone wherever realloc_zone has put it,
\* and nobody else writes there.
ContentIsKept ==
    \A r \in Records : \A k \in 0 .. wrote[r] - 1 : cells[mem[r].ptr + k] = r

\* A zone has room for the bytes its owner asked for last.
RoomForRequest == \A r \in Records : mem[r].size * Unit >= asked[r]

=============================================================================
