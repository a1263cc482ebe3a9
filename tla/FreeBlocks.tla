------------------------------ MODULE FreeBlocks ------------------------------
(***************************************************************************)
(* What an area of the allocator (libcon/base/mem_base.c) promises: every  *)
(* cell of 16 bytes belongs to one zone or to one free block, and free     *)
(* blocks that touch are one. Which fitting block is taken is left open;   *)
(* ZoneArea takes the first of its list, and implements this module.       *)
(***************************************************************************)
EXTENDS Integers

CONSTANTS
    Size,      \* cells of the area: 1 .. Size
    Records,   \* records of zones: zones_buffer
    Lengths    \* lengths, in cells, that are asked for

ASSUME SizeAssumption == Size \in Nat \ {0}
ASSUME LengthsAssumption == Lengths \subseteq Nat \ {0}

VARIABLES
    blocks,    \* the free blocks
    zones      \* zones[r]: the memory of record r
vars == <<blocks, zones>>

Block == [ptr : Nat, size : Nat \ {0}]
Span(p, n) == [ptr |-> p, size |-> n]
Nothing == Span(0, 0)
End(b) == b.ptr + b.size

\* Mutants: what is taken stays in the block; the rest is dropped.
KeepAll(b, n) == {b}
DropRest(b, n) == {}
\* Block b without its first n cells.
Rest(b, n) == IF b.size = n THEN {} ELSE {Span(b.ptr + n, b.size - n)}
Taken(b, n) == (blocks \ {b}) \cup Rest(b, n)

\* The memory z and the blocks of B that touch it.
Touching(B, z) == {b \in B : End(b) = z.ptr \/ b.ptr = End(z)}
LeftEnd(B, z) == IF \E b \in B : End(b) = z.ptr THEN (CHOOSE b \in B : End(b) = z.ptr).ptr ELSE z.ptr
RightEnd(B, z) == IF \E b \in B : b.ptr = End(z) THEN End(CHOOSE b \in B : b.ptr = End(z)) ELSE End(z)
Joined(B, z) == Span(LeftEnd(B, z), RightEnd(B, z) - LeftEnd(B, z))
\* Mutant: the memory is added as it is.
AddApart(B, z) == B \cup {z}
Given(B, z) == (B \ Touching(B, z)) \cup {Joined(B, z)}

-----------------------------------------------------------------------------

Take(r, n) ==
    /\ zones[r].size = 0
    /\ \E b \in blocks :
        /\ b.size >= n
        /\ blocks' = Taken(b, n)
        /\ zones' = [zones EXCEPT ![r] = Span(b.ptr, n)]

Give(r) ==
    /\ zones[r].size > 0
    /\ blocks' = Given(blocks, zones[r])
    /\ zones' = [zones EXCEPT ![r] = Nothing]

\* The zone grows into the block behind it.
Grow(r, n) ==
    /\ zones[r].size \in 1 .. n - 1
    /\ \E b \in blocks :
        /\ b.ptr = End(zones[r]) /\ b.size >= n - zones[r].size
        /\ blocks' = Taken(b, n - zones[r].size)
        /\ zones' = [zones EXCEPT ![r] = Span(zones[r].ptr, n)]

\* The zone moves to a larger place.
Move(r, n) ==
    /\ zones[r].size \in 1 .. n - 1
    /\ \E b \in blocks :
        /\ b.size >= n
        /\ blocks' = Given(Taken(b, n), zones[r])
        /\ zones' = [zones EXCEPT ![r] = Span(b.ptr, n)]

Init == blocks = {Span(1, Size)} /\ zones = [r \in Records |-> Nothing]
Next == \E r \in Records :
    \/ Give(r)
    \/ \E n \in Lengths : Take(r, n) \/ Grow(r, n) \/ Move(r, n)
Spec == Init /\ [][Next]_vars

-----------------------------------------------------------------------------
(* Properties *)

TypeOK == blocks \subseteq Block /\ zones \in [Records -> Block \cup {Nothing}]

Inside(b) == b.ptr >= 1 /\ End(b) <= Size + 1
Apart(b, c) == End(b) <= c.ptr \/ End(c) <= b.ptr
In(p, b) == p >= b.ptr /\ p < End(b)

\* No cell is in two zones, in two free blocks, or in a zone and a free block
\* (do_allocate, free_zone_area and realloc_zone).
NoOverlap ==
    /\ \A b \in blocks : Inside(b)
    /\ \A r \in Records : zones[r].size > 0 => Inside(zones[r])
    /\ \A r \in Records, b \in blocks : zones[r].size > 0 => Apart(zones[r], b)
    /\ \A q, r \in Records : q # r /\ zones[q].size > 0 /\ zones[r].size > 0 => Apart(zones[q], zones[r])

\* No cell is lost: it is in a free block or in a zone.
NothingLost ==
    \A p \in 1 .. Size : (\E b \in blocks : In(p, b)) \/ (\E r \in Records : In(p, zones[r]))

\* Two free blocks have something between them: free_zone_area joins them, so
\* that memory given back can be taken as one again.
BlocksAreJoined == \A b, c \in blocks : b # c => End(b) < c.ptr \/ End(c) < b.ptr

=============================================================================
