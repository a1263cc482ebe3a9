-------------------------- MODULE FreeBlocks_proofs --------------------------
(***************************************************************************)
(* The area is always divided into zones and free blocks that do not       *)
(* touch: for every size of the area and any number of records.            *)
(*                                                                         *)
(* The four invariants of FreeBlocks are inductive together. Whatever a    *)
(* step does, it exchanges one free block, or the memory of one zone, for  *)
(* others with the same cells; Taken and Given are treated once, by lemmas *)
(* about any set of blocks.                                                *)
(***************************************************************************)
EXTENDS FreeBlocks, TLAPS

IInv == TypeOK /\ NoOverlap /\ NothingLost /\ BlocksAreJoined

\* Blocks that are inside the area and apart from each other, with gaps.
GoodBlocks(B) ==
    /\ B \subseteq Block
    /\ \A b \in B : Inside(b)
    /\ \A b, c \in B : b # c => End(b) < c.ptr \/ End(c) < b.ptr

LEMMA SpanFields == \A p, n : Span(p, n).ptr = p /\ Span(p, n).size = n
    BY DEF Span

LEMMA BlockFields ==
    ASSUME NEW b \in Block
    PROVE  b.ptr \in Nat /\ b.size \in Nat /\ b.size > 0 /\ End(b) \in Nat /\ b = Span(b.ptr, b.size)
    BY DEF Block, End, Span

LEMMA SpanIsBlock == \A p \in Nat, n \in Nat \ {0} : Span(p, n) \in Block
    BY DEF Block, Span

\* The rest of a block is in the block, behind what is taken.
LEMMA RestOfBlock ==
    ASSUME NEW b \in Block, NEW n \in Nat \ {0}, b.size >= n
    PROVE  /\ Rest(b, n) \subseteq Block
           /\ \A c \in Rest(b, n) : c.ptr = b.ptr + n /\ End(c) = End(b)
           /\ \A p \in Nat : In(p, b) => In(p, Span(b.ptr, n)) \/ \E c \in Rest(b, n) : In(p, c)
<1>1. CASE b.size = n
    BY <1>1, BlockFields, SpanFields DEF Rest, In, End
<1>2. CASE b.size # n
    <2>1. Rest(b, n) = {Span(b.ptr + n, b.size - n)}
        BY <1>2 DEF Rest
    <2>2. b.ptr + n \in Nat /\ b.size - n \in Nat \ {0}
        BY <1>2, BlockFields
    <2>3. b.ptr \in Nat /\ b.size \in Nat
        BY BlockFields
    <2>4. /\ Span(b.ptr + n, b.size - n).ptr = b.ptr + n
          /\ End(Span(b.ptr + n, b.size - n)) = End(b)
          /\ End(Span(b.ptr, n)) = b.ptr + n
        BY <2>2, <2>3, SpanFields DEF End
    <2>5. Span(b.ptr + n, b.size - n) \in Block
        BY <2>2, SpanIsBlock
    <2>6. \A p \in Nat : In(p, b) => In(p, Span(b.ptr, n)) \/ In(p, Span(b.ptr + n, b.size - n))
        BY <2>2, <2>3, <2>4, SpanFields DEF In
    <2> QED
        BY <2>1, <2>4, <2>5, <2>6
<1> QED
    BY <1>1, <1>2

\* Taking from a block leaves good blocks, all apart from what is taken.
LEMMA TakenIsGood ==
    ASSUME NEW B, GoodBlocks(B), NEW b \in B, NEW n \in Nat \ {0}, b.size >= n
    PROVE  /\ GoodBlocks((B \ {b}) \cup Rest(b, n))
           /\ \A c \in (B \ {b}) \cup Rest(b, n) : Apart(Span(b.ptr, n), c)
<1> DEFINE R == Rest(b, n)
<1>1. b \in Block /\ B \subseteq Block
    BY DEF GoodBlocks
<1>2. R \subseteq Block /\ (\A c \in R : c.ptr = b.ptr + n /\ End(c) = End(b))
    BY <1>1, RestOfBlock
<1>4. \A c, d \in R : c = d
    BY DEF Rest
<1>5. \A c \in R : \A d \in B \ {b} : End(c) < d.ptr \/ End(d) < c.ptr
    <2> SUFFICES ASSUME NEW c \in R, NEW d \in B \ {b} PROVE End(c) < d.ptr \/ End(d) < c.ptr
        OBVIOUS
    <2>1. End(b) < d.ptr \/ End(d) < b.ptr
        BY DEF GoodBlocks
    <2> QED
        BY <1>1, <1>2, <2>1, BlockFields
<1>6. GoodBlocks((B \ {b}) \cup R)
    <2>1. \A c \in R : Inside(c)
        BY <1>1, <1>2, BlockFields DEF GoodBlocks, Inside
    <2> QED
        BY <1>1, <1>2, <1>4, <1>5, <2>1 DEF GoodBlocks
<1>7. ASSUME NEW c \in (B \ {b}) \cup R PROVE Apart(Span(b.ptr, n), c)
    <2>0. End(Span(b.ptr, n)) = b.ptr + n
        BY SpanFields DEF End
    <2>1. CASE c \in R
        BY <1>1, <1>2, <2>0, <2>1, SpanFields, BlockFields DEF Apart
    <2>2. CASE c \in B \ {b}
        <3>1. End(b) < c.ptr \/ End(c) < b.ptr
            BY <2>2 DEF GoodBlocks
        <3>2. b.ptr + n <= End(b)
            BY <1>1, BlockFields DEF End
        <3>3. c \in Block
            BY <1>1, <2>2
        <3> QED
            BY <1>1, <2>0, <3>1, <3>2, <3>3, BlockFields, SpanFields DEF Apart
    <2> QED
        BY <1>7, <2>1, <2>2
<1> QED
    BY <1>6, <1>7

\* A cell of the blocks is in what is taken or in what is left.
LEMMA TakenLosesNothing ==
    ASSUME NEW B, NEW b \in B, b \in Block, NEW n \in Nat \ {0}, b.size >= n,
           NEW p \in Nat, \E c \in B : In(p, c)
    PROVE  In(p, Span(b.ptr, n)) \/ \E c \in (B \ {b}) \cup Rest(b, n) : In(p, c)
<1>1. PICK c \in B : In(p, c)
    OBVIOUS
<1>2. CASE c = b
    BY <1>1, <1>2, RestOfBlock
<1>3. CASE c # b
    BY <1>1, <1>3
<1> QED
    BY <1>2, <1>3

\* What memory and the blocks that touch it make.
LEMMA JoinedEnds ==
    ASSUME NEW B, GoodBlocks(B), NEW z \in Block
    PROVE  /\ \A b \in B : End(b) = z.ptr => Joined(B, z).ptr = b.ptr
           /\ \A b \in B : b.ptr = End(z) => End(Joined(B, z)) = End(b)
           /\ (\A b \in B : End(b) # z.ptr) => Joined(B, z).ptr = z.ptr
           /\ (\A b \in B : b.ptr # End(z)) => End(Joined(B, z)) = End(z)
           /\ Joined(B, z) \in Block
           /\ Joined(B, z).ptr <= z.ptr /\ End(z) <= End(Joined(B, z))
<1> DEFINE l == LeftEnd(B, z)
           r == RightEnd(B, z)
<1>0. B \subseteq Block /\ z.ptr \in Nat /\ z.size \in Nat \ {0} /\ End(z) \in Nat /\ z.ptr < End(z)
    BY BlockFields DEF GoodBlocks, End
<1>1. \A b, c \in B : End(b) = z.ptr /\ End(c) = z.ptr => b = c
    <2> SUFFICES ASSUME NEW b \in B, NEW c \in B, End(b) = z.ptr, End(c) = z.ptr, b # c PROVE FALSE
        OBVIOUS
    <2>1. End(b) < c.ptr \/ End(c) < b.ptr
        BY DEF GoodBlocks
    <2>2. b.ptr < End(b) /\ c.ptr < End(c) /\ b.ptr \in Nat /\ c.ptr \in Nat
        BY <1>0, BlockFields DEF End
    <2> QED
        BY <2>1, <2>2, <1>0
<1>2. \A b, c \in B : b.ptr = End(z) /\ c.ptr = End(z) => b = c
    <2> SUFFICES ASSUME NEW b \in B, NEW c \in B, b.ptr = End(z), c.ptr = End(z), b # c PROVE FALSE
        OBVIOUS
    <2>1. End(b) < c.ptr \/ End(c) < b.ptr
        BY DEF GoodBlocks
    <2>2. b.ptr < End(b) /\ c.ptr < End(c) /\ End(b) \in Nat /\ End(c) \in Nat
        BY <1>0, BlockFields DEF End
    <2> QED
        BY <2>1, <2>2, <1>0
<1>3. \A b \in B : End(b) = z.ptr => l = b.ptr
    BY <1>1 DEF LeftEnd
<1>4. \A b \in B : b.ptr = End(z) => r = End(b)
    BY <1>2 DEF RightEnd
<1>5. (\A b \in B : End(b) # z.ptr) => l = z.ptr
    BY DEF LeftEnd
<1>6. (\A b \in B : b.ptr # End(z)) => r = End(z)
    BY DEF RightEnd
<1>7. l \in Nat /\ l <= z.ptr
    <2>1. ASSUME NEW b \in B, End(b) = z.ptr PROVE l \in Nat /\ l <= z.ptr
        BY <1>0, <1>3, <2>1, BlockFields DEF End
    <2> QED
        BY <1>0, <1>5, <2>1
<1>8. r \in Nat /\ End(z) <= r
    <2>1. ASSUME NEW b \in B, b.ptr = End(z) PROVE r \in Nat /\ End(z) <= r
        BY <1>0, <1>4, <2>1, BlockFields DEF End
    <2> QED
        BY <1>0, <1>6, <2>1
<1>9. Joined(B, z) = Span(l, r - l) /\ r - l \in Nat \ {0}
    BY <1>0, <1>7, <1>8 DEF Joined
<1>10. Joined(B, z).ptr = l /\ End(Joined(B, z)) = r /\ Joined(B, z) \in Block
    BY <1>7, <1>8, <1>9, SpanFields, SpanIsBlock DEF End
<1> QED
    BY <1>3, <1>4, <1>5, <1>6, <1>7, <1>8, <1>10

\* Memory that is given back leaves good blocks, which take no other memory.
LEMMA GivenIsGood ==
    ASSUME NEW B, GoodBlocks(B), NEW z \in Block, Inside(z), \A b \in B : Apart(z, b)
    PROVE  /\ GoodBlocks(Given(B, z))
           /\ \A w \in Block : Apart(w, z) /\ (\A b \in B : Apart(w, b)) => \A b \in Given(B, z) : Apart(w, b)
           /\ \A p \in Nat : In(p, z) \/ (\E b \in B : In(p, b)) => \E b \in Given(B, z) : In(p, b)
<1> DEFINE J == Joined(B, z)
<1>0. B \subseteq Block /\ z.ptr \in Nat /\ End(z) \in Nat /\ z.ptr < End(z)
    BY BlockFields DEF GoodBlocks, End
<1>1. J \in Block /\ J.ptr <= z.ptr /\ End(z) <= End(J)
    BY JoinedEnds
<1>2. \A b \in B : b.ptr \in Nat /\ End(b) \in Nat /\ b.ptr < End(b)
    BY <1>0, BlockFields DEF End
<1>3. J.ptr \in Nat /\ End(J) \in Nat
    BY <1>1, BlockFields
<1>4. J.ptr = z.ptr \/ \E b \in B : End(b) = z.ptr /\ J.ptr = b.ptr
    BY JoinedEnds
<1>5. End(J) = End(z) \/ \E b \in B : b.ptr = End(z) /\ End(J) = End(b)
    BY JoinedEnds
<1>6. \A b \in B \ Touching(B, z) : End(b) < J.ptr \/ End(J) < b.ptr
    <2> SUFFICES ASSUME NEW b \in B, b \notin Touching(B, z) PROVE End(b) < J.ptr \/ End(J) < b.ptr
        OBVIOUS
    <2>1. End(b) # z.ptr /\ b.ptr # End(z)
        BY DEF Touching
    <2>2. End(b) < z.ptr \/ End(z) < b.ptr
        BY <1>0, <1>2, <2>1 DEF Apart
    <2>3. CASE End(b) < z.ptr
        <3>1. ASSUME NEW c \in B, End(c) = z.ptr, J.ptr = c.ptr PROVE End(b) < J.ptr
            BY <1>0, <1>2, <2>1, <2>3, <3>1 DEF GoodBlocks
        <3> QED
            BY <1>4, <2>3, <3>1
    <2>4. CASE End(z) < b.ptr
        <3>1. ASSUME NEW c \in B, c.ptr = End(z), End(J) = End(c) PROVE End(J) < b.ptr
            BY <1>0, <1>2, <2>1, <2>4, <3>1 DEF GoodBlocks
        <3> QED
            BY <1>5, <2>4, <3>1
    <2> QED
        BY <2>2, <2>3, <2>4
<1>7. Inside(J)
    <2>1. J.ptr >= 1
        BY <1>4 DEF GoodBlocks, Inside
    <2>2. End(J) <= Size + 1
        BY <1>5 DEF GoodBlocks, Inside
    <2> QED
        BY <2>1, <2>2 DEF Inside
<1>8. GoodBlocks(Given(B, z))
    <2>1. Given(B, z) = (B \ Touching(B, z)) \cup {J}
        BY DEF Given
    <2> QED
        BY <1>0, <1>1, <1>6, <1>7, <2>1 DEF GoodBlocks
<1>9. ASSUME NEW w \in Block, Apart(w, z), \A b \in B : Apart(w, b)
      PROVE  Apart(w, J)
    <2>0. w.ptr \in Nat /\ End(w) \in Nat /\ w.ptr < End(w)
        BY BlockFields DEF End
    <2>1. CASE End(w) <= z.ptr
        <3>1. ASSUME NEW b \in B, End(b) = z.ptr, J.ptr = b.ptr PROVE End(w) <= J.ptr
            BY <1>2, <1>9, <2>0, <2>1, <3>1 DEF Apart
        <3> QED
            BY <1>4, <2>1, <3>1 DEF Apart
    <2>2. CASE End(z) <= w.ptr
        <3>1. ASSUME NEW b \in B, b.ptr = End(z), End(J) = End(b) PROVE End(J) <= w.ptr
            BY <1>2, <1>9, <2>0, <2>2, <3>1 DEF Apart
        <3> QED
            BY <1>5, <2>2, <3>1 DEF Apart
    <2> QED
        BY <1>9, <2>1, <2>2 DEF Apart
<1>10. ASSUME NEW p \in Nat, NEW b \in Touching(B, z), In(p, b) PROVE In(p, J)
    <2>0. b \in B
        BY DEF Touching
    <2>1. CASE End(b) = z.ptr
        <3>1. J.ptr = b.ptr
            BY <2>0, <2>1, JoinedEnds
        <3> QED
            BY <1>0, <1>1, <1>2, <1>3, <1>10, <2>0, <2>1, <3>1 DEF In
    <2>2. CASE b.ptr = End(z)
        <3>1. End(J) = End(b)
            BY <2>0, <2>2, JoinedEnds
        <3> QED
            BY <1>0, <1>1, <1>2, <1>3, <1>10, <2>0, <2>2, <3>1 DEF In
    <2> QED
        BY <2>1, <2>2 DEF Touching
<1>11. ASSUME NEW p \in Nat, In(p, z) PROVE In(p, J)
    BY <1>0, <1>1, <1>3, <1>11 DEF In
<1> QED
    BY <1>8, <1>9, <1>10, <1>11 DEF Given

\* Memory that is apart from the blocks is apart from a block's parts.
LEMMA TakenIsApart ==
    ASSUME NEW B, GoodBlocks(B), NEW b \in B, NEW n \in Nat \ {0}, b.size >= n,
           NEW w \in Block, \A c \in B : Apart(w, c)
    PROVE  /\ Apart(w, Span(b.ptr, n))
           /\ \A c \in (B \ {b}) \cup Rest(b, n) : Apart(w, c)
<1>1. b \in Block
    BY DEF GoodBlocks
<1>2. /\ b.ptr \in Nat /\ b.ptr + n \in Nat /\ b.ptr + n <= End(b) /\ End(b) \in Nat
      /\ w.ptr \in Nat /\ End(w) \in Nat
    BY <1>1, BlockFields DEF End
<1>3. Apart(w, b)
    OBVIOUS
<1>4. Span(b.ptr, n).ptr = b.ptr /\ End(Span(b.ptr, n)) = b.ptr + n
    BY SpanFields DEF End
<1>5. Apart(w, Span(b.ptr, n))
    BY <1>2, <1>3, <1>4 DEF Apart
<1>6. ASSUME NEW c \in Rest(b, n) PROVE Apart(w, c)
    <2>1. c.ptr = b.ptr + n /\ End(c) = End(b)
        BY <1>1, RestOfBlock
    <2> QED
        BY <1>2, <1>3, <2>1 DEF Apart
<1> QED
    BY <1>5, <1>6

\* What is taken is a block in the area.
LEMMA TakenIsInside ==
    ASSUME NEW b \in Block, Inside(b), NEW n \in Nat \ {0}, b.size >= n
    PROVE  /\ Span(b.ptr, n) \in Block /\ Inside(Span(b.ptr, n))
           /\ Span(b.ptr, n).ptr = b.ptr /\ Span(b.ptr, n).size = n /\ End(Span(b.ptr, n)) = b.ptr + n
<1>1. b.ptr \in Nat /\ b.size \in Nat /\ b.ptr + n <= End(b) /\ End(b) <= Size + 1 /\ b.ptr >= 1
    BY BlockFields DEF End, Inside
<1>2. Span(b.ptr, n).ptr = b.ptr /\ Span(b.ptr, n).size = n /\ End(Span(b.ptr, n)) = b.ptr + n
    BY SpanFields DEF End
<1>3. Span(b.ptr, n) \in Block
    BY <1>1, SpanIsBlock
<1> QED
    BY <1>1, <1>2, <1>3, SizeAssumption, BlockFields DEF Inside

-----------------------------------------------------------------------------

\* The invariant in the terms of the lemmas.
LEMMA InvariantParts ==
    ASSUME IInv
    PROVE  /\ GoodBlocks(blocks)
           /\ \A r \in Records : zones[r].size > 0 =>
                  /\ zones[r] \in Block /\ Inside(zones[r])
                  /\ \A b \in blocks : Apart(zones[r], b)
           /\ \A r \in Records : zones[r].size > 0 \/ zones[r] = Nothing
           /\ \A p \in Nat : ~In(p, Nothing)
<1>1. GoodBlocks(blocks)
    BY DEF IInv, GoodBlocks, TypeOK, NoOverlap, BlocksAreJoined
<1>2. \A r \in Records : zones[r] \in Block \/ zones[r] = Nothing
    BY DEF IInv, TypeOK
<1>3. Nothing.ptr = 0 /\ Nothing.size = 0 /\ End(Nothing) = 0
    BY SpanFields DEF Nothing, End
<1>4. \A r \in Records : zones[r].size > 0 \/ zones[r] = Nothing
    BY <1>2, BlockFields
<1>5. \A p \in Nat : ~In(p, Nothing)
    BY <1>3 DEF In
<1> QED
    BY <1>1, <1>2, <1>3, <1>4, <1>5 DEF IInv, NoOverlap

\* A step to good blocks B and the memory z for record r keeps the invariant,
\* if z is apart from the rest and no cell is lost.
LEMMA StepKeeps ==
    ASSUME IInv, NEW r \in Records, NEW B, NEW z \in Block \cup {Nothing},
           blocks' = B, zones' = [zones EXCEPT ![r] = z], GoodBlocks(B),
           z.size > 0 => Inside(z),
           z.size > 0 => \A b \in B : Apart(z, b),
           z.size > 0 => \A q \in Records : q # r /\ zones[q].size > 0 => Apart(z, zones[q]),
           \A q \in Records : q # r /\ zones[q].size > 0 => \A b \in B : Apart(zones[q], b),
           \A p \in Nat : In(p, zones[r]) \/ (\E b \in blocks : In(p, b)) => In(p, z) \/ \E b \in B : In(p, b)
    PROVE  IInv'
<1>1. /\ zones'[r] = z
      /\ \A q \in Records : q # r => zones'[q] = zones[q]
    BY DEF IInv, TypeOK
<1>2. TypeOK'
    BY DEF IInv, TypeOK, GoodBlocks
<1>3. NoOverlap'
    <2>1. \A b \in blocks' : Inside(b)
        BY DEF GoodBlocks
    <2>2. \A q \in Records : zones'[q].size > 0 => Inside(zones'[q])
        BY <1>1 DEF IInv, NoOverlap
    <2>3. \A q \in Records, b \in blocks' : zones'[q].size > 0 => Apart(zones'[q], b)
        BY <1>1
    <2>4. ASSUME NEW q \in Records, NEW s \in Records, q # s, zones'[q].size > 0, zones'[s].size > 0
          PROVE  Apart(zones'[q], zones'[s])
        <3>1. CASE q = r
            BY <1>1, <2>4, <3>1
        <3>2. CASE s = r
            BY <1>1, <2>4, <3>2 DEF Apart
        <3>3. CASE q # r /\ s # r
            BY <1>1, <2>4, <3>3 DEF IInv, NoOverlap
        <3> QED
            BY <3>1, <3>2, <3>3
    <2> QED
        BY <2>1, <2>2, <2>3, <2>4 DEF NoOverlap, Inside, Apart, End
<1>4. NothingLost'
    <2> SUFFICES ASSUME NEW p \in 1 .. Size
                 PROVE  (\E b \in B : In(p, b)) \/ (\E q \in Records : In(p, zones'[q]))
        BY DEF NothingLost, In, End
    <2>1. p \in Nat
        BY SizeAssumption
    <2>2. (\E b \in blocks : In(p, b)) \/ (\E q \in Records : In(p, zones[q]))
        BY DEF IInv, NothingLost
    <2>3. CASE \E b \in blocks : In(p, b)
        BY <1>1, <2>1, <2>3
    <2>4. ASSUME NEW q \in Records, In(p, zones[q])
          PROVE  (\E b \in B : In(p, b)) \/ (\E s \in Records : In(p, zones'[s]))
        BY <1>1, <2>1, <2>4
    <2> QED
        BY <2>2, <2>3, <2>4
<1>5. BlocksAreJoined'
    BY DEF BlocksAreJoined, GoodBlocks, End
<1> QED
    BY <1>2, <1>3, <1>4, <1>5 DEF IInv

\* Two pieces that follow each other, taken as one.
LEMMA ApartFromBoth ==
    ASSUME NEW w \in Block, NEW z \in Block, NEW m \in Nat \ {0},
           Apart(w, z), Apart(w, Span(End(z), m))
    PROVE  Apart(w, Span(z.ptr, z.size + m))
<1>1. /\ w.ptr \in Nat /\ End(w) \in Nat /\ w.ptr < End(w)
      /\ z.ptr \in Nat /\ z.size \in Nat /\ End(z) = z.ptr + z.size
    BY BlockFields DEF End
<1>2. /\ Span(End(z), m).ptr = End(z) /\ End(Span(End(z), m)) = End(z) + m
      /\ Span(z.ptr, z.size + m).ptr = z.ptr /\ End(Span(z.ptr, z.size + m)) = z.ptr + (z.size + m)
    BY SpanFields DEF End
<1> QED
    BY <1>1, <1>2 DEF Apart

-----------------------------------------------------------------------------

LEMMA InitInv == Init => IInv
<1> SUFFICES ASSUME Init PROVE IInv
    OBVIOUS
<1>1. /\ Span(1, Size) \in Block /\ Span(1, Size).ptr = 1 /\ End(Span(1, Size)) = 1 + Size
      /\ Nothing.size = 0
    BY SizeAssumption, SpanFields, SpanIsBlock DEF Nothing, End
<1>2. blocks = {Span(1, Size)} /\ \A r \in Records : zones[r] = Nothing
    BY DEF Init
<1>3. TypeOK
    BY <1>1 DEF Init, TypeOK
<1>4. NoOverlap
    BY <1>1, <1>2, SizeAssumption DEF NoOverlap, Inside
<1>5. NothingLost
    BY <1>1, <1>2, SizeAssumption DEF NothingLost, In
<1>6. BlocksAreJoined
    BY <1>2 DEF BlocksAreJoined
<1> QED
    BY <1>3, <1>4, <1>5, <1>6 DEF IInv

LEMMA TakeKeeps ==
    ASSUME IInv, NEW r \in Records, NEW n \in Nat \ {0}, Take(r, n)
    PROVE  IInv'
<1>1. PICK b \in blocks : /\ b.size >= n /\ blocks' = Taken(b, n)
                          /\ zones' = [zones EXCEPT ![r] = Span(b.ptr, n)]
    BY DEF Take
<1> DEFINE z == Span(b.ptr, n)
           B == (blocks \ {b}) \cup Rest(b, n)
<1>2. b \in Block /\ Inside(b) /\ GoodBlocks(blocks) /\ zones[r] = Nothing
    BY InvariantParts DEF GoodBlocks, Take
<1>3. z \in Block /\ Inside(z)
    BY <1>1, <1>2, TakenIsInside
<1>4. GoodBlocks(B) /\ \A c \in B : Apart(z, c)
    BY <1>1, <1>2, TakenIsGood
<1>5. ASSUME NEW q \in Records, zones[q].size > 0
      PROVE  Apart(zones[q], z) /\ \A c \in B : Apart(zones[q], c)
    <2>1. zones[q] \in Block /\ \A c \in blocks : Apart(zones[q], c)
        BY <1>5, InvariantParts
    <2> QED
        BY <1>1, <1>2, <2>1, TakenIsApart
<1>6. ASSUME NEW p \in Nat, In(p, zones[r]) \/ (\E c \in blocks : In(p, c))
      PROVE  In(p, z) \/ \E c \in B : In(p, c)
    <2>1. \E c \in blocks : In(p, c)
        BY <1>2, <1>6, InvariantParts
    <2> QED
        BY <1>1, <1>2, <2>1, TakenLosesNothing
<1>7. blocks' = B
    BY <1>1 DEF Taken
<1>8. \A q \in Records : zones[q].size > 0 => Apart(z, zones[q])
    BY <1>5 DEF Apart
<1> HIDE DEF z, B
<1> QED
    BY <1>1, <1>3, <1>4, <1>5, <1>6, <1>7, <1>8, StepKeeps DEF z

LEMMA GiveKeeps ==
    ASSUME IInv, NEW r \in Records, Give(r)
    PROVE  IInv'
<1> DEFINE z == zones[r]
           B == Given(blocks, z)
<1>1. z.size > 0 /\ z \in Block /\ Inside(z) /\ GoodBlocks(blocks) /\ \A b \in blocks : Apart(z, b)
    BY InvariantParts DEF Give
<1>2. GoodBlocks(B)
    BY <1>1, GivenIsGood
<1>3. ASSUME NEW q \in Records, q # r, zones[q].size > 0
      PROVE  \A b \in B : Apart(zones[q], b)
    <2>1. zones[q] \in Block /\ (\A b \in blocks : Apart(zones[q], b)) /\ Apart(zones[q], z)
        BY <1>1, <1>3, InvariantParts DEF IInv, NoOverlap
    <2> QED
        BY <1>1, <2>1, GivenIsGood
<1>4. \A p \in Nat : In(p, z) \/ (\E b \in blocks : In(p, b)) => \E b \in B : In(p, b)
    BY <1>1, GivenIsGood
<1>5. blocks' = B /\ zones' = [zones EXCEPT ![r] = Nothing]
    BY DEF Give
<1>6. ~(Nothing.size > 0)
    BY SpanFields DEF Nothing
<1> HIDE DEF z, B
<1> QED
    BY <1>2, <1>3, <1>4, <1>5, <1>6, StepKeeps DEF z

LEMMA GrowKeeps ==
    ASSUME IInv, NEW r \in Records, NEW n \in Nat \ {0}, Grow(r, n)
    PROVE  IInv'
<1> DEFINE o == zones[r]
           m == n - o.size
<1>1. PICK b \in blocks : /\ b.ptr = End(o) /\ b.size >= m
                          /\ blocks' = Taken(b, m) /\ zones' = [zones EXCEPT ![r] = Span(o.ptr, n)]
    BY DEF Grow
<1> DEFINE t == Span(b.ptr, m)
           z == Span(o.ptr, n)
           B == (blocks \ {b}) \cup Rest(b, m)
<1>2. o.size > 0 /\ o.size < n
    BY DEF Grow
<1>3. /\ o \in Block /\ Inside(o) /\ o.ptr \in Nat /\ o.size \in Nat /\ End(o) = o.ptr + o.size
      /\ b \in Block /\ Inside(b) /\ GoodBlocks(blocks)
      /\ \A c \in blocks : Apart(o, c)
    BY <1>2, InvariantParts, BlockFields DEF GoodBlocks, End
<1>4. m \in Nat \ {0} /\ n = o.size + m
    BY <1>2, <1>3
<1>5. t \in Block /\ Inside(t) /\ t = Span(End(o), m) /\ End(t) = End(o) + m /\ t.ptr = End(o)
    BY <1>1, <1>3, <1>4, TakenIsInside
<1>6. z \in Block /\ z.ptr = o.ptr /\ End(z) = End(t) /\ z = Span(o.ptr, o.size + m)
    BY <1>3, <1>4, <1>5, SpanIsBlock, SpanFields DEF End
<1>7. Inside(z)
    BY <1>3, <1>5, <1>6 DEF Inside
<1>8. GoodBlocks(B) /\ \A c \in B : Apart(t, c)
    BY <1>1, <1>3, <1>4, TakenIsGood
<1>9. ASSUME NEW w \in Block, Apart(w, o), Apart(w, t) PROVE Apart(z, w)
    <2>1. Apart(w, z)
        BY <1>3, <1>4, <1>5, <1>6, <1>9, ApartFromBoth
    <2> QED
        BY <2>1 DEF Apart
<1>10. \A c \in B : Apart(o, c)
    BY <1>1, <1>3, <1>4, TakenIsApart
<1>11. ASSUME NEW c \in B PROVE Apart(z, c)
    <2>1. c \in Block /\ Apart(c, o) /\ Apart(c, t)
        BY <1>8, <1>10 DEF GoodBlocks, Apart
    <2> QED
        BY <1>9, <2>1
<1>12. ASSUME NEW q \in Records, q # r, zones[q].size > 0
       PROVE  Apart(z, zones[q]) /\ \A c \in B : Apart(zones[q], c)
    <2>1. /\ zones[q] \in Block /\ (\A c \in blocks : Apart(zones[q], c)) /\ Apart(zones[q], o)
        BY <1>2, <1>12, InvariantParts DEF IInv, NoOverlap
    <2>2. Apart(zones[q], t) /\ \A c \in B : Apart(zones[q], c)
        BY <1>1, <1>3, <1>4, <2>1, TakenIsApart
    <2> QED
        BY <1>9, <2>1, <2>2
<1>13. ASSUME NEW p \in Nat, In(p, o) \/ (\E c \in blocks : In(p, c))
       PROVE  In(p, z) \/ \E c \in B : In(p, c)
    <2>1. In(p, o) \/ In(p, t) \/ \E c \in B : In(p, c)
        BY <1>1, <1>3, <1>4, <1>13, TakenLosesNothing
    <2>2. In(p, o) \/ In(p, t) => In(p, z)
        BY <1>3, <1>4, <1>5, <1>6 DEF In
    <2> QED
        BY <2>1, <2>2
<1>14. blocks' = B
    BY <1>1 DEF Taken
<1> HIDE DEF z, B, o
<1> QED
    BY <1>1, <1>6, <1>7, <1>8, <1>11, <1>12, <1>13, <1>14, StepKeeps DEF z, o

LEMMA MoveKeeps ==
    ASSUME IInv, NEW r \in Records, NEW n \in Nat \ {0}, Move(r, n)
    PROVE  IInv'
<1> DEFINE o == zones[r]
<1>1. PICK b \in blocks : /\ b.size >= n /\ blocks' = Given(Taken(b, n), o)
                          /\ zones' = [zones EXCEPT ![r] = Span(b.ptr, n)]
    BY DEF Move
<1> DEFINE z == Span(b.ptr, n)
           T == (blocks \ {b}) \cup Rest(b, n)
           B == Given(T, o)
<1>2. /\ o.size > 0 /\ o \in Block /\ Inside(o) /\ b \in Block /\ Inside(b) /\ GoodBlocks(blocks)
      /\ \A c \in blocks : Apart(o, c)
    BY InvariantParts DEF Move, GoodBlocks
<1>3. z \in Block /\ Inside(z)
    BY <1>1, <1>2, TakenIsInside
<1>4. GoodBlocks(T) /\ \A c \in T : Apart(z, c)
    BY <1>1, <1>2, TakenIsGood
<1>5. ASSUME NEW w \in Block, \A c \in blocks : Apart(w, c)
      PROVE  Apart(w, z) /\ \A c \in T : Apart(w, c)
    BY <1>1, <1>2, <1>5, TakenIsApart
<1>6. Apart(o, z) /\ \A c \in T : Apart(o, c)
    BY <1>2, <1>5
<1>7. GoodBlocks(B)
    BY <1>2, <1>4, <1>6, GivenIsGood
<1>8. ASSUME NEW w \in Block, Apart(w, o), \A c \in T : Apart(w, c)
      PROVE  \A c \in B : Apart(w, c)
    BY <1>2, <1>4, <1>6, <1>8, GivenIsGood
<1>9. \A c \in B : Apart(z, c)
    BY <1>3, <1>4, <1>6, <1>8 DEF Apart
<1>10. ASSUME NEW q \in Records, q # r, zones[q].size > 0
       PROVE  Apart(z, zones[q]) /\ \A c \in B : Apart(zones[q], c)
    <2>1. /\ zones[q] \in Block /\ (\A c \in blocks : Apart(zones[q], c)) /\ Apart(zones[q], o)
        BY <1>2, <1>10, InvariantParts DEF IInv, NoOverlap
    <2>2. Apart(zones[q], z) /\ \A c \in T : Apart(zones[q], c)
        BY <1>5, <2>1
    <2> QED
        BY <1>8, <2>1, <2>2 DEF Apart
<1>11. ASSUME NEW p \in Nat, In(p, o) \/ (\E c \in blocks : In(p, c))
       PROVE  In(p, z) \/ \E c \in B : In(p, c)
    <2>1. In(p, o) \/ In(p, z) \/ \E c \in T : In(p, c)
        BY <1>1, <1>2, <1>11, TakenLosesNothing
    <2>2. In(p, o) \/ (\E c \in T : In(p, c)) => \E c \in B : In(p, c)
        BY <1>2, <1>4, <1>6, GivenIsGood
    <2> QED
        BY <2>1, <2>2
<1>12. blocks' = B
    BY <1>1 DEF Taken
<1> HIDE DEF z, B, o
<1> QED
    BY <1>1, <1>3, <1>7, <1>9, <1>10, <1>11, <1>12, StepKeeps DEF z, o

-----------------------------------------------------------------------------

LEMMA NextInv == IInv /\ [Next]_vars => IInv'
<1> SUFFICES ASSUME IInv, [Next]_vars PROVE IInv'
    OBVIOUS
<1>1. ASSUME NEW r \in Records, Give(r) PROVE IInv'
    BY <1>1, GiveKeeps
<1>2. ASSUME NEW r \in Records, NEW n \in Lengths, Take(r, n) \/ Grow(r, n) \/ Move(r, n) PROVE IInv'
    BY <1>2, LengthsAssumption, TakeKeeps, GrowKeeps, MoveKeeps
<1>3. ASSUME UNCHANGED vars PROVE IInv'
    BY <1>3 DEF vars, IInv, TypeOK, NoOverlap, NothingLost, BlocksAreJoined, Inside, Apart, In, End
<1> QED
    BY <1>1, <1>2, <1>3 DEF Next

THEOREM AreaIsDivided == Spec => []IInv
<1> QED
    BY InitInv, NextInv, PTL DEF Spec

\* Free blocks and zones are what the types say, whatever an area of the
\* allocator is asked for.
THEOREM TypeCorrect == Spec => []TypeOK
<1>1. IInv => TypeOK
    BY DEF IInv
<1> QED
    BY <1>1, AreaIsDivided, PTL

\* No cell of an area is in two zones or in a zone and a free block (do_allocate,
\* free_zone_area, realloc_zone), for areas of any size.
THEOREM NeverOverlaps == Spec => []NoOverlap
<1>1. IInv => NoOverlap
    BY DEF IInv
<1> QED
    BY <1>1, AreaIsDivided, PTL

\* No cell of an area is lost (allocate_zone, free_zone_area).
THEOREM NeverLoses == Spec => []NothingLost
<1>1. IInv => NothingLost
    BY DEF IInv
<1> QED
    BY <1>1, AreaIsDivided, PTL

\* Free blocks that touch are one (free_zone_area).
THEOREM AlwaysJoined == Spec => []BlocksAreJoined
<1>1. IInv => BlocksAreJoined
    BY DEF IInv
<1> QED
    BY <1>1, AreaIsDivided, PTL

=============================================================================
