--------------------------- MODULE ZoneArea_proofs ---------------------------
(***************************************************************************)
(* Proofs about ZoneArea. The area is shown to be FreeBlocks, so what      *)
(* FreeBlocks_proofs proves of free blocks and zones (they are apart, they *)
(* do not touch, they fill the area) holds of the array zones_free and the *)
(* records, and with it what the owners of the zones rely on.              *)
(*                                                                         *)
(* The inductive invariant IInv has four parts:                            *)
(*   TypeInv         types, and zones_free lists each of its blocks once;  *)
(*   A!IInv          the invariant of FreeBlocks, of the set of the listed *)
(*                   blocks and of the records with memory;                *)
(*   ContentInv      no owner has written beyond its zone, and what it has *)
(*                   written is there;                                     *)
(*   RoomForRequest  a zone has the bytes that were asked for.             *)
(* The second part is preserved because every step is one of FreeBlocks    *)
(* or leaves it alone (StepIsAreaStep), and FreeBlocks preserves it.       *)
(***************************************************************************)
EXTENDS ZoneArea, SequenceTheorems, FiniteSetTheorems, WellFoundedInduction, TLAPS

Kept(r) == IF mem[r].size = 0 THEN Nothing ELSE mem[r]
Blocks == ToSet(zones_free)

\* The theorems of FreeBlocks about the area as FreeBlocks sees it.
A == INSTANCE FreeBlocks_proofs WITH
         Lengths <- 1 .. Size, blocks <- Blocks, zones <- [r \in Records |-> Kept(r)]

Distinct(F) == \A i, j \in 1 .. Len(F) : F[i] = F[j] => i = j
BlockList(F) == F \in Seq(A!Block) /\ Distinct(F)

-----------------------------------------------------------------------------
(* Numbers *)

\* The constants.
LEMMA Sizes ==
  /\ Size \in Nat \ {0} /\ NZones \in Nat \ {0} /\ Unit \in Nat \ {0}
  /\ 1 .. Size \subseteq Nat \ {0} /\ Requests \subseteq Nat \ {0}
BY AreaAssumption

\* First is the least of a set of numbers: the numbers are well founded.
LEMMA MinOfNats ==
  ASSUME NEW S \in SUBSET Nat, S # {}
  PROVE  First(S) \in S /\ \A j \in S : First(S) <= j
<1> DEFINE R == OpToRel(<, Nat)
<1>1. ASSUME NEW y \in Nat, NEW x \in Nat, y < x
      PROVE  <<y, x>> \in R
  <2>1. <<y, x>> \in Nat \X Nat /\ <<y, x>>[1] < <<y, x>>[2]
    BY <1>1
  <2> QED BY <2>1 DEF OpToRel
<1>2. PICK m \in S : \A y \in S : ~(<<y, m>> \in R)
  BY NatLessThanWellFounded, WFMin
<1> HIDE DEF R
<1>3. ASSUME NEW y \in S PROVE m <= y
  <2>1. m \in Nat /\ y \in Nat /\ ~(y < m)
    BY <1>1, <1>2
  <2> QED BY <2>1
<1> QED BY <1>3 DEF First

\* First of a set of places is one of them.
LEMMA FirstPlace ==
  ASSUME NEW n \in Nat, NEW S, S \subseteq 1 .. n, S # {}
  PROVE  First(S) \in S /\ First(S) \in 1 .. n /\ \A j \in S : First(S) <= j
<1>1. S \in SUBSET Nat
  OBVIOUS
<1> QED BY <1>1, MinOfNats

-----------------------------------------------------------------------------
(* Lists of blocks *)

\* FreeBlocks and ZoneArea mean the same by a span and its end.
LEMMA SameNames ==
  /\ \A b : A!End(b) = End(b)
  /\ \A p, n : A!Span(p, n) = Span(p, n) /\ Span(p, n).ptr = p /\ Span(p, n).size = n
  /\ A!Nothing = Nothing /\ Nothing.ptr = 0 /\ Nothing.size = 0
BY DEF A!End, End, A!Span, Span, A!Nothing, Nothing

\* A block has an end behind its beginning.
LEMMA BlockParts ==
  ASSUME NEW b \in A!Block
  PROVE  /\ b.ptr \in Nat /\ b.size \in Nat /\ b.size > 0
         /\ End(b) \in Nat /\ End(b) = b.ptr + b.size /\ b.ptr < End(b)
         /\ b = Span(b.ptr, b.size)
BY DEF A!Block, End, Span

\* The blocks of a list, and the set of them.
LEMMA ListParts ==
  ASSUME NEW F, F \in Seq(A!Block)
  PROVE  /\ Len(F) \in Nat /\ DOMAIN F = 1 .. Len(F)
         /\ \A i \in 1 .. Len(F) : F[i] \in A!Block /\ F[i] \in ToSet(F)
         /\ ToSet(F) \subseteq A!Block
         /\ \A b \in ToSet(F) : \E i \in 1 .. Len(F) : b = F[i]
BY DEF ToSet

\* One block leaves the list.
LEMMA Removed ==
  ASSUME NEW F, BlockList(F), NEW i \in 1 .. Len(F)
  PROVE  BlockList(RemoveAt(F, i)) /\ ToSet(RemoveAt(F, i)) = ToSet(F) \ {F[i]}
<1> DEFINE G == RemoveAt(F, i)
<1>0. F \in Seq(A!Block) /\ Distinct(F) /\ Len(F) \in Nat /\ DOMAIN F = 1 .. Len(F)
  BY ListParts DEF BlockList
<1>1. /\ G \in Seq(A!Block) /\ Len(G) = Len(F) - 1
      /\ \A j \in 1 .. Len(G) : G[j] = IF j < i THEN F[j] ELSE F[j + 1]
  <2> DEFINE L == SubSeq(F, 1, i - 1)
             R == SubSeq(F, i + 1, Len(F))
  <2>1. /\ L \in Seq(A!Block) /\ Len(L) = i - 1
        /\ \A j \in 1 .. i - 1 : L[j] = F[j]
    BY <1>0
  <2>2. /\ R \in Seq(A!Block) /\ Len(R) = Len(F) - i
        /\ \A j \in 1 .. Len(F) - i : R[j] = F[i + j]
    <3> DEFINE n == Len(F)
    <3>1. i + 1 \in Int /\ n \in Int /\ \A j \in i + 1 .. n : F[j] \in A!Block
      BY <1>0
    <3>2. /\ R \in Seq(A!Block) /\ Len(R) = IF i + 1 <= n THEN n - (i + 1) + 1 ELSE 0
          /\ \A j \in 1 .. n - (i + 1) + 1 : R[j] = F[(i + 1) + j - 1]
      BY <3>1, SubSeqProperties
    <3>3. i \in Int /\ n \in Int /\ i <= n
      BY <1>0
    <3> HIDE DEF n, R
    <3>4. n - (i + 1) + 1 = n - i /\ (~(i + 1 <= n) => n - i = 0)
          /\ \A j \in 1 .. n - i : (i + 1) + j - 1 = i + j
      BY <3>3
    <3>5. Len(R) = n - i
      BY <3>2, <3>4
    <3> QED BY <3>2, <3>4, <3>5 DEF n
  <2>3. G = L \o R
    BY DEF RemoveAt
  <2> HIDE DEF L, R, G
  <2>4. /\ G \in Seq(A!Block) /\ Len(G) = Len(L) + Len(R)
        /\ \A j \in 1 .. Len(G) : G[j] = IF j <= Len(L) THEN L[j] ELSE R[j - Len(L)]
    <3>1. L \o R \in Seq(A!Block) /\ Len(L \o R) = Len(L) + Len(R)
          /\ \A j \in 1 .. Len(L) + Len(R) :
                (L \o R)[j] = IF j <= Len(L) THEN L[j] ELSE R[j - Len(L)]
      BY <2>1, <2>2, ConcatProperties
    <3> QED BY <2>3, <3>1
  <2>5. ASSUME NEW j \in 1 .. Len(G)
        PROVE  G[j] = IF j < i THEN F[j] ELSE F[j + 1]
    <3>1. CASE j < i
      <4>1. j \in 1 .. i - 1 /\ j <= Len(L)
        BY <1>0, <2>1, <2>2, <2>4, <3>1
      <4> QED BY <2>1, <2>4, <3>1, <4>1
    <3>2. CASE ~(j < i)
      <4>1. j - (i - 1) \in 1 .. Len(F) - i /\ ~(j <= Len(L)) /\ i + (j - (i - 1)) = j + 1
            /\ j - Len(L) = j - (i - 1)
        BY <1>0, <2>1, <2>2, <2>4, <3>2
      <4> QED BY <2>2, <2>4, <3>2, <4>1
    <3> QED BY <3>1, <3>2
  <2> QED BY <1>0, <2>1, <2>2, <2>4, <2>5
<1>2. DOMAIN G = 1 .. Len(G)
  BY <1>1
<1> HIDE DEF G
<1>3. Distinct(G)
  <2> SUFFICES ASSUME NEW j \in 1 .. Len(G), NEW k \in 1 .. Len(G), G[j] = G[k]
               PROVE  j = k
    BY DEF Distinct
  <2> DEFINE at(x) == IF x < i THEN x ELSE x + 1
  <2>1. at(j) \in 1 .. Len(F) /\ at(k) \in 1 .. Len(F) /\ (at(j) = at(k) => j = k)
    BY <1>0, <1>1
  <2>2. G[j] = F[at(j)] /\ G[k] = F[at(k)]
    BY <1>1
  <2> HIDE DEF at
  <2> QED BY <1>0, <2>1, <2>2 DEF Distinct
<1>4. ToSet(G) = ToSet(F) \ {F[i]}
  <2>1. ASSUME NEW j \in 1 .. Len(G)
        PROVE  G[j] \in ToSet(F) \ {F[i]}
    <3>1. PICK k \in 1 .. Len(F) : G[j] = F[k] /\ k # i
      BY <1>0, <1>1
    <3> QED BY <1>0, <3>1 DEF ToSet, Distinct
  <2>2. ASSUME NEW k \in 1 .. Len(F), F[k] # F[i]
        PROVE  \E j \in 1 .. Len(G) : G[j] = F[k]
    <3>1. CASE k < i
      <4>1. k \in 1 .. Len(G) /\ G[k] = F[k]
        BY <1>0, <1>1, <3>1
      <4> QED BY <4>1
    <3>2. CASE k > i
      <4>1. k - 1 \in 1 .. Len(G) /\ ~(k - 1 < i) /\ (k - 1) + 1 = k
        BY <1>0, <1>1, <3>2
      <4>2. G[k - 1] = F[k]
        BY <1>1, <4>1
      <4> QED BY <4>1, <4>2
    <3> QED BY <1>0, <2>2, <3>1, <3>2
  <2>3. ToSet(G) \subseteq ToSet(F) \ {F[i]}
    BY <1>2, <2>1 DEF ToSet
  <2>4. \A k \in 1 .. Len(F) : F[k] # F[i] => F[k] \in ToSet(G)
    BY <1>2, <2>2 DEF ToSet
  <2> QED BY <1>0, <2>3, <2>4 DEF ToSet
<1> QED BY <1>1, <1>3, <1>4 DEF BlockList, G

\* One block is exchanged for another.
LEMMA Exchanged ==
  ASSUME NEW F, BlockList(F), NEW i \in 1 .. Len(F), NEW b \in A!Block, b \notin ToSet(F)
  PROVE  /\ BlockList([F EXCEPT ![i] = b])
         /\ ToSet([F EXCEPT ![i] = b]) = (ToSet(F) \ {F[i]}) \cup {b}
<1> DEFINE G == [F EXCEPT ![i] = b]
<1>0. F \in Seq(A!Block) /\ Distinct(F) /\ Len(F) \in Nat /\ DOMAIN F = 1 .. Len(F)
  BY ListParts DEF BlockList
<1>1. /\ G \in Seq(A!Block) /\ Len(G) = Len(F) /\ DOMAIN G = 1 .. Len(F) /\ G[i] = b
      /\ \A j \in 1 .. Len(F) : j # i => G[j] = F[j]
  BY <1>0
<1> HIDE DEF G
<1>2. \A j \in 1 .. Len(F) : F[j] \in ToSet(F)
  BY <1>0 DEF ToSet
<1>3. Distinct(G)
  BY <1>0, <1>1, <1>2 DEF Distinct
<1>4. ToSet(G) = (ToSet(F) \ {F[i]}) \cup {b}
  BY <1>0, <1>1 DEF ToSet, Distinct
<1> QED BY <1>1, <1>3, <1>4 DEF BlockList, G

\* One block is added.
LEMMA Added ==
  ASSUME NEW F, BlockList(F), NEW b \in A!Block, b \notin ToSet(F)
  PROVE  BlockList(Append(F, b)) /\ ToSet(Append(F, b)) = ToSet(F) \cup {b}
<1> DEFINE G == Append(F, b)
<1>0. F \in Seq(A!Block) /\ Distinct(F) /\ Len(F) \in Nat /\ DOMAIN F = 1 .. Len(F)
  BY ListParts DEF BlockList
<1>1. /\ G \in Seq(A!Block) /\ Len(G) = Len(F) + 1 /\ G[Len(F) + 1] = b
      /\ \A j \in 1 .. Len(F) : G[j] = F[j]
  BY <1>0
<1>2. DOMAIN G = 1 .. Len(F) + 1
  BY <1>1
<1> HIDE DEF G
<1>3. \A j \in 1 .. Len(F) : F[j] \in ToSet(F)
  BY <1>0 DEF ToSet
<1>4. \A j \in 1 .. Len(F) + 1 : j \in 1 .. Len(F) \/ j = Len(F) + 1
  BY <1>0
<1>5. Len(F) + 1 \in 1 .. Len(F) + 1 /\ \A j \in 1 .. Len(F) : j \in 1 .. Len(F) + 1
  BY <1>0
<1>6. Distinct(G)
  BY <1>0, <1>1, <1>3, <1>4 DEF Distinct
<1>7. ToSet(G) = ToSet(F) \cup {b}
  BY <1>0, <1>1, <1>2, <1>4, <1>5 DEF ToSet
<1> QED BY <1>1, <1>6, <1>7 DEF BlockList, G

-----------------------------------------------------------------------------
(* Taking from the list and giving back *)

\* Blocks that are apart do not begin, or end, at the same place.
LEMMA ApartBlocks ==
  ASSUME NEW B, A!GoodBlocks(B), NEW b \in B, NEW c \in B
  PROVE  (b.ptr = c.ptr \/ End(b) = End(c)) => b = c
<1>1. b \in A!Block /\ c \in A!Block /\ (b # c => End(b) < c.ptr \/ End(c) < b.ptr)
  BY SameNames DEF A!GoodBlocks
<1> QED BY <1>1, BlockParts

\* allocate_zone: the block at i is left its rest, as FreeBlocks takes from it.
LEMMA CutIsTaken ==
  ASSUME NEW F, BlockList(F), A!GoodBlocks(ToSet(F)),
         NEW i \in 1 .. Len(F), NEW n \in Nat \ {0}, n <= F[i].size
  PROVE  /\ BlockList(Cut(F, i, n))
         /\ ToSet(Cut(F, i, n)) = (ToSet(F) \ {F[i]}) \cup A!Rest(F[i], n)
<1> DEFINE f == F[i]
           b == Span(f.ptr + n, f.size - n)
<1>0. f \in A!Block /\ f \in ToSet(F) /\ F \in Seq(A!Block) /\ ToSet(F) \subseteq A!Block
  BY ListParts DEF BlockList
<1>1. CASE f.size > n
  <2>1. b \in A!Block /\ b.ptr = f.ptr + n
    BY <1>0, <1>1 DEF A!Block, Span
  <2>2. ASSUME NEW c \in ToSet(F)
        PROVE  c # b
    <3>1. c \in A!Block /\ (c # f => End(f) < c.ptr \/ End(c) < f.ptr)
      BY <1>0, SameNames DEF A!GoodBlocks
    <3> QED BY <1>0, <1>1, <2>1, <3>1, BlockParts
  <2>3. Cut(F, i, n) = [F EXCEPT ![i] = b]
    BY <1>0, <1>1 DEF Cut
  <2>4. A!Rest(f, n) = {b}
    BY <1>0, <1>1, SameNames, BlockParts DEF A!Rest
  <2>5. BlockList([F EXCEPT ![i] = b])
        /\ ToSet([F EXCEPT ![i] = b]) = (ToSet(F) \ {F[i]}) \cup {b}
    <3> HIDE DEF b
    <3>1. b \in A!Block /\ b \notin ToSet(F) /\ i \in 1 .. Len(F)
      BY <2>1, <2>2
    <3>2. \A c \in A!Block : c \notin ToSet(F) =>
              /\ BlockList([F EXCEPT ![i] = c])
              /\ ToSet([F EXCEPT ![i] = c]) = (ToSet(F) \ {F[i]}) \cup {c}
      BY Exchanged
    <3> QED BY <3>1, <3>2
  <2> HIDE DEF b
  <2> QED BY <2>3, <2>4, <2>5
<1>2. CASE f.size = n
  <2>1. A!Rest(f, n) = {}
    BY <1>2 DEF A!Rest
  <2>2. Cut(F, i, n) = RemoveAt(F, i)
    BY <1>0, <1>2, BlockParts DEF Cut
  <2> QED BY <2>1, <2>2, Removed
<1> QED BY <1>0, <1>1, <1>2, BlockParts

\* free_zone_area takes the block that ends (or begins) at a place off the list;
\* there is at most one.
LEMMA TakenOut ==
  ASSUME NEW F, BlockList(F), A!GoodBlocks(ToSet(F)), NEW p
  PROVE  /\ BlockList(TakeOut(F, BeginsAt(F, p))) /\ BlockList(TakeOut(F, EndsAt(F, p)))
         /\ ToSet(TakeOut(F, BeginsAt(F, p))) = {b \in ToSet(F) : b.ptr # p}
         /\ ToSet(TakeOut(F, EndsAt(F, p))) = {b \in ToSet(F) : End(b) # p}
<1>0. /\ Len(F) \in Nat /\ \A i \in 1 .. Len(F) : F[i] \in ToSet(F)
      /\ \A b \in ToSet(F) : \E i \in 1 .. Len(F) : b = F[i]
  BY ListParts DEF BlockList
<1>1. ASSUME NEW S, S \subseteq 1 .. Len(F), S # {}
      PROVE  First(S) \in S /\ First(S) \in 1 .. Len(F)
  BY <1>0, <1>1, FirstPlace
<1>2. BlockList(TakeOut(F, BeginsAt(F, p)))
      /\ ToSet(TakeOut(F, BeginsAt(F, p))) = {b \in ToSet(F) : b.ptr # p}
  <2> DEFINE S == BeginsAt(F, p)
  <2>1. CASE S = {}
    BY <1>0, <2>1 DEF BeginsAt, TakeOut
  <2>2. CASE S # {}
    <3>1. PICK i \in 1 .. Len(F) : i = First(S) /\ F[i].ptr = p
      <4>1. S \subseteq 1 .. Len(F)
        BY DEF BeginsAt
      <4>2. First(S) \in S /\ First(S) \in 1 .. Len(F)
        BY <1>1, <2>2, <4>1
      <4> QED BY <4>2 DEF BeginsAt
    <3>2. TakeOut(F, S) = RemoveAt(F, i)
      BY <2>2, <3>1 DEF TakeOut
    <3>3. \A b \in ToSet(F) : b.ptr = p <=> b = F[i]
      BY <1>0, <3>1, ApartBlocks
    <3>4. BlockList(TakeOut(F, S)) /\ ToSet(TakeOut(F, S)) = ToSet(F) \ {F[i]}
      BY <3>2, Removed
    <3> QED BY <3>3, <3>4
  <2> QED BY <2>1, <2>2
<1>3. BlockList(TakeOut(F, EndsAt(F, p)))
      /\ ToSet(TakeOut(F, EndsAt(F, p))) = {b \in ToSet(F) : End(b) # p}
  <2> DEFINE S == EndsAt(F, p)
  <2>1. CASE S = {}
    BY <1>0, <2>1 DEF EndsAt, TakeOut
  <2>2. CASE S # {}
    <3>1. PICK i \in 1 .. Len(F) : i = First(S) /\ End(F[i]) = p
      <4>1. S \subseteq 1 .. Len(F)
        BY DEF EndsAt
      <4>2. First(S) \in S /\ First(S) \in 1 .. Len(F)
        BY <1>1, <2>2, <4>1
      <4> QED BY <4>2 DEF EndsAt
    <3>2. TakeOut(F, S) = RemoveAt(F, i)
      BY <2>2, <3>1 DEF TakeOut
    <3>3. \A b \in ToSet(F) : End(b) = p <=> b = F[i]
      BY <1>0, <3>1, ApartBlocks
    <3>4. BlockList(TakeOut(F, S)) /\ ToSet(TakeOut(F, S)) = ToSet(F) \ {F[i]}
      BY <3>2, Removed
    <3> QED BY <3>3, <3>4
  <2> QED BY <2>1, <2>2
<1> QED BY <1>2, <1>3

\* The block free_zone_area makes is the one FreeBlocks joins.
LEMMA JoinedIsJoined ==
  ASSUME NEW F, BlockList(F), A!GoodBlocks(ToSet(F)), NEW z \in A!Block
  PROVE  JoinedBlock(F, z) = A!Joined(ToSet(F), z)
<1> DEFINE B == ToSet(F)
           before == EndsAt(F, z.ptr)
           behind == BeginsAt(F, End(z))
<1>0. /\ Len(F) \in Nat /\ \A i \in 1 .. Len(F) : F[i] \in B
      /\ \A b \in B : \E i \in 1 .. Len(F) : b = F[i]
  BY ListParts DEF BlockList
<1>1. ASSUME NEW S, S \subseteq 1 .. Len(F), S # {}
      PROVE  First(S) \in S
  BY <1>0, <1>1, FirstPlace
<1>2. (IF before = {} THEN z.ptr ELSE F[First(before)].ptr) = A!LeftEnd(B, z)
  <2>1. CASE before = {}
    <3>1. ~\E b \in B : A!End(b) = z.ptr
      BY <1>0, <2>1, SameNames DEF EndsAt
    <3> QED BY <2>1, <3>1 DEF A!LeftEnd
  <2>2. CASE before # {}
    <3>1. F[First(before)] \in B /\ End(F[First(before)]) = z.ptr
      BY <1>0, <1>1, <2>2 DEF EndsAt
    <3>2. \A b \in B : A!End(b) = z.ptr => b = F[First(before)]
      BY <3>1, ApartBlocks, SameNames
    <3>3. (CHOOSE b \in B : A!End(b) = z.ptr) = F[First(before)]
          /\ \E b \in B : A!End(b) = z.ptr
      BY <3>1, <3>2, SameNames
    <3> QED BY <2>2, <3>3 DEF A!LeftEnd
  <2> QED BY <2>1, <2>2
<1>3. (IF behind = {} THEN End(z) ELSE End(F[First(behind)])) = A!RightEnd(B, z)
  <2>1. CASE behind = {}
    <3>1. ~\E b \in B : b.ptr = A!End(z)
      BY <1>0, <2>1, SameNames DEF BeginsAt
    <3> QED BY <2>1, <3>1, SameNames DEF A!RightEnd
  <2>2. CASE behind # {}
    <3>1. F[First(behind)] \in B /\ F[First(behind)].ptr = End(z)
      BY <1>0, <1>1, <2>2 DEF BeginsAt
    <3>2. \A b \in B : b.ptr = A!End(z) => b = F[First(behind)]
      BY <3>1, ApartBlocks, SameNames
    <3>3. (CHOOSE b \in B : b.ptr = A!End(z)) = F[First(behind)]
          /\ \E b \in B : b.ptr = A!End(z)
      BY <3>1, <3>2, SameNames
    <3> QED BY <2>2, <3>3, SameNames DEF A!RightEnd
  <2> QED BY <2>1, <2>2
<1> QED BY <1>2, <1>3, SameNames DEF JoinedBlock, A!Joined

\* What is given back goes to the list as FreeBlocks says.
LEMMA FreedIsGiven ==
  ASSUME NEW F, BlockList(F), A!GoodBlocks(ToSet(F)),
         NEW z \in A!Block, A!Inside(z), \A b \in ToSet(F) : A!Apart(z, b)
  PROVE  /\ BlockList(free_zone_area(F, z))
         /\ ToSet(free_zone_area(F, z)) = A!Given(ToSet(F), z)
<1> DEFINE B == ToSet(F)
           G == TakeOut(F, BeginsAt(F, End(z)))
           H == TakeOut(G, EndsAt(G, z.ptr))
           j == JoinedBlock(F, z)
<1>1. BlockList(G) /\ ToSet(G) = {b \in B : b.ptr # End(z)}
  BY TakenOut
<1>2. A!GoodBlocks(ToSet(G))
  <2> HIDE DEF G
  <2> QED BY <1>1 DEF A!GoodBlocks
<1>3. BlockList(H) /\ ToSet(H) = {b \in B : b.ptr # End(z) /\ End(b) # z.ptr}
  <2> HIDE DEF G
  <2> QED BY <1>1, <1>2, TakenOut
<1>4. ToSet(H) = B \ A!Touching(B, z)
  <2> HIDE DEF H
  <2> QED BY <1>3, SameNames DEF A!Touching
<1>5. j = A!Joined(B, z)
  BY JoinedIsJoined
<1>6. j \in A!Block /\ j.ptr <= z.ptr /\ End(z) <= End(j)
  BY <1>5, Sizes, SameNames, A!JoinedEnds
<1>7. j \notin ToSet(H)
  <2> SUFFICES ASSUME j \in B PROVE FALSE
    BY <1>3
  <2>1. End(z) <= j.ptr \/ End(j) <= z.ptr
    BY SameNames DEF A!Apart
  <2> HIDE DEF j
  <2> QED BY <1>6, <2>1, BlockParts
<1>8. free_zone_area(F, z) = Append(H, j)
  BY BlockParts DEF free_zone_area
<1> HIDE DEF H, j
<1> QED BY <1>3, <1>4, <1>5, <1>6, <1>7, <1>8, Added DEF A!Given

-----------------------------------------------------------------------------
(* The invariant *)

TypeInv ==
    /\ BlockList(zones_free)
    /\ mem \in [Records -> [ptr : 0 .. Size + 2, size : 0 .. Size]]
    /\ cells \in [1 .. Size -> 0 .. NZones]
    /\ wrote \in [Records -> 0 .. Size] /\ asked \in [Records -> Nat]

ContentInv == ContentIsKept /\ \A r \in Records : wrote[r] <= mem[r].size

IInv == TypeInv /\ A!IInv /\ ContentInv /\ RoomForRequest

\* The memory of a record.
LEMMA MemParts ==
  ASSUME TypeInv, NEW r \in Records
  PROVE  /\ mem[r].ptr \in 0 .. Size + 2 /\ mem[r].ptr \in Nat /\ mem[r].size \in 0 .. Size
         /\ mem[r].size \in Nat /\ End(mem[r]) = mem[r].ptr + mem[r].size
         /\ wrote[r] \in Nat /\ asked[r] \in Nat
         /\ mem[r].size > 0 => mem[r] \in A!Block /\ Kept(r) = mem[r]
         /\ mem[r].size = 0 => Kept(r) = Nothing
BY DEF TypeInv, A!Block, End, Kept

\* What FreeBlocks' invariant says of the listed blocks and the records.
LEMMA AreaParts ==
  ASSUME TypeInv, A!IInv
  PROVE  /\ A!GoodBlocks(Blocks)
         /\ \A b \in Blocks : b \in A!Block /\ b.ptr >= 1 /\ End(b) <= Size + 1
         /\ \A r \in Records : mem[r].size > 0 =>
                /\ mem[r] \in A!Block /\ A!Inside(mem[r])
                /\ mem[r].ptr >= 1 /\ End(mem[r]) <= Size + 1
                /\ \A b \in Blocks : A!Apart(mem[r], b)
                /\ \A q \in Records : q # r /\ mem[q].size > 0 => A!Apart(mem[q], mem[r])
<1>1. /\ A!GoodBlocks(Blocks)
      /\ \A r \in Records : [q \in Records |-> Kept(q)][r].size > 0 =>
            /\ [q \in Records |-> Kept(q)][r] \in A!Block
            /\ A!Inside([q \in Records |-> Kept(q)][r])
            /\ \A b \in Blocks : A!Apart([q \in Records |-> Kept(q)][r], b)
            /\ \A q \in Records : q # r /\ [s \in Records |-> Kept(s)][q].size > 0
                  => A!Apart([s \in Records |-> Kept(s)][q], [s \in Records |-> Kept(s)][r])
  BY SameNames, MemParts DEF A!IInv, A!NoOverlap, A!TypeOK, A!BlocksAreJoined, A!GoodBlocks
<1>2. \A r \in Records : mem[r].size > 0 => [q \in Records |-> Kept(q)][r] = mem[r]
  BY MemParts
<1>3. \A b \in Blocks : b \in A!Block /\ b.ptr >= 1 /\ End(b) <= Size + 1
  BY <1>1, SameNames DEF A!GoodBlocks, A!Inside
<1>4. \A r \in Records : mem[r].size > 0 => mem[r].ptr >= 1 /\ End(mem[r]) <= Size + 1
  BY <1>1, <1>2, SameNames DEF A!Inside
<1> QED BY <1>1, <1>2, <1>3, <1>4

-----------------------------------------------------------------------------
(* Every step is one of FreeBlocks *)

\* find_null_ptr answers a record without memory.
LEMMA FirstRecord ==
  ASSUME TypeInv, A!IInv, FreeRecords # {}
  PROVE  find_null_ptr \in Records /\ mem[find_null_ptr].ptr = 0 /\ mem[find_null_ptr].size = 0
<1>1. find_null_ptr \in FreeRecords
  BY FirstPlace, Sizes DEF FreeRecords, find_null_ptr, Records
<1>2. find_null_ptr \in Records /\ mem[find_null_ptr].ptr = 0
  BY <1>1 DEF FreeRecords
<1> QED BY <1>2, AreaParts, MemParts

\* find_free_zone answers a block that is large enough, and cutting it is taking
\* from it.
LEMMA FirstFit ==
  ASSUME TypeInv, A!IInv, NEW n \in Nat \ {0}, FreeZones(n) # {}
  PROVE  LET i == find_free_zone(n)
         IN  /\ i \in 1 .. Len(zones_free) /\ zones_free[i] \in Blocks
             /\ zones_free[i].size >= n /\ n \in 1 .. Size
             /\ BlockList(Cut(zones_free, i, n))
             /\ ToSet(Cut(zones_free, i, n))
                  = (Blocks \ {zones_free[i]}) \cup A!Rest(zones_free[i], n)
<1> DEFINE i == find_free_zone(n)
<1>1. Len(zones_free) \in Nat /\ \A j \in 1 .. Len(zones_free) : zones_free[j] \in Blocks
  BY ListParts DEF TypeInv, BlockList, Blocks
<1>2. i \in FreeZones(n)
  <2>1. FreeZones(n) \subseteq 1 .. Len(zones_free)
    BY DEF FreeZones
  <2> QED BY <1>1, <2>1, FirstPlace DEF find_free_zone
<1>3. i \in 1 .. Len(zones_free) /\ zones_free[i].size >= n
  BY <1>2 DEF FreeZones, Fits
<1>4. zones_free[i] \in Blocks
  BY <1>1, <1>3
<1>5. n \in 1 .. Size
  BY <1>3, <1>4, AreaParts, BlockParts, Sizes
<1>6. A!GoodBlocks(ToSet(zones_free)) /\ BlockList(zones_free)
  BY AreaParts DEF TypeInv, Blocks
<1>7. n <= zones_free[i].size
  BY <1>3, <1>4, AreaParts, BlockParts
<1> HIDE DEF i
<1>8. /\ BlockList(Cut(zones_free, i, n))
      /\ ToSet(Cut(zones_free, i, n)) = (Blocks \ {zones_free[i]}) \cup A!Rest(zones_free[i], n)
  BY <1>3, <1>6, <1>7, CutIsTaken DEF Blocks
<1> QED BY <1>3, <1>4, <1>5, <1>8 DEF i

-----------------------------------------------------------------------------
(* Sizes *)

\* Rounding down loses less than a unit.
LEMMA Division ==
  ASSUME NEW a \in Nat
  PROVE  /\ a \div Unit \in Nat
         /\ Unit * (a \div Unit) <= a /\ a < Unit * (a \div Unit) + Unit
<1>1. Unit \in Nat /\ Unit > 0
  BY Sizes
<1>2. a \div Unit \in Int
  BY <1>1
<1>3. a = Unit * (a \div Unit) + (a % Unit) /\ a % Unit \in 0 .. Unit - 1
  BY <1>1
<1> QED BY <1>1, <1>2, <1>3

\* allocate_new_zone takes more than is asked for, realloc_zone enough.
LEMMA Lengths ==
  ASSUME NEW s \in Nat, s > 0
  PROVE  /\ NewLength(s) \in Nat \ {0} /\ NewLength(s) * Unit >= s
         /\ Rounded(s) \in Nat \ {0} /\ Rounded(s) * Unit >= s
<1>1. Unit \in Nat /\ Unit > 0 /\ s + Unit - 1 \in Nat
  BY Sizes
<1>2. /\ s \div Unit \in Nat /\ s < Unit * (s \div Unit) + Unit
  BY Division
<1>3. NewLength(s) \in Nat \ {0} /\ NewLength(s) * Unit >= s
  <2> DEFINE d == s \div Unit
  <2>1. d \in Nat /\ s < Unit * d + Unit
    BY <1>2
  <2> HIDE DEF d
  <2>2. (d + 1) * Unit = Unit * d + Unit /\ (d + 1) * Unit \in Nat
    BY <1>1, <2>1
  <2>3. Unit * d \in Nat
    BY <1>1, <2>1
  <2> QED BY <1>1, <2>1, <2>2, <2>3 DEF NewLength, d
<1>4. Rounded(s) \in Nat \ {0} /\ Rounded(s) * Unit >= s
  <2> DEFINE d == (s + Unit - 1) \div Unit
  <2>1. d \in Nat /\ s + Unit - 1 < Unit * d + Unit
    BY <1>1, Division
  <2> HIDE DEF d
  <2>2. d * Unit = Unit * d /\ Unit * d \in Nat /\ (d = 0 => Unit * d = 0)
    BY <1>1, <2>1
  <2>3. Unit * d >= s /\ d # 0
    BY <1>1, <2>1, <2>2
  <2> QED BY <2>1, <2>2, <2>3 DEF Rounded, d
<1> QED BY <1>3, <1>4

-----------------------------------------------------------------------------
(* What the steps do to the area *)

\* A new memory of one record, as FreeBlocks sees it.
LEMMA KeptChanges ==
  ASSUME TypeInv, NEW r \in Records, NEW z, mem' = [mem EXCEPT ![r] = z]
  PROVE  [q \in Records |-> Kept(q)]'
            = [[q \in Records |-> Kept(q)] EXCEPT ![r] = IF z.size = 0 THEN Nothing ELSE z]
<1>1. mem'[r] = z /\ \A q \in Records \ {r} : mem'[q] = mem[q]
  BY DEF TypeInv
<1> QED BY <1>1 DEF Kept

\* allocate_new_zone takes a block's beginning.
LEMMA AllocTakes ==
  ASSUME TypeInv, A!IInv, NEW s \in Requests, allocate_new_zone(s)
  PROVE  /\ A!Take(find_null_ptr, NewLength(s)) /\ NewLength(s) \in 1 .. Size
         /\ BlockList(zones_free')
<1> DEFINE r == find_null_ptr
           n == NewLength(s)
           i == find_free_zone(n)
           b == zones_free[i]
<1>1. n \in Nat \ {0}
  BY Lengths, Sizes
<1>2. FreeRecords # {} /\ FreeZones(n) # {} /\ zones_free' = Cut(zones_free, i, n)
      /\ mem' = [mem EXCEPT ![r] = Span(b.ptr, n)]
  BY DEF allocate_new_zone
<1>3. r \in Records /\ mem[r].size = 0 /\ Kept(r) = Nothing
  BY <1>2, FirstRecord, MemParts
<1>4. /\ b \in Blocks /\ b.size >= n /\ n \in 1 .. Size /\ BlockList(zones_free')
      /\ Blocks' = (Blocks \ {b}) \cup A!Rest(b, n)
  BY <1>1, <1>2, FirstFit DEF Blocks
<1>5. [q \in Records |-> Kept(q)]' = [[q \in Records |-> Kept(q)] EXCEPT ![r] = Span(b.ptr, n)]
  <2> DEFINE z == Span(b.ptr, n)
  <2>1. z.size = n
    BY SameNames
  <2> HIDE DEF z
  <2>2. mem' = [mem EXCEPT ![r] = z]
    BY <1>2 DEF z
  <2>3. [q \in Records |-> Kept(q)]' = [[q \in Records |-> Kept(q)] EXCEPT ![r] = z]
    BY <1>1, <1>3, <2>1, <2>2, KeptChanges
  <2> QED BY <2>3 DEF z
<1>6. A!Taken(b, n) = (Blocks \ {b}) \cup A!Rest(b, n)
  BY DEF A!Taken
<1> HIDE DEF r, n, b
<1>7. [q \in Records |-> Kept(q)][r].size = 0
  BY <1>3, SameNames
<1>8. A!Take(r, n)
  BY <1>4, <1>5, <1>6, <1>7, SameNames DEF A!Take
<1> QED BY <1>4, <1>8 DEF r, n

\* allocate_new_empty_zone changes nothing FreeBlocks sees.
LEMMA EmptyLeaves ==
  ASSUME TypeInv, A!IInv, allocate_new_empty_zone
  PROVE  UNCHANGED A!vars /\ UNCHANGED zones_free
<1> DEFINE r == find_null_ptr
<1>1. /\ r \in Records /\ Kept(r) = Nothing /\ mem' = [mem EXCEPT ![r] = Span(PTR_FF, 0)]
      /\ UNCHANGED zones_free
  BY FirstRecord, MemParts DEF allocate_new_empty_zone
<1>2. Span(PTR_FF, 0).size = 0
  BY SameNames
<1> HIDE DEF r
<1>3. [q \in Records |-> Kept(q)]' = [[q \in Records |-> Kept(q)] EXCEPT ![r] = Nothing]
  BY <1>1, <1>2, KeptChanges
<1>4. [q \in Records |-> Kept(q)]' = [q \in Records |-> Kept(q)]
  BY <1>1, <1>3
<1> QED BY <1>1, <1>4 DEF A!vars, Blocks

\* free_zone gives its memory back.
LEMMA FreeGives ==
  ASSUME TypeInv, A!IInv, NEW r \in Records, free_zone(r)
  PROVE  /\ A!Give(r) \/ UNCHANGED A!vars
         /\ BlockList(zones_free')
<1> DEFINE z == mem[r]
<1>1. zones_free' = free_zone_area(zones_free, z) /\ mem' = [mem EXCEPT ![r] = Nothing]
  BY DEF free_zone
<1>2. [q \in Records |-> Kept(q)]' = [[q \in Records |-> Kept(q)] EXCEPT ![r] = Nothing]
  BY <1>1, KeptChanges, SameNames
<1>3. CASE z.size = 0
  <2>1. zones_free' = zones_free /\ Kept(r) = Nothing
    BY <1>1, <1>3, MemParts DEF free_zone_area
  <2>2. [q \in Records |-> Kept(q)]' = [q \in Records |-> Kept(q)]
    BY <1>2, <2>1
  <2> QED BY <2>1, <2>2 DEF A!vars, Blocks, TypeInv
<1>4. CASE z.size # 0
  <2>1. /\ z.size > 0 /\ Kept(r) = z /\ z \in A!Block /\ A!Inside(z)
        /\ A!GoodBlocks(ToSet(zones_free)) /\ BlockList(zones_free)
        /\ \A b \in ToSet(zones_free) : A!Apart(z, b)
    BY <1>4, AreaParts, MemParts DEF Blocks, TypeInv
  <2>2. BlockList(zones_free') /\ Blocks' = A!Given(Blocks, z)
    <3> HIDE DEF z
    <3> QED BY <1>1, <2>1, FreedIsGiven DEF Blocks
  <2>3. [q \in Records |-> Kept(q)][r] = z
    BY <2>1
  <2> HIDE DEF z
  <2>4. A!Give(r)
    BY <1>2, <2>1, <2>2, <2>3, SameNames DEF A!Give
  <2> QED BY <2>2, <2>4
<1> QED BY <1>3, <1>4

\* realloc_zone extends a zone into the block behind it ...
LEMMA GrowGrows ==
  ASSUME TypeInv, A!IInv, NEW r \in Records, NEW s \in Nat, s > 0, GrowZone(r, s)
  PROVE  /\ A!Grow(r, Rounded(s)) /\ Rounded(s) \in 1 .. Size
         /\ BlockList(zones_free')
         /\ mem' = [mem EXCEPT ![r] = Span(mem[r].ptr, Rounded(s))]
         /\ \E b \in Blocks : b.ptr = End(mem[r]) /\ Rounded(s) <= b.size
<1> DEFINE n == Rounded(s)
           z == mem[r]
           m == n - z.size
<1>1. PICK i \in Contiguous(r, n) :
        /\ z.size \in 1 .. n - 1
        /\ zones_free' = [zones_free EXCEPT ![i] = Span(z.ptr + n, End(@) - (z.ptr + n))]
        /\ mem' = [mem EXCEPT ![r].size = n]
  BY DEF GrowZone
<1> DEFINE b == zones_free[i]
<1>2. i \in 1 .. Len(zones_free) /\ b.ptr = End(z) /\ n <= b.size
  BY DEF Contiguous
<1>3. b \in Blocks /\ b \in A!Block /\ b.ptr >= 1 /\ End(b) <= Size + 1
  <2>1. b \in Blocks
    BY <1>2, ListParts DEF TypeInv, BlockList, Blocks
  <2> QED BY <2>1, AreaParts
<1>4. /\ z.ptr \in Nat /\ z.size \in Nat /\ z.size > 0 /\ Kept(r) = z
      /\ z.size < n /\ n \in Nat \ {0} /\ z.ptr + z.size = b.ptr
  BY <1>1, <1>2, MemParts, Lengths
<1>5. m \in Nat \ {0} /\ m < b.size /\ n \in 1 .. Size /\ z.ptr + n = b.ptr + m
      /\ End(b) - (z.ptr + n) = b.size - m
  <2>1. b.ptr \in Nat /\ b.size \in Nat /\ End(b) = b.ptr + b.size /\ Size \in Nat
    BY <1>3, BlockParts, Sizes
  <2> HIDE DEF b, z, n
  <2>2. n <= b.size /\ n \in 1 .. Size
    BY <1>2, <1>3, <1>4, <2>1
  <2>3. m \in Nat \ {0} /\ m < b.size
    BY <1>4, <2>1, <2>2
  <2>4. z.ptr + n = b.ptr + m
    BY <1>4, <2>1
  <2>5. End(b) - (z.ptr + n) = b.size - m
    BY <1>4, <2>1, <2>4
  <2> QED BY <2>2, <2>3, <2>4, <2>5
<1>6. zones_free' = Cut(zones_free, i, m)
  <2>1. zones_free \in Seq(A!Block)
    BY DEF TypeInv, BlockList
  <2>2. b.size > m
    BY <1>3, <1>5, BlockParts
  <2> HIDE DEF m, n
  <2> QED BY <1>1, <1>2, <1>5, <2>1, <2>2 DEF Cut
<1>7. BlockList(zones_free') /\ Blocks' = (Blocks \ {b}) \cup A!Rest(b, m)
  <2>1. BlockList(zones_free) /\ A!GoodBlocks(ToSet(zones_free)) /\ m <= b.size
    <3>1. BlockList(zones_free) /\ A!GoodBlocks(ToSet(zones_free))
      BY AreaParts DEF TypeInv, Blocks
    <3>2. b.size \in Nat
      BY <1>3, BlockParts
    <3> HIDE DEF m, b
    <3> QED BY <1>5, <3>1, <3>2
  <2> HIDE DEF m
  <2> QED BY <1>2, <1>5, <1>6, <2>1, CutIsTaken DEF Blocks
<1>8. mem' = [mem EXCEPT ![r] = Span(z.ptr, n)]
  <2>1. [z EXCEPT !.size = n] = Span(z.ptr, n)
    BY DEF TypeInv, Span
  <2> HIDE DEF n
  <2> QED BY <1>1, <2>1 DEF TypeInv
<1>9. [q \in Records |-> Kept(q)]' = [[q \in Records |-> Kept(q)] EXCEPT ![r] = Span(z.ptr, n)]
  <2> DEFINE w == Span(z.ptr, n)
  <2>1. w.size = n
    BY SameNames
  <2>2. mem' = [mem EXCEPT ![r] = w]
    BY <1>8
  <2> HIDE DEF w, n
  <2>3. [q \in Records |-> Kept(q)]' = [[q \in Records |-> Kept(q)] EXCEPT ![r] = w]
    BY <1>4, <2>1, <2>2, KeptChanges
  <2> QED BY <2>3 DEF w
<1>10. [q \in Records |-> Kept(q)][r] = z /\ A!Taken(b, m) = Blocks'
  BY <1>4, <1>7 DEF A!Taken
<1>11. b.size >= n - z.size
  BY <1>3, <1>5, BlockParts
<1>12. A!Grow(r, n)
  <2> HIDE DEF n, z, b
  <2>1. z.size \in 1 .. n - 1
    BY <1>1
  <2> QED BY <1>2, <1>3, <1>9, <1>10, <1>11, <2>1, SameNames DEF A!Grow
<1> HIDE DEF n, b
<1> QED BY <1>2, <1>3, <1>5, <1>7, <1>8, <1>12 DEF n

\* ... or moves it, giving the old memory back when the new is taken.
LEMMA MoveMoves ==
  ASSUME TypeInv, A!IInv, NEW r \in Records, NEW s \in Nat, s > 0, MoveZone(r, s)
  PROVE  /\ A!Move(r, Rounded(s)) \/ A!Take(r, Rounded(s))
         /\ Rounded(s) \in 1 .. Size /\ mem[r].size < Rounded(s)
         /\ BlockList(zones_free')
         /\ \E b \in Blocks :
               /\ b.size >= Rounded(s)
               /\ mem' = [mem EXCEPT ![r] = Span(b.ptr, Rounded(s))]
               /\ cells' = CopiedTo(mem[r], b.ptr, Rounded(s))
<1> DEFINE n == Rounded(s)
           z == mem[r]
           i == find_free_zone(n)
           b == zones_free[i]
           F == Cut(zones_free, i, n)
<1>1. /\ z.size < n /\ FreeZones(n) # {}
      /\ zones_free' = free_zone_area(F, z) /\ mem' = [mem EXCEPT ![r] = Span(b.ptr, n)]
      /\ cells' = CopiedTo(z, b.ptr, n)
  BY DEF MoveZone
<1>2. n \in Nat \ {0}
  BY Lengths
<1>3. /\ b \in Blocks /\ b.size >= n /\ n \in 1 .. Size /\ BlockList(F)
      /\ ToSet(F) = (Blocks \ {b}) \cup A!Rest(b, n)
  BY <1>1, <1>2, FirstFit
<1>4. ToSet(F) = A!Taken(b, n)
  BY <1>3 DEF A!Taken
<1>5. [q \in Records |-> Kept(q)]' = [[q \in Records |-> Kept(q)] EXCEPT ![r] = Span(b.ptr, n)]
  <2> DEFINE w == Span(b.ptr, n)
  <2>1. w.size = n
    BY SameNames
  <2>2. mem' = [mem EXCEPT ![r] = w]
    BY <1>1
  <2> HIDE DEF w, n
  <2>3. [q \in Records |-> Kept(q)]' = [[q \in Records |-> Kept(q)] EXCEPT ![r] = w]
    BY <1>2, <2>1, <2>2, KeptChanges
  <2> QED BY <2>3 DEF w
<1>6. CASE z.size = 0
  <2>1. zones_free' = F /\ [q \in Records |-> Kept(q)][r].size = 0
    BY <1>1, <1>6, MemParts, SameNames DEF free_zone_area
  <2>2. Blocks' = A!Taken(b, n)
    BY <1>4, <2>1 DEF Blocks
  <2> HIDE DEF n, b
  <2>3. A!Take(r, n)
    BY <1>3, <1>5, <2>1, <2>2, SameNames DEF A!Take
  <2> QED BY <1>1, <1>3, <2>1, <2>3 DEF n
<1>7. CASE z.size # 0
  <2>1. /\ z.size > 0 /\ z.size \in Nat /\ z \in A!Block /\ A!Inside(z) /\ Kept(r) = z
        /\ A!GoodBlocks(Blocks) /\ \A c \in Blocks : A!Apart(z, c)
    BY <1>7, AreaParts, MemParts
  <2>2. A!GoodBlocks(ToSet(F)) /\ \A c \in ToSet(F) : A!Apart(z, c)
    <3>1. A!GoodBlocks((Blocks \ {b}) \cup A!Rest(b, n))
      BY <1>2, <1>3, <2>1, Sizes, A!TakenIsGood
    <3>2. \A c \in (Blocks \ {b}) \cup A!Rest(b, n) : A!Apart(z, c)
      BY <1>2, <1>3, <2>1, Sizes, A!TakenIsApart
    <3> QED BY <1>3, <3>1, <3>2
  <2>3. BlockList(zones_free') /\ ToSet(zones_free') = A!Given(A!Taken(b, n), z)
    <3> HIDE DEF F, z
    <3> QED BY <1>1, <1>3, <1>4, <2>1, <2>2, FreedIsGiven
  <2>4. [q \in Records |-> Kept(q)][r] = z /\ z.size \in 1 .. n - 1
    BY <1>1, <1>2, <2>1
  <2> HIDE DEF n, b, z
  <2>5. A!Move(r, n)
    BY <1>3, <1>5, <2>3, <2>4, SameNames DEF A!Move, Blocks
  <2> QED BY <1>1, <1>3, <2>3, <2>5 DEF n, z
<1>8. \E c \in Blocks :
        /\ c.size >= n /\ mem' = [mem EXCEPT ![r] = Span(c.ptr, n)]
        /\ cells' = CopiedTo(z, c.ptr, n)
  <2> HIDE DEF n, b, z
  <2> QED BY <1>1, <1>3
<1> QED BY <1>1, <1>3, <1>6, <1>7, <1>8

\* Writing into a zone changes nothing FreeBlocks sees.
LEMMA WriteLeaves ==
  ASSUME NEW r \in Records, WriteZone(r)
  PROVE  UNCHANGED A!vars /\ UNCHANGED <<zones_free, mem>>
BY DEF WriteZone, A!vars, Blocks, Kept

\* expand_zone is realloc_zone with another size.
LEMMA Operations ==
  ASSUME TypeInv, Next
  PROVE  \/ allocate_new_empty_zone
         \/ \E s \in Requests : allocate_new_zone(s)
         \/ \E r \in Records : free_zone(r) \/ WriteZone(r)
         \/ \E r \in Records : \E s \in Nat : s > 0 /\ (GrowZone(r, s) \/ MoveZone(r, s))
<1>1. ASSUME NEW r \in Records, NEW s \in Requests, realloc_zone(r, s)
      PROVE  \E x \in Nat : x > 0 /\ (GrowZone(r, x) \/ MoveZone(r, x))
  BY <1>1, Sizes DEF realloc_zone
<1>2. ASSUME NEW r \in Records, NEW s \in Requests, expand_zone(r, s)
      PROVE  \E x \in Nat : x > 0 /\ (GrowZone(r, x) \/ MoveZone(r, x))
  <2> DEFINE n == IF mem[r].size = 0 THEN 1 ELSE mem[r].size
  <2>1. PICK m \in Doublings : realloc_zone(r, Unit * n * m)
    BY <1>2 DEF expand_zone
  <2>2. n \in Nat /\ n > 0 /\ m \in Nat /\ m > 0 /\ Unit \in Nat /\ Unit > 0
    BY Sizes, MemParts DEF Doublings
  <2> HIDE DEF n
  <2>3. Unit * n \in Nat /\ Unit * n > 0
    BY <2>2
  <2>4. Unit * n * m \in Nat /\ Unit * n * m > 0
    BY <2>2, <2>3
  <2> QED BY <2>1, <2>4 DEF realloc_zone
<1> QED BY <1>1, <1>2 DEF Next

\* Every step of the area is one of FreeBlocks, or FreeBlocks sees nothing.
LEMMA StepIsAreaStep ==
  ASSUME TypeInv, A!IInv, Next
  PROVE  [A!Next]_(A!vars) /\ BlockList(zones_free')
<1>1. CASE allocate_new_empty_zone
  BY <1>1, EmptyLeaves DEF TypeInv
<1>2. ASSUME NEW s \in Requests, allocate_new_zone(s)
      PROVE  A!Next /\ BlockList(zones_free')
  <2>1. find_null_ptr \in Records
    BY <1>2, FirstRecord DEF allocate_new_zone
  <2> QED BY <1>2, <2>1, AllocTakes DEF A!Next
<1>3. ASSUME NEW r \in Records, free_zone(r)
      PROVE  [A!Next]_(A!vars) /\ BlockList(zones_free')
  BY <1>3, FreeGives DEF A!Next
<1>4. ASSUME NEW r \in Records, WriteZone(r)
      PROVE  [A!Next]_(A!vars) /\ BlockList(zones_free')
  BY <1>4, WriteLeaves DEF TypeInv
<1>5. ASSUME NEW r \in Records, NEW s \in Nat, s > 0, GrowZone(r, s) \/ MoveZone(r, s)
      PROVE  A!Next /\ BlockList(zones_free')
  BY <1>5, GrowGrows, MoveMoves DEF A!Next
<1> QED BY <1>1, <1>2, <1>3, <1>4, <1>5, Operations

-----------------------------------------------------------------------------
(* Types *)

\* A place within the area.
LEMMA InRange ==
  ASSUME NEW p \in Nat, NEW n \in Nat, NEW d \in Nat, p >= 1, p + n <= Size + 1, d < n
  PROVE  p + d \in 1 .. Size
BY Sizes

\* The memory of a zone within the area.
LEMMA SpanType ==
  ASSUME TypeInv, A!IInv, NEW b \in Blocks, NEW n \in Nat, n <= b.size
  PROVE  /\ b.ptr \in 1 .. Size /\ b.ptr + n <= Size + 1
         /\ Span(b.ptr, n) \in [ptr : 0 .. Size + 2, size : 0 .. Size]
         /\ End(Span(b.ptr, n)) = b.ptr + n
<1>1. b \in A!Block /\ b.ptr >= 1 /\ End(b) <= Size + 1
  BY AreaParts
<1>2. b.ptr \in 1 .. Size /\ n \in 0 .. Size /\ b.ptr + n <= Size + 1
  <2>1. b.ptr \in Nat /\ b.size \in Nat /\ End(b) = b.ptr + b.size /\ b.size > 0 /\ Size \in Nat
    BY <1>1, BlockParts, Sizes
  <2> QED BY <1>1, <2>1
<1>3. b.ptr \in 0 .. Size + 2
  BY <1>2, Sizes
<1> QED BY <1>2, <1>3 DEF Span, End

\* Every step keeps the types.
LEMMA TypeStep ==
  ASSUME TypeInv, A!IInv, Next
  PROVE  TypeInv'
<1> DEFINE Zone == [ptr : 0 .. Size + 2, size : 0 .. Size]
<1>0. /\ BlockList(zones_free') /\ Size \in Nat /\ NZones \in Nat
      /\ mem \in [Records -> Zone] /\ cells \in [1 .. Size -> 0 .. NZones]
      /\ wrote \in [Records -> 0 .. Size] /\ asked \in [Records -> Nat]
      /\ 0 \in 0 .. NZones /\ 0 \in 0 .. Size /\ \A r \in Records : r \in 0 .. NZones
  <2>1. /\ Size \in Nat /\ NZones \in Nat /\ 0 \in 0 .. NZones /\ 0 \in 0 .. Size
        /\ \A r \in Records : r \in 0 .. NZones
    BY Sizes DEF Records
  <2> QED BY <2>1, StepIsAreaStep DEF TypeInv
<1>s. SUFFICES /\ mem' \in [Records -> Zone] /\ cells' \in [1 .. Size -> 0 .. NZones]
               /\ wrote' \in [Records -> 0 .. Size] /\ asked' \in [Records -> Nat]
  BY <1>0 DEF TypeInv
<1>1. CASE allocate_new_empty_zone
  <2>1. Span(PTR_FF, 0) \in Zone
    BY <1>0 DEF Span, PTR_FF
  <2> HIDE DEF Zone
  <2> QED BY <1>0, <1>1, <2>1 DEF allocate_new_empty_zone
<1>2. ASSUME NEW s \in Requests, allocate_new_zone(s)
      PROVE  /\ mem' \in [Records -> Zone] /\ asked' \in [Records -> Nat]
             /\ UNCHANGED <<cells, wrote>>
  <2> DEFINE n == NewLength(s)
             b == zones_free[find_free_zone(n)]
  <2>1. n \in Nat \ {0} /\ s \in Nat
    BY Lengths, Sizes
  <2>2. b \in Blocks /\ n <= b.size
    <3>1. b \in Blocks /\ b.size >= n
      BY <1>2, <2>1, FirstFit DEF allocate_new_zone
    <3> QED BY <2>1, <3>1, AreaParts, BlockParts
  <2>3. Span(b.ptr, n) \in Zone
    <3> HIDE DEF b, n
    <3> QED BY <2>1, <2>2, SpanType
  <2>4. /\ mem' = [mem EXCEPT ![find_null_ptr] = Span(b.ptr, n)]
        /\ asked' = [asked EXCEPT ![find_null_ptr] = s]
        /\ UNCHANGED <<cells, wrote>>
    BY <1>2 DEF allocate_new_zone
  <2> HIDE DEF b, n, Zone
  <2> QED BY <1>0, <2>1, <2>3, <2>4
<1>3. ASSUME NEW r \in Records, free_zone(r)
      PROVE  /\ mem' \in [Records -> Zone] /\ cells' \in [1 .. Size -> 0 .. NZones]
             /\ wrote' \in [Records -> 0 .. Size] /\ asked' \in [Records -> Nat]
  <2>1. Nothing \in Zone
    BY <1>0 DEF Nothing, Span
  <2> HIDE DEF Zone
  <2>2. /\ mem' = [mem EXCEPT ![r] = Nothing]
        /\ cells' = [p \in 1 .. Size |-> IF p \in Extent(mem[r]) THEN 0 ELSE cells[p]]
        /\ asked' = [asked EXCEPT ![r] = 0] /\ wrote' = [wrote EXCEPT ![r] = 0]
    BY <1>3 DEF free_zone
  <2> QED BY <1>0, <2>1, <2>2
<1>4. ASSUME NEW r \in Records, WriteZone(r)
      PROVE  /\ mem' \in [Records -> Zone] /\ cells' \in [1 .. Size -> 0 .. NZones]
             /\ wrote' \in [Records -> 0 .. Size] /\ asked' \in [Records -> Nat]
  <2>1. mem[r].size \in 0 .. Size
    BY MemParts
  <2> HIDE DEF Zone
  <2> QED BY <1>0, <1>4, <2>1 DEF WriteZone
<1>5. ASSUME NEW r \in Records, NEW s \in Nat, s > 0, GrowZone(r, s)
      PROVE  /\ mem' \in [Records -> Zone] /\ cells' \in [1 .. Size -> 0 .. NZones]
             /\ wrote' \in [Records -> 0 .. Size] /\ asked' \in [Records -> Nat]
  <2>1. Span(mem[r].ptr, Rounded(s)) \in Zone
    BY <1>5, GrowGrows, MemParts DEF Span
  <2>2. mem' = [mem EXCEPT ![r] = Span(mem[r].ptr, Rounded(s))]
    BY <1>5, GrowGrows
  <2>3. /\ wrote' = wrote /\ asked' = [asked EXCEPT ![r] = s]
        /\ \E E \in {End(mem[r]) .. mem[r].ptr + Rounded(s) - 1} :
               cells' = [p \in 1 .. Size |-> IF p \in E THEN 0 ELSE cells[p]]
    BY <1>5 DEF GrowZone
  <2> HIDE DEF Zone
  <2> QED BY <1>0, <2>1, <2>2, <2>3
<1>6. ASSUME NEW r \in Records, NEW s \in Nat, s > 0, MoveZone(r, s)
      PROVE  /\ mem' \in [Records -> Zone] /\ cells' \in [1 .. Size -> 0 .. NZones]
             /\ wrote' \in [Records -> 0 .. Size] /\ asked' \in [Records -> Nat]
  <2> DEFINE n == Rounded(s)
             z == mem[r]
  <2>1. PICK b \in Blocks : /\ b.size >= n /\ mem' = [mem EXCEPT ![r] = Span(b.ptr, n)]
                            /\ cells' = CopiedTo(z, b.ptr, n)
    BY <1>6, MoveMoves
  <2>2. n \in Nat /\ n <= b.size
    BY <1>6, <2>1, MoveMoves, AreaParts, BlockParts
  <2>3. Span(b.ptr, n) \in Zone /\ b.ptr \in 1 .. Size
    BY <2>2, SpanType
  <2>4. mem' \in [Records -> Zone]
    <3> HIDE DEF Zone, n
    <3> QED BY <1>0, <2>1, <2>3
  <2>5. ASSUME NEW q \in 1 .. Size, q \in b.ptr .. b.ptr + z.size - 1
        PROVE  z.ptr + (q - b.ptr) \in 1 .. Size
    <3>1. z.size \in Nat /\ z.ptr \in Nat /\ End(z) = z.ptr + z.size
      BY MemParts
    <3>2. q \in Nat /\ b.ptr \in Nat /\ b.ptr <= q /\ q < b.ptr + z.size /\ z.size > 0
      BY <2>3, <2>5, <3>1
    <3>3. z.ptr >= 1 /\ z.ptr + z.size <= Size + 1
      BY <3>1, <3>2, AreaParts
    <3> DEFINE d == q - b.ptr
    <3>4. d \in Nat /\ d < z.size
      BY <3>1, <3>2
    <3> HIDE DEF z, d
    <3>5. z.ptr + d \in 1 .. Size
      BY <3>1, <3>3, <3>4, Sizes, InRange
    <3> QED BY <3>5 DEF d
  <2>6. cells' \in [1 .. Size -> 0 .. NZones]
    <3> HIDE DEF z, n
    <3> QED BY <1>0, <2>1, <2>5 DEF CopiedTo
  <2>7. wrote' = wrote /\ asked' = [asked EXCEPT ![r] = s]
    BY <1>6 DEF MoveZone
  <2> QED BY <1>0, <2>4, <2>6, <2>7
<1> HIDE DEF Zone
<1> QED BY <1>0, <1>1, <1>2, <1>3, <1>4, <1>5, <1>6, Operations DEF allocate_new_empty_zone

-----------------------------------------------------------------------------
(* Room *)

\* Every step keeps a zone as large as was asked: both roundings are enough.
LEMMA RoomStep ==
  ASSUME TypeInv, A!IInv, RoomForRequest, Next
  PROVE  RoomForRequest'
<1>0. /\ Unit \in Nat /\ \A r \in Records : mem[r].size * Unit >= asked[r]
      /\ mem \in [Records -> [ptr : 0 .. Size + 2, size : 0 .. Size]]
      /\ asked \in [Records -> Nat]
  BY Sizes DEF RoomForRequest, TypeInv
<1>1. ASSUME NEW r \in Records, NEW z, NEW s \in Nat, z.size * Unit >= s,
             mem' = [mem EXCEPT ![r] = z], asked' = [asked EXCEPT ![r] = s]
      PROVE  RoomForRequest'
  <2>1. mem'[r] = z /\ asked'[r] = s
    BY <1>0, <1>1
  <2>2. \A q \in Records \ {r} : mem'[q] = mem[q] /\ asked'[q] = asked[q]
    BY <1>0, <1>1
  <2> QED BY <1>0, <1>1, <2>1, <2>2 DEF RoomForRequest
<1>2. CASE allocate_new_empty_zone
  <2> DEFINE r == find_null_ptr
             z == Span(PTR_FF, 0)
  <2>1. r \in Records /\ mem[r].size = 0 /\ mem' = [mem EXCEPT ![r] = z] /\ asked' = asked
    BY <1>2, FirstRecord DEF allocate_new_empty_zone
  <2>2. z.size = 0 /\ asked[r] \in Nat /\ asked' = [asked EXCEPT ![r] = asked[r]]
    BY <1>0, <2>1, SameNames
  <2>3. z.size * Unit >= asked[r]
    BY <1>0, <2>1, <2>2
  <2> HIDE DEF r, z
  <2> QED BY <1>1, <2>1, <2>2, <2>3
<1>3. ASSUME NEW s \in Requests, allocate_new_zone(s)
      PROVE  RoomForRequest'
  <2> DEFINE r == find_null_ptr
             z == Span(zones_free[find_free_zone(NewLength(s))].ptr, NewLength(s))
  <2>1. /\ r \in Records /\ s \in Nat /\ mem' = [mem EXCEPT ![r] = z]
        /\ asked' = [asked EXCEPT ![r] = s]
    BY <1>3, FirstRecord, Sizes DEF allocate_new_zone
  <2>2. z.size * Unit >= s
    BY Lengths, SameNames, Sizes
  <2> HIDE DEF r, z
  <2> QED BY <1>1, <2>1, <2>2
<1>4. ASSUME NEW r \in Records, free_zone(r)
      PROVE  RoomForRequest'
  <2>1. Nothing.size * Unit >= 0 /\ mem' = [mem EXCEPT ![r] = Nothing]
        /\ asked' = [asked EXCEPT ![r] = 0]
    BY <1>0, <1>4, SameNames DEF free_zone
  <2> QED BY <1>1, <2>1
<1>5. ASSUME NEW r \in Records, WriteZone(r)
      PROVE  RoomForRequest'
  BY <1>0, <1>5 DEF RoomForRequest, WriteZone
<1>6. ASSUME NEW r \in Records, NEW s \in Nat, s > 0, GrowZone(r, s) \/ MoveZone(r, s)
      PROVE  RoomForRequest'
  <2>1. PICK p : mem' = [mem EXCEPT ![r] = Span(p, Rounded(s))]
    BY <1>6, GrowGrows, MoveMoves
  <2>2. asked' = [asked EXCEPT ![r] = s]
    BY <1>6 DEF GrowZone, MoveZone
  <2> DEFINE z == Span(p, Rounded(s))
  <2>3. z.size * Unit >= s
    BY <1>6, Lengths, SameNames
  <2> HIDE DEF z
  <2>4. mem' = [mem EXCEPT ![r] = z]
    BY <2>1 DEF z
  <2> QED BY <1>1, <2>2, <2>3, <2>4
<1> QED BY <1>2, <1>3, <1>4, <1>5, <1>6, Operations

-----------------------------------------------------------------------------
(* Contents *)

\* What an owner has written are cells of its zone ...
LEMMA WrittenCells ==
  ASSUME TypeInv, A!IInv, ContentInv, NEW q \in Records, NEW k \in 0 .. wrote[q] - 1
  PROVE  /\ k \in Nat /\ k < mem[q].size /\ mem[q].size > 0
         /\ mem[q].ptr + k \in 1 .. Size /\ mem[q].ptr + k \in Extent(mem[q])
         /\ cells[mem[q].ptr + k] = q
<1>1. /\ wrote[q] \in Nat /\ mem[q].size \in Nat /\ wrote[q] <= mem[q].size
      /\ mem[q].ptr \in Nat /\ End(mem[q]) = mem[q].ptr + mem[q].size
  BY MemParts DEF ContentInv
<1>2. k \in Nat /\ k < mem[q].size /\ mem[q].size > 0
  BY <1>1
<1>3. mem[q].ptr >= 1 /\ mem[q].ptr + mem[q].size <= Size + 1
  BY <1>1, <1>2, AreaParts
<1>4. mem[q].ptr + k \in 1 .. Size
  BY <1>1, <1>2, <1>3, InRange
<1>5. mem[q].ptr + k \in Extent(mem[q])
  BY <1>1, <1>2 DEF Extent
<1> QED BY <1>2, <1>4, <1>5 DEF ContentInv, ContentIsKept

\* ... and no cells of anything apart from it.
LEMMA ApartCells ==
  ASSUME NEW x \in A!Block, NEW y \in A!Block, A!Apart(x, y) \/ A!Apart(y, x)
  PROVE  Extent(x) \cap Extent(y) = {}
<1>1. End(x) <= y.ptr \/ End(y) <= x.ptr
  BY SameNames DEF A!Apart
<1> QED BY <1>1, BlockParts DEF Extent

\* A step that leaves the memory of a record and the cells written there alone.
LEMMA OthersKeep ==
  ASSUME TypeInv, A!IInv, ContentInv, NEW q \in Records, mem'[q] = mem[q], wrote'[q] = wrote[q],
         mem[q].size > 0 => \A p \in 1 .. Size : p \in Extent(mem[q]) => cells'[p] = cells[p]
  PROVE  /\ wrote'[q] <= mem'[q].size
         /\ \A k \in 0 .. wrote'[q] - 1 : cells'[mem'[q].ptr + k] = q
<1>1. wrote'[q] <= mem'[q].size
  BY DEF ContentInv
<1>2. ASSUME NEW k \in 0 .. wrote[q] - 1
      PROVE  cells'[mem'[q].ptr + k] = q
  <2> DEFINE c == mem[q].ptr + k
  <2>1. mem[q].size > 0 /\ c \in 1 .. Size /\ c \in Extent(mem[q]) /\ cells[c] = q
    BY WrittenCells
  <2> HIDE DEF c
  <2>2. cells'[c] = q
    BY <2>1
  <2> QED BY <2>2 DEF c
<1> QED BY <1>1, <1>2

\* Every step keeps what the owners have written, where it is now.
LEMMA ContentStep ==
  ASSUME TypeInv, A!IInv, ContentInv, Next
  PROVE  ContentInv'
<1> DEFINE Holds(q) == /\ wrote'[q] <= mem'[q].size
                       /\ \A k \in 0 .. wrote'[q] - 1 : cells'[mem'[q].ptr + k] = q
<1>s. SUFFICES ASSUME NEW q \in Records PROVE Holds(q)
  BY DEF ContentInv, ContentIsKept
<1>0. /\ mem \in [Records -> [ptr : 0 .. Size + 2, size : 0 .. Size]]
      /\ wrote \in [Records -> 0 .. Size] /\ cells \in [1 .. Size -> 0 .. NZones]
      /\ Size \in Nat /\ wrote[q] \in Nat /\ wrote[q] <= mem[q].size
  BY Sizes, MemParts DEF TypeInv, ContentInv
\* A record that takes its first memory.
<1>1. ASSUME NEW r \in Records, NEW z, z.size \in Nat, mem[r].size = 0,
             mem' = [mem EXCEPT ![r] = z], UNCHANGED <<cells, wrote>>
      PROVE  Holds(q)
  <2>1. CASE q = r
    <3>1. wrote'[q] = 0 /\ mem'[q] = z
      BY <1>0, <1>1, <2>1, MemParts
    <3> QED BY <1>1, <3>1
  <2>2. CASE q # r
    <3>1. mem'[q] = mem[q] /\ wrote'[q] = wrote[q] /\ cells' = cells
      BY <1>0, <1>1, <2>2
    <3> QED BY <3>1, OthersKeep
  <2> QED BY <2>1, <2>2
<1>2. CASE allocate_new_empty_zone
  <2> DEFINE r == find_null_ptr
             z == Span(PTR_FF, 0)
  <2>1. /\ r \in Records /\ mem[r].size = 0 /\ mem' = [mem EXCEPT ![r] = z] /\ z.size \in Nat
        /\ UNCHANGED <<cells, wrote>>
    BY <1>2, FirstRecord, SameNames DEF allocate_new_empty_zone
  <2> HIDE DEF r, z, Holds
  <2> QED BY <1>1, <2>1
<1>3. ASSUME NEW s \in Requests, allocate_new_zone(s)
      PROVE  Holds(q)
  <2> DEFINE r == find_null_ptr
             z == Span(zones_free[find_free_zone(NewLength(s))].ptr, NewLength(s))
  <2>1. /\ r \in Records /\ mem[r].size = 0 /\ mem' = [mem EXCEPT ![r] = z] /\ z.size \in Nat
        /\ UNCHANGED <<cells, wrote>>
    BY <1>3, FirstRecord, SameNames, Lengths, Sizes DEF allocate_new_zone
  <2> HIDE DEF r, z, Holds
  <2> QED BY <1>1, <2>1
<1>4. ASSUME NEW r \in Records, free_zone(r)
      PROVE  Holds(q)
  <2>1. /\ mem' = [mem EXCEPT ![r] = Nothing] /\ wrote' = [wrote EXCEPT ![r] = 0]
        /\ cells' = [p \in 1 .. Size |-> IF p \in Extent(mem[r]) THEN 0 ELSE cells[p]]
    BY <1>4 DEF free_zone
  <2>2. CASE q = r
    <3>1. wrote'[q] = 0 /\ mem'[q].size = 0
      BY <1>0, <2>1, <2>2, SameNames
    <3> QED BY <3>1
  <2>3. CASE q # r
    <3>1. mem'[q] = mem[q] /\ wrote'[q] = wrote[q]
      BY <1>0, <2>1, <2>3
    <3>2. ASSUME mem[q].size > 0, NEW p \in 1 .. Size, p \in Extent(mem[q])
          PROVE  cells'[p] = cells[p]
      <4>1. p \notin Extent(mem[r])
        <5>1. CASE mem[r].size > 0
          BY <2>3, <3>2, <5>1, AreaParts, ApartCells
        <5>2. CASE mem[r].size = 0
          BY <5>2, MemParts DEF Extent
        <5> QED BY <5>1, <5>2, MemParts
      <4> QED BY <2>1, <4>1
    <3> QED BY <3>1, <3>2, OthersKeep
  <2> QED BY <2>2, <2>3
<1>5. ASSUME NEW r \in Records, WriteZone(r)
      PROVE  Holds(q)
  <2>1. /\ mem' = mem /\ wrote' = [wrote EXCEPT ![r] = mem[r].size] /\ mem[r].size > wrote[r]
        /\ cells' = [p \in 1 .. Size |-> IF p \in Extent(mem[r]) THEN r ELSE cells[p]]
    BY <1>5 DEF WriteZone
  <2>2. mem[r].size > 0 /\ mem[r].size \in Nat
    BY <2>1, MemParts
  <2>3. CASE q = r
    <3>1. wrote'[q] = mem[q].size /\ mem'[q] = mem[q]
      BY <1>0, <2>1, <2>3
    <3>2. ASSUME NEW k \in 0 .. mem[q].size - 1
          PROVE  cells'[mem[q].ptr + k] = q
      <4> DEFINE c == mem[q].ptr + k
      <4>1. mem[q].ptr \in Nat /\ End(mem[q]) = mem[q].ptr + mem[q].size /\ k \in Nat
            /\ k < mem[q].size /\ mem[q].ptr >= 1 /\ mem[q].ptr + mem[q].size <= Size + 1
        BY <2>2, <2>3, MemParts, AreaParts
      <4>2. c \in 1 .. Size
        BY <2>2, <2>3, <4>1, InRange
      <4>3. c \in Extent(mem[q])
        BY <2>2, <2>3, <4>1 DEF Extent
      <4> HIDE DEF c
      <4>4. cells'[c] = q
        BY <2>1, <2>3, <4>2, <4>3
      <4> QED BY <4>4 DEF c
    <3> QED BY <2>2, <2>3, <3>1, <3>2
  <2>4. CASE q # r
    <3>1. mem'[q] = mem[q] /\ wrote'[q] = wrote[q]
      BY <1>0, <2>1, <2>4
    <3>2. ASSUME mem[q].size > 0, NEW p \in 1 .. Size, p \in Extent(mem[q])
          PROVE  cells'[p] = cells[p]
      <4>1. p \notin Extent(mem[r])
        BY <2>2, <2>4, <3>2, AreaParts, ApartCells
      <4> QED BY <2>1, <4>1
    <3> QED BY <3>1, <3>2, OthersKeep
  <2> QED BY <2>3, <2>4
<1>6. ASSUME NEW r \in Records, NEW s \in Nat, s > 0, GrowZone(r, s)
      PROVE  Holds(q)
  <2> DEFINE n == Rounded(s)
             z == mem[r]
  <2>1. PICK b \in Blocks : b.ptr = End(z) /\ n <= b.size
    BY <1>6, GrowGrows
  <2>2. /\ mem' = [mem EXCEPT ![r] = Span(z.ptr, n)] /\ wrote' = wrote
        /\ cells' = [p \in 1 .. Size |-> IF p \in End(z) .. z.ptr + n - 1 THEN 0 ELSE cells[p]]
        /\ z.size \in 1 .. n - 1
    BY <1>6, GrowGrows DEF GrowZone
  <2>3. /\ n \in Nat /\ z.ptr \in Nat /\ z.size \in Nat /\ End(z) = z.ptr + z.size
        /\ b \in A!Block /\ b.size \in Nat /\ End(b) = b.ptr + b.size
    BY <1>6, Lengths, MemParts, AreaParts, BlockParts
  <2>4. \A p \in End(z) .. z.ptr + n - 1 : p \in Extent(b)
    <3> HIDE DEF n, z
    <3> QED BY <2>1, <2>2, <2>3 DEF Extent
  <2>5. ASSUME mem[q].size > 0, NEW p \in 1 .. Size, p \in Extent(mem[q])
        PROVE  cells'[p] = cells[p]
    <3>1. p \notin Extent(b)
      BY <2>3, <2>5, AreaParts, ApartCells
    <3> HIDE DEF n, z
    <3> QED BY <2>2, <2>4, <3>1
  <2>6. CASE q = r
    <3>1. mem'[q] = Span(z.ptr, n) /\ wrote'[q] = wrote[q] /\ n >= z.size /\ z.size > 0
      BY <1>0, <2>2, <2>3, <2>6
    <3>2. mem'[q].ptr = mem[q].ptr /\ mem'[q].size = n
      BY <2>6, <3>1, SameNames
    <3>3. ASSUME NEW k \in 0 .. wrote[q] - 1
          PROVE  cells'[mem[q].ptr + k] = q
      <4> DEFINE c == mem[q].ptr + k
      <4>1. mem[q].size > 0 /\ c \in 1 .. Size /\ c \in Extent(mem[q]) /\ cells[c] = q
        BY WrittenCells
      <4> HIDE DEF c
      <4>2. cells'[c] = q
        BY <2>5, <4>1
      <4> QED BY <4>2 DEF c
    <3>4. wrote'[q] <= mem'[q].size
      <4> HIDE DEF n
      <4> QED BY <1>0, <2>3, <2>6, <3>1, <3>2
    <3> QED BY <3>1, <3>2, <3>3, <3>4
  <2>7. CASE q # r
    <3>1. mem'[q] = mem[q] /\ wrote'[q] = wrote[q]
      BY <1>0, <2>2, <2>7
    <3> QED BY <2>5, <3>1, OthersKeep
  <2> QED BY <2>6, <2>7
<1>7. ASSUME NEW r \in Records, NEW s \in Nat, s > 0, MoveZone(r, s)
      PROVE  Holds(q)
  <2> DEFINE n == Rounded(s)
             z == mem[r]
  <2>1. PICK b \in Blocks : /\ b.size >= n /\ mem' = [mem EXCEPT ![r] = Span(b.ptr, n)]
                            /\ cells' = CopiedTo(z, b.ptr, n)
    BY <1>7, MoveMoves
  <2>2. /\ n \in Nat /\ z.ptr \in Nat /\ z.size \in Nat /\ z.size < n
        /\ b \in A!Block /\ b.ptr \in Nat /\ b.size \in Nat /\ End(b) = b.ptr + b.size
        /\ b.ptr >= 1 /\ End(b) <= Size + 1 /\ wrote' = wrote
    BY <1>7, Lengths, MemParts, MoveMoves, AreaParts, BlockParts DEF MoveZone
  <2>3. CASE q = r
    <3>1. mem'[q] = Span(b.ptr, n) /\ wrote'[q] = wrote[q]
      BY <1>0, <2>1, <2>2, <2>3
    <3>2. mem'[q].ptr = b.ptr /\ mem'[q].size = n
      BY <3>1, SameNames
    <3>3. ASSUME NEW k \in 0 .. wrote[q] - 1
          PROVE  cells'[b.ptr + k] = q
      <4>1. k \in Nat /\ k < z.size /\ cells[z.ptr + k] = q
        BY <2>3, WrittenCells
      <4> DEFINE c == b.ptr + k
      <4>2. c \in b.ptr .. b.ptr + z.size - 1 /\ c - b.ptr = k
        <5> HIDE DEF z
        <5> QED BY <2>2, <4>1
      <4>3. c \in 1 .. Size
        <5>1. b.ptr + n <= Size + 1 /\ k < n
          <6>1. Size \in Nat /\ b.size >= n
            BY <1>0, <2>1
          <6> HIDE DEF n, z
          <6>2. k < n
            BY <2>2, <4>1
          <6>3. b.ptr + b.size <= Size + 1
            BY <2>2
          <6> QED BY <2>2, <6>1, <6>2, <6>3
        <5> HIDE DEF n
        <5> QED BY <2>2, <4>1, <5>1, InRange
      <4> HIDE DEF c, z, n
      <4>4. cells'[c] = cells[z.ptr + (c - b.ptr)]
        BY <2>1, <4>2, <4>3 DEF CopiedTo
      <4> QED BY <4>1, <4>2, <4>4 DEF c
    <3>4. wrote'[q] <= mem'[q].size
      <4> HIDE DEF n
      <4> QED BY <1>0, <2>2, <2>3, <3>1, <3>2
    <3> QED BY <3>1, <3>2, <3>3, <3>4
  <2>4. CASE q # r
    <3>1. mem'[q] = mem[q] /\ wrote'[q] = wrote[q]
      BY <1>0, <2>1, <2>2, <2>4
    <3>2. ASSUME mem[q].size > 0, NEW p \in 1 .. Size, p \in Extent(mem[q])
          PROVE  cells'[p] = cells[p]
      <4>1. p \notin Extent(b)
        BY <2>2, <3>2, AreaParts, ApartCells
      <4>2. p \notin Extent(z)
        <5>1. CASE z.size > 0
          BY <2>4, <3>2, <5>1, AreaParts, ApartCells
        <5>2. CASE z.size = 0
          BY <5>2, MemParts DEF Extent
        <5> QED BY <2>2, <5>1, <5>2
      <4>3. p \notin b.ptr .. b.ptr + z.size - 1 /\ p \notin b.ptr + z.size .. b.ptr + n - 1
        <5> HIDE DEF n, z
        <5> QED BY <2>1, <2>2, <4>1 DEF Extent
      <4> HIDE DEF n, z
      <4> QED BY <2>1, <4>2, <4>3 DEF CopiedTo
    <3> QED BY <3>1, <3>2, OthersKeep
  <2> QED BY <2>3, <2>4
<1> HIDE DEF Holds
<1> QED BY <1>2, <1>3, <1>4, <1>5, <1>6, <1>7, Operations

-----------------------------------------------------------------------------
(* The theorems *)

\* A new area: one free block.
LEMMA InitInv == Init => IInv
<1> SUFFICES ASSUME Init PROVE IInv
  OBVIOUS
<1>0. /\ Size \in Nat \ {0} /\ NZones \in Nat /\ Unit \in Nat
      /\ zones_free = <<Span(1, Size)>> /\ mem = [r \in Records |-> Nothing]
      /\ cells = [p \in 1 .. Size |-> 0]
      /\ asked = [r \in Records |-> 0] /\ wrote = [r \in Records |-> 0]
  BY Sizes DEF Init
<1>1. BlockList(zones_free) /\ Blocks = {Span(1, Size)}
  <2>1. Span(1, Size) \in A!Block
    BY <1>0 DEF A!Block, Span
  <2> QED BY <1>0, <2>1 DEF BlockList, Distinct, Blocks, ToSet
<1>2. TypeInv
  <2>1. Nothing \in [ptr : 0 .. Size + 2, size : 0 .. Size] /\ 0 \in 0 .. NZones /\ 0 \in 0 .. Size
    BY <1>0 DEF Nothing, Span
  <2> QED BY <1>0, <1>1, <2>1 DEF TypeInv
<1>3. A!IInv
  <2>1. [r \in Records |-> Kept(r)] = [r \in Records |-> Nothing]
    BY <1>0, SameNames DEF Kept
  <2>2. A!Init
    BY <1>1, <2>1, SameNames DEF A!Init
  <2> QED BY <2>2, Sizes, A!InitInv
<1>4. ContentInv
  BY <1>0, SameNames DEF ContentInv, ContentIsKept
<1>5. RoomForRequest
  BY <1>0, SameNames DEF RoomForRequest
<1> QED BY <1>2, <1>3, <1>4, <1>5 DEF IInv

\* Every step keeps the invariant, and is a step of FreeBlocks.
LEMMA NextInv == IInv /\ [Next]_vars => IInv' /\ [A!Next]_(A!vars)
<1> SUFFICES ASSUME IInv, [Next]_vars PROVE IInv' /\ [A!Next]_(A!vars)
  OBVIOUS
<1>1. CASE Next
  <2>1. [A!Next]_(A!vars)
    BY <1>1, StepIsAreaStep DEF IInv
  <2>2. A!IInv'
    BY <2>1, Sizes, A!NextInv DEF IInv
  <2> QED BY <1>1, <2>1, <2>2, TypeStep, ContentStep, RoomStep DEF IInv
<1>2. CASE UNCHANGED vars
  <2>1. UNCHANGED A!vars
    BY <1>2 DEF vars, A!vars, Blocks, Kept
  <2>2. A!IInv'
    BY <2>1, Sizes, A!NextInv DEF IInv
  <2>3. TypeInv' /\ ContentInv' /\ RoomForRequest'
    BY <1>2 DEF vars, IInv, TypeInv, ContentInv, ContentIsKept, RoomForRequest
  <2> QED BY <2>1, <2>2, <2>3 DEF IInv
<1> QED BY <1>1, <1>2

\* The parts of IInv hold at any time, for every size of area and number of records.
THEOREM AreaInvariant == Spec => []IInv
BY InitInv, NextInv, PTL DEF Spec

\* Type correctness: the array lists blocks within the area, the records have their
\* memory there.
THEOREM AreaTypeCorrect == Spec => []TypeOK
<1>1. IInv => TypeOK
  <2> SUFFICES ASSUME IInv PROVE TypeOK
    OBVIOUS
  <2> DEFINE B == [ptr : 1 .. Size, size : 1 .. Size]
  <2>0. TypeInv /\ A!IInv /\ Size \in Nat
    BY Sizes DEF IInv
  <2>1. /\ zones_free \in Seq(A!Block) /\ Len(zones_free) \in Nat
        /\ \A i \in 1 .. Len(zones_free) : zones_free[i] \in Blocks
    BY <2>0, ListParts DEF TypeInv, BlockList, Blocks
  <2>2. ASSUME NEW b \in Blocks
        PROVE  b \in B
    <3>1. /\ b.ptr \in Nat /\ b.size \in Nat /\ b.size > 0 /\ b.ptr >= 1
          /\ b.ptr + b.size <= Size + 1 /\ b = Span(b.ptr, b.size)
      BY <2>0, AreaParts, BlockParts
    <3>2. b.ptr \in 1 .. Size /\ b.size \in 1 .. Size
      BY <2>0, <3>1
    <3> QED BY <3>1, <3>2 DEF Span
  <2> HIDE DEF B
  <2>3. zones_free \in Seq(B)
    BY <2>1, <2>2
  <2> QED BY <2>0, <2>3 DEF TypeOK, TypeInv, B
<1> QED BY <1>1, AreaInvariant, PTL

\* What an owner has written stays in its zone through realloc_zone, expand_zone and
\* everything the other owners do (ContentIsKept).
THEOREM ContentStays == Spec => []ContentIsKept
<1>1. IInv => ContentIsKept
  BY DEF IInv, ContentInv
<1> QED BY <1>1, AreaInvariant, PTL

\* allocate_new_zone and realloc_zone give at least the bytes asked for, though one
\* rounds down and adds a cell and the other rounds up (RoomForRequest).
THEOREM RoomIsEnough == Spec => []RoomForRequest
<1>1. IInv => RoomForRequest
  BY DEF IInv
<1> QED BY <1>1, AreaInvariant, PTL

\* Area and A are the same instance but for the theorems.
LEMMA SameArea == (A!Init <=> Area!Init) /\ ([A!Next]_(A!vars) <=> [Area!Next]_(Area!vars))
<1>1. A!Init <=> Area!Init
  BY DEF A!Init, Area!Init, Kept, Blocks, A!Span, Area!Span, A!Nothing, Area!Nothing
<1>2. \A r : A!Give(r) <=> Area!Give(r)
  BY DEF A!Give, Area!Give, A!Nothing, Area!Nothing, Area!Given, A!Given, A!Touching,
         Area!Touching, A!Joined, Area!Joined, A!LeftEnd, Area!LeftEnd, A!RightEnd,
         Area!RightEnd, A!End, Area!End, A!Span, Area!Span, Kept, Blocks
<1>3. \A r, n : A!Take(r, n) <=> Area!Take(r, n)
  BY DEF A!Take, Area!Take, A!Taken, Area!Taken, A!Rest, Area!Rest, A!Span, Area!Span, Kept,
         Blocks
<1>4. \A r, n : A!Grow(r, n) <=> Area!Grow(r, n)
  BY DEF A!Grow, Area!Grow, A!Taken, Area!Taken, A!Rest, Area!Rest, A!Span, Area!Span, Kept,
         Blocks, A!End, Area!End
<1>5. \A r, n : A!Move(r, n) <=> Area!Move(r, n)
  BY DEF A!Move, Area!Move, A!Taken, Area!Taken, A!Rest, Area!Rest, A!Span, Area!Span, Kept,
         Blocks, A!End, Area!End, Area!Given, A!Given, A!Touching, Area!Touching, A!Joined,
         Area!Joined, A!LeftEnd, Area!LeftEnd, A!RightEnd, Area!RightEnd
<1>6. A!vars = Area!vars
  BY DEF A!vars, Area!vars, Kept, Blocks
<1>7. A!Next <=> Area!Next
  BY <1>2, <1>3, <1>4, <1>5 DEF A!Next, Area!Next
<1>8. UNCHANGED A!vars <=> UNCHANGED Area!vars
  BY DEF A!vars, Area!vars, Kept, Blocks
<1> QED BY <1>1, <1>7, <1>8

\* The array of free blocks, searched first fit, cut in place and kept joined, is an
\* allocator as FreeBlocks describes it: it neither loses memory nor gives it twice.
THEOREM AreaImplementsFreeBlocks == Spec => ImplementsFreeBlocks
<1>1. Init => Area!Init
  <2> SUFFICES ASSUME Init PROVE A!Init
    BY SameArea
  <2>1. zones_free = <<Span(1, Size)>> /\ mem = [r \in Records |-> Nothing]
    BY DEF Init
  <2>2. Blocks = {Span(1, Size)}
    BY <2>1 DEF Blocks, ToSet
  <2>3. [r \in Records |-> Kept(r)] = [r \in Records |-> Nothing]
    BY <2>1, SameNames DEF Kept
  <2> QED BY <2>2, <2>3, SameNames DEF A!Init
<1>2. IInv /\ [Next]_vars => [Area!Next]_(Area!vars)
  BY NextInv, SameArea
<1> QED BY <1>1, <1>2, AreaInvariant, PTL DEF Spec, ImplementsFreeBlocks, Area!Spec

\* Between two free blocks there is a zone.
LEMMA FewBlocks ==
  ASSUME IInv
  PROVE  Len(zones_free) <= NZones + 1
<1> DEFINE n == Len(zones_free)
           Behind(i) == {r \in Records : mem[r].size > 0 /\ mem[r].ptr = End(zones_free[i])}
           f == [i \in 1 .. n |-> IF End(zones_free[i]) = Size + 1 THEN 0
                                  ELSE CHOOSE r \in Behind(i) : TRUE]
<1>0. TypeInv /\ A!IInv /\ Size \in Nat /\ NZones \in Nat /\ BlockList(zones_free)
      /\ n \in Nat /\ \A i \in 1 .. n : zones_free[i] \in Blocks
  BY Sizes, ListParts DEF IInv, TypeInv, BlockList, Blocks
<1>1. ASSUME NEW i \in 1 .. n, End(zones_free[i]) # Size + 1
      PROVE  Behind(i) # {}
  <2> DEFINE b == zones_free[i]
             p == End(b)
  <2>1. b \in Blocks /\ b \in A!Block /\ p \in 1 .. Size /\ b.ptr \in Nat /\ b.ptr < p
    <3>1. b \in Blocks /\ b \in A!Block /\ b.ptr >= 1 /\ p <= Size + 1
      BY <1>0, AreaParts
    <3>2. b.ptr \in Nat /\ p \in Nat /\ b.ptr < p
      BY <3>1, BlockParts
    <3> HIDE DEF b
    <3>3. p \in 1 .. Size
      BY <1>0, <1>1, <3>1, <3>2 DEF b
    <3> QED BY <3>1, <3>2, <3>3
  <2>2. \/ \E c \in Blocks : c.ptr <= p /\ p < End(c)
        \/ \E r \in Records : Kept(r).ptr <= p /\ p < End(Kept(r))
    <3>1. A!NothingLost
      BY <1>0 DEF A!IInv
    <3>2. \A c : A!In(p, c) => p >= c.ptr /\ p < End(c)
      BY SameNames DEF A!In
    <3> HIDE DEF p
    <3> QED BY <2>1, <3>1, <3>2 DEF A!NothingLost
  <2>3. ASSUME NEW c \in Blocks, c.ptr <= p, p < End(c)
        PROVE  FALSE
    <3>1. c \in A!Block /\ (c # b => End(b) < c.ptr \/ End(c) < b.ptr)
      BY <1>0, <2>1, AreaParts, SameNames DEF A!GoodBlocks
    <3>2. c.ptr \in Nat /\ End(c) \in Nat /\ c.ptr < End(c)
      BY <3>1, BlockParts
    <3> HIDE DEF b
    <3> QED BY <2>1, <2>3, <3>1, <3>2
  <2>4. PICK r \in Records : Kept(r).ptr <= p /\ p < End(Kept(r))
    BY <2>2, <2>3
  <2>5. mem[r].size > 0 /\ Kept(r) = mem[r]
    <3>1. CASE mem[r].size = 0
      <4>1. Kept(r).ptr = 0 /\ End(Kept(r)) = 0
        BY <1>0, <3>1, MemParts, SameNames DEF End
      <4> HIDE DEF p
      <4> QED BY <2>1, <2>4, <4>1
    <3> QED BY <1>0, <3>1, MemParts
  <2>6. End(mem[r]) <= b.ptr \/ End(b) <= mem[r].ptr
    BY <1>0, <2>1, <2>5, AreaParts, SameNames DEF A!Apart
  <2>7. mem[r].ptr = p
    <3>1. mem[r].ptr \in Nat /\ End(mem[r]) \in Nat
      BY <1>0, <2>5, MemParts, BlockParts
    <3> HIDE DEF b
    <3> QED BY <2>1, <2>4, <2>5, <2>6, <3>1
  <2> QED BY <2>5, <2>7
<1>2. ASSUME NEW i \in 1 .. n
      PROVE  /\ f[i] \in 0 .. NZones
             /\ f[i] = 0 => End(zones_free[i]) = Size + 1
             /\ f[i] # 0 => End(zones_free[i]) = mem[f[i]].ptr
  <2>1. CASE End(zones_free[i]) = Size + 1
    BY <1>0, <2>1
  <2>2. CASE End(zones_free[i]) # Size + 1
    <3>1. f[i] \in Behind(i)
      <4> HIDE DEF Behind
      <4> QED BY <1>1, <2>2
    <3> HIDE DEF f
    <3>2. f[i] \in 1 .. NZones /\ mem[f[i]].ptr = End(zones_free[i])
      BY <3>1 DEF Records
    <3>3. f[i] \in 0 .. NZones /\ f[i] # 0
      BY <1>0, <3>2
    <3> QED BY <3>2, <3>3
  <2> QED BY <2>1, <2>2
<1>3. ASSUME NEW i \in 1 .. n, NEW j \in 1 .. n, f[i] = f[j]
      PROVE  i = j
  <2>1. End(zones_free[i]) = End(zones_free[j])
    <3> HIDE DEF f
    <3> QED BY <1>2, <1>3
  <2>2. zones_free[i] = zones_free[j]
    BY <1>0, <2>1, AreaParts, ApartBlocks
  <2> QED BY <1>0, <2>2 DEF BlockList, Distinct
<1>4. f \in Injection(1 .. n, 0 .. NZones)
  <2>1. f \in [1 .. n -> 0 .. NZones]
    <3>1. DOMAIN f = 1 .. n /\ f = [i \in 1 .. n |-> f[i]]
      OBVIOUS
    <3> HIDE DEF f
    <3> QED BY <1>2, <3>1
  <2> HIDE DEF f
  <2> QED BY <1>3, <2>1 DEF Injection, IsInjective
<1>5. Cardinality(1 .. n) <= Cardinality(0 .. NZones)
  <2>1. IsFiniteSet(0 .. NZones)
    BY <1>0, FS_Interval
  <2> HIDE DEF f
  <2> QED BY <1>4, <2>1, FS_Injection
<1>6. Cardinality(1 .. n) = n /\ Cardinality(0 .. NZones) = NZones + 1
  <2> HIDE DEF n
  <2>1. n >= 0 /\ NZones >= 0 /\ n \in Int /\ NZones \in Int /\ 0 \in Int /\ 1 \in Int
    BY <1>0
  <2>2. Cardinality(1 .. n) = IF 1 > n THEN 0 ELSE n - 1 + 1
    BY <2>1, FS_Interval
  <2>3. Cardinality(0 .. NZones) = IF 0 > NZones THEN 0 ELSE NZones - 0 + 1
    BY <2>1, FS_Interval
  <2>4. Cardinality(1 .. n) = n
    BY <2>1, <2>2
  <2>5. Cardinality(0 .. NZones) = NZones + 1
    BY <2>1, <2>3
  <2> QED BY <2>4, <2>5
<1> QED BY <1>5, <1>6

\* The loops over the array stop at a PTR_NULL only. There is always one: there is at
\* most one free block more than there are zones, and MAX_FREE_ZONES is above that.
THEOREM ArrayHasRoom ==
  Spec => [](Len(zones_free) <= NZones + 1 /\ Len(zones_free) < MaxFree)
<1>1. IInv => Len(zones_free) <= NZones + 1 /\ Len(zones_free) < MaxFree
  <2> SUFFICES ASSUME IInv PROVE Len(zones_free) <= NZones + 1 /\ Len(zones_free) < MaxFree
    OBVIOUS
  <2>1. Len(zones_free) \in Nat /\ Len(zones_free) <= NZones + 1
    BY FewBlocks, ListParts DEF IInv, TypeInv, BlockList
  <2> QED BY <2>1, AreaAssumption
<1> QED BY <1>1, AreaInvariant, PTL

=============================================================================
