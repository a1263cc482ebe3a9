--------------------------- MODULE HashIndex_proofs ---------------------------
(***************************************************************************)
(* The index of the block hashes is sorted whenever the main loop is at    *)
(* rest, nobody searches it while it shifts, and a search that no removal  *)
(* disturbs is right - for every set of hashes and of threads.             *)
(***************************************************************************)
EXTENDS HashIndex, TLAPS

Adding == pc \in {"hash", "place", "shift"}
Inside(t) == rd[t] \in {"search", "release"}

\* How far the loops have got, and who holds the lock.
BoundsInv ==
    /\ count <= alloc
    /\ files = IF Adding THEN count + 1 ELSE count
    /\ Adding => count < MaxBlocks
    /\ pc = "place" => lo <= count /\ hi < count /\ lo <= hi + 1
    /\ pc = "shift" => lo <= n /\ n <= count /\ count < alloc /\ count > 0
    /\ pc = "identity" => n <= count /\ count < alloc
    /\ pc \in {"identity", "sort"} => count > 0
    /\ pc # "idle" => rd[Main] = "idle"
    /\ count = 0 => \A t \in Rpc : rd[t] = "idle"
    /\ lock = {t \in Threads : Inside(t)} \cup (IF pc = "shift" THEN {Main} ELSE {})
    /\ pc = "shift" => \A t \in Threads : ~Inside(t)
    /\ \A t \in Threads : rd[t] = "read" => res[t] # Missing

\* No two blocks have the same hash.
DistinctInv ==
    /\ \A i, j \in 0 .. count - 1 : hashes[i] = hashes[j] => i = j
    /\ Adding => \A i \in 0 .. count - 1 : hashes[i] # new
    /\ pc \in {"place", "shift"} => hashes[count] = new

\* The array without the entry that is free while it shifts.
View(i) == IF pc = "shift" /\ i >= n THEN rindex[i + 1] ELSE rindex[i]
ViewKey(i) == hashes[View(i)]

\* Each block is in the array once ...
NamesInv ==
    pc # "identity" =>
        /\ \A i \in 0 .. count - 1 : View(i) \in 0 .. count - 1
        /\ \A i, j \in 0 .. count - 1 : View(i) = View(j) => i = j
        /\ \A h \in 0 .. count - 1 : \E i \in 0 .. count - 1 : View(i) = h

\* ... in order, but while it is made anew; the new hash goes to position lo.
OrderInv ==
    /\ pc = "identity" => \A i \in 0 .. n - 1 : rindex[i] = i
    /\ pc \notin {"identity", "sort"} =>
          \A i, j \in 0 .. count - 1 : i < j => ViewKey(i) < ViewKey(j)
    /\ pc = "place" => \A i \in 0 .. count - 1 :
                          /\ i < lo => ViewKey(i) < new
                          /\ i > hi => ViewKey(i) > new
    /\ pc = "shift" => \A i \in 0 .. count - 1 :
                          /\ i < lo => ViewKey(i) < new
                          /\ i >= lo => ViewKey(i) > new

\* What a search that no removal disturbed has ruled out.
Ruled(t) ==
    /\ Inside(t) => pc \notin {"identity", "sort"}
    /\ rd[t] = "search" =>
          /\ left[t] <= bound[t] /\ right[t] < bound[t]
          /\ bound[t] <= count + 1 =>
                \A i \in 0 .. count - 1 :
                    /\ i < left[t] => KeyAt(i) < want[t]
                    /\ (i > right[t] /\ i < bound[t]) => KeyAt(i) > want[t]
    /\ rd[t] = "release" =>
          /\ res[t] \in 0 .. count - 1 => KeyAt(res[t]) = want[t]
          /\ (res[t] = Missing /\ bound[t] <= count + 1) =>
                \A i \in 0 .. count - 1 : i < bound[t] => KeyAt(i) # want[t]
SearchInv == \A t \in Threads \ torn : Ruled(t)

IndexInv == TypeOK /\ BoundsInv /\ DistinctInv /\ NamesInv /\ OrderInv /\ SearchInv
-----------------------------------------------------------------------------

\* The middle of a range lies in it.
LEMMA MidBetween ==
    ASSUME NEW l \in Int, NEW r \in Int, l <= r
    PROVE  Mid(l, r) \in Int /\ l <= Mid(l, r) /\ Mid(l, r) <= r
BY DEF Mid

\* Numbers below the number of blocks are slots of the arrays.
LEMMA SlotFacts ==
    ASSUME IndexInv
    PROVE  /\ count \in Nat /\ count <= MaxBlocks /\ MaxBlocks \in Nat
           /\ \A i \in 0 .. count - 1 : i \in Slots /\ rindex[i] \in Slots /\ KeyAt(i) \in Nat
BY BoundAssumption DEF IndexInv, TypeOK, Slots, KeyAt

\* Init: nothing is in the arrays, nobody looks.
LEMMA InitIndexInv == Init => IndexInv
<1> SUFFICES ASSUME Init PROVE IndexInv
    OBVIOUS
<1>1. TypeOK
    BY BoundAssumption DEF Init, TypeOK, Slots, Missing
<1>2. BoundsInv
    BY BoundAssumption DEF Init, BoundsInv, Adding, Inside, Threads
<1>3. DistinctInv /\ NamesInv /\ OrderInv
    BY DEF Init, DistinctInv, NamesInv, OrderInv, Adding
<1>4. SearchInv
    BY DEF Init, SearchInv, Ruled, Inside, Threads
<1> QED  BY <1>1, <1>2, <1>3, <1>4 DEF IndexInv

\* block_add_index starts with a hash that is not on the chain.
LEMMA AppendIndexStep ==
    ASSUME IndexInv, NEW h \in Hash, AppendIndex(h)
    PROVE  IndexInv'
<1> USE DEF IndexInv, AppendIndex, arrays, readVars
<1>1. TypeOK'
    BY HashAssumption, BoundAssumption DEF TypeOK, BoundsInv, Adding
<1>2. BoundsInv'
    BY DEF TypeOK, BoundsInv, Adding, Inside
<1>3. DistinctInv'
    BY DEF DistinctInv, Adding, OnChain
<1>4. NamesInv' /\ OrderInv'
    BY DEF NamesInv, OrderInv, View, ViewKey
<1>5. SearchInv'
    BY DEF SearchInv, Ruled, Inside, KeyAt
<1> QED  BY <1>1, <1>2, <1>3, <1>4, <1>5

\* The new hash goes behind those of the chain, where no entry looks yet.
LEMMA WriteHashStep ==
    ASSUME IndexInv, WriteHash
    PROVE  IndexInv'
<1> USE DEF IndexInv, WriteHash, readVars
<1>0. /\ count \in Nat /\ count < MaxBlocks /\ count \in Slots
      /\ \A i \in 0 .. count - 1 : i \in Slots /\ i # count
      /\ \A i \in 0 .. count - 1 : rindex[i] \in 0 .. count - 1
  <2>1. count \in Nat /\ count < MaxBlocks
      BY BoundAssumption DEF TypeOK, BoundsInv, Adding
  <2> QED  BY <2>1, BoundAssumption DEF Slots, NamesInv, View
<1>1. TypeOK'
    BY <1>0, BoundAssumption DEF TypeOK
<1>2. BoundsInv'
    BY <1>0 DEF TypeOK, BoundsInv, Adding, Inside
<1>3. DistinctInv'
    BY <1>0 DEF TypeOK, DistinctInv, Adding
<1>4. NamesInv'
    BY DEF NamesInv, View
<1>5. \A i \in 0 .. count - 1 : KeyAt(i)' = KeyAt(i) /\ ViewKey(i)' = KeyAt(i) /\ ViewKey(i) = KeyAt(i)
    BY <1>0 DEF TypeOK, KeyAt, View, ViewKey
<1>6. OrderInv'
    BY <1>0, <1>5 DEF OrderInv
<1>7. SearchInv'
    BY <1>5, <1>0 DEF SearchInv, Ruled, Inside
<1> QED  BY <1>1, <1>2, <1>3, <1>4, <1>6, <1>7

\* One call of binarySearchg halves the range between lo and hi.
LEMMA PlaceStep ==
    ASSUME IndexInv, Place
    PROVE  IndexInv'
<1> USE DEF IndexInv, Place, arrays, readVars
<1> DEFINE m == Mid(lo, hi)
<1>0. /\ lo \in Nat /\ hi \in Int /\ lo <= hi /\ hi < count /\ count \in Nat /\ count < MaxBlocks
      /\ m \in Int /\ lo <= m /\ m <= hi /\ m \in 0 .. count - 1
  <2>1. /\ lo \in Nat /\ hi \in Int /\ lo <= hi /\ hi < count
        /\ count \in Nat /\ count < MaxBlocks
      BY BoundAssumption DEF TypeOK, BoundsInv, Adding
  <2>2. m \in Int /\ lo <= m /\ m <= hi
      BY <2>1, MidBetween
  <2> QED  BY <2>1, <2>2
<1> HIDE DEF m
<1>1. CASE KeyAt(m) > new /\ hi' = m - 1 /\ lo' = lo
  <2>1. TypeOK' /\ BoundsInv'
      BY <1>0, <1>1, BoundAssumption DEF TypeOK, BoundsInv, Adding, Inside
  <2>2. DistinctInv' /\ NamesInv'
      BY DEF DistinctInv, Adding, NamesInv, View
  <2>3. \A i \in 0 .. count - 1 : i >= m => ViewKey(i) > new
      BY <1>0, <1>1, SlotFacts DEF OrderInv, ViewKey, View, KeyAt, TypeOK
  <2>4. OrderInv'
      BY <1>0, <1>1, <2>3 DEF OrderInv, ViewKey, View
  <2>5. SearchInv'
      BY DEF SearchInv, Ruled, Inside, KeyAt
  <2> QED  BY <2>1, <2>2, <2>4, <2>5
<1>2. CASE ~(KeyAt(m) > new) /\ lo' = m + 1 /\ hi' = hi
  <2>1. TypeOK' /\ BoundsInv'
      BY <1>0, <1>2, BoundAssumption DEF TypeOK, BoundsInv, Adding, Inside
  <2>2. DistinctInv' /\ NamesInv'
      BY DEF DistinctInv, Adding, NamesInv, View
  <2>3. KeyAt(m) < new
    <3>1. KeyAt(m) # new
        BY <1>0 DEF DistinctInv, Adding, NamesInv, View, KeyAt
    <3>2. KeyAt(m) \in Nat /\ new \in Nat
        BY <1>0, SlotFacts DEF TypeOK
    <3> QED  BY <1>2, <3>1, <3>2
  <2>4. \A i \in 0 .. count - 1 : i < m + 1 => ViewKey(i) < new
      BY <1>0, <2>3, SlotFacts DEF OrderInv, ViewKey, View, KeyAt, TypeOK
  <2>5. OrderInv'
      BY <1>0, <1>2, <2>4 DEF OrderInv, ViewKey, View
  <2>6. SearchInv'
      BY DEF SearchInv, Ruled, Inside, KeyAt
  <2> QED  BY <2>1, <2>2, <2>5, <2>6
<1> QED  BY <1>1, <1>2 DEF m

\* The first block needs neither a search nor the lock.
LEMMA AddFirstStep ==
    ASSUME IndexInv, AddFirst
    PROVE  IndexInv'
<1> USE DEF IndexInv, AddFirst, readVars
<1>0. 0 \in Slots /\ MaxBlocks > 0 /\ \A t \in Threads : rd[t] = "idle"
    BY BoundAssumption DEF TypeOK, BoundsInv, Adding, Slots, Threads
<1>1. TypeOK'
    BY <1>0, BoundAssumption DEF TypeOK
<1>2. BoundsInv'
    BY <1>0 DEF TypeOK, BoundsInv, Adding, Inside
<1>3. DistinctInv'
    BY DEF DistinctInv, Adding
<1>4. NamesInv' /\ OrderInv'
    BY <1>0 DEF TypeOK, NamesInv, OrderInv, View, ViewKey
<1>5. SearchInv'
    BY <1>0 DEF SearchInv, Ruled, Inside
<1> QED  BY <1>1, <1>2, <1>3, <1>4, <1>5

\* The lock is taken when nobody searches.
LEMMA LockIndexStep ==
    ASSUME IndexInv, LockIndex
    PROVE  IndexInv'
<1> USE DEF IndexInv, LockIndex, readVars
<1>0. /\ count \in Nat /\ count < MaxBlocks /\ alloc \in Nat /\ lo = hi + 1 /\ hi \in Int
      /\ lo \in Nat /\ lo <= count /\ n' = count
      /\ \A t \in Threads : ~Inside(t)
    BY DEF TypeOK, BoundsInv, Adding, LockFree, Inside
<1>1. TypeOK'
    BY <1>0, BoundAssumption DEF TypeOK, Threads
<1>2. BoundsInv'
    BY <1>0 DEF TypeOK, BoundsInv, Adding, Inside, LockFree
<1>3. \A i \in 0 .. count - 1 : View(i)' = View(i) /\ ViewKey(i)' = ViewKey(i)
    BY <1>0 DEF View, ViewKey
<1>4. DistinctInv'
    BY DEF DistinctInv, Adding
<1>5. NamesInv'
    BY <1>3, <1>0 DEF NamesInv
<1>6. OrderInv'
    BY <1>3, <1>0 DEF OrderInv
<1>7. SearchInv'
    BY <1>0 DEF SearchInv, Ruled, Inside
<1> QED  BY <1>1, <1>2, <1>4, <1>5, <1>6, <1>7

\* A shift moves the free entry down: what the others name stays.
LEMMA ShiftStep ==
    ASSUME IndexInv, Shift
    PROVE  IndexInv'
<1> USE DEF IndexInv, Shift, Shifted, readVars
<1>0. /\ count \in Nat /\ count < MaxBlocks /\ lo \in Nat /\ lo < n /\ n <= count
      /\ n \in Nat /\ n \in Slots /\ n - 1 \in Slots /\ n' = n - 1
      /\ \A t \in Threads : ~Inside(t)
    BY BoundAssumption DEF TypeOK, BoundsInv, Adding, Slots
<1>1. TypeOK'
    BY <1>0, BoundAssumption DEF TypeOK
<1>2. BoundsInv'
    BY <1>0 DEF TypeOK, BoundsInv, Adding, Inside
<1>3. \A i \in 0 .. count - 1 : View(i)' = View(i)
    BY <1>0 DEF TypeOK, View, Slots
<1>4. \A i \in 0 .. count - 1 : ViewKey(i)' = ViewKey(i)
    BY <1>3 DEF ViewKey
<1>5. DistinctInv'
    BY DEF DistinctInv, Adding
<1>6. NamesInv'
    BY <1>3, <1>0 DEF NamesInv
<1>7. OrderInv'
    BY <1>4, <1>0 DEF OrderInv
<1>8. SearchInv'
    BY <1>0 DEF SearchInv, Ruled, Inside
<1> QED  BY <1>1, <1>2, <1>5, <1>6, <1>7, <1>8

\* The new block takes the free entry, between the smaller and the larger hashes.
LEMMA InsertStep ==
    ASSUME IndexInv, Insert
    PROVE  IndexInv'
<1> USE DEF IndexInv, Insert, readVars
<1>0. /\ count \in Nat /\ count < MaxBlocks /\ lo \in Nat /\ lo = n /\ n <= count
      /\ n \in Slots /\ count \in Slots /\ count > 0 /\ count < alloc
      /\ \A t \in Threads : ~Inside(t)
    BY BoundAssumption DEF TypeOK, BoundsInv, Adding, Slots
<1>1. TypeOK'
    BY <1>0, BoundAssumption DEF TypeOK
<1>2. BoundsInv'
    BY <1>0 DEF TypeOK, BoundsInv, Adding, Inside
<1>3. DistinctInv'
  <2>1. \A i \in 0 .. count - 1 : hashes[i] # hashes[count]
      BY DEF DistinctInv, Adding
  <2>2. /\ hashes' = hashes /\ pc' = "idle"
        /\ \A i \in 0 .. count' - 1 : i \in 0 .. count - 1 \/ i = count
      BY <1>0
  <2> QED  BY <2>1, <2>2 DEF DistinctInv, Adding
<1>11. PICK p \in Slots : p = n   \* the free entry, as a constant
    BY <1>0
<1> DEFINE old(i) == IF i < p THEN i ELSE i - 1
<1>9. \A i \in 0 .. count : i # p => old(i) \in 0 .. count - 1
    BY <1>0, <1>11
<1>10. \A i \in 0 .. count : i # p => View(old(i)) = rindex[i]
    BY <1>0, <1>11 DEF View
<1> HIDE DEF old
<1>4. /\ View(p)' = count
      /\ \A i \in 0 .. count : i # p => View(i)' = View(old(i)) /\ old(i) \in 0 .. count - 1
  <2>1. \A i \in 0 .. count : View(i)' = IF i = p THEN count ELSE rindex[i]
      BY <1>0, <1>11 DEF TypeOK, View, Slots
  <2>2. p \in 0 .. count
      BY <1>0, <1>11
  <2>3. View(p)' = count
      BY <2>1, <2>2
  <2>4. ASSUME NEW i \in 0 .. count, i # p
        PROVE  View(i)' = View(old(i)) /\ old(i) \in 0 .. count - 1
      BY <2>1, <2>4, <1>9, <1>10
  <2> QED  BY <2>3, <2>4
<1>5. NamesInv'
  <2> SUFFICES /\ \A i \in 0 .. count : View(i)' \in 0 .. count
               /\ \A i, j \in 0 .. count : View(i)' = View(j)' => i = j
               /\ \A h \in 0 .. count : \E i \in 0 .. count : View(i)' = h
      BY <1>0 DEF NamesInv
  <2>1. \A i \in 0 .. count : View(i)' \in 0 .. count
    <3>1. ASSUME NEW i \in 0 .. count, i # p  PROVE View(i)' \in 0 .. count
        BY <1>0, <1>11, <1>4, <3>1 DEF NamesInv
    <3> QED  BY <3>1, <1>4, <1>0, <1>11
  <2>2. ASSUME NEW i \in 0 .. count, NEW j \in 0 .. count, View(i)' = View(j)'
        PROVE  i = j
    <3>1. CASE i = p \/ j = p
        BY <1>0, <1>11, <1>4, <2>2, <3>1 DEF NamesInv
    <3>2. CASE i # p /\ j # p
      <4>1. old(i) = old(j)
          BY <1>0, <1>11, <1>4, <2>2, <3>2 DEF NamesInv
      <4> QED  BY <4>1, <3>2, <1>0, <1>11 DEF old
    <3> QED  BY <3>1, <3>2
  <2>3. ASSUME NEW h \in 0 .. count
        PROVE  \E i \in 0 .. count : View(i)' = h
    <3>1. CASE h = count
        BY <3>1, <1>4, <1>0, <1>11
    <3>2. CASE h # count
      <4>1. PICK j \in 0 .. count - 1 : View(j) = h
          BY <3>2, <1>0 DEF NamesInv
      <4> DEFINE i == IF j < p THEN j ELSE j + 1
      <4>2. i \in 0 .. count /\ i # p /\ old(i) = j
          BY <1>0, <1>11 DEF old
      <4> QED  BY <4>1, <4>2, <1>4
    <3> QED  BY <3>1, <3>2
  <2> QED  BY <2>1, <2>2, <2>3
<1>6. /\ ViewKey(p)' = new
      /\ \A i \in 0 .. count : i # p => ViewKey(i)' = ViewKey(old(i))
    BY <1>4, <1>0, <1>11 DEF ViewKey, DistinctInv
<1>7. OrderInv'
  <2> SUFFICES ASSUME NEW i \in 0 .. count, NEW j \in 0 .. count, i < j
               PROVE  ViewKey(i)' < ViewKey(j)'
      BY <1>0 DEF OrderInv
  <2>1. CASE i = p
    <3>1. old(j) \in 0 .. count - 1 /\ old(j) >= lo
        BY <2>1, <1>0, <1>11, <1>4 DEF old
    <3> QED  BY <3>1, <2>1, <1>6, <1>0, <1>11 DEF OrderInv
  <2>2. CASE j = p
    <3>1. old(i) \in 0 .. count - 1 /\ old(i) < lo
        BY <2>2, <1>0, <1>11, <1>4 DEF old
    <3> QED  BY <3>1, <2>2, <1>6, <1>0, <1>11 DEF OrderInv
  <2>3. CASE i # p /\ j # p
    <3>1. old(i) < old(j) /\ old(i) \in 0 .. count - 1 /\ old(j) \in 0 .. count - 1
        BY <2>3, <1>0, <1>11, <1>4 DEF old
    <3> QED  BY <3>1, <2>3, <1>6 DEF OrderInv
  <2> QED  BY <2>1, <2>2, <2>3
<1>8. SearchInv'
    BY <1>0 DEF SearchInv, Ruled, Inside
<1> QED  BY <1>1, <1>2, <1>3, <1>5, <1>7, <1>8

\* The blocks that are left are still distinct; the array is not looked at.
LEMMA TruncateStep ==
    ASSUME IndexInv, NEW height \in 0 .. count - 2, Truncate(height)
    PROVE  IndexInv'
<1> USE DEF IndexInv, Truncate
<1>0. /\ count \in Nat /\ count <= MaxBlocks /\ height \in Nat /\ height + 1 < count
      /\ removals + 1 \in 0 .. MaxRemovals
    BY BoundAssumption DEF TypeOK
<1>1. TypeOK'
    BY <1>0, BoundAssumption DEF TypeOK
<1>2. BoundsInv'
    BY <1>0 DEF TypeOK, BoundsInv, Adding, Inside
<1>3. DistinctInv'
    BY <1>0 DEF DistinctInv, Adding
<1>4. NamesInv' /\ OrderInv'
    BY <1>0 DEF NamesInv, OrderInv
<1>5. SearchInv'
    BY DEF SearchInv, Ruled, Inside
<1> QED  BY <1>1, <1>2, <1>3, <1>4, <1>5

\* The loop of create_sorted_block_index ends with every block named once.
LEMMA IdentityStep ==
    ASSUME IndexInv, Identity
    PROVE  IndexInv'
<1> USE DEF IndexInv, Identity, readVars
<1>0. /\ count \in Nat /\ count < MaxBlocks /\ n \in Nat /\ n <= count /\ n \in Slots
      /\ pc' \in {"identity", "sort"} /\ n' = n + 1
      /\ pc' = "identity" => n < count
      /\ pc' = "sort" => n = count
    BY BoundAssumption DEF TypeOK, BoundsInv, Slots
<1>1. TypeOK'
    BY <1>0, BoundAssumption DEF TypeOK
<1>2. BoundsInv'
    BY <1>0 DEF TypeOK, BoundsInv, Adding, Inside
<1>3. DistinctInv'
    BY <1>0 DEF DistinctInv, Adding
<1>4. \A i \in 0 .. n : rindex'[i] = i
    BY <1>0 DEF TypeOK, OrderInv, Slots
<1>5. NamesInv'
    BY <1>0, <1>4 DEF NamesInv, View
<1>6. OrderInv'
    BY <1>0, <1>4 DEF OrderInv
<1>7. SearchInv'
    BY <1>0 DEF SearchInv, Ruled, Inside
<1> QED  BY <1>1, <1>2, <1>3, <1>5, <1>6, <1>7

\* qsort_c exchanges two entries.
LEMMA SwapStep ==
    ASSUME IndexInv, NEW p \in Inverted, Swap(p)
    PROVE  IndexInv'
<1> USE DEF IndexInv, Swap, mainVars, readVars
<1> DEFINE a == p[1]
           b == p[2]
<1>01. count \in Nat /\ count <= MaxBlocks /\ MaxBlocks \in Nat
    BY BoundAssumption DEF TypeOK
<1>02. a \in 0 .. count - 1 /\ b \in 0 .. count - 1 /\ a < b
    BY DEF Inverted
<1>0. /\ count \in Nat /\ count <= MaxBlocks
      /\ a \in 0 .. count - 1 /\ b \in 0 .. count - 1 /\ a # b
      /\ a \in Slots /\ b \in Slots
      /\ rindex' = [rindex EXCEPT ![a] = rindex[b], ![b] = rindex[a]]
    BY <1>01, <1>02 DEF Slots
<1> HIDE DEF a, b
<1>1. TypeOK'
  <2>1. rindex' \in [Slots -> Slots]
      BY <1>0 DEF TypeOK
  <2> QED  BY <2>1 DEF TypeOK
<1>2. BoundsInv'
    BY DEF BoundsInv, Adding, Inside
<1>3. DistinctInv'
    BY DEF DistinctInv, Adding
<1> DEFINE other(i) == IF i = a THEN b ELSE IF i = b THEN a ELSE i
<1>4. \A i \in 0 .. count - 1 : other(i) \in 0 .. count - 1 /\ other(other(i)) = i
    BY <1>0
<1>5. \A i \in 0 .. count - 1 : View(i)' = View(other(i))
  <2>1. \A i \in 0 .. count - 1 : i \in Slots
      BY <1>0, <1>01 DEF Slots
  <2>2. \A i \in 0 .. count - 1 : rindex'[i] = rindex[other(i)]
      BY <2>1, <1>0 DEF TypeOK
  <2>3. \A i \in 0 .. count - 1 : View(i)' = rindex'[i] /\ View(i) = rindex[i]
      BY DEF View
  <2> QED  BY <2>2, <2>3, <1>4
<1> HIDE DEF other
<1>6. NamesInv'
  <2> SUFFICES /\ \A i \in 0 .. count - 1 : View(i)' \in 0 .. count - 1
               /\ \A i, j \in 0 .. count - 1 : View(i)' = View(j)' => i = j
               /\ \A h \in 0 .. count - 1 : \E i \in 0 .. count - 1 : View(i)' = h
      BY DEF NamesInv
  <2>1. \A i \in 0 .. count - 1 : View(i)' \in 0 .. count - 1
      BY <1>4, <1>5 DEF NamesInv
  <2>2. ASSUME NEW i \in 0 .. count - 1, NEW j \in 0 .. count - 1, View(i)' = View(j)'
        PROVE  i = j
    <3>1. other(i) = other(j)
        BY <1>4, <1>5, <2>2 DEF NamesInv
    <3> QED  BY <3>1, <1>4
  <2>3. ASSUME NEW h \in 0 .. count - 1
        PROVE  \E i \in 0 .. count - 1 : View(i)' = h
    <3>1. PICK i \in 0 .. count - 1 : View(i) = h
        BY DEF NamesInv
    <3>2. View(other(i))' = h /\ other(i) \in 0 .. count - 1
      <4>1. other(i) \in 0 .. count - 1 /\ other(other(i)) = i
          BY <1>4
      <4>2. PICK j \in 0 .. count - 1 : j = other(i)
          BY <4>1
      <4>3. View(j)' = View(other(j))
          BY <1>5
      <4> QED  BY <4>1, <4>2, <4>3, <3>1, <1>5
    <3> QED  BY <3>2
  <2> QED  BY <2>1, <2>2, <2>3
<1>7. OrderInv'
    BY DEF OrderInv
<1>8. SearchInv'
    BY DEF SearchInv, Ruled, Inside
<1> QED  BY <1>1, <1>2, <1>3, <1>6, <1>7, <1>8

\* When nothing is left to exchange the entries are in order.
LEMMA SortedStep ==
    ASSUME IndexInv, Sorted
    PROVE  IndexInv'
<1> USE DEF IndexInv, Sorted, arrays, readVars
<1>0. count \in Nat /\ count <= MaxBlocks
    BY BoundAssumption DEF TypeOK
<1>1. TypeOK'
    BY BoundAssumption DEF TypeOK
<1>2. BoundsInv'
    BY DEF BoundsInv, Adding, Inside
<1>3. DistinctInv'
    BY DEF DistinctInv, Adding
<1>4. NamesInv'
    BY DEF NamesInv, View
<1>5. ASSUME NEW i \in 0 .. count - 1, NEW j \in 0 .. count - 1, i < j
      PROVE  KeyAt(i) < KeyAt(j)
  <2>1. ~(KeyAt(i) > KeyAt(j))
    <3>1. <<i, j>> \notin Inverted
        OBVIOUS
    <3> QED  BY <3>1, <1>5 DEF Inverted
  <2>2. KeyAt(i) # KeyAt(j)
      BY <1>5, <1>0 DEF NamesInv, DistinctInv, View, KeyAt
  <2> QED  BY <2>1, <2>2, SlotFacts
<1>6. OrderInv'
    BY <1>5 DEF OrderInv, ViewKey, View, KeyAt
<1>7. SearchInv'
    BY DEF SearchInv, Ruled, Inside
<1> QED  BY <1>1, <1>2, <1>3, <1>4, <1>6, <1>7

-----------------------------------------------------------------------------

\* A lookup changes nothing the main loop relies on.
LEMMA ReaderFrame ==
    ASSUME IndexInv, UNCHANGED <<arrays, mainVars>>
    PROVE  DistinctInv' /\ NamesInv' /\ OrderInv'
<1> USE DEF IndexInv, arrays, mainVars
<1>1. DistinctInv'
    BY DEF DistinctInv, Adding
<1>2. NamesInv'
    BY DEF NamesInv, View
<1>3. OrderInv'
    BY DEF OrderInv, ViewKey, View
<1> QED  BY <1>1, <1>2, <1>3

\* The call takes the bound from the file.
LEMMA CallStep ==
    ASSUME IndexInv, NEW t \in Threads, NEW h \in Hash, NEW more \in {0, 1}, Call(t, h, more)
    PROVE  IndexInv'
<1> USE DEF IndexInv, Call, arrays, mainVars
<1>0. files \in Nat /\ files <= MaxBlocks
    BY BoundAssumption DEF TypeOK
<1>1. TypeOK'
  <2>2. bound' \in [Threads -> 0 .. MaxBlocks + 1] /\ want' \in [Threads -> Nat]
      BY <1>0, HashAssumption, BoundAssumption DEF TypeOK
  <2>3. rd' \in [Threads -> {"idle", "acquire", "search", "release", "read", "done"}]
      BY DEF TypeOK
  <2> QED  BY <2>2, <2>3 DEF TypeOK
<1>2. \A s \in Threads : Inside(s)' <=> Inside(s)
    BY DEF Inside, TypeOK
<1>3. BoundsInv'
    BY <1>2, ThreadAssumption DEF TypeOK, BoundsInv, Adding, Threads
<1>4. SearchInv'
    BY <1>2 DEF TypeOK, SearchInv, Ruled, KeyAt
<1> QED  BY <1>1, <1>3, <1>4, ReaderFrame

\* With the lock the search has the whole range before it.
LEMMA AcquireStep ==
    ASSUME IndexInv, NEW t \in Threads, Acquire(t)
    PROVE  IndexInv'
<1> USE DEF IndexInv, Acquire, arrays, mainVars
<1>1. TypeOK'
    BY BoundAssumption DEF TypeOK
<1>2. pc # "shift"
    BY DEF BoundsInv
<1>3. \A s \in Threads : Inside(s)' <=> Inside(s) \/ s = t
    BY DEF Inside, TypeOK
<1>4. BoundsInv'
    BY <1>2, <1>3, ThreadAssumption DEF TypeOK, BoundsInv, Adding, Threads
<1>5. SearchInv'
  <2> SUFFICES ASSUME NEW s \in Threads \ torn'
               PROVE  Ruled(s)'
      BY DEF SearchInv
  <2>1. CASE s = t
      BY <2>1, <1>2, BoundAssumption DEF TypeOK, Ruled, Inside, KeyAt
  <2>2. CASE s # t
      BY <2>2, <1>3 DEF TypeOK, SearchInv, Ruled, Inside, KeyAt
  <2> QED  BY <2>1, <2>2
<1> QED  BY <1>1, <1>4, <1>5, ReaderFrame

\* The middle is the end of the range only when nothing else is left of it.
LEMMA MidIsEnd ==
    ASSUME NEW l \in Int, NEW r \in Int, l <= r, Mid(l, r) = r
    PROVE  l = r
BY DEF Mid

\* Where a thread searches the entries of the chain are in order.
LEMMA OrderForReader ==
    ASSUME IndexInv, NEW t \in Threads \ torn, Inside(t)
    PROVE  \A i, j \in 0 .. count - 1 : i < j => KeyAt(i) < KeyAt(j)
<1>1. pc \notin {"identity", "sort", "shift"}
    BY DEF IndexInv, SearchInv, Ruled, BoundsInv
<1>2. \A i \in 0 .. count - 1 : ViewKey(i) = KeyAt(i)
    BY <1>1 DEF ViewKey, View, KeyAt
<1> QED  BY <1>1, <1>2 DEF IndexInv, OrderInv

\* One call of binarySearch ends the search or halves the range.
LEMMA SearchStep ==
    ASSUME IndexInv, NEW t \in Threads, Search(t)
    PROVE  IndexInv'
<1> USE DEF IndexInv, arrays, mainVars
<1> DEFINE m == Mid(left[t], right[t])
<1>0. /\ left[t] \in Nat /\ right[t] \in Int /\ right[t] <= MaxBlocks /\ -1 <= right[t]
      /\ bound[t] \in Nat /\ want[t] \in Nat
      /\ count \in Nat /\ alloc \in Nat /\ count <= alloc /\ alloc <= MaxBlocks /\ MaxBlocks \in Nat
      /\ rd[t] = "search"
    BY BoundAssumption DEF Search, TypeOK, BoundsInv
<1>1. ASSUME left[t] <= right[t]
      PROVE  m \in Nat /\ left[t] <= m /\ m <= right[t] /\ (m = right[t] => left[t] = right[t])
  <2>1. left[t] \in Int /\ right[t] \in Int
      BY <1>0
  <2>2. m \in Int /\ left[t] <= m /\ m <= right[t]
      BY <2>1, <1>1, MidBetween
  <2>3. m = right[t] => left[t] = right[t]
      BY <2>1, <1>1, MidIsEnd
  <2> QED  BY <1>0, <2>2, <2>3
<1>2. /\ UNCHANGED <<arrays, lock, mainVars, want, bound, torn>>
      /\ \/ /\ left[t] > right[t] \/ m >= alloc
            /\ res' = [res EXCEPT ![t] = Missing] /\ rd' = [rd EXCEPT ![t] = "release"]
            /\ UNCHANGED <<left, right>>
         \/ /\ left[t] <= right[t] /\ m < alloc /\ KeyAt(m) = want[t]
            /\ res' = [res EXCEPT ![t] = m] /\ rd' = [rd EXCEPT ![t] = "release"]
            /\ UNCHANGED <<left, right>>
         \/ /\ left[t] <= right[t] /\ m < alloc /\ KeyAt(m) > want[t]
            /\ right' = [right EXCEPT ![t] = m - 1] /\ UNCHANGED <<left, res, rd>>
         \/ /\ left[t] <= right[t] /\ m < alloc /\ KeyAt(m) < want[t]
            /\ left' = [left EXCEPT ![t] = m + 1] /\ UNCHANGED <<right, res, rd>>
  <2> HIDE DEF m
  <2>1. left[t] <= right[t] => KeyAt(m) \in Nat /\ m \in Slots
    <3>1. left[t] <= right[t] => m \in Slots
        BY <1>0, <1>1 DEF Slots
    <3> QED  BY <3>1 DEF TypeOK, KeyAt
  <2>2. Mid(left[t], right[t]) = m
      BY DEF m
  <2> QED  BY <1>0, <1>1, <2>1, <2>2 DEF Search, LeftHalf
<1> HIDE DEF m
<1>8. left[t] <= right[t] => KeyAt(m) \in Nat
  <2>1. left[t] <= right[t] => m \in Slots
      BY <1>0, <1>1 DEF Slots
  <2> QED  BY <2>1 DEF TypeOK, KeyAt
<1>3. TypeOK'
  <2>1. left[t] <= right[t] => m \in Slots
      BY <1>0, <1>1 DEF Slots
  <2>2. left' \in [Threads -> Nat]
      BY <1>1, <1>2 DEF TypeOK
  <2>3. right' \in [Threads -> -1 .. MaxBlocks]
      BY <1>0, <1>1, <1>2 DEF TypeOK
  <2>4. res' \in [Threads -> Slots \cup {Missing}]
      BY <1>2, <2>1 DEF TypeOK
  <2>5. rd' \in [Threads -> {"idle", "acquire", "search", "release", "read", "done"}]
      BY <1>2 DEF TypeOK
  <2> QED  BY <1>2, <2>2, <2>3, <2>4, <2>5 DEF TypeOK
<1>4. /\ \A s \in Threads : Inside(s)' <=> Inside(s)
      /\ \A s \in Threads : rd'[s] = "idle" <=> rd[s] = "idle"
      /\ \A s \in Threads : rd'[s] = "read" => rd[s] = "read" /\ res'[s] = res[s]
    BY <1>0, <1>2 DEF Inside, TypeOK
<1>5. BoundsInv'
    BY <1>2, <1>4, ThreadAssumption DEF BoundsInv, Adding, Threads
<1>6. DistinctInv' /\ NamesInv' /\ OrderInv'
    BY <1>2, ReaderFrame
<1>7. SearchInv'
  <2> SUFFICES ASSUME NEW s \in Threads \ torn
               PROVE  Ruled(s)'
      BY <1>2 DEF SearchInv
  <2>0. Ruled(s)
      BY DEF SearchInv
  <2>1. CASE s # t
      BY <2>0, <2>1, <1>2 DEF TypeOK, Ruled, Inside, KeyAt
  <2>2. CASE s = t
    <3>0. /\ \A i \in 0 .. count - 1 : KeyAt(i) \in Nat /\ KeyAt(i)' = KeyAt(i)
          /\ \A i, j \in 0 .. count - 1 : i < j => KeyAt(i) < KeyAt(j)
        BY <1>0, <1>2, <2>2, SlotFacts, OrderForReader DEF Inside, KeyAt
    <3>1. CASE left[t] > right[t] \/ m >= alloc
      <4>1. /\ rd'[t] = "release" /\ res'[t] = Missing /\ want'[t] = want[t]
            /\ bound'[t] = bound[t] /\ count' = count /\ pc' = pc /\ Inside(t)
          BY <1>0, <1>1, <1>2, <3>1 DEF TypeOK, Inside
      <4>2. ASSUME bound[t] <= count + 1, NEW i \in 0 .. count - 1, i < bound[t]
            PROVE  KeyAt(i) # want[t]
        <5>1. i < left[t] \/ i > right[t]
            BY <1>0, <1>1, <2>0, <2>2, <3>1, <4>2 DEF Ruled
        <5> QED  BY <5>1, <1>0, <2>0, <2>2, <3>0, <4>2 DEF Ruled
      <4> QED  BY <1>0, <2>0, <2>2, <3>0, <4>1, <4>2 DEF Ruled, Missing, Inside
    <3>2. CASE left[t] <= right[t] /\ m < alloc /\ KeyAt(m) = want[t]
      <4>1. rd'[t] = "release" /\ res'[t] = m /\ m # Missing /\ want'[t] = want[t]
          BY <1>0, <1>1, <1>2, <3>2 DEF TypeOK, Missing
      <4>2. KeyAt(res[t])' = KeyAt(m)
          BY <4>1, <1>2 DEF KeyAt
      <4>3. pc' = pc /\ Inside(t)
          BY <1>0, <1>2 DEF Inside
      <4> QED  BY <2>0, <2>2, <3>2, <4>1, <4>2, <4>3 DEF Ruled, Inside
    <3>3. CASE left[t] <= right[t] /\ m < alloc /\ KeyAt(m) > want[t]
      <4>1. /\ rd'[t] = "search" /\ right'[t] = m - 1 /\ left'[t] = left[t]
            /\ want'[t] = want[t] /\ bound'[t] = bound[t] /\ count' = count /\ pc' = pc
          BY <1>0, <1>1, <1>2, <1>8, <3>3 DEF TypeOK
      <4>2. \A i \in 0 .. count - 1 : i > m - 1 => KeyAt(i) > want[t]
        <5> SUFFICES ASSUME NEW i \in 0 .. count - 1, i > m - 1
                     PROVE  KeyAt(i) > want[t]
            OBVIOUS
        <5>1. m \in 0 .. count - 1 /\ (i = m \/ m < i)
            BY <1>0, <1>1, <3>3
        <5> QED  BY <5>1, <1>0, <3>0, <3>3
      <4> QED  BY <1>0, <1>1, <2>0, <2>2, <3>0, <3>3, <4>1, <4>2 DEF Ruled, Inside
    <3>4. CASE left[t] <= right[t] /\ m < alloc /\ KeyAt(m) < want[t]
      <4>1. /\ rd'[t] = "search" /\ left'[t] = m + 1 /\ right'[t] = right[t]
            /\ want'[t] = want[t] /\ bound'[t] = bound[t] /\ count' = count /\ pc' = pc
          BY <1>0, <1>1, <1>2, <1>8, <3>4 DEF TypeOK
      <4>2. ASSUME bound[t] <= count + 1, NEW i \in 0 .. count - 1, i < m + 1
            PROVE  KeyAt(i) < want[t]
        <5>1. CASE m < count
          <6>1. m \in 0 .. count - 1 /\ (i = m \/ i < m)
              BY <1>0, <1>1, <3>4, <4>2, <5>1
          <6> QED  BY <6>1, <1>0, <3>0, <3>4
        <5>2. CASE m >= count
          <6>1. i < left[t]
              BY <1>0, <1>1, <2>0, <2>2, <3>4, <4>2, <5>2 DEF Ruled
          <6> QED  BY <6>1, <1>0, <2>0, <2>2, <4>2 DEF Ruled
        <5> QED  BY <1>0, <1>1, <3>4, <5>1, <5>2
      <4> QED  BY <1>0, <1>1, <2>0, <2>2, <3>0, <3>4, <4>1, <4>2 DEF Ruled, Inside
    <3> QED  BY <1>2, <3>1, <3>2, <3>3, <3>4
  <2> QED  BY <2>1, <2>2
<1> QED  BY <1>3, <1>5, <1>6, <1>7

\* The lock is left; the position is kept.
LEMMA ReleaseStep ==
    ASSUME IndexInv, NEW t \in Threads, Release(t)
    PROVE  IndexInv'
<1> USE DEF IndexInv, Release, arrays, mainVars
<1>1. TypeOK'
    BY BoundAssumption DEF TypeOK
<1>2. pc # "shift"
    BY DEF BoundsInv, Inside
<1>3. \A s \in Threads : Inside(s)' <=> Inside(s) /\ s # t
    BY DEF Inside, TypeOK
<1>4. BoundsInv'
    BY <1>2, <1>3, ThreadAssumption DEF TypeOK, BoundsInv, Adding, Threads
<1>5. SearchInv'
    BY <1>3 DEF TypeOK, SearchInv, Ruled, Inside, KeyAt
<1> QED  BY <1>1, <1>4, <1>5, ReaderFrame

\* Reading the height and returning touch nothing others look at.
LEMMA ReadHeightStep ==
    ASSUME IndexInv, NEW t \in Threads, ReadHeight(t)
    PROVE  IndexInv'
<1> USE DEF IndexInv, ReadHeight, arrays, mainVars
<1>1. TypeOK'
  <2>1. res[t] \in Slots
      BY DEF TypeOK, BoundsInv
  <2> QED  BY <2>1 DEF TypeOK
<1>2. \A s \in Threads : Inside(s)' <=> Inside(s)
    BY DEF Inside, TypeOK
<1>3. BoundsInv'
    BY <1>2, ThreadAssumption DEF TypeOK, BoundsInv, Adding, Threads
<1>4. SearchInv'
    BY <1>2 DEF TypeOK, SearchInv, Ruled, Inside, KeyAt
<1> QED  BY <1>1, <1>3, <1>4, ReaderFrame

LEMMA ReturnStep ==
    ASSUME IndexInv, NEW t \in Threads, Return(t)
    PROVE  IndexInv'
<1> USE DEF IndexInv, Return, arrays, mainVars
<1>1. TypeOK'
    BY BoundAssumption DEF TypeOK
<1>2. \A s \in Threads : Inside(s)' <=> Inside(s)
    BY DEF Inside, TypeOK
<1>3. BoundsInv'
    BY <1>2, ThreadAssumption DEF TypeOK, BoundsInv, Adding, Threads
<1>4. SearchInv'
    BY <1>2 DEF TypeOK, SearchInv, Ruled, Inside, KeyAt
<1> QED  BY <1>1, <1>3, <1>4, ReaderFrame
-----------------------------------------------------------------------------

\* IndexInv holds in every state of the specification.
LEMMA IndexInvariant == Spec => []IndexInv
<1>1. ASSUME IndexInv, [Next]_vars
      PROVE  IndexInv'
  <2>1. ASSUME MainStep
        PROVE  IndexInv'
      BY <1>1, <2>1, AppendIndexStep, WriteHashStep, PlaceStep, AddFirstStep, LockIndexStep,
         ShiftStep, InsertStep, TruncateStep, IdentityStep, SortedStep, SwapStep DEF MainStep
  <2>2. ASSUME NEW t \in Threads, Lookup(t)
        PROVE  IndexInv'
      BY <1>1, <2>2, CallStep, AcquireStep, SearchStep, ReleaseStep, ReadHeightStep,
         ReturnStep DEF Lookup
  <2>3. CASE UNCHANGED vars
    <3>1. UNCHANGED <<arrays, mainVars>> /\ UNCHANGED <<lock, readVars>>
        BY <2>3 DEF vars
    <3>2. TypeOK'
        BY <1>1, <3>1 DEF IndexInv, TypeOK, arrays, mainVars, readVars
    <3>3. BoundsInv' /\ SearchInv'
        BY <1>1, <3>1 DEF IndexInv, BoundsInv, Adding, SearchInv, Ruled, Inside, KeyAt,
                          arrays, mainVars, readVars
    <3> QED  BY <1>1, <3>1, <3>2, <3>3, ReaderFrame DEF IndexInv
  <2> QED  BY <1>1, <2>1, <2>2, <2>3 DEF Next
<1> QED  BY <1>1, InitIndexInv, PTL DEF Spec

\* Every loop over the arrays stays inside them, whatever the threads do.
THEOREM IndexTypeCorrect == Spec => []TypeOK
<1>1. IndexInv => TypeOK
    BY DEF IndexInv
<1> QED  BY <1>1, IndexInvariant, PTL

\* Adding by shifts and sorting anew both leave the array in order, each block
\* in it once (add_sorted_block, create_sorted_block_index).
THEOREM IndexSorted == Spec => []SortedAtRest
<1>1. IndexInv => SortedAtRest
  <2> SUFFICES ASSUME IndexInv, pc = "idle"
               PROVE  /\ \A i \in 0 .. count - 1 : rindex[i] \in 0 .. count - 1
                      /\ \A i, j \in 0 .. count - 1 : i < j => KeyAt(i) < KeyAt(j)
      BY DEF SortedAtRest
  <2>1. \A i \in 0 .. count - 1 : View(i) = rindex[i] /\ ViewKey(i) = KeyAt(i)
      BY DEF View, ViewKey, KeyAt
  <2> QED  BY <2>1 DEF IndexInv, NamesInv, OrderInv
<1> QED  BY <1>1, IndexInvariant, PTL

\* No thread searches the array while add_sorted_block shifts it (sort_lock).
THEOREM ReadersExcluded == Spec => []SearchSeesWhole
<1>1. IndexInv => SearchSeesWhole
    BY DEF IndexInv, BoundsInv, Inside, SearchSeesWhole
<1> QED  BY <1>1, IndexInvariant, PTL

\* A search no removal disturbed is right when it ends under the lock, for any
\* number of threads that look up and blocks that are added meanwhile.
THEOREM SearchesAreRight == Spec => []SearchIsRight
<1>1. IndexInv => SearchIsRight
  <2> SUFFICES ASSUME IndexInv, NEW t \in Threads, rd[t] = "release", t \notin torn
               PROVE  /\ res[t] \in 0 .. count - 1 => KeyAt(res[t]) = want[t]
                      /\ (res[t] = Missing /\ bound[t] \in {count, count + 1}) => ~OnChain(want[t])
      BY DEF SearchIsRight
  <2>1. Ruled(t)
      BY DEF IndexInv, SearchInv
  <2>2. ASSUME res[t] = Missing, bound[t] \in {count, count + 1}, OnChain(want[t])
        PROVE  FALSE
    <3>1. pc \notin {"identity", "sort", "shift"}
        BY <2>1 DEF IndexInv, Ruled, Inside, BoundsInv
    <3>2. PICK h \in 0 .. count - 1 : hashes[h] = want[t]
        BY <2>2 DEF OnChain
    <3>3. PICK i \in 0 .. count - 1 : rindex[i] = h
        BY <3>1 DEF IndexInv, NamesInv, View
    <3>4. count \in Nat /\ bound[t] <= count + 1 /\ i < bound[t]
        BY <2>2, SlotFacts
    <3> QED  BY <2>1, <2>2, <3>2, <3>3, <3>4 DEF Ruled, KeyAt
  <2> QED  BY <2>1, <2>2 DEF Ruled
<1> QED  BY <1>1, IndexInvariant, PTL
=============================================================================
