------------------------- MODULE WalletFiles_proofs -------------------------
(***************************************************************************)
(* Proofs about the files of the wallet (WalletFiles). Four facts about the *)
(* files when the node rests are proved for every pool of transactions,     *)
(* every use of the node and every bound: they are well typed, no coin that *)
(* can be spent is missing, the stakes are those of the chain, and, when no *)
(* thread but the main loop scans, all of them are what the chain says.     *)
(*                                                                          *)
(* The argument has three parts, each with its own invariant. OrderInv says *)
(* where the main loop is: the chain, what of its last block is entered or  *)
(* removed (Settled), and the index of addresses, in an order in which      *)
(* nothing comes before what it spends of. GrowthInv is for a node that     *)
(* removes no block, with any number of scans at once: what a file lacks is *)
(* still owed by the main loop or by a scan that has not reached it.        *)
(* AloneInv is for a node whose main loop alone scans, and that removes     *)
(* blocks: the files are exactly what the transactions entered so far leave *)
(* (Exact), entered block by block or by a scan.                            *)
(***************************************************************************)
EXTENDS WalletFiles, FiniteSetTheorems, WellFoundedInduction, TLAPS

\* A set of numbers has a least one.
LEMMA LeastNumber ==
  ASSUME NEW S \in SUBSET Nat, S # {}
  PROVE  \E m \in S : \A j \in S : m <= j
<1> DEFINE R == OpToRel(<, Nat)
<1>1. ASSUME NEW y \in Nat, NEW x \in Nat, y < x
      PROVE  <<y, x>> \in R
  <2>1. <<y, x>> \in Nat \X Nat /\ <<y, x>>[1] < <<y, x>>[2]
    BY <1>1
  <2> QED BY <2>1 DEF OpToRel
<1>2. PICK m \in S : \A y \in S : ~(<<y, m>> \in R)
  BY NatLessThanWellFounded, WFMin
<1> HIDE DEF R
<1>3. ASSUME NEW y \in S PROVE m <= y
  <2>1. m \in Nat /\ y \in Nat /\ ~(y < m)
    BY <1>1, <1>2
  <2> QED BY <2>1
<1> QED BY <1>3

LEMMA ConcatSet ==
  ASSUME NEW T, NEW r \in Seq(T), NEW s \in Seq(T)
  PROVE  r \o s \in Seq(T) /\ ToSet(r \o s) = ToSet(r) \cup ToSet(s)
<1> DEFINE m == Len(r)
           n == Len(s)
           q == r \o s
<1>1. /\ m \in Nat /\ n \in Nat /\ q \in Seq(T) /\ Len(q) = m + n
      /\ \A i \in 1 .. m : q[i] = r[i]
      /\ \A i \in 1 .. n : q[m + i] = s[i]
  OBVIOUS
<1>2. DOMAIN q = 1 .. m + n /\ DOMAIN r = 1 .. m /\ DOMAIN s = 1 .. n
  BY <1>1
<1> HIDE DEF q, m, n
<1>3. ASSUME NEW x \in ToSet(q) PROVE x \in ToSet(r) \cup ToSet(s)
  <2>1. PICK i \in 1 .. m + n : x = q[i]
    BY <1>2 DEF ToSet
  <2>2. CASE i <= m
    BY <1>1, <1>2, <2>1, <2>2 DEF ToSet
  <2>3. CASE ~(i <= m)
    <3>1. i - m \in 1 .. n /\ m + (i - m) = i
      BY <1>1, <2>3
    <3>2. x = s[i - m]
      BY <1>1, <2>1, <3>1
    <3> QED BY <1>2, <3>1, <3>2 DEF ToSet
  <2> QED BY <2>2, <2>3
<1>4. ASSUME NEW x \in ToSet(r) PROVE x \in ToSet(q)
  <2>1. PICK i \in 1 .. m : x = r[i]
    BY <1>2 DEF ToSet
  <2> QED BY <1>1, <1>2, <2>1 DEF ToSet
<1>5. ASSUME NEW x \in ToSet(s) PROVE x \in ToSet(q)
  <2>1. PICK i \in 1 .. n : x = s[i]
    BY <1>2 DEF ToSet
  <2>2. m + i \in 1 .. m + n /\ x = q[m + i]
    BY <1>1, <2>1
  <2> QED BY <1>2, <2>2 DEF ToSet
<1> QED BY <1>1, <1>3, <1>4, <1>5 DEF q

\* What Only has after n elements, from what it has after the one before.
OnlyStep(f, s, S, n) ==
    IF n = 0 THEN << >> ELSE IF s[n] \in S THEN Append(f[n - 1], s[n]) ELSE f[n - 1]

LEMMA OnlyFunction ==
  ASSUME NEW s, NEW S, Len(s) \in Nat
  PROVE  \E f : f = [n \in 0 .. Len(s) |-> OnlyStep(f, s, S, n)]
<1> DEFINE Good(m) == \E f : f = [n \in 0 .. m |-> OnlyStep(f, s, S, n)]
           Bad == {m \in 0 .. Len(s) : ~Good(m)}
<1>1. Good(0)
  <2> DEFINE f == [n \in 0 .. 0 |-> << >>]
  <2>1. f = [n \in 0 .. 0 |-> OnlyStep(f, s, S, n)]
    BY DEF OnlyStep
  <2> QED BY <2>1
<1>2. ASSUME NEW m \in 1 .. Len(s), Good(m - 1) PROVE Good(m)
  <2>1. PICK f : f = [n \in 0 .. m - 1 |-> OnlyStep(f, s, S, n)]
    BY <1>2
  <2> DEFINE g == [n \in 0 .. m |-> IF n < m THEN f[n] ELSE OnlyStep(f, s, S, m)]
  <2>2. ASSUME NEW n \in 0 .. m PROVE g[n] = OnlyStep(g, s, S, n)
    <3>1. n = 0 \/ g[n - 1] = f[n - 1]
      OBVIOUS
    <3>2. g[n] = OnlyStep(f, s, S, n)
      BY <2>1
    <3> QED BY <3>1, <3>2 DEF OnlyStep
  <2>3. g = [n \in 0 .. m |-> OnlyStep(g, s, S, n)]
    BY <2>2
  <2> QED BY <2>3
<1> HIDE DEF Good
<1>3. Bad = {}
  <2> SUFFICES ASSUME Bad # {} PROVE FALSE
    OBVIOUS
  <2>0. Bad \in SUBSET Nat
    OBVIOUS
  <2>1. PICK m \in Bad : \A j \in Bad : m <= j
    <3> HIDE DEF Bad
    <3> QED BY <2>0, LeastNumber
  <2>2. m # 0
    BY <1>1
  <2>3. m - 1 \in 0 .. Len(s) /\ m - 1 \notin Bad
    BY <2>1, <2>2
  <2> QED BY <1>2, <2>1, <2>2, <2>3
<1>4. Good(Len(s))
  BY <1>3
<1> QED BY <1>4 DEF Good

LEMMA OnlyUnfolded ==
  ASSUME NEW s, NEW S, Len(s) \in Nat
  PROVE  \E f : f = [n \in 0 .. Len(s) |-> OnlyStep(f, s, S, n)] /\ Only(s, S) = f[Len(s)]
<1> DEFINE f == CHOOSE f : f = [n \in 0 .. Len(s) |-> OnlyStep(f, s, S, n)]
<1>1. f = [n \in 0 .. Len(s) |-> OnlyStep(f, s, S, n)]
  BY OnlyFunction
<1>2. Only(s, S) = f[Len(s)]
  BY DEF Only, OnlyStep
<1> HIDE DEF f
<1> QED BY <1>1, <1>2

\* Only takes elements of s that are in S, all of them, and keeps their order.
LEMMA OnlyParts ==
  ASSUME NEW T, NEW s \in Seq(T), NEW S
  PROVE  /\ Only(s, S) \in Seq(T)
         /\ ToSet(Only(s, S)) = ToSet(s) \cap S
         /\ \A i \in 1 .. Len(Only(s, S)) : \E k \in 1 .. Len(s) : Only(s, S)[i] = s[k]
         /\ \A i, j \in 1 .. Len(Only(s, S)) : i < j =>
                \E k, l \in 1 .. Len(s) : k < l /\ Only(s, S)[i] = s[k] /\ Only(s, S)[j] = s[l]
         /\ (\A k \in 1 .. Len(s) : s[k] \in S) => Only(s, S) = s
<1>0. Len(s) \in Nat /\ DOMAIN s = 1 .. Len(s) /\ \A k \in 1 .. Len(s) : s[k] \in T
  OBVIOUS
<1>1. PICK f : f = [n \in 0 .. Len(s) |-> OnlyStep(f, s, S, n)] /\ Only(s, S) = f[Len(s)]
  BY <1>0, OnlyUnfolded
<1>2. \A n \in 0 .. Len(s) : f[n] = OnlyStep(f, s, S, n)
  BY <1>1
<1> DEFINE Taken(r, n) ==
             /\ r \in Seq(T)
             /\ ToSet(r) = {s[k] : k \in 1 .. n} \cap S
             /\ \A i \in 1 .. Len(r) : \E k \in 1 .. n : r[i] = s[k]
             /\ \A i, j \in 1 .. Len(r) : i < j =>
                    \E k, l \in 1 .. n : k < l /\ r[i] = s[k] /\ r[j] = s[l]
             /\ (\A k \in 1 .. n : s[k] \in S) =>
                    Len(r) = n /\ \A k \in 1 .. n : r[k] = s[k]
           Bad == {n \in 0 .. Len(s) : ~Taken(f[n], n)}
<1>3. Taken(f[0], 0)
  <2>1. f[0] = << >>
    BY <1>0, <1>2 DEF OnlyStep
  <2>2. ToSet(<< >>) = {}
    BY DEF ToSet
  <2> QED BY <2>1, <2>2
<1>4. ASSUME NEW n \in 1 .. Len(s), Taken(f[n - 1], n - 1) PROVE Taken(f[n], n)
  <2> DEFINE r == f[n - 1]
  <2>0. r \in Seq(T) /\ Len(r) \in Nat /\ n \in 0 .. Len(s) /\ n - 1 \in Nat /\ n \in Nat
    BY <1>0, <1>4
  <2>1. CASE s[n] \in S
    <3>0. n # 0 /\ f[n] = OnlyStep(f, s, S, n)
      BY <1>2, <2>0
    <3>1. f[n] = Append(r, s[n])
      BY <2>1, <3>0 DEF OnlyStep
    <3> HIDE DEF r
    <3>2. /\ Append(r, s[n]) \in Seq(T) /\ Len(Append(r, s[n])) = Len(r) + 1
          /\ \A i \in 1 .. Len(r) : Append(r, s[n])[i] = r[i]
          /\ Append(r, s[n])[Len(r) + 1] = s[n]
      BY <1>0, <2>0
    <3>3. ToSet(Append(r, s[n])) = ToSet(r) \cup {s[n]}
      BY <2>0, <3>2 DEF ToSet
    <3>4. {s[k] : k \in 1 .. n} = {s[k] : k \in 1 .. n - 1} \cup {s[n]}
      BY <2>0
    <3>5. Taken(r, n - 1)
      BY <1>4 DEF r
    <3>6. Taken(Append(r, s[n]), n)
      <4>1. ASSUME NEW i \in 1 .. Len(r) + 1
            PROVE  \E k \in 1 .. n : Append(r, s[n])[i] = s[k]
        BY <2>0, <3>2, <3>5
      <4>2. ASSUME NEW i \in 1 .. Len(r) + 1, NEW j \in 1 .. Len(r) + 1, i < j
            PROVE  \E k, l \in 1 .. n : k < l /\ Append(r, s[n])[i] = s[k] /\ Append(r, s[n])[j] = s[l]
        <5>1. CASE j = Len(r) + 1
          <6>1. PICK k \in 1 .. n - 1 : r[i] = s[k]
            BY <2>0, <3>5, <4>2
          <6> QED BY <2>0, <3>2, <4>2, <5>1, <6>1
        <5>2. CASE j # Len(r) + 1
          <6>0. i \in 1 .. Len(r) /\ j \in 1 .. Len(r)
            BY <2>0, <4>2, <5>2
          <6>1. PICK k \in 1 .. n - 1, l \in 1 .. n - 1 : k < l /\ r[i] = s[k] /\ r[j] = s[l]
            BY <3>5, <4>2, <6>0
          <6> QED BY <2>0, <3>2, <6>0, <6>1
        <5> QED BY <5>1, <5>2
      <4>3. ASSUME \A k \in 1 .. n : s[k] \in S
            PROVE  Len(r) + 1 = n /\ \A k \in 1 .. n : Append(r, s[n])[k] = s[k]
        <5>1. Len(r) = n - 1 /\ \A k \in 1 .. n - 1 : r[k] = s[k]
          BY <2>0, <3>5, <4>3
        <5> QED BY <2>0, <3>2, <5>1
      <4>4. ToSet(Append(r, s[n])) = {s[k] : k \in 1 .. n} \cap S
        <5>1. ToSet(r) = {s[k] : k \in 1 .. n - 1} \cap S
          BY <3>5
        <5> QED BY ONLY <2>1, <3>3, <3>4, <5>1
      <4> DEFINE q == Append(r, s[n])
      <4>5. /\ q \in Seq(T) /\ Len(q) = Len(r) + 1
            /\ ToSet(q) = {s[k] : k \in 1 .. n} \cap S
            /\ \A i \in 1 .. Len(r) + 1 : \E k \in 1 .. n : q[i] = s[k]
            /\ \A i, j \in 1 .. Len(r) + 1 : i < j =>
                    \E k, l \in 1 .. n : k < l /\ q[i] = s[k] /\ q[j] = s[l]
            /\ (\A k \in 1 .. n : s[k] \in S) =>
                    Len(r) + 1 = n /\ \A k \in 1 .. n : q[k] = s[k]
        BY <3>2, <4>1, <4>2, <4>3, <4>4
      <4> HIDE DEF q
      <4>6. Taken(q, n)
        BY <4>5
      <4> QED BY <4>6 DEF q
    <3> QED BY <3>1, <3>6
  <2>2. CASE s[n] \notin S
    <3>1. f[n] = r
      BY <1>0, <1>2, <2>2 DEF OnlyStep
    <3>2. {s[k] : k \in 1 .. n} = {s[k] : k \in 1 .. n - 1} \cup {s[n]}
      BY <2>0
    <3>3. 1 .. n - 1 \subseteq 1 .. n /\ n \in 1 .. n
      BY <2>0
    <3> QED BY <1>4, <2>2, <3>1, <3>2, <3>3
  <2> QED BY <2>1, <2>2
<1> HIDE DEF Taken
<1>5. Bad = {}
  <2> SUFFICES ASSUME Bad # {} PROVE FALSE
    OBVIOUS
  <2>0. Bad \in SUBSET Nat
    OBVIOUS
  <2>1. PICK m \in Bad : \A j \in Bad : m <= j
    <3> HIDE DEF Bad
    <3> QED BY <2>0, LeastNumber
  <2>2. m # 0
    BY <1>3
  <2>3. m - 1 \in 0 .. Len(s) /\ m - 1 \notin Bad
    BY <2>1, <2>2
  <2> QED BY <1>4, <2>1, <2>2, <2>3
<1>6. Taken(Only(s, S), Len(s))
  BY <1>0, <1>1, <1>5
<1>7. ToSet(s) = {s[k] : k \in 1 .. Len(s)}
  BY <1>0 DEF ToSet
<1>8. (\A k \in 1 .. Len(s) : s[k] \in S) => Only(s, S) = s
  BY <1>0, <1>6 DEF Taken
<1> QED BY <1>6, <1>7, <1>8 DEF Taken

\* The order of a sequence in which nothing spends of what is behind it, and in
\* which nothing is twice.
Sorted(s) == \A i, j \in 1 .. Len(s) : \A o \in Ins[s[i]] : o[1] = s[j] => j < i
Once(s) == \A i, j \in 1 .. Len(s) : s[i] = s[j] => i = j
LEMMA OnlyKeepsOrder ==
  ASSUME NEW T, NEW s \in Seq(T), NEW S
  PROVE  /\ Once(s) => Once(Only(s, S))
         /\ Once(s) /\ Sorted(s) => Sorted(Only(s, S))
<1> DEFINE r == Only(s, S)
<1>1. /\ r \in Seq(T)
      /\ \A i \in 1 .. Len(r) : \E k \in 1 .. Len(s) : r[i] = s[k]
      /\ \A i, j \in 1 .. Len(r) : i < j =>
             \E k, l \in 1 .. Len(s) : k < l /\ r[i] = s[k] /\ r[j] = s[l]
  BY OnlyParts
<1> HIDE DEF r
<1>2. Len(r) \in Nat /\ Len(s) \in Nat
  BY <1>1
<1>3. ASSUME Once(s), NEW i \in 1 .. Len(r), NEW j \in 1 .. Len(r), i < j
      PROVE  r[i] # r[j]
  <2>1. PICK k \in 1 .. Len(s), l \in 1 .. Len(s) : k < l /\ r[i] = s[k] /\ r[j] = s[l]
    BY <1>1, <1>3
  <2> QED BY <1>2, <1>3, <2>1 DEF Once
<1>4. Once(s) => Once(r)
  <2> SUFFICES ASSUME Once(s), NEW i \in 1 .. Len(r), NEW j \in 1 .. Len(r), r[i] = r[j]
               PROVE  i = j
    BY DEF Once
  <2>1. i < j \/ j < i \/ i = j
    BY <1>2
  <2> QED BY <1>3, <2>1
<1>5. ASSUME Once(s), Sorted(s), NEW i \in 1 .. Len(r), NEW j \in 1 .. Len(r), NEW o \in Ins[r[i]],
             o[1] = r[j], ~(j < i)
      PROVE  FALSE
  <2>1. CASE i < j
    <3>1. PICK k \in 1 .. Len(s), l \in 1 .. Len(s) : k < l /\ r[i] = s[k] /\ r[j] = s[l]
      BY <1>1, <2>1
    <3>2. l < k
      BY <1>5, <3>1 DEF Sorted
    <3> QED BY <1>2, <3>1, <3>2
  <2>2. CASE i = j
    <3>1. PICK k \in 1 .. Len(s) : r[i] = s[k]
      BY <1>1
    <3>2. k < k
      BY <1>5, <2>2, <3>1 DEF Sorted
    <3> QED BY <1>2, <3>2
  <2> QED BY <1>2, <1>5, <2>1, <2>2
<1> QED BY <1>4, <1>5 DEF Sorted, r

-----------------------------------------------------------------------------
(* The transactions and their outputs *)

Smaller(m, n) == IF m < n THEN m ELSE n
\* The transactions load_tx finds.
Indexed == {t \in Txs : Loadable(t)}
OutRecord == [kind : {"coin", "obj", "op", "null"}, to : Addrs, obj : Txs]

LEMMA PoolParts ==
  /\ \A t \in Txs : Ins[t] \subseteq Output /\ IsFiniteSet(Ins[t]) /\ Outs[t] \in Seq(OutRecord)
  /\ Addrs # {} /\ Main \in Threads /\ Rpc \subseteq Threads /\ Main \notin Rpc
  /\ Page \in Nat \ {0} /\ MaxScans \in Nat
BY PoolAssumption, BoundAssumption, NodeAssumption DEF OutRecord, Threads

\* An output has a transaction, an index and an address.
LEMMA OutputParts ==
  /\ \A o \in Output : /\ o[1] \in Txs /\ o[2] \in 1 .. Len(Outs[o[1]]) /\ o = <<o[1], o[2]>>
                       /\ Out(o) \in OutRecord /\ Out(o).to \in Addrs
  /\ \A t \in Txs : \A i \in 1 .. Len(Outs[t]) :
        /\ <<t, i>> \in Output /\ Out(<<t, i>>) = Outs[t][i]
        /\ <<t, i>>[1] = t /\ <<t, i>>[2] = i
<1>1. ASSUME NEW o \in Output
      PROVE  /\ o[1] \in Txs /\ o[2] \in 1 .. Len(Outs[o[1]]) /\ o = <<o[1], o[2]>>
             /\ Out(o) \in OutRecord /\ Out(o).to \in Addrs
  <2>1. PICK t \in Txs : o \in {t} \X (1 .. Len(Outs[t]))
    BY DEF Output
  <2>2. o[1] = t /\ o[2] \in 1 .. Len(Outs[t]) /\ o = <<o[1], o[2]>>
    BY <2>1
  <2>3. Outs[t] \in Seq(OutRecord)
    BY PoolParts
  <2>4. Outs[t][o[2]] \in OutRecord
    BY <2>2, <2>3
  <2> QED BY <2>2, <2>4 DEF Out, OutRecord
<1>2. ASSUME NEW t \in Txs, NEW i \in 1 .. Len(Outs[t])
      PROVE  <<t, i>> \in Output /\ Out(<<t, i>>) = Outs[t][i]
  <2>1. <<t, i>> \in {t} \X (1 .. Len(Outs[t]))
    OBVIOUS
  <2> QED BY <2>1 DEF Output, Out
<1> QED BY <1>1, <1>2

\* A coin that came from addresses has their number.
LEMMA SourcesType == \A t \in Txs : Sources(t) \in Nat
<1> SUFFICES ASSUME NEW t \in Txs PROVE Cardinality(Payers(t)) \in Nat
  BY DEF Sources
<1> DEFINE I == {o \in Ins[t] : Out(o).kind # "op"}
           f == [o \in I |-> Out(o).to]
<1>1. IsFiniteSet(I)
  BY PoolParts, FS_Subset
<1>2. f \in Surjection(I, Payers(t))
  BY DEF Payers, Surjection
<1>3. IsFiniteSet(Payers(t))
  BY <1>1, <1>2, FS_Surjection
<1> QED BY <1>3, FS_CardinalityType

\* What a transaction makes of a kind for an address, and what it spends of it,
\* touch the address.
MadeBy(O, a, kind) == {o \in Output : o[1] \in O /\ Out(o).to = a /\ Out(o).kind = kind}
LEMMA TouchedBy ==
  ASSUME NEW a, NEW kind \in {"coin", "obj"}
  PROVE  /\ \A o \in Output : Out(o).to = a /\ Out(o).kind = kind => a \in Touched(o[1])
         /\ \A t \in Txs : \A o \in Ins[t] : Out(o).to = a /\ Out(o).kind = kind => a \in Touched(t)
<1>1. ASSUME NEW o \in Output, Out(o).to = a, Out(o).kind = kind PROVE a \in Payees(o[1])
  BY <1>1, OutputParts DEF Payees, Out
<1>2. ASSUME NEW t \in Txs, NEW o \in Ins[t], Out(o).to = a, Out(o).kind = kind PROVE a \in Payers(t)
  BY <1>2 DEF Payers
<1> QED BY <1>1, <1>2 DEF Touched

\* The outputs AddOutputs and DropOutputs go through.
LEMMA PaidOutputs ==
  ASSUME NEW t \in Txs, NEW a, NEW kind \in {"coin", "obj"}
  PROVE  {<<t, i>> : i \in {i \in Pays(t, a) : Outs[t][i].kind = kind}} = MadeBy({t}, a, kind)
<1>1. ASSUME NEW o \in MadeBy({t}, a, kind)
      PROVE  \E i \in {i \in Pays(t, a) : Outs[t][i].kind = kind} : o = <<t, i>>
  <2>1. o = <<t, o[2]>> /\ o[2] \in 1 .. Len(Outs[t]) /\ Out(o) = Outs[t][o[2]]
    BY OutputParts DEF MadeBy, Out
  <2> QED BY <2>1 DEF MadeBy, Pays
<1>2. ASSUME NEW i \in {i \in Pays(t, a) : Outs[t][i].kind = kind}
      PROVE  <<t, i>> \in MadeBy({t}, a, kind)
  BY OutputParts DEF MadeBy, Pays
<1> QED BY <1>1, <1>2

-----------------------------------------------------------------------------
(* The files of an address *)

IsDir(g) == g \in [DOMAIN g -> File] /\ DOMAIN g \subseteq Output
Dirs == Parts \ {"stakes"}
IsBook(f) ==
    /\ f = [p \in Parts |-> f[p]]
    /\ \A p \in Dirs : IsDir(f[p])
    /\ f["stakes"] \in Seq(Txs)

LEMMA EmptyBook == IsBook(NoFiles) /\ DOMAIN Empty = {} /\ IsDir(Empty)
                   /\ NoFiles["stakes"] = << >> /\ \A d \in Dirs : NoFiles[d] = Empty
BY DEF IsBook, NoFiles, Empty, IsDir, Dirs, Parts

\* x has the files of f and of g.
Merged(x, f, g) ==
    /\ DOMAIN x = DOMAIN f \cup DOMAIN g
    /\ \A o \in DOMAIN g : x[o] = g[o]
    /\ \A o \in DOMAIN f \ DOMAIN g : x[o] = f[o]
LEMMA WithParts ==
  ASSUME NEW f, NEW g
  PROVE  /\ Merged(With(f, g), f, g)
         /\ IsDir(f) /\ IsDir(g) => IsDir(With(f, g))
BY DEF With, IsDir, Merged

LEMMA RestrictParts ==
  ASSUME NEW g, NEW D, D \subseteq DOMAIN g
  PROVE  /\ DOMAIN Restrict(g, D) = D
         /\ \A o \in D : Restrict(g, D)[o] = g[o]
         /\ IsDir(g) => IsDir(Restrict(g, D))
BY DEF Restrict, IsDir

\* A part of a book is replaced.
LEMMA ReplacePart ==
  ASSUME NEW f, IsBook(f), NEW p \in Dirs, NEW g, IsDir(g)
  PROVE  /\ IsBook([f EXCEPT ![p] = g])
         /\ [f EXCEPT ![p] = g][p] = g
         /\ \A q \in Parts \ {p} : [f EXCEPT ![p] = g][q] = f[q]
BY DEF IsBook, Dirs, Parts

\* g is f after the files of os went from one directory to another, as in h.
Moved(f, g, os, from, to, h) ==
    /\ IsBook(g)
    /\ DOMAIN g[from] = DOMAIN f[from] \ os
    /\ \A o \in DOMAIN g[from] : g[from][o] = f[from][o]
    /\ DOMAIN g[to] = DOMAIN f[to] \cup (os \cap DOMAIN h)
    /\ \A o \in os \cap DOMAIN h : g[to][o] = h[o]
    /\ \A o \in DOMAIN f[to] \ (os \cap DOMAIN h) : g[to][o] = f[to][o]
    /\ \A q \in Parts \ {from, to} : g[q] = f[q]
LEMMA MoveParts ==
  ASSUME NEW f, IsBook(f), NEW os, NEW from \in Dirs, NEW to \in Dirs, from # to,
         NEW h, IsDir(h)
  PROVE  Moved(f, MoveFiles(f, os, from, to, h), os, from, to, h)
<1> DEFINE x == Without(f[from], os)
           y == With(f[to], Restrict(h, os \cap DOMAIN h))
           f1 == [f EXCEPT ![from] = x]
           g == [f1 EXCEPT ![to] = y]
<1>1. IsDir(f[from]) /\ IsDir(f[to]) /\ f = [p \in Parts |-> f[p]] /\ from \in Parts /\ to \in Parts
  BY DEF IsBook, Dirs
<1>2. /\ IsDir(x) /\ DOMAIN x = DOMAIN f[from] \ os
      /\ \A o \in DOMAIN x : x[o] = f[from][o]
  BY <1>1, RestrictParts DEF Without
<1>3. /\ IsDir(y) /\ DOMAIN y = DOMAIN f[to] \cup (os \cap DOMAIN h)
      /\ \A o \in os \cap DOMAIN h : y[o] = h[o]
      /\ \A o \in DOMAIN f[to] \ (os \cap DOMAIN h) : y[o] = f[to][o]
  <2>1. /\ IsDir(Restrict(h, os \cap DOMAIN h)) /\ DOMAIN Restrict(h, os \cap DOMAIN h) = os \cap DOMAIN h
        /\ \A o \in os \cap DOMAIN h : Restrict(h, os \cap DOMAIN h)[o] = h[o]
    BY RestrictParts
  <2> DEFINE k == Restrict(h, os \cap DOMAIN h)
  <2> HIDE DEF k
  <2>2. /\ IsDir(k) /\ DOMAIN k = os \cap DOMAIN h
        /\ \A o \in os \cap DOMAIN h : k[o] = h[o]
    BY <2>1 DEF k
  <2>3. y = With(f[to], k)
    BY DEF k
  <2> HIDE DEF y
  <2>4. Merged(y, f[to], k) /\ IsDir(y)
    BY <1>1, <2>2, <2>3, WithParts
  <2> QED BY <2>2, <2>4 DEF Merged
<1>4. MoveFiles(f, os, from, to, h) = [f EXCEPT ![from] = x, ![to] = y]
  BY <1>1 DEF MoveFiles
<1> HIDE DEF x, y
<1>5. MoveFiles(f, os, from, to, h) = g
  BY <1>1, <1>4
<1>6. /\ IsBook(f1) /\ f1[from] = x /\ \A q \in Parts \ {from} : f1[q] = f[q]
  BY <1>2, ReplacePart
<1> HIDE DEF f1
<1>7. /\ IsBook(g) /\ g[to] = y /\ \A q \in Parts \ {to} : g[q] = f1[q]
  BY <1>3, <1>6, ReplacePart
<1> HIDE DEF g
<1>8. g[from] = x /\ \A q \in Parts \ {from, to} : g[q] = f[q]
  BY <1>1, <1>6, <1>7
<1> QED BY <1>2, <1>3, <1>5, <1>7, <1>8 DEF Moved

\* A spender is appended to a file, or the file is cut.
LEMMA MarkedParts ==
  ASSUME NEW g, IsDir(g)
  PROVE  /\ \A t \in Txs : IsDir(SpentFiles(g, t))
         /\ \A t : /\ DOMAIN SpentFiles(g, t) = DOMAIN g
                   /\ \A o \in DOMAIN g : /\ SpentFiles(g, t)[o].n = g[o].n
                                          /\ SpentFiles(g, t)[o].by = Append(g[o].by, t)
         /\ IsDir(CutFiles(g)) /\ DOMAIN CutFiles(g) = DOMAIN g
         /\ \A o \in DOMAIN g : /\ CutFiles(g)[o].n = g[o].n
                                /\ g[o].n > 0 => CutFiles(g)[o].by = << >>
<1>1. ASSUME NEW o \in DOMAIN g
      PROVE  /\ g[o] \in File /\ g[o].n \in Nat /\ g[o].by \in Seq(Txs)
             /\ g[o] = [n |-> g[o].n, by |-> g[o].by]
  BY DEF IsDir, File
<1>2. ASSUME NEW t
      PROVE  /\ DOMAIN SpentFiles(g, t) = DOMAIN g
             /\ \A o \in DOMAIN g : /\ SpentFiles(g, t)[o].n = g[o].n
                                    /\ SpentFiles(g, t)[o].by = Append(g[o].by, t)
                                    /\ t \in Txs => SpentFiles(g, t)[o] \in File
  <2>1. ASSUME NEW o \in DOMAIN g
        PROVE  SpentFiles(g, t)[o] = [n |-> g[o].n, by |-> Append(g[o].by, t)]
    BY <1>1 DEF SpentFiles
  <2>2. DOMAIN SpentFiles(g, t) = DOMAIN g
    BY DEF SpentFiles
  <2>3. ASSUME NEW o \in DOMAIN g, t \in Txs PROVE Append(g[o].by, t) \in Seq(Txs)
    BY <1>1, <2>3
  <2> QED BY <1>1, <2>1, <2>2, <2>3 DEF File
<1>3. ASSUME NEW t \in Txs PROVE IsDir(SpentFiles(g, t))
  <2>1. SpentFiles(g, t) = [o \in DOMAIN g |-> SpentFiles(g, t)[o]]
    BY DEF SpentFiles
  <2> QED BY <1>2, <2>1 DEF IsDir
<1>4. /\ DOMAIN CutFiles(g) = DOMAIN g
      /\ \A o \in DOMAIN g : /\ CutFiles(g)[o].n = g[o].n
                             /\ g[o].n > 0 => CutFiles(g)[o].by = << >>
                             /\ CutFiles(g)[o] \in File
  <2>1. ASSUME NEW o \in DOMAIN g
        PROVE  CutFiles(g)[o] = [n |-> g[o].n, by |-> IF g[o].n = 0 THEN g[o].by ELSE << >>]
    BY <1>1 DEF CutFiles
  <2>2. DOMAIN CutFiles(g) = DOMAIN g
    BY DEF CutFiles
  <2>3. ASSUME NEW o \in DOMAIN g
        PROVE  (IF g[o].n = 0 THEN g[o].by ELSE << >>) \in Seq(Txs)
    BY <1>1
  <2>4. \A o \in DOMAIN g : CutFiles(g)[o] \in File
    <3>1. \A m \in Nat, b \in Seq(Txs) : [n |-> m, by |-> b] \in File
      BY DEF File
    <3> QED BY <1>1, <2>1, <2>3, <3>1
  <2> QED BY <1>1, <2>1, <2>2, <2>4
<1>5. IsDir(CutFiles(g))
  <2>1. CutFiles(g) = [o \in DOMAIN g |-> CutFiles(g)[o]]
    BY DEF CutFiles
  <2> QED BY <1>4, <2>1 DEF IsDir
<1> QED BY <1>2, <1>3, <1>4, <1>5

-----------------------------------------------------------------------------
(* What the steps do to a book *)

\* add_unspent, add_wallet_obj.
FirstObject(t, a) == IF MadeBy({t}, a, "obj") # {} THEN {<<t, 1>>} ELSE {}
OutputsAdded(f, g, t, a) ==
    /\ IsBook(g)
    /\ DOMAIN g["unspent"] = DOMAIN f["unspent"] \cup MadeBy({t}, a, "coin")
    /\ \A o \in MadeBy({t}, a, "coin") : g["unspent"][o].by = << >>
    /\ \A o \in DOMAIN f["unspent"] \ MadeBy({t}, a, "coin") : g["unspent"][o] = f["unspent"][o]
    /\ DOMAIN g["objects"] = DOMAIN f["objects"] \cup FirstObject(t, a)
    /\ \A q \in {"spent", "sentobjs", "stakes"} : g[q] = f[q]
LEMMA AddOutputsParts ==
  ASSUME NEW f, IsBook(f), NEW t \in Txs, NEW a
  PROVE  OutputsAdded(f, AddOutputs(f, a, t), t, a)
<1> DEFINE coins == MadeBy({t}, a, "coin")
           objs == FirstObject(t, a)
           c == [o \in coins |-> [n |-> Sources(t), by |-> << >>]]
           b == [o \in objs |-> [n |-> 1, by |-> << >>]]
           x == With(f["unspent"], c)
           y == With(f["objects"], b)
           f1 == [f EXCEPT !["unspent"] = x]
           g == [f1 EXCEPT !["objects"] = y]
<1>1. /\ IsDir(f["unspent"]) /\ IsDir(f["objects"]) /\ f = [p \in Parts |-> f[p]]
      /\ {"unspent", "objects"} \subseteq Dirs /\ {"unspent", "objects"} \subseteq Parts
  BY DEF IsBook, Dirs, Parts
<1>2. /\ {<<t, i>> : i \in {i \in Pays(t, a) : Outs[t][i].kind = "coin"}} = coins
      /\ {<<t, i>> : i \in {i \in Pays(t, a) : Outs[t][i].kind = "obj"}} = MadeBy({t}, a, "obj")
  BY PaidOutputs
<1>3. (\E i \in Pays(t, a) : Outs[t][i].kind = "obj") <=> MadeBy({t}, a, "obj") # {}
  BY <1>2
<1>4. AddOutputs(f, a, t) = [f EXCEPT !["unspent"] = x, !["objects"] = y]
  BY <1>1, <1>2, <1>3 DEF AddOutputs, FirstObject
<1>5. objs \subseteq Output /\ coins \subseteq Output
  <2>1. ASSUME NEW o \in MadeBy({t}, a, "obj") PROVE <<t, 1>> \in Output
    <3>1. o[2] \in 1 .. Len(Outs[t]) /\ Len(Outs[t]) \in Nat
      BY OutputParts, PoolParts DEF MadeBy
    <3>2. 1 \in 1 .. Len(Outs[t])
      BY <3>1
    <3> QED BY <3>2, OutputParts
  <2> QED BY <2>1 DEF MadeBy, FirstObject
<1>6. \A m \in Nat : [n |-> m, by |-> << >>] \in File
  BY DEF File
<1>7. Sources(t) \in Nat
  BY SourcesType
<1> HIDE DEF coins, objs
<1>8. IsDir(c) /\ DOMAIN c = coins /\ IsDir(b) /\ DOMAIN b = objs /\ \A o \in coins : c[o].by = << >>
  BY <1>5, <1>6, <1>7 DEF IsDir
<1> HIDE DEF c, b
<1>9. /\ DOMAIN x = DOMAIN f["unspent"] \cup coins /\ IsDir(x)
      /\ \A o \in coins : x[o].by = << >>
      /\ \A o \in DOMAIN f["unspent"] \ coins : x[o] = f["unspent"][o]
  <2>1. Merged(x, f["unspent"], c) /\ IsDir(x)
    BY <1>1, <1>8, WithParts
  <2> QED BY <1>8, <2>1 DEF Merged
<1>10. DOMAIN y = DOMAIN f["objects"] \cup objs /\ IsDir(y)
  <2>1. Merged(y, f["objects"], b) /\ IsDir(y)
    BY <1>1, <1>8, WithParts
  <2> QED BY <1>8, <2>1 DEF Merged
<1> HIDE DEF x, y
<1>11. AddOutputs(f, a, t) = g
  BY <1>4
<1>12. IsBook(f1) /\ f1["unspent"] = x /\ \A q \in Parts \ {"unspent"} : f1[q] = f[q]
  BY <1>1, <1>9, ReplacePart
<1> HIDE DEF f1
<1>13. IsBook(g) /\ g["objects"] = y /\ \A q \in Parts \ {"objects"} : g[q] = f1[q]
  BY <1>1, <1>10, <1>12, ReplacePart
<1> HIDE DEF g
<1>14. g["unspent"] = x /\ \A q \in {"spent", "sentobjs", "stakes"} : g[q] = f[q]
  BY <1>12, <1>13 DEF Parts
<1> QED BY <1>9, <1>10, <1>11, <1>13, <1>14 DEF coins, objs, OutputsAdded

\* spend_tx_addr, send_obj.
ObjectsSpent(t, a) == IF HasObjTxfr(t) THEN SpentOf(t, a, "obj") ELSE {}
InputsSpent(f, g, t, a) ==
    /\ IsBook(g)
    /\ DOMAIN g["unspent"] = DOMAIN f["unspent"] \ SpentOf(t, a, "coin")
    /\ \A o \in DOMAIN g["unspent"] : g["unspent"][o] = f["unspent"][o]
    /\ DOMAIN g["spent"] = DOMAIN f["spent"] \cup (SpentOf(t, a, "coin") \cap DOMAIN f["unspent"])
    /\ \A o \in SpentOf(t, a, "coin") \cap DOMAIN f["unspent"] :
            /\ g["spent"][o].n = f["unspent"][o].n
            /\ g["spent"][o].by = Append(f["unspent"][o].by, t)
    /\ \A o \in DOMAIN f["spent"] \ (SpentOf(t, a, "coin") \cap DOMAIN f["unspent"]) :
            g["spent"][o] = f["spent"][o]
    /\ DOMAIN g["objects"] = DOMAIN f["objects"] \ ObjectsSpent(t, a)
    /\ DOMAIN g["sentobjs"] = DOMAIN f["sentobjs"] \cup (ObjectsSpent(t, a) \cap DOMAIN f["objects"])
    /\ g["stakes"] = f["stakes"]
LEMMA SpendParts ==
  ASSUME NEW f, IsBook(f), NEW t \in Txs, NEW a
  PROVE  InputsSpent(f, SpendInputs(f, a, t), t, a)
<1> DEFINE coins == SpentOf(t, a, "coin")
           f1 == SpendCoins(f, a, t)
           h == SpentFiles(f["unspent"], t)
           objs == SpentOf(t, a, "obj")
           g == SendObjects(f1, a, t)
           k == SpentFiles(f1["objects"], t)
<1>1. /\ {"unspent", "objects", "spent", "sentobjs"} \subseteq Dirs
      /\ {"unspent", "objects", "spent", "sentobjs", "stakes"} = Parts
  BY DEF Dirs, Parts
<1>2. /\ IsDir(h) /\ DOMAIN h = DOMAIN f["unspent"]
      /\ \A o \in DOMAIN h : h[o].n = f["unspent"][o].n /\ h[o].by = Append(f["unspent"][o].by, t)
  <2> DEFINE u == f["unspent"]
  <2>1. IsDir(u)
    BY <1>1 DEF IsBook
  <2>2. h = SpentFiles(u, t)
    OBVIOUS
  <2> HIDE DEF u, h
  <2>3. /\ IsDir(h) /\ DOMAIN h = DOMAIN u
        /\ \A o \in DOMAIN u : h[o].n = u[o].n /\ h[o].by = Append(u[o].by, t)
    BY <2>1, <2>2, MarkedParts
  <2> QED BY <2>3 DEF u
<1>3. f1 = MoveFiles(f, coins, "unspent", "spent", h)
  BY DEF SpendCoins
<1> HIDE DEF coins, h, f1
<1>12. Moved(f, f1, coins, "unspent", "spent", h)
  BY <1>1, <1>2, <1>3, MoveParts
<1>4. /\ IsBook(f1)
      /\ DOMAIN f1["unspent"] = DOMAIN f["unspent"] \ coins
      /\ \A o \in DOMAIN f1["unspent"] : f1["unspent"][o] = f["unspent"][o]
      /\ DOMAIN f1["spent"] = DOMAIN f["spent"] \cup (coins \cap DOMAIN h)
      /\ \A o \in coins \cap DOMAIN h : f1["spent"][o] = h[o]
      /\ \A o \in DOMAIN f["spent"] \ (coins \cap DOMAIN h) : f1["spent"][o] = f["spent"][o]
      /\ \A q \in Parts \ {"unspent", "spent"} : f1[q] = f[q]
  BY <1>12 DEF Moved
<1>5. IsDir(k) /\ DOMAIN k = DOMAIN f1["objects"]
  BY <1>1, <1>4, MarkedParts DEF IsBook
<1>6. g = MoveFiles(f1, objs, "objects", "sentobjs", k)
  BY DEF SendObjects
<1> HIDE DEF objs, k, g
<1>13. Moved(f1, g, objs, "objects", "sentobjs", k)
  BY <1>1, <1>4, <1>5, <1>6, MoveParts
<1>7. /\ IsBook(g)
      /\ DOMAIN g["objects"] = DOMAIN f1["objects"] \ objs
      /\ DOMAIN g["sentobjs"] = DOMAIN f1["sentobjs"] \cup (objs \cap DOMAIN k)
      /\ \A q \in Parts \ {"objects", "sentobjs"} : g[q] = f1[q]
  BY <1>13 DEF Moved
<1>8. /\ f1["objects"] = f["objects"] /\ f1["sentobjs"] = f["sentobjs"] /\ f1["stakes"] = f["stakes"]
      /\ g["unspent"] = f1["unspent"] /\ g["spent"] = f1["spent"] /\ g["stakes"] = f1["stakes"]
  BY <1>1, <1>4, <1>7
<1>9. SpendInputs(f, a, t) = IF HasObjTxfr(t) THEN g ELSE f1
  BY DEF SpendInputs, g, f1
<1>10. CASE HasObjTxfr(t)
  <2>1. ObjectsSpent(t, a) = objs
    BY <1>10 DEF ObjectsSpent, objs
  <2> QED BY <1>2, <1>4, <1>5, <1>7, <1>8, <1>9, <1>10, <2>1 DEF coins, InputsSpent
<1>11. CASE ~HasObjTxfr(t)
  <2>1. ObjectsSpent(t, a) = {}
    BY <1>11 DEF ObjectsSpent
  <2> QED BY <1>2, <1>4, <1>8, <1>9, <1>11, <2>1 DEF coins, InputsSpent
<1> QED BY <1>10, <1>11

\* cancel_unspend_tx_addr, cancel_unspend_obj_addr.
OutputsDropped(f, g, t, a) ==
    /\ IsBook(g)
    /\ DOMAIN g["unspent"] = DOMAIN f["unspent"] \ MadeBy({t}, a, "coin")
    /\ \A o \in DOMAIN g["unspent"] : g["unspent"][o] = f["unspent"][o]
    /\ DOMAIN g["objects"] = DOMAIN f["objects"] \ MadeBy({t}, a, "obj")
    /\ \A q \in {"spent", "sentobjs", "stakes"} : g[q] = f[q]
LEMMA DropParts ==
  ASSUME NEW f, IsBook(f), NEW t \in Txs, NEW a
  PROVE  OutputsDropped(f, DropOutputs(f, a, t), t, a)
<1> DEFINE x == Without(f["unspent"], MadeBy({t}, a, "coin"))
           y == Without(f["objects"], MadeBy({t}, a, "obj"))
           f1 == [f EXCEPT !["unspent"] = x]
           g == [f1 EXCEPT !["objects"] = y]
<1>1. /\ IsDir(f["unspent"]) /\ IsDir(f["objects"]) /\ f = [p \in Parts |-> f[p]]
      /\ {"unspent", "objects"} \subseteq Dirs /\ {"unspent", "objects"} \subseteq Parts
  BY DEF IsBook, Dirs, Parts
<1>2. /\ {<<t, i>> : i \in {i \in Pays(t, a) : Outs[t][i].kind = "coin"}} = MadeBy({t}, a, "coin")
      /\ {<<t, i>> : i \in {i \in Pays(t, a) : Outs[t][i].kind = "obj"}} = MadeBy({t}, a, "obj")
  BY PaidOutputs
<1>4. DropOutputs(f, a, t) = [f EXCEPT !["unspent"] = x, !["objects"] = y]
  BY <1>1, <1>2 DEF DropOutputs
<1>9. /\ DOMAIN x = DOMAIN f["unspent"] \ MadeBy({t}, a, "coin") /\ IsDir(x)
      /\ \A o \in DOMAIN x : x[o] = f["unspent"][o]
  BY <1>1, RestrictParts DEF Without
<1>10. DOMAIN y = DOMAIN f["objects"] \ MadeBy({t}, a, "obj") /\ IsDir(y)
  BY <1>1, RestrictParts DEF Without
<1> HIDE DEF x, y
<1>11. DropOutputs(f, a, t) = g
  BY <1>4
<1>12. IsBook(f1) /\ f1["unspent"] = x /\ \A q \in Parts \ {"unspent"} : f1[q] = f[q]
  BY <1>1, <1>9, ReplacePart
<1> HIDE DEF f1
<1>13. IsBook(g) /\ g["objects"] = y /\ \A q \in Parts \ {"objects"} : g[q] = f1[q]
  BY <1>1, <1>10, <1>12, ReplacePart
<1> HIDE DEF g
<1>14. g["unspent"] = x /\ \A q \in {"spent", "sentobjs", "stakes"} : g[q] = f[q]
  BY <1>12, <1>13 DEF Parts
<1> QED BY <1>9, <1>10, <1>11, <1>13, <1>14 DEF OutputsDropped

\* cancel_spend_tx_addr, cancel_spend_obj_addr.
InputsUnspent(f, g, t, a) ==
    /\ IsBook(g)
    /\ DOMAIN g["spent"] = DOMAIN f["spent"] \ SpentOf(t, a, "coin")
    /\ \A o \in DOMAIN g["spent"] : g["spent"][o] = f["spent"][o]
    /\ DOMAIN g["unspent"] = DOMAIN f["unspent"] \cup (SpentOf(t, a, "coin") \cap DOMAIN f["spent"])
    /\ \A o \in SpentOf(t, a, "coin") \cap DOMAIN f["spent"] :
            /\ g["unspent"][o].n = f["spent"][o].n
            /\ f["spent"][o].n > 0 => g["unspent"][o].by = << >>
    /\ \A o \in DOMAIN f["unspent"] \ (SpentOf(t, a, "coin") \cap DOMAIN f["spent"]) :
            g["unspent"][o] = f["unspent"][o]
    /\ DOMAIN g["sentobjs"] = DOMAIN f["sentobjs"] \ SpentOf(t, a, "obj")
    /\ DOMAIN g["objects"] = DOMAIN f["objects"] \cup (SpentOf(t, a, "obj") \cap DOMAIN f["sentobjs"])
    /\ g["stakes"] = f["stakes"]
LEMMA UnspendParts ==
  ASSUME NEW f, IsBook(f), NEW t \in Txs, NEW a
  PROVE  InputsUnspent(f, UnspendInputs(f, a, t), t, a)
<1> DEFINE coins == SpentOf(t, a, "coin")
           f1 == UnspendCoins(f, a, t)
           h == CutFiles(f["spent"])
           objs == SpentOf(t, a, "obj")
           k == CutFiles(f["sentobjs"])
           g == MoveFiles(f1, objs, "sentobjs", "objects", k)
<1>1. /\ {"unspent", "objects", "spent", "sentobjs"} \subseteq Dirs
      /\ {"unspent", "objects", "spent", "sentobjs", "stakes"} = Parts
  BY DEF Dirs, Parts
<1>2. /\ IsDir(h) /\ DOMAIN h = DOMAIN f["spent"]
      /\ \A o \in DOMAIN h : /\ h[o].n = f["spent"][o].n
                             /\ f["spent"][o].n > 0 => h[o].by = << >>
  BY <1>1, MarkedParts DEF IsBook
<1>3. f1 = MoveFiles(f, coins, "spent", "unspent", h)
  BY DEF UnspendCoins
<1> HIDE DEF coins, h, f1
<1>12. Moved(f, f1, coins, "spent", "unspent", h)
  BY <1>1, <1>2, <1>3, MoveParts
<1>4. /\ IsBook(f1)
      /\ DOMAIN f1["spent"] = DOMAIN f["spent"] \ coins
      /\ \A o \in DOMAIN f1["spent"] : f1["spent"][o] = f["spent"][o]
      /\ DOMAIN f1["unspent"] = DOMAIN f["unspent"] \cup (coins \cap DOMAIN h)
      /\ \A o \in coins \cap DOMAIN h : f1["unspent"][o] = h[o]
      /\ \A o \in DOMAIN f["unspent"] \ (coins \cap DOMAIN h) : f1["unspent"][o] = f["unspent"][o]
      /\ \A q \in Parts \ {"spent", "unspent"} : f1[q] = f[q]
  BY <1>12 DEF Moved
<1>5. IsDir(k) /\ DOMAIN k = DOMAIN f["sentobjs"]
  BY <1>1, MarkedParts DEF IsBook
<1>6. UnspendInputs(f, a, t) = g
  BY DEF UnspendInputs, f1
<1>9. g = MoveFiles(f1, objs, "sentobjs", "objects", k)
  OBVIOUS
<1> HIDE DEF objs, k, g
<1>13. Moved(f1, g, objs, "sentobjs", "objects", k)
  BY <1>1, <1>4, <1>5, <1>9, MoveParts
<1>7. /\ IsBook(g)
      /\ DOMAIN g["sentobjs"] = DOMAIN f1["sentobjs"] \ objs
      /\ DOMAIN g["objects"] = DOMAIN f1["objects"] \cup (objs \cap DOMAIN k)
      /\ \A q \in Parts \ {"sentobjs", "objects"} : g[q] = f1[q]
  BY <1>13 DEF Moved
<1>8. /\ f1["objects"] = f["objects"] /\ f1["sentobjs"] = f["sentobjs"] /\ f1["stakes"] = f["stakes"]
      /\ g["unspent"] = f1["unspent"] /\ g["spent"] = f1["spent"] /\ g["stakes"] = f1["stakes"]
  BY <1>1, <1>4, <1>7
<1> QED BY <1>2, <1>4, <1>5, <1>6, <1>7, <1>8 DEF coins, objs, InputsUnspent

\* store_tx_staking, remove_tx_staking.
StakesOf(a, T) == {t \in T \cap Stakes : a = Staker(t)}
StakesAdded(f, g, a, T) ==
    /\ IsBook(g)
    /\ \A d \in Dirs : g[d] = f[d]
    /\ ToSet(g["stakes"]) = ToSet(f["stakes"]) \cup StakesOf(a, T)
StakeDropped(f, g, a, t) ==
    /\ IsBook(g)
    /\ \A d \in Dirs : g[d] = f[d]
    /\ a \notin Payees(t) => g = f
LEMMA StakeParts ==
  ASSUME NEW f, IsBook(f), NEW a
  PROVE  /\ \A b \in Seq(Txs) : StakesAdded(f, AddStakes(f, a, b), a, ToSet(b))
         /\ \A t : StakeDropped(f, DropStake(f, a, t), a, t)
<1>1. "stakes" \in Parts /\ Dirs = Parts \ {"stakes"} /\ f["stakes"] \in Seq(Txs)
      /\ f = [p \in Parts |-> f[p]]
  BY DEF IsBook, Dirs, Parts
<1>2. ASSUME NEW s \in Seq(Txs)
      PROVE  /\ IsBook([f EXCEPT !["stakes"] = s]) /\ [f EXCEPT !["stakes"] = s]["stakes"] = s
             /\ \A d \in Dirs : [f EXCEPT !["stakes"] = s][d] = f[d]
  BY <1>1, <1>2 DEF IsBook
<1>3. ASSUME NEW b \in Seq(Txs)
      PROVE  StakesAdded(f, AddStakes(f, a, b), a, ToSet(b))
  <2> DEFINE r == Only(b, {t \in Stakes : a = Staker(t)})
             s == f["stakes"] \o r
  <2>1. r \in Seq(Txs) /\ ToSet(r) = StakesOf(a, ToSet(b))
    <3>1. r \in Seq(Txs) /\ ToSet(r) = ToSet(b) \cap {t \in Stakes : a = Staker(t)}
      BY OnlyParts
    <3> QED BY <3>1 DEF StakesOf
  <2>2. AddStakes(f, a, b) = [f EXCEPT !["stakes"] = s]
    BY <1>1 DEF AddStakes
  <2> HIDE DEF r
  <2>3. s \in Seq(Txs) /\ ToSet(s) = ToSet(f["stakes"]) \cup ToSet(r)
    BY <1>1, <2>1, ConcatSet
  <2> HIDE DEF s
  <2> DEFINE g == [f EXCEPT !["stakes"] = s]
  <2>4. IsBook(g) /\ g["stakes"] = s /\ \A d \in Dirs : g[d] = f[d]
    BY <1>2, <2>3
  <2> HIDE DEF g
  <2>5. StakesAdded(f, g, a, ToSet(b))
    BY <2>1, <2>3, <2>4 DEF StakesAdded
  <2> QED BY <2>2, <2>5 DEF g
<1>4. ASSUME NEW t
      PROVE  StakeDropped(f, DropStake(f, a, t), a, t)
  <2> DEFINE s == f["stakes"]
             at == {i \in 1 .. Len(s) - 1 : s[i] = t}
             m == CHOOSE i \in at : \A j \in at : i <= j
             r == SubSeq(s, m + 1, Len(s))
  <2>1. CASE a \in Payees(t) /\ at # {}
    <3>0. Len(s) \in Nat
      BY <1>1
    <3>1. at \in SUBSET Nat
      BY <3>0
    <3>2. m \in at
      <4> HIDE DEF at
      <4> QED BY <2>1, <3>1, LeastNumber
    <3>3. m \in Nat /\ m < Len(s)
      BY <3>0, <3>2
    <3>4. r \in Seq(Txs)
      <4> HIDE DEF m
      <4> QED BY <1>1, <3>3
    <3>5. DropStake(f, a, t) = [f EXCEPT !["stakes"] = r]
      BY <2>1 DEF DropStake
    <3> HIDE DEF r, m, at, s
    <3> DEFINE g == [f EXCEPT !["stakes"] = r]
    <3>6. IsBook(g) /\ \A d \in Dirs : g[d] = f[d]
      BY <1>2, <3>4
    <3> HIDE DEF g
    <3>7. DropStake(f, a, t) = g
      BY <3>5 DEF g
    <3> QED BY <2>1, <3>6, <3>7 DEF StakeDropped
  <2>2. CASE ~(a \in Payees(t) /\ at # {})
    <3>1. DropStake(f, a, t) = f
      BY <2>2 DEF DropStake
    <3> QED BY <3>1 DEF StakeDropped
  <2> QED BY <2>1, <2>2
<1> QED BY <1>3, <1>4

-----------------------------------------------------------------------------
(* Type correctness *)

ScanSteps == {"idle", "test", "lock", "clear", "load", "outs", "ins", "unlock"}
TypeInv ==
    /\ use \in Uses /\ chain \in Seq(use.offered) /\ adr \in [Addrs -> Seq(Txs)]
    /\ gone \subseteq Addrs /\ missed \subseteq Addrs
    /\ dirs \subseteq Addrs /\ todo \subseteq dirs /\ locks \subseteq Addrs
    /\ book = [a \in Addrs |-> book[a]] /\ \A a \in Addrs : IsBook(book[a])
    /\ mpc \in {"idle", "store", "outs", "ins", "undo"} /\ queue \in Seq(Txs)
    /\ mpc \in {"outs", "ins"} => queue # << >>
    /\ mpc = "store" => chain # << >>
    /\ spc \in [Threads -> ScanSteps] /\ sadr \in [Threads -> Addrs] /\ spage \in [Threads -> Seq(Txs)]
    /\ sfirst \in [Threads -> Nat] /\ scut \in [Threads -> Seq(Parts)]
    /\ undone \subseteq Addrs /\ partial \subseteq Addrs
    /\ \A p \in Threads : spage[p] # << >> <=> spc[p] \in {"outs", "ins"}

LEMMA TypesHold == TypeInv => TypeOK
<1> SUFFICES ASSUME TypeInv PROVE TypeOK
  OBVIOUS
<1>1. ASSUME NEW a \in Addrs
      PROVE  /\ \A p \in Parts \ {"stakes"} : IsFiles(book[a][p])
             /\ book[a]["stakes"] \in Seq(Txs)
  <2>1. IsBook(book[a])
    BY DEF TypeInv
  <2> QED BY <2>1 DEF IsBook, IsDir, IsFiles, Dirs
<1> QED BY <1>1 DEF TypeInv, TypeOK, ScanSteps

LEMMA TouchedType == \A t \in Txs : Touched(t) \subseteq Addrs
<1> SUFFICES ASSUME NEW t \in Txs PROVE Payers(t) \cup Payees(t) \subseteq Addrs
  BY DEF Touched
<1>1. Payers(t) \subseteq Addrs
  BY OutputParts, PoolParts DEF Payers
<1>2. ASSUME NEW i \in 1 .. Len(Outs[t]) PROVE Outs[t][i].to \in Addrs
  BY OutputParts
<1>3. Payees(t) \subseteq Addrs
  BY <1>2 DEF Payees
<1> QED BY <1>1, <1>3

\* What stakes does so for an address that pays.
LEMMA StakerParts == \A t \in Txs \cap Stakes : Staker(t) \in Payers(t) /\ Staker(t) \in Touched(t)
<1> SUFFICES ASSUME NEW t \in Txs \cap Stakes PROVE Staker(t) \in Payers(t)
  BY DEF Touched
<1>1. First[t] \in Ins[t] /\ Out(First[t]).kind # "op"
  BY StakeAssumption
<1>2. First[t] \in {o \in Ins[t] : Out(o).kind # "op"}
  BY <1>1
<1> QED BY <1>2 DEF Payers, Staker

LEMMA BlockType ==
  ASSUME use \in Uses
  PROVE  /\ \A b \in use.offered : b \in Seq(Txs) /\ b # << >> /\ Len(b) \in Nat /\ Len(b) > 0 /\ Once(b)
         /\ use.scanners \subseteq Rpc
<1>1. \A b \in use.offered : b \in Seq(Txs) /\ b # << >> /\ Once(b)
  BY UseAssumption DEF Once
<1>2. \A b \in Seq(Txs) : b # << >> => Len(b) \in Nat /\ Len(b) > 0
  OBVIOUS
<1> QED BY <1>1, <1>2, UseAssumption

\* The chain, a sequence of blocks.
LEMMA ChainType ==
  ASSUME TypeInv
  PROVE  /\ use \in Uses /\ chain \in Seq(use.offered) /\ Len(chain) \in Nat
         /\ \A b \in 1 .. Len(chain) : chain[b] \in use.offered /\ chain[b] \in Seq(Txs)
                                       /\ chain[b] # << >> /\ Len(chain[b]) \in Nat /\ Once(chain[b])
         /\ chain # << >> => Len(chain) > 0 /\ Last(chain) = chain[Len(chain)] /\ Last(chain) \in Seq(Txs)
<1>1. use \in Uses /\ chain \in Seq(use.offered) /\ Len(chain) \in Nat
  BY DEF TypeInv
<1>2. \A b \in 1 .. Len(chain) : chain[b] \in use.offered
  BY <1>1
<1>3. chain # << >> => Len(chain) > 0 /\ Len(chain) \in 1 .. Len(chain)
  BY <1>1
<1> QED BY <1>1, <1>2, <1>3, BlockType DEF Last

LEMMA SeqParts ==
  ASSUME NEW T, NEW s \in Seq(T)
  PROVE  /\ Len(s) \in Nat /\ DOMAIN s = 1 .. Len(s) /\ \A i \in 1 .. Len(s) : s[i] \in T
         /\ ToSet(s) = {s[i] : i \in 1 .. Len(s)} /\ ToSet(s) \subseteq T
         /\ s # << >> => /\ Len(s) > 0 /\ Head(s) = s[1] /\ Head(s) \in T /\ Head(s) \in ToSet(s)
                         /\ Tail(s) \in Seq(T) /\ Len(Tail(s)) = Len(s) - 1
                         /\ \A i \in 1 .. Len(s) - 1 : Tail(s)[i] = s[i + 1]
                         /\ ToSet(s) = ToSet(Tail(s)) \cup {Head(s)}
                         /\ Last(s) = s[Len(s)] /\ Last(s) \in T /\ Last(s) \in ToSet(s)
<1>1. Len(s) \in Nat /\ DOMAIN s = 1 .. Len(s) /\ \A i \in 1 .. Len(s) : s[i] \in T
  OBVIOUS
<1>2. ToSet(s) = {s[i] : i \in 1 .. Len(s)}
  BY <1>1 DEF ToSet
<1>3. ASSUME s # << >>
      PROVE  /\ Len(s) > 0 /\ Head(s) = s[1] /\ Head(s) \in T /\ Head(s) \in ToSet(s)
             /\ Tail(s) \in Seq(T) /\ Len(Tail(s)) = Len(s) - 1
             /\ \A i \in 1 .. Len(s) - 1 : Tail(s)[i] = s[i + 1]
             /\ ToSet(s) = ToSet(Tail(s)) \cup {Head(s)}
             /\ Last(s) = s[Len(s)] /\ Last(s) \in T /\ Last(s) \in ToSet(s)
  <2>1. /\ Len(s) > 0 /\ Head(s) = s[1] /\ Tail(s) \in Seq(T) /\ Len(Tail(s)) = Len(s) - 1
        /\ \A i \in 1 .. Len(s) - 1 : Tail(s)[i] = s[i + 1]
    BY <1>3
  <2>2. ToSet(Tail(s)) = {Tail(s)[i] : i \in 1 .. Len(s) - 1}
    <3>1. DOMAIN Tail(s) = 1 .. Len(s) - 1
      BY <2>1
    <3> QED BY <3>1 DEF ToSet
  <2>3. ASSUME NEW i \in 1 .. Len(s) PROVE s[i] \in ToSet(Tail(s)) \cup {s[1]}
    <3>1. CASE i # 1
      <4>1. i - 1 \in 1 .. Len(s) - 1 /\ Tail(s)[i - 1] = s[i]
        BY <1>1, <2>1, <3>1
      <4> QED BY <2>2, <4>1
    <3> QED BY <3>1
  <2>4. ASSUME NEW i \in 1 .. Len(s) - 1 PROVE Tail(s)[i] \in ToSet(s)
    <3>1. i + 1 \in 1 .. Len(s)
      BY <1>1
    <3> QED BY <1>2, <2>1, <3>1
  <2>5. 1 \in 1 .. Len(s) /\ Len(s) \in 1 .. Len(s)
    BY <1>1, <2>1
  <2> QED BY <1>1, <1>2, <2>1, <2>2, <2>3, <2>4, <2>5 DEF Last
<1> QED BY <1>1, <1>2, <1>3

\* The transaction of a block that may stake.
LEMMA StakeTxsParts ==
  ASSUME NEW b \in Seq(Txs)
  PROVE  /\ StakeTxs(b) \in Seq(Txs) /\ ToSet(StakeTxs(b)) \subseteq ToSet(b)
         /\ Len(b) > 1 => b[2] \in ToSet(StakeTxs(b))
<1>1. CASE Len(b) > 1
  <2>1. StakeTxs(b) = <<b[2]>> /\ 2 \in 1 .. Len(b)
    BY <1>1 DEF StakeTxs
  <2>2. b[2] \in Txs /\ b[2] \in ToSet(b)
    BY <2>1, SeqParts
  <2>3. <<b[2]>> \in Seq(Txs) /\ DOMAIN <<b[2]>> = {1} /\ <<b[2]>>[1] = b[2]
    BY <2>2
  <2>4. ToSet(<<b[2]>>) = {b[2]}
    BY <2>3 DEF ToSet
  <2> QED BY <2>1, <2>2, <2>3, <2>4
<1>2. CASE ~(Len(b) > 1)
  <2>1. StakeTxs(b) = << >> /\ << >> \in Seq(Txs) /\ DOMAIN << >> = {}
    BY <1>2 DEF StakeTxs
  <2>2. ToSet(<< >>) = {}
    BY <2>1 DEF ToSet
  <2> QED BY <1>2, <2>1, <2>2
<1> QED BY <1>1, <1>2

\* The sequence without its last element.
LEMMA FrontParts ==
  ASSUME NEW T, NEW s \in Seq(T), s # << >>
  PROVE  /\ Front(s) \in Seq(T) /\ Len(Front(s)) = Len(s) - 1
         /\ \A i \in 1 .. Len(s) - 1 : Front(s)[i] = s[i]
<1>1. Front(s) = SubSeq(s, 1, Len(s) - 1)
  BY DEF Front
<1>2. Len(s) \in Nat /\ Len(s) > 0 /\ \A i \in 1 .. Len(s) : s[i] \in T
  OBVIOUS
<1>3. \A m, n \in Int : (\A i \in m .. n : s[i] \in T) =>
            /\ SubSeq(s, m, n) \in Seq(T)
            /\ Len(SubSeq(s, m, n)) = IF m <= n THEN n - m + 1 ELSE 0
            /\ \A i \in 1 .. n - m + 1 : SubSeq(s, m, n)[i] = s[m + i - 1]
  OBVIOUS
<1> DEFINE n == Len(s) - 1
<1>4. 1 \in Int /\ n \in Int /\ n >= 0 /\ \A i \in 1 .. n : s[i] \in T
  BY <1>2
<1>5. /\ SubSeq(s, 1, n) \in Seq(T) /\ Len(SubSeq(s, 1, n)) = n
      /\ \A i \in 1 .. n : SubSeq(s, 1, n)[i] = s[i]
  <2> HIDE DEF n
  <2> QED BY <1>3, <1>4
<1> QED BY <1>1, <1>5

\* A page is a part of the index of addresses.
LEMMA PageParts ==
  ASSUME TypeInv, NEW a \in Addrs, NEW first \in Nat
  PROVE  LET known == Only(adr[a], Indexed)
             last == Smaller(first + Page, Len(known))
         IN  /\ LoadPage(a, first) = SubSeq(known, first + 1, last)
             /\ known \in Seq(Txs)
             /\ LoadPage(a, first) \in Seq(Txs)
             /\ first >= Len(known) => LoadPage(a, first) = << >>
             /\ first < Len(known) => /\ LoadPage(a, first) # << >>
                                      /\ Len(LoadPage(a, first)) = last - first
                                      /\ \A i \in 1 .. last - first : LoadPage(a, first)[i] = known[first + i]
<1> DEFINE known == Only(adr[a], Indexed)
           last == Smaller(first + Page, Len(known))
<1>1. adr[a] \in Seq(Txs)
  BY DEF TypeInv
<1>2. known \in Seq(Txs)
  BY <1>1, OnlyParts
<1>3. LoadPage(a, first) = SubSeq(known, first + 1, last)
  BY DEF LoadPage, PageFrom, Smaller, Indexed
<1> HIDE DEF known
<1>4. Len(known) \in Nat /\ last \in Nat /\ last <= Len(known) /\ Page \in Nat \ {0}
      /\ (last = first + Page \/ last = Len(known))
  BY <1>2, PoolParts DEF Smaller
<1> HIDE DEF last
<1>5. CASE first >= Len(known)
  <2>1. SubSeq(known, first + 1, last) = << >>
    BY <1>2, <1>4, <1>5
  <2> QED BY <1>2, <1>3, <1>4, <1>5, <2>1 DEF known, last
<1>6. CASE first < Len(known)
  <2>1. last > first
    BY <1>4, <1>6 DEF last, Smaller
  <2> DEFINE r == SubSeq(known, first + 1, last)
  <2>2. /\ r \in Seq(Txs) /\ Len(r) = last - first
        /\ \A i \in 1 .. last - first : r[i] = known[first + i]
    BY <1>2, <1>4, <1>6, <2>1
  <2>3. r # << >>
    <3> HIDE DEF r
    <3>1. Len(r) # 0
      BY <1>4, <1>6, <2>1, <2>2
    <3> QED BY <3>1
  <2> QED BY <1>2, <1>3, <1>6, <2>2, <2>3 DEF known, last
<1> QED BY <1>4, <1>5, <1>6

LEMMA TypeInit == Init => TypeInv
<1> SUFFICES ASSUME Init PROVE TypeInv
  OBVIOUS
<1>1. \A a \in Addrs : book[a] = NoFiles
  BY DEF Init
<1>2. \A a \in Addrs : IsBook(book[a]) /\ \A d \in Dirs : IsFiles(book[a][d])
  <2>1. \A d \in Dirs : IsFiles(NoFiles[d])
    BY EmptyBook DEF IsFiles
  <2> QED BY <1>1, <2>1, EmptyBook
<1>3. (CHOOSE a \in Addrs : TRUE) \in Addrs
  BY PoolParts
<1>4. << >> \in Seq(Txs) /\ << >> \in Seq(use.offered) /\ << >> \in Seq(Parts)
  OBVIOUS
<1>5. \A a \in Addrs : book[a]["stakes"] = << >>
  BY <1>1, EmptyBook
<1> QED BY <1>2, <1>3, <1>4 DEF Init, TypeInv, ScanSteps

\* One book is replaced.
LEMMA BookUpdate ==
  ASSUME book = [a \in Addrs |-> book[a]], \A a \in Addrs : IsBook(book[a]),
         NEW b \in Addrs, NEW f, IsBook(f)
  PROVE  /\ [book EXCEPT ![b] = f] = [a \in Addrs |-> IF a = b THEN f ELSE book[a]]
         /\ [book EXCEPT ![b] = f] = [a \in Addrs |-> [book EXCEPT ![b] = f][a]]
         /\ \A a \in Addrs : IsBook([book EXCEPT ![b] = f][a])
OBVIOUS

LEMMA TypeStore ==
  TypeInv /\ (AddBlock \/ DelIndex \/ MoveIndex \/ TxStored \/ BlockStored) => TypeInv'
<1> SUFFICES ASSUME TypeInv, AddBlock \/ DelIndex \/ MoveIndex \/ TxStored \/ BlockStored PROVE TypeInv'
  OBVIOUS
<1> USE DEF TypeInv
<1>0. queue # << >> => Head(queue) \in Txs /\ Tail(queue) \in Seq(Txs)
  BY SeqParts
<1>1. CASE AddBlock
  <2>1. PICK b \in use.offered : chain' = Append(chain, b) /\ queue' = b
    BY <1>1 DEF AddBlock
  <2>2. b \in Seq(Txs)
    BY BlockType
  <2>3. use' = use /\ Append(chain, b) \in Seq(use.offered) /\ Append(chain, b) # << >>
    <3>1. Append(chain, b) \in Seq(use.offered) /\ Len(Append(chain, b)) = Len(chain) + 1 /\ Len(chain) \in Nat
      OBVIOUS
    <3>2. Len(Append(chain, b)) # 0 /\ Len(<< >>) = 0
      BY <3>1
    <3> QED BY <1>1, <3>1, <3>2 DEF AddBlock
  <2> QED BY <1>1, <2>1, <2>2, <2>3 DEF AddBlock, scanVars, histVars
<1>2. CASE DelIndex
  <2>1. gone' \subseteq Addrs
    BY <1>2 DEF DelIndex, SharedFiles
  <2> QED BY <1>2, <2>1 DEF DelIndex, mainVars, scanVars, histVars
<1>3. CASE MoveIndex
  <2>1. PICK a \in gone : adr' = [adr EXCEPT ![a] = Append(@, Head(queue))]
    BY <1>3 DEF MoveIndex
  <2>2. Append(adr[a], Head(queue)) \in Seq(Txs)
    BY <1>0, <1>3 DEF MoveIndex
  <2>3. adr' \in [Addrs -> Seq(Txs)]
    BY <2>1, <2>2
  <2> QED BY <1>3, <2>3 DEF MoveIndex, mainVars, scanVars, histVars
<1>4. CASE TxStored
  BY <1>0, <1>4 DEF TxStored, chainVars, scanVars, histVars
<1>5. CASE BlockStored
  <2>1. chain # << >>
    BY <1>5 DEF BlockStored
  <2>2. Last(chain) \in Seq(Txs) /\ Last(chain) # << >>
    <3>1. /\ Len(chain) \in Nat /\ Len(chain) > 0 /\ Last(chain) = chain[Len(chain)]
          /\ \A b \in 1 .. Len(chain) : chain[b] \in Seq(Txs) /\ chain[b] # << >>
      BY <2>1, ChainType
    <3>2. Len(chain) \in 1 .. Len(chain)
      BY <3>1
    <3> QED BY <3>1, <3>2
  <2>3. StakeTxs(Last(chain)) \in Seq(Txs)
    BY <2>2, StakeTxsParts
  <2>4. book' = [a \in Addrs |-> book'[a]] /\ \A a \in Addrs : IsBook(book'[a])
    BY <1>5, <2>3, StakeParts DEF BlockStored, StakesAdded
  <2> QED BY <1>5, <2>2, <2>4 DEF BlockStored, chainVars, scanVars, histVars
<1> QED BY <1>1, <1>2, <1>3, <1>4, <1>5

\* What a scan adds to a book keeps its shape, and what the main loop does.
LEMMA BookSteps ==
  ASSUME NEW f, IsBook(f), NEW a, NEW t \in Txs
  PROVE  /\ IsBook(AddOutputs(f, a, t)) /\ IsBook(SpendInputs(f, a, t))
         /\ IsBook(AddStakes(SpendInputs(f, a, t), a, <<t>>))
         /\ IsBook(UnspendInputs(DropStake(DropOutputs(f, a, t), a, t), a, t))
<1>1. IsBook(AddOutputs(f, a, t)) /\ IsBook(SpendInputs(f, a, t))
  BY AddOutputsParts, SpendParts DEF OutputsAdded, InputsSpent
<1>2. IsBook(AddStakes(SpendInputs(f, a, t), a, <<t>>))
  <2>1. <<t>> \in Seq(Txs)
    OBVIOUS
  <2> QED BY <1>1, <2>1, StakeParts DEF StakesAdded
<1>3. IsBook(DropOutputs(f, a, t))
  BY DropParts DEF OutputsDropped
<1>4. IsBook(DropStake(DropOutputs(f, a, t), a, t))
  BY <1>3, StakeParts DEF StakeDropped
<1>5. IsBook(UnspendInputs(DropStake(DropOutputs(f, a, t), a, t), a, t))
  BY <1>4, UnspendParts DEF InputsUnspent
<1> QED BY <1>1, <1>2, <1>5

LEMMA TypeMainLoop ==
  TypeInv /\ (StoreWalletOuts \/ StoreWalletIns \/ RemoveBlock \/ DelIndexes \/ RemoveWalletTx
              \/ BlockRemoved \/ ScanAddresses)
  => TypeInv'
<1> SUFFICES ASSUME TypeInv,
                    StoreWalletOuts \/ StoreWalletIns \/ RemoveBlock \/ DelIndexes \/ RemoveWalletTx
                    \/ BlockRemoved \/ ScanAddresses
             PROVE  TypeInv'
  OBVIOUS
<1> USE DEF TypeInv
<1>0. queue # << >> => /\ Head(queue) \in Txs /\ Tail(queue) \in Seq(Txs)
                       /\ Last(queue) \in Txs /\ Front(queue) \in Seq(Txs)
  BY SeqParts, FrontParts
<1>1. CASE StoreWalletOuts
  <2>1. \A a \in Addrs : IsBook(AddOutputs(book[a], a, Head(queue)))
    BY <1>0, <1>1, BookSteps DEF StoreWalletOuts
  <2>2. book' = [a \in Addrs |-> book'[a]] /\ \A a \in Addrs : IsBook(book'[a])
    BY <1>1, <2>1 DEF StoreWalletOuts
  <2> QED BY <1>1, <2>2 DEF StoreWalletOuts, chainVars, scanVars, histVars
<1>2. CASE StoreWalletIns
  <2>1. \A a \in Addrs : IsBook(SpendInputs(book[a], a, Head(queue)))
    BY <1>0, <1>2, BookSteps DEF StoreWalletIns
  <2>2. book' = [a \in Addrs |-> book'[a]] /\ \A a \in Addrs : IsBook(book'[a])
    BY <1>2, <2>1 DEF StoreWalletIns
  <2>3. queue' \in Seq(Txs) /\ mpc' \in {"idle", "outs"} /\ (mpc' = "outs" => queue' # << >>)
    BY <1>0, <1>2 DEF StoreWalletIns
  <2> QED BY <1>2, <2>2, <2>3 DEF StoreWalletIns, chainVars, scanVars, histVars
<1>3. CASE RemoveBlock
  <2>1. Last(chain) \in Seq(Txs)
    BY <1>3, ChainType DEF RemoveBlock
  <2> QED BY <1>3, <2>1 DEF RemoveBlock, scanVars, histVars
<1>4. CASE RemoveWalletTx
  <2> DEFINE t == Last(queue)
  <2>0. t \in Txs /\ Touched(t) \subseteq Addrs
    BY <1>0, <1>4, TouchedType DEF RemoveWalletTx
  <2>1. \A a \in Addrs : IsBook(UnspendInputs(DropStake(DropOutputs(book[a], a, t), a, t), a, t))
    BY <2>0, BookSteps
  <2>2. book' = [a \in Addrs |-> book'[a]] /\ \A a \in Addrs : IsBook(book'[a])
    BY <1>4, <2>1 DEF RemoveWalletTx
  <2>3. \A a \in Addrs : Only(adr[a], Txs \ {t}) \in Seq(Txs)
    BY OnlyParts
  <2>4. adr' \in [Addrs -> Seq(Txs)]
    BY <1>4, <2>3 DEF RemoveWalletTx
  <2>5. queue' \in Seq(Txs) /\ undone' \subseteq Addrs /\ mpc' = "undo" /\ gone' = {}
    BY <1>0, <1>4, <2>0 DEF RemoveWalletTx
  <2> HIDE DEF t
  <2> QED BY <1>4, <2>2, <2>4, <2>5 DEF RemoveWalletTx, scanVars
<1>5. CASE BlockRemoved
  <2>1. chain = << >> \/ Front(chain) \in Seq(use.offered)
    BY FrontParts
  <2>2. Front(<< >>) = << >>
    BY DEF Front
  <2>3. chain' \in Seq(use'.offered)
    BY <1>5, <2>1, <2>2 DEF BlockRemoved
  <2> QED BY <1>5, <2>3 DEF BlockRemoved, scanVars, histVars
<1>6. CASE ScanAddresses
  <2>1. PICK a \in todo : StartScan(Main, a) /\ todo' = todo \ {a}
    BY <1>6 DEF ScanAddresses
  <2> QED BY <1>6, <2>1, PoolParts DEF ScanAddresses, StartScan, chainVars, mainVars, histVars, ScanSteps
<1>7. CASE DelIndexes
  <2>1. gone' \subseteq Addrs
    BY <1>7 DEF DelIndexes, SharedFiles
  <2> QED BY <1>7, <2>1 DEF DelIndexes, mainVars, scanVars, histVars
<1> QED BY <1>1, <1>2, <1>3, <1>4, <1>5, <1>6, <1>7

\* Imports, and the requests of the RPC service.
LEMMA TypeRequests ==
  TypeInv /\ ((\E a \in Addrs : Import(a)) \/ (\E p \in Rpc : Rescan(p))) => TypeInv'
<1> SUFFICES ASSUME TypeInv, (\E a \in Addrs : Import(a)) \/ (\E p \in Rpc : Rescan(p)) PROVE TypeInv'
  OBVIOUS
<1> USE DEF TypeInv
<1>1. ASSUME NEW a \in Addrs, Import(a) PROVE TypeInv'
  BY <1>1 DEF Import, chainVars, mainVars, scanVars
<1>2. ASSUME NEW p \in Rpc, Rescan(p) PROVE TypeInv'
  <2>1. PICK a \in Addrs : StartScan(p, a)
    BY <1>2 DEF Rescan
  <2> QED BY <1>2, <2>1, PoolParts DEF Rescan, StartScan, chainVars, mainVars, histVars, ScanSteps
<1> QED BY <1>1, <1>2

LEMMA TypeScanStep ==
  ASSUME TypeInv, NEW p \in Threads, ScanStep(p)
  PROVE  TypeInv'
<1> USE DEF TypeInv
<1> DEFINE a == sadr[p]
<1>0. a \in Addrs /\ p \in DOMAIN spc /\ p \in DOMAIN spage /\ p \in DOMAIN scut /\ p \in DOMAIN sfirst
  OBVIOUS
<1>1. CASE TestLock(p)
  BY <1>1 DEF TestLock, chainVars, mainVars, histVars, ScanSteps
<1>2. CASE PutLock(p)
  <2>1. ClearedParts \in Seq(Parts) /\ << >> \in Seq(Parts)
    BY DEF ClearedParts, Parts
  <2>2. scut' \in [Threads -> Seq(Parts)]
    BY <1>2, <2>1 DEF PutLock
  <2> QED BY <1>2, <2>2 DEF PutLock, chainVars, mainVars, histVars, ScanSteps
<1>3. CASE Clear(p)
  <2> DEFINE d == Head(scut[p])
             f == [book[a] EXCEPT ![d] = NoFiles[d]]
  <2>1. d \in Parts /\ Tail(scut[p]) \in Seq(Parts)
    BY <1>3, SeqParts DEF Clear
  <2>2. IsBook(f)
    <3>1. book[a] = [q \in Parts |-> book[a][q]] /\ IsBook(book[a])
      BY <1>0 DEF IsBook
    <3>2. CASE d = "stakes"
      BY <3>1, <3>2, EmptyBook DEF IsBook, Dirs, Parts
    <3>3. CASE d # "stakes"
      <4>1. d \in Dirs
        BY <2>1, <3>3 DEF Dirs
      <4>2. IsDir(NoFiles[d])
        BY <4>1, EmptyBook
      <4> QED BY <3>1, <4>1, <4>2, ReplacePart
    <3> QED BY <3>2, <3>3
  <2>3. book' = [book EXCEPT ![a] = f]
    BY <1>3 DEF Clear
  <2> HIDE DEF f
  <2>4. book' = [b \in Addrs |-> book'[b]] /\ \A b \in Addrs : IsBook(book'[b])
    BY <1>0, <2>2, <2>3, BookUpdate
  <2> QED BY <1>3, <2>1, <2>4 DEF Clear, chainVars, mainVars, histVars
<1>4. CASE MakeDir(p)
  BY <1>0, <1>4 DEF MakeDir, chainVars, mainVars, histVars, ScanSteps
<1>5. CASE Load(p)
  <2>1. LoadPage(a, sfirst[p]) \in Seq(Txs)
    BY <1>0, PageParts
  <2>2. sfirst' \in [Threads -> Nat]
    BY <1>5, PoolParts DEF Load
  <2>0. (IF a \in gone THEN << >> ELSE LoadPage(a, sfirst[p])) \in Seq(Txs)
    BY <2>1
  <2>3. /\ spage' \in [Threads -> Seq(Txs)]
        /\ spage' = [spage EXCEPT ![p] = IF a \in gone THEN << >> ELSE LoadPage(a, sfirst[p])]
        /\ missed' \subseteq Addrs
    BY <1>0, <1>5, <2>0 DEF Load
  <2>4. spc' = [spc EXCEPT ![p] = IF spage'[p] = << >> THEN "unlock" ELSE "outs"]
    BY <1>5 DEF Load
  <2>5. spc' \in [Threads -> ScanSteps]
    BY <2>4 DEF ScanSteps
  <2>6. \A q \in Threads : spage'[q] # << >> <=> spc'[q] \in {"outs", "ins"}
    BY <2>3, <2>4
  <2> QED BY <1>5, <2>2, <2>3, <2>5, <2>6 DEF Load, chainVars, mainVars, histVars
<1>6. ASSUME NextTx(p), spc[p] \in {"outs", "ins"}
      PROVE  /\ spage' \in [Threads -> Seq(Txs)] /\ spc' \in [Threads -> ScanSteps]
             /\ \A q \in Threads : spage'[q] # << >> <=> spc'[q] \in {"outs", "ins"}
  <2>1. Tail(spage[p]) \in Seq(Txs)
    BY <1>6, SeqParts
  <2>2. /\ spage' = [spage EXCEPT ![p] = Tail(spage[p])]
        /\ spc' = [spc EXCEPT ![p] = IF Tail(spage[p]) = << >> THEN "load" ELSE "outs"]
    BY <1>6 DEF NextTx
  <2> QED BY <2>1, <2>2 DEF ScanSteps
<1>7. CASE StoreTxOuts(p)
  <2>1. Head(spage[p]) \in Txs
    BY <1>7, SeqParts DEF StoreTxOuts
  <2> DEFINE f == AddOutputs(book[a], a, Head(spage[p]))
  <2>2. IsBook(f)
    BY <1>0, <2>1, BookSteps
  <2>3. book' = [book EXCEPT ![a] = f]
    BY <1>7 DEF StoreTxOuts
  <2> HIDE DEF f
  <2>4. book' = [b \in Addrs |-> book'[b]] /\ \A b \in Addrs : IsBook(book'[b])
    BY <1>0, <2>2, <2>3, BookUpdate
  <2> QED BY <1>7, <2>4 DEF StoreTxOuts, chainVars, mainVars, histVars, ScanSteps
<1>8. CASE StoreTxGone(p)
  BY <1>6, <1>8 DEF StoreTxGone, chainVars, mainVars, histVars
<1>9. CASE StoreTxIns(p)
  <2>1. Head(spage[p]) \in Txs
    BY <1>9, SeqParts DEF StoreTxIns
  <2> DEFINE f == AddStakes(SpendInputs(book[a], a, Head(spage[p])), a, <<Head(spage[p])>>)
  <2>2. IsBook(f)
    BY <1>0, <2>1, BookSteps
  <2>3. book' = [book EXCEPT ![a] = f]
    BY <1>9 DEF StoreTxIns
  <2> HIDE DEF f
  <2>4. book' = [b \in Addrs |-> book'[b]] /\ \A b \in Addrs : IsBook(book'[b])
    BY <1>0, <2>2, <2>3, BookUpdate
  <2> QED BY <1>6, <1>9, <2>4 DEF StoreTxIns, chainVars, mainVars, histVars
<1>10. CASE Unlock(p)
  BY <1>0, <1>10 DEF Unlock, RmAddrScan, chainVars, mainVars, ScanSteps
<1> QED BY <1>1, <1>2, <1>3, <1>4, <1>5, <1>7, <1>8, <1>9, <1>10 DEF ScanStep

LEMMA TypeStep == TypeInv /\ [Next]_vars => TypeInv'
<1> SUFFICES ASSUME TypeInv, [Next]_vars PROVE TypeInv'
  OBVIOUS
<1>1. CASE UNCHANGED vars
  BY <1>1 DEF TypeInv, vars, chainVars, mainVars, scanVars, histVars
<1> QED BY <1>1, TypeStore, TypeMainLoop, TypeRequests, TypeScanStep DEF Next, MainLoop

\* The chain, the index and the files are always well typed: no coin has a
\* number of sources below zero, and every list is one of transactions.
THEOREM TypeCorrect == Spec => []TypeOK
BY TypeInit, TypeStep, TypesHold, PTL DEF Spec

-----------------------------------------------------------------------------
(* The chain and the index of addresses *)

\* The transactions of the first n blocks of a chain.
TxsOf(c, n) == UNION {ToSet(c[b]) : b \in 1 .. n}
\* A set of transactions with what they spend of; one where nothing is spent
\* twice.
Closed(S) == \A t \in S : \A o \in Ins[t] : o[1] \in S
SpentOnce(S) == \A t, u \in S : t # u => Ins[t] \cap Ins[u] = {}
\* A transaction is on the chain once, after those it spends of, and nothing is
\* spent twice.
GoodChain(c) ==
    /\ \A b \in 1 .. Len(c) : /\ Sorted(c[b]) /\ ToSet(c[b]) \cap TxsOf(c, b - 1) = {}
                              /\ Closed(TxsOf(c, b))
    /\ SpentOnce(TxsOf(c, Len(c)))
ChainInv == GoodChain(chain)

\* The transactions the main loop has stored, entered, or has not yet removed.
Entered == IF mpc = "undo" THEN Indexed ELSE Stored \ ToSet(queue)
\* Those whose outputs and inputs are in the files.
Settled == IF mpc = "store" THEN Stored \ ToSet(Last(chain)) ELSE Entered
\* The main loop is in the last block, between two transactions of it, and
\* files of the index are missing only then.
QueueInv ==
    /\ mpc = "idle" => queue = << >>
    /\ mpc # "idle" => /\ chain # << >> /\ spc[Main] = "idle"
                       /\ ToSet(queue) \subseteq ToSet(Last(chain)) /\ Sorted(queue) /\ Once(queue)
                       /\ Closed(Entered)
    /\ gone # {} => mpc \in {"store", "undo"} /\ queue # << >>

\* The transactions the index has for all their addresses; the one that is
\* being stored it has for some.
Listed == IF mpc = "store" THEN Entered ELSE Indexed
\* The index of addresses has the transactions of an address once, in an order
\* in which none spends of itself or of a later one.
IndexInv ==
    \A a \in Addrs : /\ {t \in Listed : a \in Touched(t)} \subseteq ToSet(adr[a])
                     /\ ToSet(adr[a]) \subseteq {t \in Indexed : a \in Touched(t)}
                     /\ Sorted(adr[a]) /\ Once(adr[a])

\* A sequence without its first, or its last, element.
LEMMA EndParts ==
  ASSUME NEW s \in Seq(Txs), s # << >>
  PROVE  /\ Once(s) => /\ ToSet(Tail(s)) = ToSet(s) \ {Head(s)}
                       /\ ToSet(Front(s)) = ToSet(s) \ {Last(s)}
                       /\ Once(Tail(s)) /\ Once(Front(s))
         /\ Sorted(s) => /\ Sorted(Tail(s)) /\ Sorted(Front(s))
                         /\ \A o \in Ins[Head(s)] : o[1] \notin ToSet(s)
                         /\ \A t \in ToSet(s) : \A o \in Ins[t] : o[1] # Last(s)
<1> DEFINE n == Len(s)
           r == Tail(s)
           q == Front(s)
<1>1. /\ n \in Nat /\ n > 0 /\ Head(s) = s[1] /\ ToSet(s) = {s[i] : i \in 1 .. n} /\ Last(s) = s[n]
      /\ r \in Seq(Txs) /\ Len(r) = n - 1 /\ \A i \in 1 .. n - 1 : r[i] = s[i + 1]
  BY SeqParts
<1>2. q \in Seq(Txs) /\ Len(q) = n - 1 /\ \A i \in 1 .. n - 1 : q[i] = s[i]
  BY FrontParts
<1> DEFINE h == Head(s)
           l == Last(s)
<1>6. h = s[1] /\ l = s[n] /\ n \in Nat /\ n > 0
  BY <1>1
<1> HIDE DEF n, r, q, h, l
<1>3. ToSet(r) = {r[i] : i \in 1 .. n - 1} /\ ToSet(q) = {q[i] : i \in 1 .. n - 1}
  <2>1. \A x \in Seq(Txs) : ToSet(x) = {x[i] : i \in 1 .. Len(x)}
    BY SeqParts
  <2> QED BY <1>1, <1>2, <2>1
<1>4. 1 \in 1 .. n /\ n \in 1 .. n /\ \A i \in 1 .. n - 1 : i \in 1 .. n /\ i + 1 \in 1 .. n
  BY ONLY <1>6
<1>5. \A i \in 1 .. n : (i # 1 => i - 1 \in 1 .. n - 1 /\ i = (i - 1) + 1) /\ (i # n => i \in 1 .. n - 1)
  BY ONLY <1>6
<1>7. ASSUME Once(s)
      PROVE  ToSet(r) = ToSet(s) \ {h} /\ ToSet(q) = ToSet(s) \ {l} /\ Once(r) /\ Once(q)
  <2>0. \A i, j \in 1 .. n : s[i] = s[j] => i = j
    BY <1>7 DEF Once, n
  <2>1. ASSUME NEW x \in ToSet(r) PROVE x \in ToSet(s) \ {h}
    <3>1. PICK i \in 1 .. n - 1 : x = s[i + 1]
      BY <1>1, <1>3
    <3>2. i + 1 # 1
      BY <1>1, <3>1
    <3> QED BY <1>1, <1>4, <1>6, <2>0, <3>1, <3>2
  <2>2. ASSUME NEW x \in ToSet(s) \ {h} PROVE x \in ToSet(r)
    <3>1. PICK i \in 1 .. n : x = s[i] /\ i # 1
      BY <1>1, <1>6
    <3> QED BY <1>1, <1>3, <1>5, <3>1
  <2>3. ASSUME NEW x \in ToSet(q) PROVE x \in ToSet(s) \ {l}
    <3>1. PICK i \in 1 .. n - 1 : x = s[i]
      BY <1>2, <1>3
    <3>2. i # n
      BY <1>1, <3>1
    <3> QED BY <1>1, <1>4, <1>6, <2>0, <3>1, <3>2
  <2>4. ASSUME NEW x \in ToSet(s) \ {l} PROVE x \in ToSet(q)
    <3>1. PICK i \in 1 .. n : x = s[i] /\ i # n
      BY <1>1, <1>6
    <3> QED BY <1>2, <1>3, <1>5, <3>1
  <2>5. Once(r)
    <3>1. \A i, j \in 1 .. n - 1 : i + 1 = j + 1 => i = j
      BY <1>1
    <3> QED BY <1>1, <1>4, <2>0, <3>1 DEF Once
  <2>6. Once(q)
    BY <1>2, <1>4, <2>0 DEF Once
  <2> QED BY <2>1, <2>2, <2>3, <2>4, <2>5, <2>6
<1>8. ASSUME Sorted(s)
      PROVE  /\ Sorted(r) /\ Sorted(q)
             /\ \A o \in Ins[h] : o[1] \notin ToSet(s)
             /\ \A t \in ToSet(s) : \A o \in Ins[t] : o[1] # l
  <2>0. \A i, j \in 1 .. n : \A o \in Ins[s[i]] : o[1] = s[j] => j < i
    BY <1>8 DEF Sorted, n
  <2>1. Sorted(r)
    <3>1. \A i, j \in 1 .. n - 1 : j + 1 < i + 1 => j < i
      BY <1>1
    <3> QED BY <1>1, <1>4, <2>0, <3>1 DEF Sorted
  <2>2. Sorted(q)
    BY <1>2, <1>4, <2>0 DEF Sorted
  <2>3. ASSUME NEW o \in Ins[h], o[1] \in ToSet(s) PROVE FALSE
    <3>1. PICK j \in 1 .. n : o[1] = s[j]
      BY <1>1, <2>3
    <3>2. j < 1
      BY <1>4, <1>6, <2>0, <2>3, <3>1
    <3> QED BY <1>1, <3>2
  <2>4. ASSUME NEW t \in ToSet(s), NEW o \in Ins[t], o[1] = l PROVE FALSE
    <3>1. PICK i \in 1 .. n : t = s[i]
      BY <1>1
    <3>2. n < i
      BY <1>4, <1>6, <2>0, <2>4, <3>1
    <3> QED BY <1>1, <3>2
  <2> QED BY <2>1, <2>2, <2>3, <2>4
<1> QED BY <1>7, <1>8 DEF r, q, h, l

\* Two sequences in such an order, one after the other.
LEMMA ConcatOrder ==
  ASSUME NEW r \in Seq(Txs), NEW s \in Seq(Txs), ToSet(r) \cap ToSet(s) = {}
  PROVE  /\ Once(r) /\ Once(s) => Once(r \o s)
         /\ /\ Sorted(r) /\ Sorted(s) 
            /\ \A t \in ToSet(r) : \A o \in Ins[t] : o[1] \notin ToSet(s)
            => Sorted(r \o s)
<1> DEFINE m == Len(r)
           n == Len(s)
           q == r \o s
<1>1. /\ m \in Nat /\ n \in Nat /\ q \in Seq(Txs) /\ Len(q) = m + n
      /\ \A i \in 1 .. m : q[i] = r[i]
      /\ \A i \in 1 .. n : q[m + i] = s[i]
  OBVIOUS
<1>2. ToSet(r) = {r[i] : i \in 1 .. m} /\ ToSet(s) = {s[i] : i \in 1 .. n}
  BY SeqParts
<1> HIDE DEF m, n, q
<1>3. ASSUME NEW i \in 1 .. m + n
      PROVE  \/ i \in 1 .. m /\ q[i] = r[i] /\ q[i] \in ToSet(r)
             \/ \E k \in 1 .. n : i = m + k /\ q[i] = s[k] /\ q[i] \in ToSet(s)
  <2>1. CASE i <= m
    BY <1>1, <1>2, <2>1
  <2>2. CASE ~(i <= m)
    <3>1. i - m \in 1 .. n /\ i = m + (i - m)
      BY <1>1, <2>2
    <3> QED BY <1>1, <1>2, <3>1
  <2> QED BY <2>1, <2>2
<1>4. ASSUME Once(r), Once(s) PROVE Once(q)
  <2>0. (\A i, j \in 1 .. m : r[i] = r[j] => i = j) /\ (\A i, j \in 1 .. n : s[i] = s[j] => i = j)
    BY <1>4 DEF Once, m, n
  <2> SUFFICES ASSUME NEW i \in 1 .. m + n, NEW j \in 1 .. m + n, q[i] = q[j] PROVE i = j
    BY <1>1 DEF Once
  <2>1. CASE i \in 1 .. m /\ q[i] = r[i] /\ q[i] \in ToSet(r)
    BY <1>3, <2>0, <2>1
  <2>2. CASE \E k \in 1 .. n : i = m + k /\ q[i] = s[k] /\ q[i] \in ToSet(s)
    BY <1>3, <2>0, <2>2
  <2> QED BY <1>3, <2>1, <2>2
<1>5. ASSUME Sorted(r), Sorted(s), \A t \in ToSet(r) : \A o \in Ins[t] : o[1] \notin ToSet(s)
      PROVE  Sorted(q)
  <2>0. /\ \A i, j \in 1 .. m : \A o \in Ins[r[i]] : o[1] = r[j] => j < i
        /\ \A i, j \in 1 .. n : \A o \in Ins[s[i]] : o[1] = s[j] => j < i
    BY <1>5 DEF Sorted, m, n
  <2> SUFFICES ASSUME NEW i \in 1 .. m + n, NEW j \in 1 .. m + n, NEW o \in Ins[q[i]], o[1] = q[j]
               PROVE  j < i
    BY <1>1 DEF Sorted
  <2>1. CASE i \in 1 .. m /\ q[i] = r[i] /\ q[i] \in ToSet(r)
    <3>1. j \in 1 .. m /\ q[j] = r[j]
      BY <1>3, <1>5, <2>1
    <3> QED BY <2>0, <2>1, <3>1
  <2>2. CASE \E k \in 1 .. n : i = m + k /\ q[i] = s[k] /\ q[i] \in ToSet(s)
    <3>1. PICK k \in 1 .. n : i = m + k /\ q[i] = s[k]
      BY <2>2
    <3>2. CASE j \in 1 .. m
      BY <1>1, <3>1, <3>2
    <3>3. CASE \E l \in 1 .. n : j = m + l /\ q[j] = s[l]
      <4>1. PICK l \in 1 .. n : j = m + l /\ q[j] = s[l]
        BY <3>3
      <4>2. l < k
        BY <2>0, <3>1, <4>1
      <4> QED BY <1>1, <3>1, <4>1, <4>2
    <3> QED BY <1>3, <3>2, <3>3
  <2> QED BY <1>3, <2>1, <2>2
<1> QED BY <1>4, <1>5 DEF q

\* The transactions of a chain with one block more, or with one less.
LEMMA ChainGrows ==
  ASSUME NEW B, \A b \in B : b \in Seq(Txs), NEW c \in Seq(B), NEW b \in B
  PROVE  LET d == Append(c, b)
         IN  /\ d \in Seq(B) /\ Len(d) = Len(c) + 1 /\ d # << >> /\ Last(d) = b
             /\ \A i \in 1 .. Len(c) : d[i] = c[i]
             /\ d[Len(c) + 1] = b
             /\ \A n \in 0 .. Len(c) : TxsOf(d, n) = TxsOf(c, n)
             /\ TxsOf(d, Len(c) + 1) = TxsOf(c, Len(c)) \cup ToSet(b)
<1> DEFINE d == Append(c, b)
<1>1. /\ d \in Seq(B) /\ Len(d) = Len(c) + 1 /\ d # << >> /\ Len(c) \in Nat
      /\ \A i \in 1 .. Len(c) : d[i] = c[i]
      /\ d[Len(c) + 1] = b
  <2>1. /\ d \in Seq(B) /\ Len(d) = Len(c) + 1 /\ Len(c) \in Nat
        /\ \A i \in 1 .. Len(c) : d[i] = c[i]
        /\ d[Len(c) + 1] = b
    BY ONLY c \in Seq(B), b \in B
  <2>2. Len(d) # 0 /\ Len(<< >>) = 0
    BY <2>1
  <2> QED BY <2>1, <2>2
<1> HIDE DEF d
<1>2. Last(d) = b
  BY <1>1 DEF Last
<1>3. ASSUME NEW n \in 0 .. Len(c) PROVE TxsOf(d, n) = TxsOf(c, n)
  <2>1. \A i \in 1 .. n : i \in 1 .. Len(c)
    BY <1>1
  <2> QED BY <1>1, <2>1 DEF TxsOf
<1>4. TxsOf(d, Len(c) + 1) = TxsOf(c, Len(c)) \cup ToSet(b)
  <2> DEFINE m == Len(c)
  <2>1. \A i : i \in 1 .. m + 1 <=> i \in 1 .. m \/ i = m + 1
    BY <1>1
  <2> HIDE DEF m
  <2>2. (\A i \in 1 .. m : d[i] = c[i]) /\ d[m + 1] = b
    BY <1>1 DEF m
  <2>3. TxsOf(d, m + 1) = TxsOf(c, m) \cup ToSet(b)
    BY <2>1, <2>2 DEF TxsOf
  <2> QED BY <2>3 DEF m
<1> QED BY <1>1, <1>2, <1>3, <1>4 DEF d

LEMMA ChainShrinks ==
  ASSUME NEW B, \A b \in B : b \in Seq(Txs), NEW c \in Seq(B), c # << >>
  PROVE  LET d == Front(c)
         IN  /\ d \in Seq(B) /\ Len(c) \in Nat /\ Len(c) > 0 /\ Len(d) = Len(c) - 1
             /\ \A i \in 1 .. Len(c) - 1 : d[i] = c[i]
             /\ Last(c) = c[Len(c)]
             /\ \A n \in 0 .. Len(c) - 1 : TxsOf(d, n) = TxsOf(c, n)
             /\ TxsOf(c, Len(c)) = TxsOf(c, Len(c) - 1) \cup ToSet(Last(c))
<1> DEFINE d == Front(c)
           m == Len(c)
<1>1. d \in Seq(B) /\ m \in Nat /\ m > 0 /\ Len(d) = m - 1 /\ \A i \in 1 .. m - 1 : d[i] = c[i]
  BY FrontParts
<1>2. Last(c) = c[m]
  BY DEF Last
<1> HIDE DEF d, m
<1>3. ASSUME NEW n \in 0 .. m - 1 PROVE TxsOf(d, n) = TxsOf(c, n)
  <2>1. \A i \in 1 .. n : i \in 1 .. m - 1
    BY <1>1
  <2> QED BY <1>1, <2>1 DEF TxsOf
<1>4. TxsOf(c, m) = TxsOf(c, m - 1) \cup ToSet(c[m])
  <2>1. \A i : i \in 1 .. m <=> i \in 1 .. m - 1 \/ i = m
    BY <1>1
  <2> QED BY <2>1 DEF TxsOf
<1> QED BY <1>1, <1>2, <1>3, <1>4 DEF d, m

\* The elements of a sequence after its first.
Later(s) == {s[i] : i \in 2 .. Len(s)}
LEMMA LaterParts ==
  ASSUME NEW s \in Seq(Txs)
  PROVE  /\ Later(s) \subseteq ToSet(s)
         /\ s # << >> => Later(s) = ToSet(Tail(s))
         /\ s = << >> => Later(s) = {}
<1>1. Len(s) \in Nat /\ ToSet(s) = {s[i] : i \in 1 .. Len(s)}
  BY SeqParts
<1>2. \A i \in 2 .. Len(s) : i \in 1 .. Len(s)
  BY <1>1
<1>3. Later(s) \subseteq ToSet(s)
  BY <1>1, <1>2 DEF Later
<1>4. ASSUME s # << >> PROVE Later(s) = ToSet(Tail(s))
  <2>1. /\ Tail(s) \in Seq(Txs) /\ Len(Tail(s)) = Len(s) - 1
        /\ \A i \in 1 .. Len(s) - 1 : Tail(s)[i] = s[i + 1]
    BY <1>4, SeqParts
  <2>2. ToSet(Tail(s)) = {Tail(s)[i] : i \in 1 .. Len(s) - 1}
    BY <2>1, SeqParts
  <2>3. \A i \in 2 .. Len(s) : i - 1 \in 1 .. Len(s) - 1 /\ (i - 1) + 1 = i
    BY <1>1
  <2>4. \A i \in 1 .. Len(s) - 1 : i + 1 \in 2 .. Len(s)
    BY <1>1
  <2>5. ASSUME NEW x \in Later(s) PROVE x \in ToSet(Tail(s))
    BY <2>1, <2>2, <2>3 DEF Later
  <2>6. ASSUME NEW x \in ToSet(Tail(s)) PROVE x \in Later(s)
    BY <2>1, <2>2, <2>4 DEF Later
  <2> QED BY <2>5, <2>6
<1>5. s = << >> => Later(s) = {}
  BY DEF Later
<1> QED BY <1>3, <1>4, <1>5

\* The transactions stored, and those indexed.
LEMMA StoredParts ==
  ASSUME TypeInv
  PROVE  /\ Stored = TxsOf(chain, Len(chain)) /\ Stored \subseteq Txs /\ Indexed \subseteq Stored
         /\ \A t \in Txs : OnChain(t) <=> t \in Stored
         /\ mpc \notin {"store", "undo"} => Indexed = Stored
         /\ mpc = "store" => Indexed = Stored \ Later(queue)
         /\ mpc = "undo" => Indexed = (Stored \ ToSet(Last(chain))) \cup (Stored \cap ToSet(queue))
<1>1. /\ Len(chain) \in Nat
      /\ \A b \in 1 .. Len(chain) : /\ chain[b] \in Seq(Txs) /\ Len(chain[b]) \in Nat
                                    /\ ToSet(chain[b]) = {chain[b][i] : i \in 1 .. Len(chain[b])}
  BY ChainType, SeqParts
<1>2. ASSUME NEW t PROVE OnChain(t) <=> t \in TxsOf(chain, Len(chain))
  <2>1. OnChain(t) <=> \E b \in 1 .. Len(chain) : t \in ToSet(chain[b])
    <3>1. \A b \in 1 .. Len(chain) : t \in ToSet(chain[b]) <=> \E i \in 1 .. Len(chain[b]) : chain[b][i] = t
      BY <1>1
    <3> QED BY <3>1 DEF OnChain
  <2> QED BY <2>1 DEF TxsOf
<1>3. TxsOf(chain, Len(chain)) \subseteq Txs
  <2>1. \A b \in 1 .. Len(chain) : ToSet(chain[b]) \subseteq Txs
    BY <1>1, SeqParts
  <2> QED BY <2>1 DEF TxsOf
<1>4. Stored = TxsOf(chain, Len(chain)) /\ \A t \in Txs : OnChain(t) <=> t \in Stored
  BY <1>2, <1>3 DEF Stored
<1>5. \A t : t \in Indexed <=> /\ t \in Stored
                               /\ mpc = "store" => t \notin Later(queue)
                               /\ mpc = "undo" => t \notin ToSet(Last(chain)) \/ t \in ToSet(queue)
  <2>1. \A t : (\A i \in 2 .. Len(queue) : t # queue[i]) <=> t \notin Later(queue)
    BY DEF Later
  <2> QED BY <1>3, <1>4, <2>1 DEF Indexed, Loadable
<1> QED BY <1>3, <1>4, <1>5

LEMMA StoredNext ==
  (TypeInv => /\ Stored = TxsOf(chain, Len(chain)) /\ Stored \subseteq Txs /\ Indexed \subseteq Stored
              /\ \A t \in Txs : OnChain(t) <=> t \in Stored
              /\ mpc \notin {"store", "undo"} => Indexed = Stored
              /\ mpc = "store" => Indexed = Stored \ Later(queue)
              /\ mpc = "undo" => Indexed = (Stored \ ToSet(Last(chain))) \cup (Stored \cap ToSet(queue)))'
<1>1. TypeInv => /\ Stored = TxsOf(chain, Len(chain)) /\ Stored \subseteq Txs /\ Indexed \subseteq Stored
                 /\ \A t \in Txs : OnChain(t) <=> t \in Stored
                 /\ mpc \notin {"store", "undo"} => Indexed = Stored
                 /\ mpc = "store" => Indexed = Stored \ Later(queue)
                 /\ mpc = "undo" => Indexed = (Stored \ ToSet(Last(chain))) \cup (Stored \cap ToSet(queue))
  BY StoredParts
<1> QED BY <1>1, PTL

OrderInv == ChainInv /\ QueueInv /\ IndexInv

\* What the main loop has settled is closed, and so is all that is stored.
LEMMA OrderParts ==
  ASSUME TypeInv, ChainInv, QueueInv
  PROVE  /\ Closed(Stored) /\ Closed(Settled) /\ Closed(Entered) /\ SpentOnce(Stored)
         /\ ToSet(queue) \subseteq Stored /\ Indexed \subseteq Stored /\ Stored \subseteq Txs
         /\ Settled \subseteq Stored /\ Settled \subseteq Indexed
         /\ mpc \in {"outs", "ins"} => Settled = Stored \ ToSet(queue)
         /\ mpc = "idle" => queue = << >> /\ Settled = Stored
         /\ mpc = "undo" => Settled = Indexed /\ Indexed = (Stored \ ToSet(Last(chain))) \cup ToSet(queue)
         /\ mpc = "store" => /\ Settled = Stored \ ToSet(Last(chain)) /\ Entered = Stored \ ToSet(queue)
                             /\ Indexed = Stored \ Later(queue) /\ Entered \subseteq Indexed
         /\ mpc \notin {"store", "undo"} => Indexed = Stored
         /\ chain # << >> => /\ Closed(Stored \ ToSet(Last(chain))) /\ Sorted(Last(chain)) /\ Once(Last(chain))
                             /\ ToSet(Last(chain)) \subseteq Stored
<1>1. /\ Stored = TxsOf(chain, Len(chain)) /\ Stored \subseteq Txs /\ Indexed \subseteq Stored
      /\ mpc \notin {"store", "undo"} => Indexed = Stored
      /\ mpc = "store" => Indexed = Stored \ Later(queue)
      /\ mpc = "undo" => Indexed = (Stored \ ToSet(Last(chain))) \cup (Stored \cap ToSet(queue))
  BY StoredParts
<1>2. Closed(Stored) /\ SpentOnce(Stored)
  <2>0. Len(chain) \in Nat
    BY ChainType
  <2>1. CASE Len(chain) = 0
    <3>1. Stored = {}
      BY <1>1, <2>1 DEF TxsOf
    <3> QED BY <3>1 DEF Closed, SpentOnce
  <2>2. CASE Len(chain) # 0
    <3>1. Len(chain) \in 1 .. Len(chain)
      BY <2>0, <2>2
    <3> QED BY <1>1, <3>1 DEF ChainInv, GoodChain
  <2> QED BY <2>1, <2>2
<1>3. ASSUME chain # << >>
      PROVE  /\ Closed(Stored \ ToSet(Last(chain))) /\ Sorted(Last(chain)) /\ Once(Last(chain))
             /\ ToSet(Last(chain)) \subseteq Stored
  <2>1. /\ Len(chain) > 0 /\ Len(chain) \in Nat /\ Last(chain) = chain[Len(chain)] /\ Once(Last(chain))
    BY <1>3, ChainType
  <2>2. Stored = TxsOf(chain, Len(chain) - 1) \cup ToSet(Last(chain))
    <3>1. chain \in Seq(use.offered) /\ \A b \in use.offered : b \in Seq(Txs)
      BY BlockType DEF TypeInv
    <3> QED BY <1>1, <1>3, <3>1, ChainShrinks
  <2>3. Len(chain) \in 1 .. Len(chain)
    BY <2>1
  <2>4. Sorted(Last(chain)) /\ ToSet(Last(chain)) \cap TxsOf(chain, Len(chain) - 1) = {}
    BY <2>1, <2>3 DEF ChainInv, GoodChain
  <2>5. Closed(TxsOf(chain, Len(chain) - 1))
    <3>1. CASE Len(chain) = 1
      <4>1. TxsOf(chain, Len(chain) - 1) = {}
        BY <3>1 DEF TxsOf
      <4> QED BY <4>1 DEF Closed
    <3>2. CASE Len(chain) # 1
      <4>1. \A n \in Nat : n > 0 /\ n # 1 => n - 1 \in 1 .. n
        OBVIOUS
      <4>2. Len(chain) - 1 \in 1 .. Len(chain)
        BY ONLY <2>1, <3>2, <4>1
      <4> QED BY <4>2 DEF ChainInv, GoodChain
    <3> QED BY <3>1, <3>2
  <2>6. Stored \ ToSet(Last(chain)) = TxsOf(chain, Len(chain) - 1)
    BY <2>2, <2>4
  <2> QED BY <2>1, <2>2, <2>4, <2>5, <2>6
<1>4. ToSet(queue) \subseteq Stored
  <2>1. CASE mpc = "idle"
    <3>1. ToSet(<< >>) = {}
      BY DEF ToSet
    <3> QED BY <2>1, <3>1 DEF QueueInv
  <2>2. CASE mpc # "idle"
    BY <1>3, <2>2 DEF QueueInv
  <2> QED BY <2>1, <2>2
<1>5. Closed(Entered) /\ (mpc = "idle" => queue = << >> /\ Settled = Stored)
  <2>1. CASE mpc = "idle"
    <3>1. ToSet(<< >>) = {}
      BY DEF ToSet
    <3>2. queue = << >> /\ Entered = Stored /\ Settled = Stored
      BY <2>1, <3>1 DEF QueueInv, Settled, Entered
    <3> QED BY <1>2, <3>2
  <2>2. CASE mpc # "idle"
    BY <2>2 DEF QueueInv
  <2> QED BY <2>1, <2>2
<1>6. /\ mpc \in {"outs", "ins"} => Settled = Stored \ ToSet(queue)
      /\ mpc = "undo" => Settled = Indexed
      /\ mpc = "store" => Settled = Stored \ ToSet(Last(chain)) /\ Entered = Stored \ ToSet(queue)
      /\ mpc # "store" => Settled = Entered
  BY DEF Settled, Entered
<1>7. mpc = "store" => /\ chain # << >> /\ ToSet(queue) \subseteq ToSet(Last(chain))
                       /\ Later(queue) \subseteq ToSet(queue)
  BY LaterParts DEF QueueInv, TypeInv
<1>8. Closed(Settled) /\ Settled \subseteq Stored /\ Settled \subseteq Indexed
  <2>1. CASE mpc = "store"
    BY <1>1, <1>3, <1>6, <1>7, <2>1
  <2>2. CASE mpc # "store"
    BY <1>1, <1>5, <1>6, <2>2 DEF TypeInv, Entered
  <2> QED BY <2>1, <2>2
<1>9. mpc = "store" => Entered \subseteq Indexed
  BY <1>1, <1>6, <1>7
<1> QED BY <1>1, <1>2, <1>3, <1>4, <1>5, <1>6, <1>8, <1>9

LEMMA OrderInit == Init => OrderInv
<1> SUFFICES ASSUME Init PROVE OrderInv
  OBVIOUS
<1>1. chain = << >> /\ mpc = "idle" /\ queue = << >> /\ \A a \in Addrs : adr[a] = << >>
  BY DEF Init
<1>2. Len(<< >>) = 0 /\ TxsOf(<< >>, 0) = {} /\ ToSet(<< >>) = {}
  BY DEF TxsOf, ToSet
<1>3. ChainInv
  BY <1>1, <1>2 DEF ChainInv, GoodChain, SpentOnce
<1>4. QueueInv
  BY <1>1 DEF QueueInv, Init
<1>5. Indexed = {} /\ Listed = {}
  BY <1>1, <1>2 DEF Indexed, Listed, Loadable, OnChain
<1>6. IndexInv
  BY <1>1, <1>2, <1>5 DEF IndexInv, Sorted, Once
<1> QED BY <1>3, <1>4, <1>6 DEF OrderInv

\* A block is added whose inputs are unspent or made by the block before.
LEMMA ConnectedBlock ==
  ASSUME TypeInv, OrderInv, NEW b \in use.offered, Connectable(b)
  PROVE  /\ b \in Seq(Txs) /\ b # << >> /\ Once(b) /\ Sorted(b) /\ ToSet(b) \subseteq Txs
         /\ ToSet(b) \cap Stored = {}
         /\ \A t \in ToSet(b) : \A o \in Ins[t] : o[1] \in Stored \cup ToSet(b)
         /\ SpentOnce(Stored \cup ToSet(b))
<1>1. b \in Seq(Txs) /\ b # << >> /\ Once(b) /\ Len(b) \in Nat
  BY BlockType DEF TypeInv
<1>2. ToSet(b) = {b[i] : i \in 1 .. Len(b)} /\ ToSet(b) \subseteq Txs /\ \A i \in 1 .. Len(b) : b[i] \in Txs
  BY <1>1, SeqParts
<1>3. Closed(Stored) /\ SpentOnce(Stored) /\ Stored \subseteq Txs /\ \A t \in Txs : OnChain(t) <=> t \in Stored
  BY OrderParts, StoredParts DEF OrderInv
<1>4. \A i \in 1 .. Len(b) :
        /\ b[i] \notin Stored
        /\ \A o \in Ins[b[i]] : o \in Unspent \/ \E j \in 1 .. i - 1 : b[j] = o[1]
        /\ \A j \in 1 .. i - 1 : Ins[b[i]] \cap Ins[b[j]] = {}
  BY <1>2, <1>3 DEF Connectable
<1>5. ASSUME NEW o \in Unspent PROVE o[1] \in Stored /\ \A t \in Stored : o \notin Ins[t]
  BY <1>3, OutputParts DEF Unspent
<1>6. ToSet(b) \cap Stored = {}
  BY <1>2, <1>4
<1>7. Sorted(b)
  <2> SUFFICES ASSUME NEW i \in 1 .. Len(b), NEW k \in 1 .. Len(b), NEW o \in Ins[b[i]], o[1] = b[k]
               PROVE  k < i
    BY DEF Sorted
  <2>1. o \notin Unspent
    BY <1>4, <1>5
  <2>2. PICK j \in 1 .. i - 1 : b[j] = o[1]
    BY <1>4, <2>1
  <2>3. j \in 1 .. Len(b)
    BY <1>1
  <2>4. j = k
    BY <1>1, <2>2, <2>3 DEF Once
  <2> QED BY <1>1, <2>4
<1>8. ASSUME NEW t \in ToSet(b), NEW o \in Ins[t] PROVE o[1] \in Stored \cup ToSet(b)
  <2>1. PICK i \in 1 .. Len(b) : t = b[i]
    BY <1>2
  <2>2. CASE o \in Unspent
    BY <1>5, <2>2
  <2>3. CASE \E j \in 1 .. i - 1 : b[j] = o[1]
    <3>1. PICK j \in 1 .. i - 1 : b[j] = o[1]
      BY <2>3
    <3>2. j \in 1 .. Len(b)
      BY <1>1
    <3> QED BY <1>2, <3>1, <3>2
  <2> QED BY <1>4, <2>1, <2>2, <2>3
<1>9. ASSUME NEW t \in ToSet(b), NEW u \in Stored PROVE Ins[t] \cap Ins[u] = {}
  <2> SUFFICES ASSUME NEW o \in Ins[t], o \in Ins[u] PROVE FALSE
    OBVIOUS
  <2>1. PICK i \in 1 .. Len(b) : t = b[i]
    BY <1>2
  <2>2. o[1] \in Stored
    BY <1>3 DEF Closed
  <2>3. o \notin Unspent
    BY <1>5
  <2>4. PICK j \in 1 .. i - 1 : b[j] = o[1]
    BY <1>4, <2>1, <2>3
  <2>5. j \in 1 .. Len(b)
    BY <1>1
  <2> QED BY <1>4, <2>2, <2>4, <2>5
<1>10. ASSUME NEW t \in ToSet(b), NEW u \in ToSet(b), t # u PROVE Ins[t] \cap Ins[u] = {}
  <2>1. PICK i \in 1 .. Len(b), j \in 1 .. Len(b) : t = b[i] /\ u = b[j]
    BY <1>2
  <2>2. i # j
    BY <1>10, <2>1
  <2>3. j \in 1 .. i - 1 \/ i \in 1 .. j - 1
    BY <1>1, <2>2
  <2> QED BY <1>4, <2>1, <2>3
<1>11. SpentOnce(Stored \cup ToSet(b))
  BY <1>3, <1>9, <1>10 DEF SpentOnce
<1> QED BY <1>1, <1>2, <1>6, <1>7, <1>8, <1>11

LEMMA OrderAddBlock ==
  ASSUME TypeInv, OrderInv, AddBlock, TypeInv'
  PROVE  OrderInv' /\ Stored \subseteq Stored' /\ Stored' = Stored \cup ToSet(queue')
         /\ ToSet(queue') \cap Stored = {} /\ Settled' = Settled /\ Last(chain') = queue'
         /\ Stored \subseteq Indexed' /\ Indexed = Stored
         /\ \E b \in use.offered : Connectable(b) /\ queue' = b
<1>1. PICK b \in use.offered :
        /\ Connectable(b)
        /\ chain' = Append(chain, b)
        /\ queue' = b
  BY DEF AddBlock
<1>2. /\ b \in Seq(Txs) /\ b # << >> /\ Once(b) /\ Sorted(b) /\ ToSet(b) \subseteq Txs
      /\ ToSet(b) \cap Stored = {}
      /\ \A t \in ToSet(b) : \A o \in Ins[t] : o[1] \in Stored \cup ToSet(b)
      /\ SpentOnce(Stored \cup ToSet(b))
  BY <1>1, ConnectedBlock
<1>3. /\ mpc = "idle" /\ mpc' = "store" /\ spc' = spc /\ spc[Main] = "idle" /\ adr' = adr
      /\ gone' = gone
  BY DEF AddBlock, scanVars
<1>4. /\ Stored = TxsOf(chain, Len(chain)) /\ Closed(Stored) /\ Indexed = Stored /\ Stored \subseteq Txs
  BY <1>3, OrderParts, StoredParts DEF OrderInv
<1> DEFINE n == Len(chain)
<1>5. /\ n \in Nat /\ Len(chain') = n + 1 /\ chain' # << >> /\ Last(chain') = b
      /\ \A i \in 1 .. n : chain'[i] = chain[i]
      /\ chain'[n + 1] = b
      /\ \A i \in 0 .. n : TxsOf(chain', i) = TxsOf(chain, i)
      /\ TxsOf(chain', n + 1) = TxsOf(chain, n) \cup ToSet(b)
  <2>1. chain \in Seq(use.offered) /\ n \in Nat /\ use \in Uses
    BY ChainType
  <2>2. \A c \in use.offered : c \in Seq(Txs)
    BY <2>1, BlockType
  <2>3. LET d == Append(chain, b)
        IN  /\ Len(d) = n + 1 /\ d # << >> /\ Last(d) = b
            /\ \A i \in 1 .. n : d[i] = chain[i]
            /\ d[n + 1] = b
            /\ \A i \in 0 .. n : TxsOf(d, i) = TxsOf(chain, i)
            /\ TxsOf(d, n + 1) = TxsOf(chain, n) \cup ToSet(b)
    BY ONLY <2>1, <2>2, b \in use.offered, ChainGrows
  <2> QED BY ONLY <1>1, <2>1, <2>3
<1>6. Stored' = Stored \cup ToSet(b) /\ Stored \subseteq Indexed'
  <2>1. Stored' = TxsOf(chain', Len(chain')) /\ (mpc' = "store" => Indexed' = Stored' \ Later(queue'))
    BY StoredNext
  <2>2. Later(b) \subseteq ToSet(b)
    BY <1>2, LaterParts
  <2> QED BY <1>1, <1>2, <1>3, <1>4, <1>5, <2>1, <2>2
<1> HIDE DEF n
<1>7. Closed(Stored \cup ToSet(b))
  BY <1>2, <1>4 DEF Closed
<1>8. ChainInv'
  <2>1. ASSUME NEW i \in 1 .. n + 1
        PROVE  /\ Sorted(chain'[i]) /\ ToSet(chain'[i]) \cap TxsOf(chain', i - 1) = {}
               /\ Closed(TxsOf(chain', i))
    <3>1. CASE i \in 1 .. n
      <4>1. i - 1 \in 0 .. n /\ i \in 0 .. n
        BY <1>5, <3>1
      <4>2. /\ Sorted(chain[i]) /\ ToSet(chain[i]) \cap TxsOf(chain, i - 1) = {}
            /\ Closed(TxsOf(chain, i))
        BY <3>1 DEF OrderInv, ChainInv, GoodChain, n
      <4> QED BY <1>5, <3>1, <4>1, <4>2
    <3>2. CASE i = n + 1
      <4>1. i - 1 = n /\ n \in 0 .. n
        BY <1>5, <3>2
      <4> QED BY <1>2, <1>4, <1>5, <1>7, <3>2, <4>1 DEF n
    <3> QED BY <1>5, <3>1, <3>2
  <2>2. SpentOnce(TxsOf(chain', n + 1))
    BY <1>2, <1>4, <1>5 DEF n
  <2>3. GoodChain(chain')
    BY <1>5, <2>1, <2>2 DEF GoodChain
  <2> QED BY <2>3 DEF ChainInv
<1>11. Entered' = Stored
  <2>1. Entered' = Stored' \ ToSet(queue')
    BY <1>3 DEF Entered
  <2> QED BY <1>1, <1>2, <1>6, <2>1
<1>9. QueueInv'
  <2>1. gone' = {}
    BY <1>3 DEF OrderInv, QueueInv
  <2> QED BY <1>1, <1>2, <1>3, <1>4, <1>5, <1>11, <2>1 DEF QueueInv
<1>10. IndexInv'
  <2>1. Listed' = Stored /\ Listed = Stored
    BY <1>3, <1>4, <1>11 DEF Listed
  <2> QED BY <1>3, <1>4, <1>6, <2>1 DEF OrderInv, IndexInv
<1>12. Settled' = Settled
  <2>1. Settled' = Stored' \ ToSet(b)
    BY <1>3, <1>5 DEF Settled
  <2>2. Settled = Stored
    BY <1>3, OrderParts DEF OrderInv
  <2> QED BY <1>2, <1>6, <2>1, <2>2
<1> QED BY <1>1, <1>2, <1>4, <1>5, <1>6, <1>8, <1>9, <1>10, <1>12 DEF OrderInv

LEMMA ChainNext ==
  (TypeInv =>
    /\ \A b \in 1 .. Len(chain) : chain[b] \in use.offered /\ chain[b] \in Seq(Txs)
    /\ chain # << >> => Last(chain) \in Seq(Txs))'
<1>1. TypeInv => /\ \A b \in 1 .. Len(chain) : chain[b] \in use.offered /\ chain[b] \in Seq(Txs)
                 /\ chain # << >> => Last(chain) \in Seq(Txs)
  BY ChainType
<1> QED BY <1>1, PTL

\* The next transaction the main loop enters: what it spends is entered, what
\* spends of it is not.
LEMMA OrderEntered ==
  ASSUME TypeInv, OrderInv, mpc \in {"store", "outs", "ins"}, queue # << >>
  PROVE  LET t == Head(queue)
         IN  /\ t \in Stored /\ t \in Txs /\ t \notin Entered /\ Closed(Entered \cup {t})
             /\ ToSet(queue) = ToSet(Tail(queue)) \cup {t} /\ t \notin ToSet(Tail(queue))
             /\ Once(Tail(queue)) /\ Sorted(Tail(queue))
             /\ Stored \ ToSet(Tail(queue)) = Entered \cup {t}
             /\ \A u \in Entered \cup {t} : \A o \in Ins[u] : o[1] # t
             /\ mpc = "store" => Indexed = Entered \cup {t}
             /\ mpc # "store" => Entered = Settled /\ Indexed = Stored
<1> DEFINE t == Head(queue)
<1>1. /\ Closed(Stored) /\ Closed(Entered) /\ ToSet(queue) \subseteq Stored /\ Stored \subseteq Txs
      /\ Entered = Stored \ ToSet(queue)
  BY OrderParts DEF OrderInv, Entered
<1>2. queue \in Seq(Txs) /\ queue # << >> /\ Once(queue) /\ Sorted(queue)
  BY DEF TypeInv, OrderInv, QueueInv
<1>3. /\ ToSet(Tail(queue)) = ToSet(queue) \ {t} /\ Once(Tail(queue)) /\ Sorted(Tail(queue))
      /\ \A o \in Ins[t] : o[1] \notin ToSet(queue)
  BY <1>2, EndParts
<1>4. t \in ToSet(queue)
  BY <1>2, SeqParts
<1>8. /\ mpc = "store" => Indexed = Stored \ ToSet(Tail(queue))
      /\ mpc # "store" => Entered = Settled /\ Indexed = Stored
  BY <1>2, OrderParts, LaterParts DEF OrderInv, Settled
<1> HIDE DEF t
<1>5. Closed(Entered \cup {t})
  BY <1>1, <1>3, <1>4 DEF Closed
<1>6. Stored \ ToSet(Tail(queue)) = Entered \cup {t}
  BY <1>1, <1>3, <1>4
<1>7. ToSet(queue) = ToSet(Tail(queue)) \cup {t} /\ t \notin ToSet(Tail(queue)) /\ t \notin Entered
  BY <1>1, <1>3, <1>4
<1>9. \A u \in Entered \cup {t} : \A o \in Ins[u] : o[1] # t
  BY <1>1, <1>3, <1>4 DEF Closed
<1> QED BY <1>1, <1>3, <1>4, <1>5, <1>6, <1>7, <1>8, <1>9 DEF t

\* The next transaction the main loop removes: nothing that is left spends of it.
LEMMA OrderLeaving ==
  ASSUME TypeInv, OrderInv, mpc = "undo", queue # << >>
  PROVE  LET t == Last(queue)
         IN  /\ t \in Indexed /\ t \in Txs /\ Closed(Indexed \ {t})
             /\ ToSet(Front(queue)) = ToSet(queue) \ {t}
             /\ Once(Front(queue)) /\ Sorted(Front(queue))
             /\ (Stored \ ToSet(Last(chain))) \cup ToSet(Front(queue)) = Indexed \ {t}
<1> DEFINE t == Last(queue)
<1>1. /\ Closed(Stored \ ToSet(Last(chain))) /\ Closed(Indexed) /\ ToSet(queue) \subseteq ToSet(Last(chain))
      /\ Indexed = (Stored \ ToSet(Last(chain))) \cup ToSet(queue) /\ Stored \subseteq Txs
      /\ Indexed \subseteq Stored
  BY OrderParts DEF OrderInv, QueueInv
<1>2. queue \in Seq(Txs) /\ queue # << >> /\ Once(queue) /\ Sorted(queue)
  BY DEF TypeInv, OrderInv, QueueInv
<1>3. /\ ToSet(Front(queue)) = ToSet(queue) \ {t} /\ Once(Front(queue)) /\ Sorted(Front(queue))
      /\ \A u \in ToSet(queue) : \A o \in Ins[u] : o[1] # t
  BY <1>2, EndParts
<1>4. t \in ToSet(queue)
  BY <1>2, SeqParts
<1> HIDE DEF t
<1>5. Closed(Indexed \ {t})
  BY <1>1, <1>3, <1>4 DEF Closed
<1>6. (Stored \ ToSet(Last(chain))) \cup ToSet(Front(queue)) = Indexed \ {t}
  BY <1>1, <1>3, <1>4
<1> QED BY <1>1, <1>3, <1>4, <1>5, <1>6 DEF t

\* A block is stored: its transactions come into the index one by one, each for
\* one address after the other.
LEMMA OrderStore ==
  ASSUME TypeInv, OrderInv, TypeInv', DelIndex \/ MoveIndex \/ TxStored \/ BlockStored
  PROVE  OrderInv' /\ Stored' = Stored /\ Settled' = Settled /\ Indexed \subseteq Indexed'
<1>0. chain' = chain /\ mpc = "store" /\ spc' = spc /\ chain # << >> /\ Last(chain') = Last(chain)
  BY DEF DelIndex, MoveIndex, TxStored, BlockStored, chainVars, scanVars, TypeInv
<1>1. Stored' = Stored /\ ChainInv'
  BY <1>0 DEF Stored, OnChain, ChainInv, OrderInv
<1>2. /\ mpc' = "store" => Indexed' = Stored \ Later(queue')
      /\ mpc' = "outs" => Indexed' = Stored
  BY <1>1, StoredNext
<1>3. /\ Settled = Stored \ ToSet(Last(chain)) /\ Entered = Stored \ ToSet(queue)
      /\ Indexed = Stored \ Later(queue) /\ Entered \subseteq Indexed /\ Closed(Settled) /\ Closed(Entered)
      /\ Sorted(Last(chain)) /\ Once(Last(chain)) /\ Stored \subseteq Txs
  BY <1>0, OrderParts DEF OrderInv
<1>4. queue # << >> => LET t == Head(queue)
         IN  /\ t \in Stored /\ t \in Txs /\ t \notin Entered /\ Closed(Entered \cup {t})
             /\ ToSet(queue) = ToSet(Tail(queue)) \cup {t}
             /\ Once(Tail(queue)) /\ Sorted(Tail(queue))
             /\ Stored \ ToSet(Tail(queue)) = Entered \cup {t}
             /\ \A u \in Entered \cup {t} : \A o \in Ins[u] : o[1] # t
             /\ Indexed = Entered \cup {t}
  BY <1>0, OrderEntered
<1>5. CASE DelIndex \/ MoveIndex
  <2>1. mpc' = "store" /\ queue' = queue /\ queue # << >>
    BY <1>5 DEF DelIndex, MoveIndex, mainVars
  <2>2. Indexed' = Indexed /\ Entered' = Entered /\ Settled' = Settled /\ Listed = Entered /\ Listed' = Entered
    BY <1>0, <1>1, <1>2, <1>3, <2>1 DEF Entered, Settled, Listed
  <2>3. QueueInv'
    BY <1>0, <1>1, <2>1, <2>2 DEF OrderInv, QueueInv
  <2>4. CASE DelIndex
    <3>1. adr' = adr
      BY <2>4 DEF DelIndex
    <3> QED BY <1>1, <2>2, <2>3, <3>1 DEF OrderInv, IndexInv
  <2>5. CASE MoveIndex
    <3> DEFINE t == Head(queue)
    <3>1. PICK a \in Unindexed(t) : a \in gone /\ adr' = [adr EXCEPT ![a] = Append(@, t)]
      BY <2>5 DEF MoveIndex
    <3>2. a \in Addrs /\ a \in Touched(t) /\ t \notin ToSet(adr[a])
      BY <3>1 DEF TypeInv, Unindexed
    <3>3. adr'[a] = Append(adr[a], t) /\ \A c \in Addrs : c # a => adr'[c] = adr[c]
      BY <3>1, <3>2 DEF TypeInv
    <3>4. /\ adr[a] \in Seq(Txs) /\ Sorted(adr[a]) /\ Once(adr[a]) /\ ToSet(adr[a]) \subseteq Indexed
          /\ {u \in Entered : a \in Touched(u)} \subseteq ToSet(adr[a])
          /\ \A u \in ToSet(adr[a]) : a \in Touched(u)
      BY <2>2, <3>2 DEF TypeInv, OrderInv, IndexInv
    <3>5. /\ t \in Stored /\ t \in Txs /\ \A u \in Entered \cup {t} : \A o \in Ins[u] : o[1] # t
          /\ Indexed = Entered \cup {t}
      BY <1>4, <2>1
    <3> HIDE DEF t
    <3> DEFINE l == <<t>>
    <3>6. l \in Seq(Txs) /\ Len(l) = 1 /\ l[1] = t /\ ToSet(l) = {t} /\ Append(adr[a], t) = adr[a] \o l
      <4>1. l \in Seq(Txs) /\ Len(l) = 1 /\ l[1] = t /\ DOMAIN l = {1} /\ Append(adr[a], t) = adr[a] \o l
        BY <3>4, <3>5
      <4>2. ToSet(l) = {t}
        BY <4>1 DEF ToSet
      <4> QED BY <4>1, <4>2
    <3> HIDE DEF l
    <3>7. Sorted(l) /\ Once(l)
      BY <3>5, <3>6 DEF Sorted, Once
    <3>8. Sorted(adr[a] \o l) /\ Once(adr[a] \o l)
      <4>1. ToSet(adr[a]) \cap ToSet(l) = {}
        BY <3>2, <3>6
      <4>2. \A u \in ToSet(adr[a]) : \A o \in Ins[u] : o[1] \notin ToSet(l)
        BY <3>4, <3>5, <3>6
      <4> QED BY <3>4, <3>6, <3>7, <4>1, <4>2, ConcatOrder
    <3>9. ToSet(adr[a] \o l) = ToSet(adr[a]) \cup {t}
      BY <3>4, <3>6, ConcatSet
    <3>10. ASSUME NEW c \in Addrs
           PROVE  /\ {u \in Listed' : c \in Touched(u)} \subseteq ToSet(adr'[c])
                  /\ ToSet(adr'[c]) \subseteq {u \in Indexed' : c \in Touched(u)}
                  /\ Sorted(adr'[c]) /\ Once(adr'[c])
      <4>1. CASE c = a
        BY <2>2, <3>2, <3>3, <3>4, <3>5, <3>6, <3>8, <3>9, <4>1
      <4>2. CASE c # a
        BY <2>2, <3>3, <4>2 DEF OrderInv, IndexInv
      <4> QED BY <4>1, <4>2
    <3>11. IndexInv'
      BY <3>10 DEF IndexInv
    <3> QED BY <1>1, <2>2, <2>3, <3>11 DEF OrderInv
  <2> QED BY <1>1, <1>5, <2>2, <2>4, <2>5
<1>6. CASE TxStored
  <2> DEFINE t == Head(queue)
  <2>1. /\ mpc' = "store" /\ queue' = Tail(queue) /\ queue # << >> /\ gone' = {} /\ adr' = adr
        /\ Unindexed(t) = {}
    BY <1>0, <1>6 DEF TxStored, chainVars
  <2>2. /\ t \in Stored /\ t \in Txs /\ Closed(Entered \cup {t}) /\ Indexed = Entered \cup {t}
        /\ Once(Tail(queue)) /\ Sorted(Tail(queue)) /\ ToSet(Tail(queue)) \subseteq ToSet(queue)
        /\ Stored \ ToSet(Tail(queue)) = Entered \cup {t} /\ Tail(queue) \in Seq(Txs)
    BY <1>4, <2>1, SeqParts DEF TypeInv
  <2>3. \A a \in Touched(t) : t \in ToSet(adr[a])
    BY <2>1 DEF Unindexed
  <2> HIDE DEF t
  <2>4. Entered' = Indexed /\ Settled' = Settled /\ Listed' = Indexed /\ Listed = Entered
    BY <1>0, <1>1, <1>3, <2>1, <2>2 DEF Entered, Settled, Listed
  <2>5. Indexed \subseteq Indexed'
    <3>1. Later(Tail(queue)) \subseteq ToSet(Tail(queue))
      BY <2>2, LaterParts
    <3> QED BY <1>2, <2>1, <2>2, <3>1
  <2>6. QueueInv'
    BY <1>0, <2>1, <2>2, <2>4 DEF OrderInv, QueueInv
  <2>7. IndexInv'
    <3> SUFFICES ASSUME NEW a \in Addrs
                 PROVE  /\ {u \in Indexed : a \in Touched(u)} \subseteq ToSet(adr[a])
                        /\ ToSet(adr[a]) \subseteq {u \in Indexed' : a \in Touched(u)}
                        /\ Sorted(adr[a]) /\ Once(adr[a])
      BY <2>1, <2>4 DEF IndexInv
    <3>1. /\ {u \in Entered : a \in Touched(u)} \subseteq ToSet(adr[a])
          /\ ToSet(adr[a]) \subseteq {u \in Indexed : a \in Touched(u)}
          /\ Sorted(adr[a]) /\ Once(adr[a])
      BY <2>4 DEF OrderInv, IndexInv
    <3> QED BY <2>2, <2>3, <2>5, <3>1
  <2> QED BY <1>1, <2>4, <2>5, <2>6, <2>7 DEF OrderInv
<1>7. CASE BlockStored
  <2>1. mpc' = "outs" /\ queue' = Last(chain) /\ queue = << >> /\ adr' = adr /\ gone' = gone
    BY <1>7 DEF BlockStored, chainVars
  <2>2. ToSet(queue) = {} /\ Later(queue) = {}
    BY <2>1 DEF ToSet, Later
  <2>3. /\ Indexed = Stored /\ Indexed' = Stored /\ Listed = Stored /\ Listed' = Stored
        /\ Entered' = Settled /\ Settled' = Settled
    BY <1>0, <1>1, <1>2, <1>3, <2>1, <2>2 DEF Entered, Settled, Listed
  <2>4. QueueInv'
    BY <1>0, <1>3, <2>1, <2>3 DEF OrderInv, QueueInv
  <2> QED BY <1>1, <2>1, <2>3, <2>4 DEF OrderInv, IndexInv
<1> QED BY <1>5, <1>6, <1>7

LEMMA OrderMainLoop ==
  ASSUME TypeInv, OrderInv, TypeInv',
         StoreWalletOuts \/ StoreWalletIns \/ RemoveBlock \/ DelIndexes \/ RemoveWalletTx
  PROVE  OrderInv' /\ Stored' = Stored
<1>0. chain' = chain
  BY DEF StoreWalletOuts, StoreWalletIns, RemoveBlock, DelIndexes, RemoveWalletTx, chainVars
<1>1. Stored' = Stored /\ ChainInv'
  BY <1>0 DEF Stored, OnChain, ChainInv, OrderInv
<1>2. /\ mpc' \notin {"store", "undo"} => Indexed' = Stored
      /\ mpc' = "undo" => Indexed' = (Stored \ ToSet(Last(chain))) \cup (Stored \cap ToSet(queue'))
  BY <1>0, <1>1, StoredNext
<1>3. Stored \subseteq Txs /\ Indexed \subseteq Stored /\ ToSet(queue) \subseteq Stored
  BY OrderParts DEF OrderInv
<1>4. ASSUME adr' = adr, Indexed' = Indexed, mpc # "store", mpc' # "store" PROVE IndexInv'
  BY <1>4 DEF OrderInv, IndexInv, Listed
<1>9. mpc \notin {"store", "undo"} => gone = {}
  BY DEF OrderInv, QueueInv
<1>5. CASE StoreWalletOuts
  <2>1. /\ mpc = "outs" /\ mpc' = "ins" /\ queue' = queue /\ adr' = adr /\ spc' = spc
        /\ gone' = gone
    BY <1>5 DEF StoreWalletOuts, chainVars, scanVars
  <2>2. Indexed' = Indexed
    BY <1>2, <2>1, OrderParts DEF OrderInv
  <2>3. Entered' = Entered
    BY <1>1, <2>1 DEF Entered
  <2>4. QueueInv'
    BY <1>0, <1>9, <2>1, <2>3 DEF OrderInv, QueueInv
  <2> QED BY <1>1, <1>4, <2>1, <2>2, <2>4 DEF OrderInv
<1>6. CASE StoreWalletIns
  <2>1. /\ mpc = "ins" /\ queue' = Tail(queue) /\ adr' = adr /\ spc' = spc /\ gone' = gone
        /\ mpc' = IF Tail(queue) = << >> THEN "idle" ELSE "outs"
    BY <1>6 DEF StoreWalletIns, chainVars, scanVars
  <2>2. Indexed' = Indexed
    BY <1>2, <2>1, OrderParts DEF OrderInv
  <2> DEFINE t == Head(queue)
  <2>3. /\ Closed(Entered \cup {t}) /\ Stored \ ToSet(Tail(queue)) = Entered \cup {t}
        /\ ToSet(queue) = ToSet(Tail(queue)) \cup {t} /\ Once(Tail(queue)) /\ Sorted(Tail(queue))
    <3>1. queue # << >>
      BY <2>1 DEF TypeInv
    <3> QED BY <2>1, <3>1, OrderEntered
  <2> HIDE DEF t
  <2>4. Entered' = Stored \ ToSet(Tail(queue))
    BY <1>1, <2>1 DEF Entered
  <2>5. QueueInv'
    BY <1>0, <1>9, <2>1, <2>3, <2>4 DEF OrderInv, QueueInv
  <2> QED BY <1>1, <1>4, <2>1, <2>2, <2>5 DEF OrderInv
<1>7. CASE RemoveBlock
  <2>1. /\ mpc = "idle" /\ mpc' = "undo" /\ queue' = Last(chain) /\ adr' = adr /\ spc' = spc
        /\ chain # << >> /\ spc[Main] = "idle" /\ gone' = gone
    BY <1>7 DEF RemoveBlock, scanVars
  <2>2. /\ Closed(Stored) /\ Sorted(Last(chain)) /\ Once(Last(chain)) /\ ToSet(Last(chain)) \subseteq Stored
        /\ Indexed = Stored
    BY <2>1, OrderParts DEF OrderInv
  <2>3. Indexed' = Stored
    BY <1>2, <2>1, <2>2
  <2>4. Entered' = Stored
    BY <2>1, <2>3 DEF Entered
  <2>5. QueueInv'
    BY <1>0, <1>9, <2>1, <2>2, <2>4 DEF QueueInv
  <2> QED BY <1>1, <1>4, <2>1, <2>2, <2>3, <2>5 DEF OrderInv
<1>8. CASE RemoveWalletTx
  <2> DEFINE t == Last(queue)
  <2>1. /\ mpc = "undo" /\ mpc' = "undo" /\ queue' = Front(queue) /\ spc' = spc /\ queue # << >>
        /\ gone' = {}
        /\ adr' = [a \in Addrs |-> IF a \in Touched(t) THEN Only(adr[a], Txs \ {t}) ELSE adr[a]]
    BY <1>8 DEF RemoveWalletTx, scanVars
  <2>2. /\ t \in Indexed /\ t \in Txs /\ Closed(Indexed \ {t})
        /\ ToSet(Front(queue)) = ToSet(queue) \ {t}
        /\ Once(Front(queue)) /\ Sorted(Front(queue))
        /\ (Stored \ ToSet(Last(chain))) \cup ToSet(Front(queue)) = Indexed \ {t}
    BY <2>1, OrderLeaving
  <2> HIDE DEF t
  <2>3. Indexed' = Indexed \ {t}
    BY <1>2, <1>3, <2>1, <2>2
  <2>4. Entered' = Indexed \ {t}
    BY <2>1, <2>3 DEF Entered
  <2>5. QueueInv'
    BY <1>0, <2>1, <2>2, <2>4 DEF OrderInv, QueueInv
  <2>6. IndexInv'
    <3> SUFFICES ASSUME NEW a \in Addrs
                 PROVE  /\ ToSet(adr'[a]) = {u \in Indexed' : a \in Touched(u)}
                        /\ Sorted(adr'[a]) /\ Once(adr'[a])
      BY <2>1 DEF IndexInv, Listed
    <3> DEFINE s == adr[a]
               r == Only(s, Txs \ {t})
    <3>1. s \in Seq(Txs) /\ ToSet(s) = {u \in Indexed : a \in Touched(u)} /\ Sorted(s) /\ Once(s)
      BY <2>1 DEF OrderInv, IndexInv, Listed, TypeInv
    <3> HIDE DEF s
    <3>2. ToSet(r) = ToSet(s) \cap (Txs \ {t}) /\ Sorted(r) /\ Once(r)
      BY <3>1, OnlyParts, OnlyKeepsOrder
    <3>3. adr'[a] = IF a \in Touched(t) THEN r ELSE s
      BY <2>1 DEF s
    <3> HIDE DEF r
    <3> QED BY <1>3, <2>3, <3>1, <3>2, <3>3
  <2> QED BY <1>1, <2>5, <2>6 DEF OrderInv
<1>10. CASE DelIndexes
  <2>1. /\ mpc = "undo" /\ mpc' = "undo" /\ queue' = queue /\ spc' = spc /\ queue # << >> /\ adr' = adr
    BY <1>10 DEF DelIndexes, scanVars, mainVars
  <2>2. Indexed' = Indexed
    BY <1>2, <2>1, StoredParts
  <2>3. Entered' = Entered
    BY <2>1, <2>2 DEF Entered
  <2>4. QueueInv'
    BY <1>0, <2>1, <2>3 DEF OrderInv, QueueInv
  <2> QED BY <1>1, <1>4, <2>1, <2>2, <2>4 DEF OrderInv
<1> QED BY <1>1, <1>5, <1>6, <1>7, <1>8, <1>10

LEMMA OrderBlockRemoved ==
  ASSUME TypeInv, OrderInv, TypeInv', BlockRemoved
  PROVE  OrderInv' /\ Stored' = Indexed /\ Indexed' = Indexed
<1>1. /\ mpc = "undo" /\ queue = << >> /\ chain' = Front(chain) /\ mpc' = "idle" /\ queue' = queue
      /\ adr' = adr /\ gone' = gone
  BY DEF BlockRemoved
<1>2. chain # << >> /\ ToSet(queue) = {}
  BY <1>1 DEF OrderInv, QueueInv, ToSet
<1>3. Indexed = Stored \ ToSet(Last(chain))
  BY <1>1, <1>2, OrderParts DEF OrderInv
<1> DEFINE n == Len(chain) - 1
<1>4. /\ Len(chain) \in Nat /\ Len(chain) > 0 /\ Len(chain') = n
      /\ \A i \in 1 .. n : chain'[i] = chain[i]
      /\ Last(chain) = chain[Len(chain)]
      /\ \A i \in 0 .. n : TxsOf(chain', i) = TxsOf(chain, i)
      /\ TxsOf(chain, Len(chain)) = TxsOf(chain, n) \cup ToSet(Last(chain))
  <2>1. chain \in Seq(use.offered) /\ \A c \in use.offered : c \in Seq(Txs)
    BY BlockType DEF TypeInv
  <2> QED BY <1>1, <1>2, <2>1, ChainShrinks
<1>5. n \in Nat /\ Len(chain) = n + 1 /\ Len(chain) \in 1 .. Len(chain)
      /\ \A i \in 1 .. n : i \in 0 .. n /\ i - 1 \in 0 .. n /\ i \in 1 .. Len(chain)
  BY <1>4
<1> HIDE DEF n
<1>6. /\ \A b \in 1 .. Len(chain) : /\ Sorted(chain[b]) /\ ToSet(chain[b]) \cap TxsOf(chain, b - 1) = {}
                                    /\ Closed(TxsOf(chain, b))
      /\ SpentOnce(TxsOf(chain, Len(chain)))
  BY DEF OrderInv, ChainInv, GoodChain
<1>7. ToSet(Last(chain)) \cap TxsOf(chain, n) = {}
  <2>1. ToSet(chain[Len(chain)]) \cap TxsOf(chain, Len(chain) - 1) = {}
    BY <1>5, <1>6
  <2> QED BY <1>4, <2>1 DEF n
<1>8. Stored' = TxsOf(chain, n) /\ Indexed' = Stored'
  <2>1. n \in 0 .. n
    BY <1>5
  <2> QED BY <1>1, <1>4, <2>1, StoredNext
<1>9. Stored' = Indexed
  BY <1>3, <1>4, <1>7, <1>8, StoredParts
<1>10. ChainInv'
  <2>1. SpentOnce(TxsOf(chain', n))
    BY <1>4, <1>5, <1>6, <1>8 DEF SpentOnce
  <2>2. ASSUME NEW i \in 1 .. n
        PROVE  /\ Sorted(chain'[i]) /\ ToSet(chain'[i]) \cap TxsOf(chain', i - 1) = {}
               /\ Closed(TxsOf(chain', i))
    BY <1>4, <1>5, <1>6
  <2> QED BY <1>4, <2>1, <2>2 DEF ChainInv, GoodChain
<1>11. QueueInv'
  BY <1>1 DEF OrderInv, QueueInv
<1>12. IndexInv'
  BY <1>1, <1>8, <1>9 DEF OrderInv, IndexInv, Listed
<1> QED BY <1>8, <1>9, <1>10, <1>11, <1>12 DEF OrderInv

\* The requests and the scans leave the chain and its index alone.
Waits == \/ \E a \in Addrs : Import(a)
         \/ \E p \in Rpc : Rescan(p)
         \/ \E p \in Threads : ScanStep(p)
         \/ ScanAddresses
         \/ UNCHANGED vars
LEMMA WaitsParts ==
  ASSUME TypeInv, Waits
  PROVE  /\ UNCHANGED <<use, chain, adr, gone, removed, mpc, queue>>
         /\ \A p \in Threads : spc[p] = "idle" /\ spc'[p] # "idle" => 
                (p \in use.scanners \/ (p = Main /\ mpc = "idle" /\ sadr'[p] \in dirs)) /\ spc'[p] = "test"
<1> USE DEF TypeInv
<1>1. ASSUME NEW p \in Threads, ScanStep(p)
      PROVE  /\ UNCHANGED <<use, chain, adr, gone, removed, mpc, queue>>
             /\ \A q \in Threads : spc[q] = "idle" => spc'[q] = "idle"
  BY <1>1 DEF ScanStep, TestLock, PutLock, Clear, MakeDir, Load, StoreTxOuts, StoreTxGone, StoreTxIns,
              Unlock, NextTx, chainVars, mainVars
<1>2. ASSUME NEW p \in Rpc, Rescan(p)
      PROVE  /\ UNCHANGED <<use, chain, adr, gone, removed, mpc, queue>> /\ p \in use.scanners
             /\ spc' = [spc EXCEPT ![p] = "test"]
  BY <1>2 DEF Rescan, StartScan, chainVars, mainVars
<1>3. ASSUME ScanAddresses
      PROVE  /\ UNCHANGED <<use, chain, adr, gone, removed, mpc, queue>> /\ mpc = "idle"
             /\ spc' = [spc EXCEPT ![Main] = "test"] /\ sadr'[Main] \in dirs
  BY <1>3, PoolParts DEF ScanAddresses, StartScan, chainVars, mainVars
<1>4. ASSUME NEW a \in Addrs, Import(a)
      PROVE  UNCHANGED <<use, chain, adr, gone, removed, mpc, queue, spc>>
  BY <1>4 DEF Import, chainVars, mainVars, scanVars
<1>5. ASSUME UNCHANGED vars
      PROVE  UNCHANGED <<use, chain, adr, gone, removed, mpc, queue, spc>>
  BY <1>5 DEF vars, chainVars, mainVars, scanVars
<1> QED BY <1>1, <1>2, <1>3, <1>4, <1>5 DEF Waits

LEMMA OrderWaits ==
  ASSUME TypeInv, OrderInv, Waits
  PROVE  OrderInv' /\ Stored' = Stored /\ Indexed' = Indexed
<1>1. /\ UNCHANGED <<use, chain, adr, gone, removed, mpc, queue>>
      /\ mpc # "idle" /\ spc[Main] = "idle" => spc'[Main] = "idle"
  BY WaitsParts, BlockType, PoolParts DEF TypeInv
<1>2. Stored' = Stored /\ Indexed' = Indexed /\ Settled' = Settled
  BY <1>1 DEF Stored, Indexed, Settled, Entered, OnChain, Loadable
<1>3. Entered' = Entered /\ Listed' = Listed
  BY <1>1, <1>2 DEF Entered, Listed
<1> QED BY <1>1, <1>2, <1>3 DEF OrderInv, ChainInv, QueueInv, IndexInv

LEMMA NextParts ==
  [Next]_vars => \/ AddBlock \/ BlockRemoved \/ Waits
                 \/ DelIndex \/ MoveIndex \/ TxStored \/ BlockStored
                 \/ StoreWalletOuts \/ StoreWalletIns \/ RemoveBlock \/ DelIndexes \/ RemoveWalletTx
BY DEF Next, MainLoop, Waits

LEMMA OrderStep == TypeInv /\ OrderInv /\ [Next]_vars => OrderInv'
<1> SUFFICES ASSUME TypeInv, OrderInv, [Next]_vars PROVE OrderInv'
  OBVIOUS
<1>1. TypeInv'
  BY TypeStep
<1> QED BY <1>1, NextParts, OrderAddBlock, OrderStore, OrderMainLoop, OrderBlockRemoved, OrderWaits

LEMMA OrderCorrect == Spec => [](TypeInv /\ OrderInv)
BY TypeInit, TypeStep, OrderInit, OrderStep, PTL DEF Spec

-----------------------------------------------------------------------------
(* Blocks are only added: what an address lacks is still to be entered *)

Scanned == {"load", "outs", "ins", "unlock"}
At(p, a, steps) == spc[p] \in steps /\ sadr[p] = a
\* The address a scan fills has its directory.
ScanInv == \A p \in Threads : spc[p] \in Scanned => sadr[p] \in dirs

Growing == use.removals = 0
\* The transactions of the address the scan has not read.
Beyond(p) == {adr[sadr[p]][i] : i \in sfirst[p] + 1 .. Len(adr[sadr[p]])}
\* The scan of p is still to enter the outputs of t, or its stakes.
ScanAddsCoins(p, t) ==
    \/ spc[p] = "clear"
    \/ spc[p] \in {"load", "outs", "ins"} /\ t \in Beyond(p)
    \/ spc[p] = "outs" /\ t \in ToSet(spage[p])
    \/ spc[p] = "ins" /\ t \in ToSet(Tail(spage[p]))
ScanAddsStakes(p, t) ==
    \/ spc[p] = "clear"
    \/ spc[p] \in {"load", "outs", "ins"} /\ t \in Beyond(p)
    \/ spc[p] \in {"outs", "ins"} /\ t \in ToSet(spage[p])
MainAddsCoins(t) ==
    \/ mpc = "store" /\ t \in ToSet(Last(chain))
    \/ mpc = "outs" /\ t \in ToSet(queue)
    \/ mpc = "ins" /\ t \in ToSet(Tail(queue))
MainAddsStakes(t) == mpc = "store" /\ t \in ToSet(StakeTxs(Last(chain)))
\* The coins an address can spend, and the second transactions of the blocks,
\* which may stake them.
Live(a) == Made(a, "coin") \cap Unspent
Second(c) == {c[k][2] : k \in {k \in 1 .. Len(c) : Len(c[k]) > 1}}
CoinsOwed(a) ==
    \A o \in Live(a) : \/ o \in DOMAIN book[a]["unspent"]
                       \/ MainAddsCoins(o[1])
                       \/ \E p \in Threads : sadr[p] = a /\ ScanAddsCoins(p, o[1])
StakesOwed(a) ==
    \A t \in StakesOf(a, Second(chain)) : \/ t \in ToSet(book[a]["stakes"])
                                          \/ MainAddsStakes(t)
                                          \/ \E p \in Threads : sadr[p] = a /\ ScanAddsStakes(p, t)
\* The main loop is to scan the address; nobody is, or somebody is at it.
Awaited(a) == a \in todo \/ At(Main, a, {"test", "lock"})
Filled(a) == /\ a \notin missed
             /\ \/ a \in dirs \ partial /\ ~Awaited(a)
                \/ \E p \in Threads : At(p, a, Scanned)
GrowthInv ==
    /\ mpc # "undo" /\ undone = {} /\ removed = 0
    /\ \A p \in Threads : ToSet(spage[p]) \subseteq Indexed
    /\ \A a \in locks : \E p \in Threads : At(p, a, Scanned \cup {"clear"})
    /\ \A a \in Addrs : Filled(a) => CoinsOwed(a) /\ StakesOwed(a)
    /\ \A a \in Addrs : ToSet(book[a]["stakes"]) \subseteq StakesOf(a, Stored)

LEMMA LiveParts ==
  ASSUME TypeInv, NEW a \in Addrs
  PROVE  /\ Live(a) = {o \in MadeBy(Stored, a, "coin") : \A t \in Stored : o \notin Ins[t]}
         /\ \A o \in Live(a) : o[1] \in Stored /\ o[1] \in Txs /\ a \in Touched(o[1]) /\ o \in MadeBy({o[1]}, a, "coin")
         /\ \A t \in StakesOf(a, Stored) : t \in Stored /\ a \in Touched(t)
<1>1. \A t \in Txs : OnChain(t) <=> t \in Stored
  BY StoredParts
<1>2. \A o \in Output : o[1] \in Txs
  BY OutputParts
<1>3. Live(a) = {o \in MadeBy(Stored, a, "coin") : \A t \in Stored : o \notin Ins[t]}
  BY <1>1, <1>2 DEF Live, Made, Unspent, MadeBy
<1>4. \A o \in MadeBy(Stored, a, "coin") :
        o[1] \in Stored /\ o[1] \in Txs /\ a \in Touched(o[1]) /\ o \in MadeBy({o[1]}, a, "coin")
  BY <1>2, TouchedBy DEF MadeBy
<1>5. ASSUME NEW t \in StakesOf(a, Stored) PROVE t \in Stored /\ a \in Touched(t)
  BY StakerParts, StoredParts DEF StakesOf
<1> QED BY <1>3, <1>4, <1>5

\* The second transactions of the blocks are stored; of the last block it is the
\* one that may stake.
LEMMA SecondParts ==
  ASSUME TypeInv, ChainInv
  PROVE  /\ Second(chain) \subseteq Stored
         /\ \A a : StakesOf(a, Second(chain)) \subseteq StakesOf(a, Stored)
         /\ chain # << >> => Second(chain) \cap ToSet(Last(chain)) \subseteq ToSet(StakeTxs(Last(chain)))
<1> DEFINE n == Len(chain)
<1>1. /\ n \in Nat
      /\ \A k \in 1 .. n : chain[k] \in Seq(Txs) /\ Len(chain[k]) \in Nat
      /\ chain # << >> => n > 0 /\ Last(chain) = chain[n]
  BY ChainType
<1>2. ASSUME NEW k \in 1 .. n, Len(chain[k]) > 1
      PROVE  chain[k][2] \in ToSet(chain[k]) /\ chain[k][2] \in ToSet(StakeTxs(chain[k]))
  <2>1. chain[k] \in Seq(Txs) /\ 2 \in 1 .. Len(chain[k])
    BY <1>1, <1>2
  <2>2. chain[k][2] \in ToSet(chain[k])
    BY <2>1, SeqParts
  <2> QED BY <1>2, <2>1, <2>2, StakeTxsParts
<1>3. Stored = TxsOf(chain, n)
  BY StoredParts
<1>4. Second(chain) \subseteq Stored
  BY <1>2, <1>3 DEF Second, TxsOf
<1>5. ASSUME chain # << >>, NEW t \in Second(chain), t \in ToSet(Last(chain))
      PROVE  t \in ToSet(StakeTxs(Last(chain)))
  <2>1. PICK k \in 1 .. n : Len(chain[k]) > 1 /\ t = chain[k][2]
    BY <1>5 DEF Second
  <2>2. CASE k = n
    BY <1>1, <1>2, <1>5, <2>1, <2>2
  <2>3. CASE k # n
    <3>1. k \in 1 .. n - 1 /\ n \in 1 .. n
      BY <1>1, <1>5, <2>3
    <3>2. t \in TxsOf(chain, n - 1)
      BY <1>2, <2>1, <3>1 DEF TxsOf
    <3>3. ToSet(chain[n]) \cap TxsOf(chain, n - 1) = {}
      BY <3>1 DEF ChainInv, GoodChain
    <3> QED BY <1>1, <1>5, <3>2, <3>3
  <2> QED BY <2>2, <2>3
<1> QED BY <1>4, <1>5 DEF StakesOf

LEMMA SecondNext ==
  ASSUME TypeInv
  PROVE  /\ \A b \in use.offered : Second(Append(chain, b)) \subseteq Second(chain) \cup ToSet(StakeTxs(b))
         /\ chain # << >> => Second(Front(chain)) \subseteq Second(chain)
<1>1. /\ chain \in Seq(use.offered) /\ Len(chain) \in Nat
      /\ \A c \in use.offered : c \in Seq(Txs)
  BY ChainType, BlockType
<1>2. ASSUME NEW b \in use.offered
      PROVE  Second(Append(chain, b)) \subseteq Second(chain) \cup ToSet(StakeTxs(b))
  <2> DEFINE c == Append(chain, b)
  <2>1. /\ Len(c) = Len(chain) + 1 /\ \A i \in 1 .. Len(chain) : c[i] = chain[i]
        /\ c[Len(chain) + 1] = b
    BY ONLY <1>1, <1>2
  <2> HIDE DEF c
  <2>2. ASSUME NEW k \in 1 .. Len(c), Len(c[k]) > 1
        PROVE  c[k][2] \in Second(chain) \cup ToSet(StakeTxs(b))
    <3>1. CASE k \in 1 .. Len(chain)
      BY <2>1, <2>2, <3>1 DEF Second
    <3>2. CASE k = Len(chain) + 1
      BY <1>1, <2>1, <2>2, <3>2, StakeTxsParts
    <3> QED BY <1>1, <2>1, <3>1, <3>2
  <2>3. Second(c) \subseteq Second(chain) \cup ToSet(StakeTxs(b))
    BY <2>2 DEF Second
  <2> QED BY <2>3 DEF c
<1>3. ASSUME chain # << >> PROVE Second(Front(chain)) \subseteq Second(chain)
  <2>1. /\ Len(Front(chain)) = Len(chain) - 1
        /\ \A i \in 1 .. Len(chain) - 1 : Front(chain)[i] = chain[i]
    BY <1>1, <1>3, FrontParts
  <2> QED BY <1>1, <2>1 DEF Second
<1> QED BY <1>2, <1>3

LEMMA LiveNext ==
  ASSUME TypeInv', NEW a \in Addrs
  PROVE  Live(a)' = {o \in MadeBy(Stored', a, "coin") : \A t \in Stored' : o \notin Ins[t]}
<1>1. \A t \in Txs : OnChain(t)' <=> t \in Stored'
  BY StoredNext
<1>2. \A o \in Output : o[1] \in Txs
  BY OutputParts
<1> QED BY <1>1, <1>2 DEF Live, Made, Unspent, MadeBy

\* A step of a scan is of its thread and of the address it scans.
LEMMA ScanFrame ==
  ASSUME TypeInv, NEW p \in Threads, ScanStep(p)
  PROVE  /\ UNCHANGED <<use, chain, adr, gone, removed, mpc, queue, todo, sadr>>
         /\ \A q \in Threads \ {p} : /\ spc'[q] = spc[q] /\ sfirst'[q] = sfirst[q] /\ spage'[q] = spage[q]
                                     /\ scut'[q] = scut[q]
         /\ \A b \in Addrs \ {sadr[p]} : /\ book'[b] = book[b]
                                         /\ b \in dirs' <=> b \in dirs
                                         /\ b \in partial' <=> b \in partial
                                         /\ b \in undone' <=> b \in undone
                                         /\ b \in missed' <=> b \in missed
                                         /\ b \in locks' <=> b \in locks
         /\ dirs \subseteq dirs' /\ undone' \subseteq undone
         /\ Stored' = Stored /\ Indexed' = Indexed
         /\ \A b \in Addrs : Live(b)' = Live(b) /\ StakesOf(b, Stored)' = StakesOf(b, Stored)
                             /\ StakesOf(b, Second(chain))' = StakesOf(b, Second(chain))
         /\ \A t : (MainAddsCoins(t)' <=> MainAddsCoins(t)) /\ (MainAddsStakes(t)' <=> MainAddsStakes(t))
<1>1. /\ UNCHANGED <<use, chain, adr, gone, removed, mpc, queue, todo, sadr>>
      /\ \A q \in Threads \ {p} : /\ spc'[q] = spc[q] /\ sfirst'[q] = sfirst[q] /\ spage'[q] = spage[q]
                                  /\ scut'[q] = scut[q]
  BY DEF ScanStep, TestLock, PutLock, Clear, MakeDir, Load, StoreTxOuts, StoreTxGone, StoreTxIns,
         Unlock, NextTx, chainVars, mainVars, TypeInv
<1>2. \A b \in Addrs \ {sadr[p]} : /\ book'[b] = book[b]
                                   /\ b \in dirs' <=> b \in dirs
                                   /\ b \in partial' <=> b \in partial
                                   /\ b \in undone' <=> b \in undone
                                   /\ b \in missed' <=> b \in missed
                                   /\ b \in locks' <=> b \in locks
  <2>1. CASE Clear(p)
    BY <2>1 DEF Clear, TypeInv, histVars
  <2>2. CASE StoreTxOuts(p)
    BY <2>2 DEF StoreTxOuts, TypeInv, histVars
  <2>3. CASE StoreTxIns(p)
    BY <2>3 DEF StoreTxIns, TypeInv, histVars
  <2>4. CASE TestLock(p) \/ PutLock(p) \/ MakeDir(p) \/ Load(p) \/ StoreTxGone(p) \/ Unlock(p)
    BY <2>4 DEF TestLock, PutLock, MakeDir, Load, StoreTxGone, Unlock, RmAddrScan, histVars
  <2> QED BY <2>1, <2>2, <2>3, <2>4 DEF ScanStep
<1>3. dirs \subseteq dirs' /\ undone' \subseteq undone
  BY DEF ScanStep, TestLock, PutLock, Clear, MakeDir, Load, StoreTxOuts, StoreTxGone, StoreTxIns,
         Unlock, histVars
<1>4. Stored' = Stored /\ Indexed' = Indexed
  BY <1>1 DEF Stored, Indexed, OnChain, Loadable
<1>5. \A b \in Addrs : Live(b)' = Live(b) /\ StakesOf(b, Stored)' = StakesOf(b, Stored)
                       /\ StakesOf(b, Second(chain))' = StakesOf(b, Second(chain))
  BY <1>1, <1>4 DEF Live, Made, Unspent, OnChain, StakesOf, Second
<1>6. \A t : (MainAddsCoins(t)' <=> MainAddsCoins(t)) /\ (MainAddsStakes(t)' <=> MainAddsStakes(t))
  BY <1>1 DEF MainAddsCoins, MainAddsStakes
<1> QED BY <1>1, <1>2, <1>3, <1>4, <1>5, <1>6

\* What threads that do not move are to enter.
LEMMA AddsFrame ==
  ASSUME adr' = adr, NEW q, spc'[q] = spc[q], sadr'[q] = sadr[q], sfirst'[q] = sfirst[q],
         spage'[q] = spage[q]
  PROVE  \A t : /\ ScanAddsCoins(q, t)' <=> ScanAddsCoins(q, t)
                /\ ScanAddsStakes(q, t)' <=> ScanAddsStakes(q, t)
<1>1. Beyond(q)' = Beyond(q)
  BY DEF Beyond
<1> QED BY <1>1 DEF ScanAddsCoins, ScanAddsStakes

\* A step of a scan: other addresses lack what they lacked, and the one scanned
\* does if what it had and what the scan was to enter is there or still to come.
LEMMA OthersOwed ==
  ASSUME TypeInv, NEW p \in Threads, ScanStep(p), NEW b \in Addrs \ {sadr[p]},
         Filled(b) => CoinsOwed(b) /\ StakesOwed(b)
  PROVE  Filled(b)' => CoinsOwed(b)' /\ StakesOwed(b)'
<1>1. /\ UNCHANGED <<adr, todo, sadr>>
      /\ \A q \in Threads \ {p} : spc'[q] = spc[q] /\ sfirst'[q] = sfirst[q] /\ spage'[q] = spage[q]
      /\ book'[b] = book[b] /\ (b \in dirs' <=> b \in dirs) /\ (b \in partial' <=> b \in partial)
      /\ b \in missed' <=> b \in missed
      /\ Live(b)' = Live(b) /\ StakesOf(b, Second(chain))' = StakesOf(b, Second(chain))
      /\ \A t : (MainAddsCoins(t)' <=> MainAddsCoins(t)) /\ (MainAddsStakes(t)' <=> MainAddsStakes(t))
  BY ScanFrame
<1>2. \A q \in Threads : sadr[q] = b =>
        \A t : /\ ScanAddsCoins(q, t)' <=> ScanAddsCoins(q, t)
               /\ ScanAddsStakes(q, t)' <=> ScanAddsStakes(q, t)
  BY <1>1, AddsFrame
<1>3. \A q \in Threads : \A steps : At(q, b, steps)' <=> At(q, b, steps)
  BY <1>1 DEF At
<1>4. Filled(b)' <=> Filled(b)
  BY <1>1, <1>3, PoolParts DEF Filled, Awaited
<1>5. CoinsOwed(b) => CoinsOwed(b)'
  BY <1>1, <1>2 DEF CoinsOwed
<1>6. StakesOwed(b) => StakesOwed(b)'
  BY <1>1, <1>2 DEF StakesOwed
<1> QED BY <1>4, <1>5, <1>6

LEMMA ScannedOwed ==
  ASSUME TypeInv, NEW p \in Threads, ScanStep(p), NEW a \in Addrs, a = sadr[p]
  PROVE  /\ /\ CoinsOwed(a)
            /\ \A o \in Live(a) : o \in DOMAIN book[a]["unspent"] \/ ScanAddsCoins(p, o[1])
                    => o \in DOMAIN book'[a]["unspent"] \/ ScanAddsCoins(p, o[1])'
            => CoinsOwed(a)'
         /\ /\ StakesOwed(a)
            /\ \A t \in StakesOf(a, Second(chain)) : t \in ToSet(book[a]["stakes"]) \/ ScanAddsStakes(p, t)
                    => t \in ToSet(book'[a]["stakes"]) \/ ScanAddsStakes(p, t)'
            => StakesOwed(a)'
<1>1. /\ UNCHANGED <<adr, todo, sadr>>
      /\ \A q \in Threads \ {p} : spc'[q] = spc[q] /\ sfirst'[q] = sfirst[q] /\ spage'[q] = spage[q]
      /\ Live(a)' = Live(a) /\ StakesOf(a, Second(chain))' = StakesOf(a, Second(chain))
      /\ \A t : (MainAddsCoins(t)' <=> MainAddsCoins(t)) /\ (MainAddsStakes(t)' <=> MainAddsStakes(t))
  BY ScanFrame
<1>2. \A q \in Threads \ {p} :
        \A t : /\ ScanAddsCoins(q, t)' <=> ScanAddsCoins(q, t)
               /\ ScanAddsStakes(q, t)' <=> ScanAddsStakes(q, t)
  BY <1>1, AddsFrame
<1> QED BY <1>1, <1>2 DEF CoinsOwed, StakesOwed

\* While blocks are only added a page is what follows in the index of addresses,
\* and what the index lacks is of the block being stored.
LEMMA GrowingPage ==
  ASSUME TypeInv, OrderInv, mpc # "undo", NEW a \in Addrs, NEW first \in Nat
  PROVE  LET last == Smaller(first + Page, Len(adr[a]))
             page == LoadPage(a, first)
         IN  /\ adr[a] \in Seq(Txs)
             /\ \A t \in Stored : a \in Touched(t) => t \in ToSet(adr[a]) \/ (mpc = "store" /\ t \in ToSet(Last(chain)))
             /\ Len(adr[a]) \in Nat /\ ToSet(adr[a]) = {adr[a][i] : i \in 1 .. Len(adr[a])}
             /\ page \in Seq(Txs) /\ ToSet(page) \subseteq Indexed
             /\ \A i \in first + 1 .. Len(adr[a]) :
                    page # << >> /\ (adr[a][i] \in ToSet(page) \/ i > first + Page)
<1> DEFINE s == adr[a]
           last == Smaller(first + Page, Len(s))
           page == LoadPage(a, first)
<1>1. s \in Seq(Txs) /\ ToSet(s) \subseteq Indexed /\ {t \in Listed : a \in Touched(t)} \subseteq ToSet(s)
  BY DEF OrderInv, IndexInv, TypeInv
<1>9. \A t \in Stored : t \in Listed \/ (mpc = "store" /\ t \in ToSet(Last(chain)))
  <2>1. CASE mpc = "store"
    <3>1. Listed = Stored \ ToSet(queue) /\ ToSet(queue) \subseteq ToSet(Last(chain))
      BY <2>1 DEF Listed, Entered, OrderInv, QueueInv
    <3> QED BY <2>1, <3>1
  <2>2. CASE mpc # "store"
    <3>1. Listed = Stored
      BY <2>2, OrderParts DEF OrderInv, Listed
    <3> QED BY <3>1
  <2> QED BY <2>1, <2>2
<1>2. Len(s) \in Nat /\ ToSet(s) = {s[i] : i \in 1 .. Len(s)}
  BY <1>1, SeqParts
<1>3. Only(s, Indexed) = s
  BY <1>1, <1>2, OnlyParts
<1>4. /\ page = SubSeq(s, first + 1, last) /\ page \in Seq(Txs)
      /\ first < Len(s) => /\ page # << >> /\ Len(page) = last - first
                           /\ \A i \in 1 .. last - first : page[i] = s[first + i]
      /\ first >= Len(s) => page = << >>
  BY <1>3, PageParts
<1> HIDE DEF page
<1>5. ToSet(page) = {page[i] : i \in 1 .. Len(page)}
  <2>1. \A x \in Seq(Txs) : ToSet(x) = {x[i] : i \in 1 .. Len(x)}
    BY SeqParts
  <2> QED BY <1>4, <2>1
<1>6. Page \in Nat \ {0}
  BY PoolParts
<1>7. ASSUME NEW i \in first + 1 .. Len(s)
      PROVE  page # << >> /\ (s[i] \in ToSet(page) \/ i > first + Page)
  <2>1. first < Len(s)
    BY <1>2, <1>7
  <2>2. CASE i <= first + Page
    <3>1. i - first \in 1 .. last - first /\ first + (i - first) = i
      BY <1>2, <1>6, <1>7, <2>2 DEF Smaller
    <3>2. page[i - first] = s[i]
      BY <1>4, <2>1, <3>1
    <3> QED BY <1>4, <1>5, <2>1, <3>1, <3>2
  <2>3. CASE ~(i <= first + Page)
    BY <1>2, <1>4, <1>6, <1>7, <2>1, <2>3
  <2> QED BY <2>2, <2>3
<1>8. ToSet(page) \subseteq Indexed
  <2>1. CASE first >= Len(s)
    <3>1. page = << >> /\ ToSet(<< >>) = {}
      BY <1>4, <2>1 DEF ToSet
    <3> QED BY <3>1
  <2>2. CASE first < Len(s)
    <3>1. ASSUME NEW i \in 1 .. last - first PROVE first + i \in 1 .. Len(s)
      BY <1>2, <1>6, <2>2, <3>1 DEF Smaller
    <3>2. Len(page) = last - first /\ \A i \in 1 .. last - first : page[i] = s[first + i]
      BY <1>4, <2>2
    <3> HIDE DEF last
    <3> QED BY <1>1, <1>2, <1>5, <3>1, <3>2
  <2> QED BY <1>2, <2>1, <2>2
<1> QED BY <1>1, <1>2, <1>4, <1>7, <1>8, <1>9 DEF page

LEMMA GrowScanFiles ==
  ASSUME TypeInv, OrderInv, ScanInv, GrowthInv, NEW p \in Threads, NEW a \in Addrs, a = sadr[p],
         MakeDir(p) \/ Load(p) \/ StoreTxOuts(p) \/ StoreTxIns(p) \/ Unlock(p)
  PROVE  /\ a \notin missed' => CoinsOwed(a)' /\ StakesOwed(a)'
         /\ ToSet(spage'[p]) \subseteq Indexed /\ ToSet(book'[a]["stakes"]) \subseteq StakesOf(a, Stored)
<1>0. ScanStep(p) /\ a \in Addrs
  BY DEF ScanStep
<1> USE <1>0
<1>1. /\ UNCHANGED <<adr, sadr, mpc, chain>> /\ Live(a)' = Live(a)
      /\ StakesOf(a, Second(chain))' = StakesOf(a, Second(chain))
      /\ \A t : (MainAddsCoins(t)' <=> MainAddsCoins(t)) /\ (MainAddsStakes(t)' <=> MainAddsStakes(t))
  BY ScanFrame
<1>2. /\ \A o \in Live(a) : o[1] \in Stored /\ o[1] \in Txs /\ a \in Touched(o[1]) /\ o \in MadeBy({o[1]}, a, "coin")
      /\ \A t \in StakesOf(a, Stored) : t \in Stored /\ a \in Touched(t)
      /\ \A o \in Live(a) : \A t \in Stored : o \notin Ins[t]
      /\ StakesOf(a, Second(chain)) \subseteq StakesOf(a, Stored)
      /\ chain # << >> => Second(chain) \cap ToSet(Last(chain)) \subseteq ToSet(StakeTxs(Last(chain)))
      /\ Indexed \subseteq Stored /\ Stored \subseteq Txs /\ (mpc = "store" => chain # << >>)
  BY LiveParts, SecondParts, StoredParts DEF OrderInv, TypeInv
<1>3. /\ ToSet(spage[p]) \subseteq Indexed /\ ToSet(book[a]["stakes"]) \subseteq StakesOf(a, Stored)
      /\ mpc # "undo" /\ sfirst[p] \in Nat /\ spage[p] \in Seq(Txs) /\ IsBook(book[a])
      /\ sfirst \in [Threads -> Nat] /\ spage \in [Threads -> Seq(Txs)] /\ spc \in [Threads -> ScanSteps]
      /\ book = [b \in Addrs |-> book[b]]
  BY DEF GrowthInv, TypeInv
<1>4. spc[p] \in Scanned /\ a \notin missed => CoinsOwed(a) /\ StakesOwed(a)
  BY DEF GrowthInv, Filled, At
<1> DEFINE s == adr[a]
<1>5. \A n \in Nat : /\ s \in Seq(Txs)
                     /\ \A t \in Stored : a \in Touched(t)
                            => t \in ToSet(s) \/ (mpc = "store" /\ t \in ToSet(Last(chain)))
                     /\ Len(s) \in Nat /\ ToSet(s) = {s[i] : i \in 1 .. Len(s)}
                     /\ LoadPage(a, n) \in Seq(Txs) /\ ToSet(LoadPage(a, n)) \subseteq Indexed
                     /\ \A i \in n + 1 .. Len(s) :
                            LoadPage(a, n) # << >> /\ (s[i] \in ToSet(LoadPage(a, n)) \/ i > n + Page)
  BY <1>3, GrowingPage
<1>6. Beyond(p) = {s[i] : i \in sfirst[p] + 1 .. Len(s)} /\ Beyond(p)' = {s[i] : i \in sfirst'[p] + 1 .. Len(s)}
  BY <1>1 DEF Beyond
<1> HIDE DEF s
<1>7. CASE MakeDir(p)
  <2>1. spc'[p] = "load" /\ sfirst'[p] = 0 /\ spage' = spage /\ book' = book
    BY <1>3, <1>7 DEF MakeDir
  <2>2. Beyond(p)' = ToSet(s)
    <3>1. Beyond(p)' = {s[i] : i \in 0 + 1 .. Len(s)} /\ ToSet(s) = {s[i] : i \in 1 .. Len(s)}
      BY <1>5, <1>6, <2>1
    <3>2. 0 + 1 = 1
      OBVIOUS
    <3> QED BY <3>1, <3>2
  <2>3. \A t : t \in Stored /\ a \in Touched(t) =>
               \/ ScanAddsCoins(p, t)' /\ ScanAddsStakes(p, t)'
               \/ mpc = "store" /\ t \in ToSet(Last(chain)) /\ MainAddsCoins(t)'
    <3>1. \A t : t \in Stored /\ a \in Touched(t) => t \in Beyond(p)' \/ (mpc = "store" /\ t \in ToSet(Last(chain)))
      BY <1>3, <1>5, <2>2
    <3>2. \A t : mpc = "store" /\ t \in ToSet(Last(chain)) => MainAddsCoins(t)
      BY DEF MainAddsCoins
    <3> QED BY <1>1, <2>1, <3>1, <3>2 DEF ScanAddsCoins, ScanAddsStakes
  <2>5. ASSUME NEW t \in StakesOf(a, Second(chain)) PROVE ScanAddsStakes(p, t)' \/ MainAddsStakes(t)'
    <3>1. t \in Second(chain) /\ t \in Stored /\ a \in Touched(t)
      BY <1>2, <2>5 DEF StakesOf
    <3>2. CASE mpc = "store" /\ t \in ToSet(Last(chain))
      <4>1. MainAddsStakes(t)
        BY <1>2, <3>1, <3>2 DEF MainAddsStakes
      <4> QED BY <1>1, <4>1
    <3> QED BY <2>3, <3>1, <3>2
  <2>4. CoinsOwed(a)' /\ StakesOwed(a)'
    <3>1. CoinsOwed(a)'
      BY <1>1, <1>2, <2>3 DEF CoinsOwed
    <3>2. StakesOwed(a)'
      BY <1>1, <2>5 DEF StakesOwed
    <3> QED BY <3>1, <3>2
  <2> QED BY <1>3, <2>1, <2>4
<1>12. CASE Load(p) /\ a \in gone
  <2>1. spage'[p] = << >> /\ book' = book /\ a \in missed'
    BY <1>3, <1>12 DEF Load
  <2>2. ToSet(<< >>) = {}
    BY DEF ToSet
  <2> QED BY <1>3, <2>1, <2>2
<1>8. CASE Load(p) /\ a \notin gone
  <2> DEFINE page == LoadPage(a, sfirst[p])
  <2>1. /\ spage'[p] = page /\ sfirst'[p] = sfirst[p] + Page /\ book' = book /\ spc[p] = "load"
        /\ spc'[p] = IF page = << >> THEN "unlock" ELSE "outs"
        /\ missed' = missed
    BY <1>3, <1>8 DEF Load
  <2>2. /\ page \in Seq(Txs) /\ ToSet(page) \subseteq Indexed
        /\ \A i \in sfirst[p] + 1 .. Len(s) : page # << >> /\ (s[i] \in ToSet(page) \/ i > sfirst[p] + Page)
    BY <1>3, <1>5
  <2> HIDE DEF page
  <2>3. ASSUME NEW t \in Beyond(p) PROVE page # << >> /\ (t \in ToSet(page) \/ t \in Beyond(p)')
    <3>1. PICK i \in sfirst[p] + 1 .. Len(s) : t = s[i]
      BY <1>6
    <3>2. i > sfirst[p] + Page => i \in sfirst'[p] + 1 .. Len(s)
      BY <1>3, <1>5, <2>1, PoolParts
    <3> QED BY <1>6, <2>2, <3>1, <3>2
  <2>4. \A t : /\ ScanAddsCoins(p, t) => ScanAddsCoins(p, t)'
               /\ ScanAddsStakes(p, t) => ScanAddsStakes(p, t)'
    BY <2>1, <2>3 DEF ScanAddsCoins, ScanAddsStakes
  <2>5. a \notin missed => CoinsOwed(a)' /\ StakesOwed(a)'
    BY <1>4, <2>1, <2>4, ScannedOwed DEF Scanned
  <2> QED BY <1>3, <2>1, <2>2, <2>5
<1>9. CASE StoreTxOuts(p)
  <2> DEFINE t == Head(spage[p])
             f == book[a]
  <2>1. /\ spc[p] = "outs" /\ spc'[p] = "ins" /\ spage' = spage /\ sfirst' = sfirst
        /\ book'[a] = AddOutputs(f, a, t) /\ missed' = missed
    BY <1>3, <1>9 DEF StoreTxOuts, histVars
  <2>2. t \in Txs /\ ToSet(spage[p]) = ToSet(Tail(spage[p])) \cup {t}
    <3>1. spage[p] # << >>
      BY <2>1 DEF TypeInv
    <3> QED BY <1>3, <3>1, SeqParts
  <2> HIDE DEF t
  <2>3. /\ DOMAIN book'[a]["unspent"] = DOMAIN f["unspent"] \cup MadeBy({t}, a, "coin")
        /\ book'[a]["stakes"] = f["stakes"]
    <3>1. IsBook(f)
      BY <1>3
    <3> HIDE DEF f
    <3>2. OutputsAdded(f, book'[a], t, a)
      BY <2>1, <2>2, <3>1, AddOutputsParts
    <3> QED BY <3>2 DEF OutputsAdded
  <2>4. Beyond(p)' = Beyond(p)
    BY <1>6, <2>1
  <2>5. \A u : /\ ScanAddsCoins(p, u) => u = t \/ ScanAddsCoins(p, u)'
               /\ ScanAddsStakes(p, u) => ScanAddsStakes(p, u)'
    BY <2>1, <2>2, <2>4 DEF ScanAddsCoins, ScanAddsStakes
  <2>6. a \notin missed => CoinsOwed(a)' /\ StakesOwed(a)'
    BY <1>2, <1>4, <2>1, <2>3, <2>5, ScannedOwed DEF Scanned
  <2> QED BY <1>3, <2>1, <2>3, <2>6
<1>10. CASE StoreTxIns(p)
  <2> DEFINE t == Head(spage[p])
             f == book[a]
             g == SpendInputs(f, a, t)
  <2>1. /\ spc[p] = "ins" /\ sfirst' = sfirst /\ book'[a] = AddStakes(g, a, <<t>>)
        /\ spage'[p] = Tail(spage[p]) /\ spc'[p] = IF Tail(spage[p]) = << >> THEN "load" ELSE "outs"
        /\ missed' = missed
    BY <1>3, <1>10 DEF StoreTxIns, NextTx, histVars
  <2>2. t \in Txs /\ t \in Stored /\ ToSet(spage[p]) = ToSet(Tail(spage[p])) \cup {t}
    <3>1. spage[p] # << >>
      BY <2>1 DEF TypeInv
    <3> QED BY <1>2, <1>3, <3>1, SeqParts
  <2> HIDE DEF t
  <2>3. /\ IsBook(g) /\ DOMAIN g["unspent"] = DOMAIN f["unspent"] \ SpentOf(t, a, "coin")
        /\ g["stakes"] = f["stakes"]
    <3>1. IsBook(f)
      BY <1>3
    <3> HIDE DEF f
    <3>2. InputsSpent(f, g, t, a)
      BY <2>2, <3>1, SpendParts
    <3> QED BY <3>2 DEF InputsSpent
  <2> HIDE DEF g
  <2>4. book'[a]["unspent"] = g["unspent"] /\ ToSet(book'[a]["stakes"]) = ToSet(f["stakes"]) \cup StakesOf(a, {t})
    <3>1. <<t>> \in Seq(Txs) /\ ToSet(<<t>>) = {t} /\ "unspent" \in Dirs
      BY <2>2 DEF ToSet, Dirs, Parts
    <3>2. StakesAdded(g, book'[a], a, {t})
      <4>1. StakesAdded(g, AddStakes(g, a, <<t>>), a, ToSet(<<t>>))
        BY ONLY <2>3, <3>1, StakeParts
      <4> QED BY <2>1, <3>1, <4>1
    <3> QED BY <2>3, <3>1, <3>2 DEF StakesAdded
  <2>5. ToSet(book'[a]["stakes"]) \subseteq StakesOf(a, Stored)
    BY <1>3, <2>2, <2>4 DEF StakesOf
  <2>6. Beyond(p)' = Beyond(p)
    BY <1>6, <2>1
  <2>7. ToSet(<< >>) = {}
    BY DEF ToSet
  <2>8. \A u : /\ ScanAddsCoins(p, u) => ScanAddsCoins(p, u)'
               /\ ScanAddsStakes(p, u) => u = t \/ ScanAddsStakes(p, u)'
    BY <2>1, <2>2, <2>6, <2>7 DEF ScanAddsCoins, ScanAddsStakes
  <2>9. \A o \in Live(a) : o \in DOMAIN f["unspent"] => o \in DOMAIN book'[a]["unspent"]
    BY <1>2, <2>2, <2>3, <2>4 DEF SpentOf
  <2>10. \A u \in StakesOf(a, Second(chain)) : u \in ToSet(f["stakes"]) \/ u = t => u \in ToSet(book'[a]["stakes"])
    BY <2>4 DEF StakesOf
  <2>11. a \notin missed => CoinsOwed(a)' /\ StakesOwed(a)'
    BY <1>4, <2>1, <2>8, <2>9, <2>10, ScannedOwed DEF Scanned
  <2> QED BY <1>3, <2>1, <2>2, <2>5, <2>11
<1>11. CASE Unlock(p)
  <2>1. spc[p] = "unlock" /\ spc'[p] = "idle" /\ book' = book /\ spage' = spage /\ missed' = missed
    BY <1>3, <1>11 DEF Unlock
  <2>2. \A t : ~ScanAddsCoins(p, t) /\ ~ScanAddsStakes(p, t)
    BY <2>1 DEF ScanAddsCoins, ScanAddsStakes
  <2>3. a \notin missed => CoinsOwed(a)' /\ StakesOwed(a)'
    BY <1>4, <2>1, <2>2, ScannedOwed DEF Scanned
  <2> QED BY <1>3, <2>1, <2>3
<1> QED BY <1>7, <1>8, <1>9, <1>10, <1>11, <1>12

LEMMA ScanInvStep ==
  ASSUME TypeInv, ScanInv, [Next]_vars
  PROVE  ScanInv'
<1> USE DEF TypeInv, ScanInv
<1>1. ASSUME NEW p \in Threads, ScanStep(p) PROVE ScanInv'
  <2>1. sadr' = sadr /\ dirs \subseteq dirs' /\ \A q \in Threads \ {p} : spc'[q] = spc[q]
    BY <1>1, ScanFrame
  <2>2. spc'[p] \in Scanned => sadr[p] \in dirs'
    BY <1>1, <2>1 DEF ScanStep, TestLock, PutLock, Clear, MakeDir, Load, StoreTxOuts, StoreTxGone,
                      StoreTxIns, Unlock, NextTx, Scanned
  <2> QED BY <2>1, <2>2
<1>2. ASSUME \/ AddBlock \/ DelIndex \/ MoveIndex \/ TxStored \/ BlockStored
             \/ StoreWalletOuts \/ StoreWalletIns \/ RemoveBlock \/ DelIndexes \/ RemoveWalletTx
             \/ BlockRemoved \/ UNCHANGED vars
      PROVE  ScanInv'
  BY <1>2 DEF AddBlock, DelIndex, MoveIndex, TxStored, BlockStored, StoreWalletOuts, StoreWalletIns,
              RemoveBlock, DelIndexes, RemoveWalletTx, BlockRemoved, vars, scanVars
<1>3. ASSUME NEW a \in Addrs, Import(a) PROVE ScanInv'
  BY <1>3 DEF Import, scanVars
<1>4. ASSUME NEW p \in Threads, NEW a \in Addrs, StartScan(p, a), dirs' = dirs PROVE ScanInv'
  BY <1>4 DEF StartScan, Scanned
<1>5. ASSUME NEW p \in Rpc, Rescan(p) PROVE ScanInv'
  BY <1>4, <1>5, PoolParts DEF Rescan
<1>6. ASSUME ScanAddresses PROVE ScanInv'
  BY <1>4, <1>6, PoolParts DEF ScanAddresses
<1> QED BY <1>1, <1>2, <1>3, <1>5, <1>6 DEF Next, MainLoop

LEMMA GrowScan ==
  ASSUME TypeInv, OrderInv, ScanInv, GrowthInv, NEW p \in Threads, ScanStep(p)
  PROVE  GrowthInv'
<1>1. PICK b \in Addrs : b = sadr[p]
  BY DEF TypeInv
<1>2. /\ UNCHANGED <<removed, mpc, sadr, adr, todo, chain>> /\ undone' \subseteq undone
      /\ Stored' = Stored /\ Indexed' = Indexed
      /\ \A q \in Threads \ {p} : spc'[q] = spc[q] /\ spage'[q] = spage[q]
      /\ \A c \in Addrs \ {b} : book'[c] = book[c] /\ (c \in locks' <=> c \in locks)
      /\ Live(b)' = Live(b) /\ StakesOf(b, Second(chain))' = StakesOf(b, Second(chain))
  BY <1>1, ScanFrame
<1>3. mpc' # "undo" /\ undone' = {} /\ removed' = 0
  BY <1>2 DEF GrowthInv
<1>4. /\ ToSet(spage[p]) \subseteq Indexed /\ ToSet(book[b]["stakes"]) \subseteq StakesOf(b, Stored)
      /\ (Filled(b) => CoinsOwed(b) /\ StakesOwed(b))
      /\ spc \in [Threads -> ScanSteps] /\ book = [c \in Addrs |-> book[c]]
      /\ locks \subseteq Addrs /\ IsBook(book[b])
  BY DEF GrowthInv, TypeInv
<1>5. MakeDir(p) \/ Load(p) \/ StoreTxOuts(p) \/ StoreTxIns(p) \/ Unlock(p)
      => /\ b \notin missed' => CoinsOwed(b)' /\ StakesOwed(b)'
         /\ ToSet(spage'[p]) \subseteq Indexed /\ ToSet(book'[b]["stakes"]) \subseteq StakesOf(b, Stored)
  BY <1>1, GrowScanFiles
<1>6. /\ Filled(b)' => CoinsOwed(b)' /\ StakesOwed(b)'
      /\ ToSet(spage'[p]) \subseteq Indexed
      /\ ToSet(book'[b]["stakes"]) \subseteq StakesOf(b, Stored)
  <2>1. CASE TestLock(p)
    <3>1. /\ spc[p] = "test" /\ book' = book /\ spage' = spage /\ dirs' = dirs /\ partial' = partial
          /\ spc'[p] = IF b \in locks THEN "idle" ELSE "lock"
          /\ missed' = missed
      BY <1>1, <1>4, <2>1 DEF TestLock, histVars
    <3>2. CoinsOwed(b) => CoinsOwed(b)'
      <4>1. \A t : ~ScanAddsCoins(p, t)
        BY <3>1 DEF ScanAddsCoins
      <4> QED BY <1>1, <3>1, <4>1, ScannedOwed
    <3>3. StakesOwed(b) => StakesOwed(b)'
      <4>1. \A t : ~ScanAddsStakes(p, t)
        BY <3>1 DEF ScanAddsStakes
      <4> QED BY <1>1, <3>1, <4>1, ScannedOwed
    <3>4. CASE b \in locks
      <4>1. PICK q \in Threads : At(q, b, Scanned \cup {"clear"})
        BY <3>4 DEF GrowthInv
      <4>2. CASE spc[q] = "clear"
        <5>1. sadr[q] = b /\ \A t : ScanAddsCoins(q, t) /\ ScanAddsStakes(q, t)
          BY <4>1, <4>2 DEF At, ScanAddsCoins, ScanAddsStakes
        <5>2. CoinsOwed(b) /\ StakesOwed(b)
          BY <5>1 DEF CoinsOwed, StakesOwed
        <5> QED BY <1>4, <3>1, <3>2, <3>3, <5>2
      <4>3. CASE spc[q] # "clear"
        <5>1. b \notin missed => Filled(b)
          BY <4>1, <4>3 DEF Filled, At
        <5>2. Filled(b)' => b \notin missed
          BY <3>1 DEF Filled
        <5> QED BY <1>4, <3>1, <3>2, <3>3, <5>1, <5>2
      <4> QED BY <4>2, <4>3
    <3>5. CASE b \notin locks
      <4>1. \A q \in Threads : /\ At(q, b, Scanned)' => At(q, b, Scanned)
                               /\ At(q, b, {"test", "lock"}) => At(q, b, {"test", "lock"})'
        BY <1>1, <1>2, <3>1, <3>5 DEF At, Scanned
      <4>2. Filled(b)' => Filled(b)
        BY <1>2, <3>1, <4>1, PoolParts DEF Filled, Awaited
      <4> QED BY <1>4, <3>1, <3>2, <3>3, <4>2
    <3> QED BY <3>4, <3>5
  <2>2. CASE PutLock(p) \/ Clear(p)
    <3>1. /\ spc'[p] = "clear" /\ spage' = spage
          /\ book'[b]["stakes"] = book[b]["stakes"] \/ book'[b]["stakes"] = << >>
      <4>1. CASE PutLock(p)
        BY <1>4, <4>1 DEF PutLock
      <4>2. CASE Clear(p)
        <5>1. /\ book' = [book EXCEPT ![b] = [book[b] EXCEPT ![Head(scut[p])] = NoFiles[Head(scut[p])]]]
              /\ spc' = spc /\ spage' = spage /\ spc[p] = "clear"
          BY <1>1, <4>2 DEF Clear
        <5>2. book'[b] = [book[b] EXCEPT ![Head(scut[p])] = NoFiles[Head(scut[p])]]
          BY <1>4, <5>1
        <5>3. \A d : d # "stakes" => [book[b] EXCEPT ![d] = NoFiles[d]]["stakes"] = book[b]["stakes"]
          BY <1>4 DEF IsBook, Parts
        <5>4. [book[b] EXCEPT !["stakes"] = NoFiles["stakes"]]["stakes"] = << >>
          BY <1>4, EmptyBook DEF IsBook, Parts
        <5> QED BY <5>1, <5>2, <5>3, <5>4
      <4> QED BY <2>2, <4>1, <4>2
    <3>2. \A t : ScanAddsCoins(p, t)' /\ ScanAddsStakes(p, t)'
      BY <3>1 DEF ScanAddsCoins, ScanAddsStakes
    <3>3. CoinsOwed(b)' /\ StakesOwed(b)'
      BY <1>1, <1>2, <3>2 DEF CoinsOwed, StakesOwed
    <3>4. ToSet(<< >>) = {}
      BY DEF ToSet
    <3> QED BY <1>4, <3>1, <3>3, <3>4
  <2>3. CASE StoreTxGone(p)
    <3>1. Head(spage[p]) \in Indexed
      <4>1. spage[p] \in Seq(Txs) /\ spage[p] # << >>
        BY <2>3 DEF StoreTxGone, TypeInv
      <4> QED BY <1>4, <4>1, SeqParts
    <3>2. Loadable(Head(spage[p]))
      BY <3>1 DEF Indexed
    <3> QED BY <2>3, <3>2 DEF StoreTxGone
  <2>4. Filled(b)' => b \notin missed'
    BY DEF Filled
  <2> QED BY <1>5, <2>1, <2>2, <2>3, <2>4 DEF ScanStep
<1>7. \A c \in Addrs \ {b} : Filled(c)' => CoinsOwed(c)' /\ StakesOwed(c)'
  BY <1>1, OthersOwed DEF GrowthInv
<1>8. \A c \in Addrs : ToSet(book'[c]["stakes"]) \subseteq StakesOf(c, Stored')
  BY <1>2, <1>6 DEF GrowthInv, StakesOf
<1>9. \A q \in Threads : ToSet(spage'[q]) \subseteq Indexed'
  BY <1>2, <1>6 DEF GrowthInv
<1>10. ASSUME NEW c \in locks' PROVE \E q \in Threads : At(q, c, Scanned \cup {"clear"})'
  <2>1. CASE c # b
    <3>1. c \in locks
      BY <1>2, <1>4, <1>10, <2>1 DEF ScanStep, TestLock, PutLock, Clear, MakeDir, Load, StoreTxOuts,
          StoreTxGone, StoreTxIns, Unlock, RmAddrScan, TypeInv
    <3>2. PICK q \in Threads : At(q, c, Scanned \cup {"clear"})
      BY <3>1 DEF GrowthInv
    <3> QED BY <1>1, <1>2, <2>1, <3>2 DEF At
  <2>2. CASE c = b
    <3>1. CASE spc'[p] \in Scanned \cup {"clear"}
      BY <1>1, <1>2, <2>2, <3>1 DEF At
    <3>2. CASE spc'[p] \notin Scanned \cup {"clear"}
      <4>1. c \in locks /\ spc[p] \notin Scanned \cup {"clear"}
        <5>1. TestLock(p) \/ Unlock(p)
          BY <1>4, <3>2 DEF ScanStep, PutLock, Clear, MakeDir, Load, StoreTxOuts, StoreTxGone,
              StoreTxIns, NextTx, Scanned
        <5>2. ~Unlock(p)
          BY <1>1, <1>10, <2>2 DEF Unlock, RmAddrScan
        <5> QED BY <1>10, <5>1, <5>2 DEF TestLock, Scanned
      <4>2. PICK q \in Threads : At(q, c, Scanned \cup {"clear"})
        BY <4>1 DEF GrowthInv
      <4>3. q # p
        BY <4>1, <4>2 DEF At
      <4> QED BY <1>2, <4>2, <4>3 DEF At
    <3> QED BY <3>1, <3>2
  <2> QED BY <2>1, <2>2
<1>11. \A c \in Addrs : Filled(c)' => CoinsOwed(c)' /\ StakesOwed(c)'
  BY <1>6, <1>7
<1> QED BY <1>3, <1>8, <1>9, <1>10, <1>11 DEF GrowthInv

LEMMA GrowAddBlock ==
  ASSUME TypeInv, OrderInv, ScanInv, GrowthInv, AddBlock, TypeInv'
  PROVE  GrowthInv'
<1>1. PICK b \in use.offered : chain' = Append(chain, b) /\ queue' = b
  BY DEF AddBlock
<1>2. /\ mpc = "idle" /\ mpc' = "store"
      /\ UNCHANGED <<adr, removed, dirs, book, todo, locks, spc, sadr, sfirst, spage, scut, missed,
                     undone, partial>>
  BY DEF AddBlock, scanVars, histVars
<1>3. /\ Stored' = Stored \cup ToSet(b) /\ Stored \subseteq Stored' /\ Last(chain') = b
      /\ Indexed \subseteq Indexed'
  BY <1>1, OrderAddBlock
<1>4. \A p \in Threads : \A t : /\ ScanAddsCoins(p, t)' <=> ScanAddsCoins(p, t)
                                /\ ScanAddsStakes(p, t)' <=> ScanAddsStakes(p, t)
  BY <1>2, AddsFrame
<1>5. \A t : ~MainAddsCoins(t) /\ ~MainAddsStakes(t)
  BY <1>2 DEF MainAddsCoins, MainAddsStakes
<1>6. /\ \A t \in ToSet(b) : MainAddsCoins(t)'
      /\ \A t \in ToSet(StakeTxs(b)) : MainAddsStakes(t)'
  BY <1>2, <1>3 DEF MainAddsCoins, MainAddsStakes
<1>7. Second(chain') \subseteq Second(chain) \cup ToSet(StakeTxs(b))
  BY <1>1, SecondNext
<1>8. ASSUME NEW a \in Addrs, Filled(a)' PROVE CoinsOwed(a)' /\ StakesOwed(a)'
  <2>1. Filled(a)
    BY <1>2, <1>8 DEF Filled, Awaited, At
  <2>2. CoinsOwed(a) /\ StakesOwed(a)
    BY <2>1 DEF GrowthInv
  <2>3. ASSUME NEW o \in Live(a)'
        PROVE  \/ o \in DOMAIN book'[a]["unspent"]
               \/ MainAddsCoins(o[1])'
               \/ \E p \in Threads : sadr'[p] = a /\ ScanAddsCoins(p, o[1])'
    <3>1. /\ Live(a)' = {x \in MadeBy(Stored', a, "coin") : \A t \in Stored' : x \notin Ins[t]}
          /\ Live(a) = {x \in MadeBy(Stored, a, "coin") : \A t \in Stored : x \notin Ins[t]}
      BY LiveParts, LiveNext
    <3>2. o[1] \in Stored => o \in Live(a)
      BY <1>3, <2>3, <3>1 DEF MadeBy
    <3>3. o[1] \in Stored \cup ToSet(b)
      BY <1>3, <2>3, <3>1 DEF MadeBy
    <3> QED BY <1>2, <1>4, <1>5, <1>6, <2>2, <3>2, <3>3 DEF CoinsOwed
  <2>4. ASSUME NEW t \in StakesOf(a, Second(chain'))
        PROVE  \/ t \in ToSet(book'[a]["stakes"])
               \/ MainAddsStakes(t)'
               \/ \E p \in Threads : sadr'[p] = a /\ ScanAddsStakes(p, t)'
    <3>1. t \in StakesOf(a, Second(chain)) \/ t \in ToSet(StakeTxs(b))
      BY <1>7, <2>4 DEF StakesOf
    <3> QED BY <1>2, <1>4, <1>5, <1>6, <2>2, <3>1 DEF StakesOwed
  <2>5. CoinsOwed(a)'
    BY <2>3 DEF CoinsOwed
  <2>6. StakesOwed(a)'
    BY <2>4 DEF StakesOwed
  <2> QED BY <2>5, <2>6
<1>9. \A a \in Addrs : ToSet(book'[a]["stakes"]) \subseteq StakesOf(a, Stored')
  BY <1>2, <1>3 DEF GrowthInv, StakesOf
<1>10. \A p \in Threads : ToSet(spage'[p]) \subseteq Indexed'
  BY <1>2, <1>3 DEF GrowthInv
<1>11. \A a \in locks' : \E p \in Threads : At(p, a, Scanned \cup {"clear"})'
  BY <1>2 DEF GrowthInv, At
<1>12. mpc' # "undo" /\ undone' = {} /\ removed' = 0
  BY <1>2 DEF GrowthInv
<1> QED BY <1>8, <1>9, <1>10, <1>11, <1>12 DEF GrowthInv

\* The index grows: a scan has the more to read.
LEMMA IndexGrows ==
  ASSUME TypeInv, DelIndex \/ MoveIndex \/ TxStored \/ BlockStored, NEW p \in Threads
  PROVE  \A t : /\ ScanAddsCoins(p, t) => ScanAddsCoins(p, t)'
                /\ ScanAddsStakes(p, t) => ScanAddsStakes(p, t)'
<1>1. UNCHANGED <<spc, sadr, sfirst, spage>>
  BY DEF DelIndex, MoveIndex, TxStored, BlockStored, scanVars
<1>2. CASE adr' = adr
  BY <1>1, <1>2, AddsFrame
<1>3. CASE MoveIndex
  <2> DEFINE b == sadr[p]
             r == adr[b]
             k == sfirst[p]
             h == Head(queue)
  <2>1. r \in Seq(Txs) /\ k \in Nat /\ b \in Addrs
    BY DEF TypeInv
  <2>2. PICK a \in gone : adr' = [adr EXCEPT ![a] = Append(@, h)]
    BY <1>3 DEF MoveIndex
  <2>3. adr'[b] = r \/ adr'[b] = Append(r, h)
    BY <2>1, <2>2 DEF TypeInv
  <2>4. h \in Txs
    BY <1>3, SeqParts DEF MoveIndex, TypeInv
  <2>5. Beyond(p) = {r[i] : i \in k + 1 .. Len(r)} /\ Beyond(p)' = {adr'[b][i] : i \in k + 1 .. Len(adr'[b])}
    BY <1>1 DEF Beyond
  <2> HIDE DEF r, k, h, b
  <2>6. /\ Len(r) \in Nat /\ Len(Append(r, h)) = Len(r) + 1
        /\ \A i \in 1 .. Len(r) : Append(r, h)[i] = r[i]
    BY ONLY <2>1, <2>4
  <2>7. Beyond(p) \subseteq Beyond(p)'
    <3> SUFFICES ASSUME NEW i \in k + 1 .. Len(r) PROVE r[i] \in Beyond(p)'
      BY <2>5
    <3>1. i \in 1 .. Len(r) /\ i \in k + 1 .. Len(Append(r, h))
      BY <2>1, <2>6
    <3>2. i \in k + 1 .. Len(adr'[b]) /\ adr'[b][i] = r[i]
      BY <2>3, <2>6, <3>1
    <3> QED BY <2>5, <3>2
  <2> QED BY <1>1, <2>7 DEF ScanAddsCoins, ScanAddsStakes
<1>4. adr' = adr \/ MoveIndex
  BY DEF DelIndex, TxStored, BlockStored, chainVars
<1> QED BY <1>2, <1>3, <1>4

\* A block is stored: what stakes is recorded, and the outputs are next.
LEMMA GrowStore ==
  ASSUME TypeInv, OrderInv, ScanInv, GrowthInv, DelIndex \/ MoveIndex \/ TxStored \/ BlockStored, TypeInv'
  PROVE  GrowthInv'
<1>1. /\ UNCHANGED <<chain, removed, dirs, todo, locks, spc, sadr, sfirst, spage, scut, missed, undone, partial>>
      /\ mpc = "store" /\ mpc' # "undo" /\ chain # << >>
  BY DEF DelIndex, MoveIndex, TxStored, BlockStored, chainVars, mainVars, scanVars, histVars, TypeInv
<1>2. Stored' = Stored /\ Indexed \subseteq Indexed'
  BY OrderStore
<1>3. \A a \in Addrs : Live(a)' = Live(a) /\ StakesOf(a, Second(chain))' = StakesOf(a, Second(chain))
  BY <1>1, <1>2 DEF Live, Made, Unspent, OnChain, StakesOf, Second
<1>4. \A p \in Threads : \A t : /\ ScanAddsCoins(p, t) => ScanAddsCoins(p, t)'
                                /\ ScanAddsStakes(p, t) => ScanAddsStakes(p, t)'
  BY IndexGrows
<1>5. \A a \in Addrs : Filled(a)' <=> Filled(a)
  BY <1>1 DEF Filled, Awaited, At
<1>6. \A t : MainAddsCoins(t) => MainAddsCoins(t)'
  BY <1>1 DEF DelIndex, MoveIndex, TxStored, BlockStored, mainVars, MainAddsCoins
<1>7. ASSUME NEW a \in Addrs
      PROVE  /\ book'[a]["unspent"] = book[a]["unspent"]
             /\ ToSet(book[a]["stakes"]) \subseteq ToSet(book'[a]["stakes"])
             /\ ToSet(book'[a]["stakes"]) \subseteq StakesOf(a, Stored)
             /\ a \in dirs => \A t \in StakesOf(a, Second(chain)) : MainAddsStakes(t) =>
                    t \in ToSet(book'[a]["stakes"]) \/ MainAddsStakes(t)'
  <2>1. ToSet(book[a]["stakes"]) \subseteq StakesOf(a, Stored)
    BY DEF GrowthInv
  <2>2. CASE ~BlockStored
    <3>1. book' = book /\ mpc' = mpc
      BY <2>2 DEF DelIndex, MoveIndex, TxStored, mainVars
    <3> QED BY <1>1, <2>1, <3>1 DEF MainAddsStakes
  <2>3. CASE BlockStored
    <3> DEFINE x == StakeTxs(Last(chain))
    <3>1. book'[a] = IF a \in dirs THEN AddStakes(book[a], a, x) ELSE book[a]
      BY <2>3 DEF BlockStored
    <3>2. Last(chain) \in Seq(Txs) /\ ToSet(Last(chain)) \subseteq Stored
      BY <1>1, ChainType, OrderParts DEF OrderInv
    <3>3. x \in Seq(Txs) /\ ToSet(x) \subseteq Stored
      BY <3>2, StakeTxsParts
    <3>4. IsBook(book[a]) /\ "unspent" \in Dirs
      BY DEF TypeInv, Dirs, Parts
    <3>5. \A t : MainAddsStakes(t) => t \in ToSet(x)
      BY DEF MainAddsStakes
    <3> HIDE DEF x
    <3>6. StakesAdded(book[a], AddStakes(book[a], a, x), a, ToSet(x))
      BY <3>3, <3>4, StakeParts
    <3>7. CASE a \in dirs
      <4>1. /\ book'[a]["unspent"] = book[a]["unspent"]
            /\ ToSet(book'[a]["stakes"]) = ToSet(book[a]["stakes"]) \cup StakesOf(a, ToSet(x))
        BY <3>1, <3>4, <3>6, <3>7 DEF StakesAdded
      <4> QED BY <2>1, <3>3, <3>5, <4>1 DEF StakesOf
    <3>8. CASE a \notin dirs
      BY <2>1, <3>1, <3>8
    <3> QED BY <3>7, <3>8
  <2> QED BY <2>2, <2>3
<1>8. ASSUME NEW a \in Addrs, Filled(a) PROVE CoinsOwed(a)' /\ StakesOwed(a)'
  <2>1. CoinsOwed(a) /\ StakesOwed(a)
    BY <1>8 DEF GrowthInv
  <2>2. a \in dirs
    BY <1>8 DEF Filled, At, ScanInv
  <2>3. CoinsOwed(a)'
    BY <1>1, <1>3, <1>4, <1>6, <1>7, <2>1 DEF CoinsOwed
  <2>4. StakesOwed(a)'
    BY <1>1, <1>3, <1>4, <1>7, <2>1, <2>2 DEF StakesOwed
  <2> QED BY <2>3, <2>4
<1>9. \A p \in Threads : ToSet(spage'[p]) \subseteq Indexed'
  BY <1>1, <1>2 DEF GrowthInv
<1>10. \A a \in locks' : \E p \in Threads : At(p, a, Scanned \cup {"clear"})'
  BY <1>1 DEF GrowthInv, At
<1>11. mpc' # "undo" /\ undone' = {} /\ removed' = 0
  BY <1>1 DEF GrowthInv
<1> QED BY <1>2, <1>5, <1>7, <1>8, <1>9, <1>10, <1>11 DEF GrowthInv

\* The main loop enters a transaction: its coins are added, and what it takes
\* from the list is no longer to be spent.
LEMMA GrowMain ==
  ASSUME TypeInv, OrderInv, ScanInv, GrowthInv, StoreWalletOuts \/ StoreWalletIns, TypeInv'
  PROVE  GrowthInv'
<1> DEFINE t == Head(queue)
<1>1. /\ UNCHANGED <<chain, adr, removed, dirs, todo, locks, spc, sadr, sfirst, spage, scut,
                     missed, undone, partial>>
      /\ mpc \in {"outs", "ins"} /\ mpc' \in {"idle", "outs", "ins"} /\ queue # << >>
  BY DEF StoreWalletOuts, StoreWalletIns, chainVars, scanVars, histVars, TypeInv
<1>2. t \in Stored /\ t \in Txs /\ ToSet(queue) = ToSet(Tail(queue)) \cup {t}
  BY <1>1, OrderEntered
<1> HIDE DEF t
<1>3. \A a \in Addrs : IsBook(book[a])
  BY DEF TypeInv
<1>4. /\ Stored' = Stored /\ Indexed' = Indexed
      /\ \A a \in Addrs : Live(a)' = Live(a) /\ StakesOf(a, Second(chain))' = StakesOf(a, Second(chain))
  <2>1. Stored' = Stored /\ \A a \in Addrs : /\ Live(a)' = Live(a)
                                             /\ StakesOf(a, Second(chain))' = StakesOf(a, Second(chain))
    BY <1>1 DEF Stored, Live, Made, Unspent, OnChain, StakesOf, Second
  <2>2. Indexed = Stored /\ Indexed' = Stored'
    BY <1>1, StoredParts, StoredNext
  <2> QED BY <2>1, <2>2
<1>5. \A p \in Threads : \A u : /\ ScanAddsCoins(p, u)' <=> ScanAddsCoins(p, u)
                                /\ ScanAddsStakes(p, u)' <=> ScanAddsStakes(p, u)
  BY <1>1, AddsFrame
<1>6. \A a \in Addrs : Filled(a)' <=> Filled(a)
  BY <1>1 DEF Filled, Awaited, At
<1>7. \A a \in Addrs : /\ \A o \in Live(a) : o[1] \in Stored /\ o \in MadeBy({o[1]}, a, "coin")
                       /\ \A o \in Live(a) : \A u \in Stored : o \notin Ins[u]
  BY LiveParts
<1>8. ASSUME NEW a \in Addrs
      PROVE  /\ ToSet(book'[a]["stakes"]) = ToSet(book[a]["stakes"])
             /\ a \in dirs => \A o \in Live(a) :
                    o \in DOMAIN book[a]["unspent"] \/ MainAddsCoins(o[1])
                    => o \in DOMAIN book'[a]["unspent"] \/ MainAddsCoins(o[1])'
  <2>1. CASE StoreWalletOuts
    <3>1. /\ mpc = "outs" /\ mpc' = "ins" /\ queue' = queue
          /\ book'[a] = IF a \in dirs THEN AddOutputs(book[a], a, t) ELSE book[a]
      BY <2>1 DEF StoreWalletOuts, t
    <3>2. OutputsAdded(book[a], AddOutputs(book[a], a, t), t, a)
      BY <1>2, <1>3, AddOutputsParts
    <3>3. book'[a]["stakes"] = book[a]["stakes"]
      BY <3>1, <3>2 DEF OutputsAdded
    <3>4. ASSUME a \in dirs
          PROVE  DOMAIN book'[a]["unspent"] = DOMAIN book[a]["unspent"] \cup MadeBy({t}, a, "coin")
      BY <3>1, <3>2, <3>4 DEF OutputsAdded
    <3>5. \A u : MainAddsCoins(u) => u = t \/ MainAddsCoins(u)'
      BY <1>2, <3>1 DEF MainAddsCoins
    <3> QED BY <1>7, <3>3, <3>4, <3>5
  <2>2. CASE StoreWalletIns
    <3>1. /\ mpc = "ins" /\ queue' = Tail(queue) /\ book'[a] = SpendInputs(book[a], a, t)
          /\ mpc' = IF Tail(queue) = << >> THEN "idle" ELSE "outs"
      BY <2>2 DEF StoreWalletIns, t
    <3>2. InputsSpent(book[a], book'[a], t, a)
      BY <1>2, <1>3, <3>1, SpendParts
    <3>3. /\ book'[a]["stakes"] = book[a]["stakes"]
          /\ DOMAIN book'[a]["unspent"] = DOMAIN book[a]["unspent"] \ SpentOf(t, a, "coin")
      BY <3>2 DEF InputsSpent
    <3>4. \A o \in Live(a) : o \notin SpentOf(t, a, "coin")
      BY <1>2, <1>7 DEF SpentOf
    <3>5. \A u : MainAddsCoins(u) => MainAddsCoins(u)'
      <4>1. ToSet(<< >>) = {}
        BY DEF ToSet
      <4> QED BY <3>1, <4>1 DEF MainAddsCoins
    <3> QED BY <3>3, <3>4, <3>5
  <2> QED BY <2>1, <2>2
<1>9. ASSUME NEW a \in Addrs, Filled(a) PROVE CoinsOwed(a)' /\ StakesOwed(a)'
  <2>1. CoinsOwed(a) /\ StakesOwed(a)
    BY <1>9 DEF GrowthInv
  <2>2. a \in dirs
    BY <1>9 DEF Filled, At, ScanInv
  <2>3. CoinsOwed(a)'
    BY <1>1, <1>4, <1>5, <1>8, <2>1, <2>2 DEF CoinsOwed
  <2>4. StakesOwed(a)'
    BY <1>1, <1>4, <1>5, <1>8, <2>1 DEF StakesOwed, MainAddsStakes
  <2> QED BY <2>3, <2>4
<1>10. \A a \in Addrs : ToSet(book'[a]["stakes"]) \subseteq StakesOf(a, Stored')
  BY <1>4, <1>8 DEF GrowthInv
<1>11. \A a \in locks' : \E p \in Threads : At(p, a, Scanned \cup {"clear"})'
  BY <1>1 DEF GrowthInv, At
<1> QED BY <1>1, <1>4, <1>6, <1>9, <1>10, <1>11 DEF GrowthInv

\* An address is imported, or a scan is asked for: none is filled by that.
LEMMA GrowRequests ==
  ASSUME TypeInv, OrderInv, ScanInv, GrowthInv,
         \/ \E a \in Addrs : Import(a)
         \/ \E p \in Rpc : Rescan(p)
         \/ ScanAddresses
         \/ UNCHANGED vars
  PROVE  GrowthInv'
<1>1. /\ UNCHANGED <<chain, adr, removed, mpc, queue, book, locks, sfirst, spage, missed, undone>>
      /\ dirs \subseteq dirs'
  BY DEF Import, Rescan, ScanAddresses, StartScan, vars, chainVars, mainVars, scanVars, histVars
<1>2. /\ Stored' = Stored /\ Indexed' = Indexed
      /\ \A a \in Addrs : Live(a)' = Live(a) /\ StakesOf(a, Second(chain))' = StakesOf(a, Second(chain))
  BY <1>1 DEF Stored, Indexed, Loadable, Live, Made, Unspent, OnChain, StakesOf, Second
<1>3. \A p \in Threads : \/ spc'[p] = spc[p] /\ sadr'[p] = sadr[p]
                         \/ spc[p] = "idle" /\ spc'[p] = "test"
  BY PoolParts DEF Import, Rescan, ScanAddresses, StartScan, vars, scanVars, TypeInv
<1>4. \A p \in Threads : \A a : \A steps : "idle" \notin steps /\ "test" \notin steps =>
            (At(p, a, steps)' <=> At(p, a, steps))
  BY <1>3 DEF At
<1>5. \A p \in Threads : \/ sadr'[p] = sadr[p] /\ \A t : /\ ScanAddsCoins(p, t)' <=> ScanAddsCoins(p, t)
                                                         /\ ScanAddsStakes(p, t)' <=> ScanAddsStakes(p, t)
                         \/ \A t : ~ScanAddsCoins(p, t) /\ ~ScanAddsStakes(p, t)
  <2> SUFFICES ASSUME NEW p \in Threads
               PROVE  \/ sadr'[p] = sadr[p] /\ \A t : /\ ScanAddsCoins(p, t)' <=> ScanAddsCoins(p, t)
                                                      /\ ScanAddsStakes(p, t)' <=> ScanAddsStakes(p, t)
                      \/ \A t : ~ScanAddsCoins(p, t) /\ ~ScanAddsStakes(p, t)
    OBVIOUS
  <2>1. CASE spc'[p] = spc[p] /\ sadr'[p] = sadr[p]
    BY <1>1, <2>1, AddsFrame
  <2>2. CASE spc[p] = "idle"
    BY <2>2 DEF ScanAddsCoins, ScanAddsStakes
  <2> QED BY <1>3, <2>1, <2>2
<1>6. ASSUME NEW a \in Addrs, Filled(a)' PROVE Filled(a)
  <2>1. \A p \in Threads : At(p, a, Scanned)' => At(p, a, Scanned)
    BY <1>4 DEF Scanned
  <2>2. CASE \E b \in Addrs : Import(b)
    <3>1. PICK b \in Addrs : Import(b)
      BY <2>2
    <3> QED BY <1>1, <1>6, <2>1, <3>1 DEF Import, Filled, Awaited, At, scanVars
  <2>3. CASE \E p \in Rpc : Rescan(p)
    <3>1. At(Main, a, {"test", "lock"})' <=> At(Main, a, {"test", "lock"})
      BY <2>3, PoolParts DEF Rescan, StartScan, At, TypeInv
    <3>2. UNCHANGED <<dirs, partial, todo>>
      BY <2>3 DEF Rescan, histVars
    <3> QED BY <1>1, <1>6, <2>1, <3>1, <3>2 DEF Filled, Awaited
  <2>4. CASE ScanAddresses
    <3>1. PICK b \in todo : StartScan(Main, b) /\ todo' = todo \ {b} /\ dirs' = dirs /\ partial' = partial
      BY <2>4 DEF ScanAddresses, histVars
    <3>2. spc[Main] = "idle" /\ spc'[Main] = "test" /\ sadr'[Main] = b
      BY <3>1, PoolParts DEF StartScan, TypeInv
    <3>3. Awaited(a) => Awaited(a)'
      BY <3>1, <3>2 DEF Awaited, At
    <3> QED BY <1>1, <1>6, <2>1, <3>1, <3>3 DEF Filled
  <2>5. CASE UNCHANGED vars
    BY <1>1, <1>6, <2>1, <2>5 DEF vars, scanVars, histVars, Filled, Awaited, At
  <2> QED BY <2>2, <2>3, <2>4, <2>5
<1>7. ASSUME NEW a \in Addrs, Filled(a)' PROVE CoinsOwed(a)' /\ StakesOwed(a)'
  <2>1. CoinsOwed(a) /\ StakesOwed(a)
    BY <1>6, <1>7 DEF GrowthInv
  <2>2. CoinsOwed(a)'
    BY <1>1, <1>2, <1>5, <2>1 DEF CoinsOwed, MainAddsCoins
  <2>3. StakesOwed(a)'
    BY <1>1, <1>2, <1>5, <2>1 DEF StakesOwed, MainAddsStakes
  <2> QED BY <2>2, <2>3
<1>8. \A a \in locks' : \E p \in Threads : At(p, a, Scanned \cup {"clear"})'
  <2>1. "idle" \notin Scanned \cup {"clear"} /\ "test" \notin Scanned \cup {"clear"}
    BY DEF Scanned
  <2> QED BY <1>1, <1>4, <2>1 DEF GrowthInv
<1>9. \A a \in Addrs : ToSet(book'[a]["stakes"]) \subseteq StakesOf(a, Stored')
  BY <1>1, <1>2 DEF GrowthInv
<1> QED BY <1>1, <1>2, <1>7, <1>8, <1>9 DEF GrowthInv

GrowingInv == Growing => GrowthInv

LEMMA GrowInit == Init => ScanInv /\ GrowingInv
<1> SUFFICES ASSUME Init PROVE ScanInv /\ GrowthInv
  BY DEF GrowingInv
<1>1. /\ spc = [p \in Threads |-> "idle"] /\ spage = [p \in Threads |-> << >>]
      /\ mpc = "idle" /\ undone = {} /\ removed = 0 /\ locks = {} /\ dirs = {} /\ book = [a \in Addrs |-> NoFiles]
  BY DEF Init
<1>2. \A a \in Addrs : ~Filled(a)
  BY <1>1 DEF Filled, At, Scanned
<1>3. ToSet(<< >>) = {}
  BY DEF ToSet
<1>4. \A a \in Addrs : ToSet(book[a]["stakes"]) = {}
  BY <1>1, <1>3, EmptyBook
<1> QED BY <1>1, <1>2, <1>3, <1>4 DEF ScanInv, GrowthInv, Scanned

LEMMA GrowStep ==
  ASSUME TypeInv, OrderInv, ScanInv, GrowingInv, [Next]_vars
  PROVE  GrowingInv'
<1>1. use' = use /\ TypeInv'
  <2>1. use' = use
    BY DEF Next, MainLoop, AddBlock, DelIndex, MoveIndex, TxStored, BlockStored, StoreWalletOuts,
           StoreWalletIns, RemoveBlock, DelIndexes, RemoveWalletTx, BlockRemoved, ScanAddresses, Import, Rescan, ScanStep, TestLock, PutLock, Clear, MakeDir,
           Load, StoreTxOuts, StoreTxGone, StoreTxIns, Unlock, vars
  <2> QED BY <2>1, TypeStep
<1> SUFFICES ASSUME GrowthInv, Growing PROVE GrowthInv'
  BY <1>1 DEF GrowingInv, Growing
<1>2. ~RemoveBlock /\ ~DelIndexes /\ ~RemoveWalletTx /\ ~BlockRemoved
  BY DEF RemoveBlock, DelIndexes, RemoveWalletTx, BlockRemoved, GrowthInv, Growing
<1> QED BY <1>1, <1>2, GrowAddBlock, GrowStore, GrowMain, GrowRequests, GrowScan, NextParts DEF Waits

-----------------------------------------------------------------------------
(* Nobody but the main loop scans: what the files of an address are when the *)
(* outputs of O and the inputs of S are entered                             *)

SpentIn(S) == UNION {Ins[t] : t \in S}
\* The spender is in the file; what is not spent names no spender unless
\* nothing tells where its file ends.
Names(f, S) == \A o \in DOMAIN f : /\ f[o].by # << >> /\ Last(f[o].by) \in S /\ o \in Ins[Last(f[o].by)]
                                   /\ f[o].n > 0 => Len(f[o].by) = 1
Blank(f) == \A o \in DOMAIN f : f[o].n > 0 => f[o].by = << >>
CoinFiles(f, a, O, S) ==
    /\ DOMAIN f["unspent"] = MadeBy(O, a, "coin") \ SpentIn(S)
    /\ DOMAIN f["spent"] = MadeBy(O, a, "coin") \cap SpentIn(S)
    /\ Blank(f["unspent"]) /\ Names(f["spent"], S)
ObjectFiles(f, a, O, S) ==
    /\ DOMAIN f["objects"] = MadeBy(O, a, "obj") \ SpentIn(S)
    /\ DOMAIN f["sentobjs"] = MadeBy(O, a, "obj") \cap SpentIn(S)
Exact(f, a, O, S) == CoinFiles(f, a, O, S) /\ (ObjectsMove => ObjectFiles(f, a, O, S))

\* Objects are the first outputs, and what spends one gives an object away.
LEMMA ObjectParts ==
  ASSUME ObjectsMove, NEW t \in Txs, NEW a
  PROVE  FirstObject(t, a) = MadeBy({t}, a, "obj") /\ ObjectsSpent(t, a) = SpentOf(t, a, "obj")
<1>1. ASSUME NEW o \in MadeBy({t}, a, "obj") PROVE o = <<t, 1>>
  <2>1. o = <<t, o[2]>> /\ o[2] \in 1 .. Len(Outs[t]) /\ Outs[t][o[2]].kind = "obj"
    BY OutputParts DEF MadeBy, Out
  <2> QED BY <2>1 DEF ObjectsMove
<1>2. FirstObject(t, a) = MadeBy({t}, a, "obj")
  BY <1>1 DEF FirstObject
<1>3. ObjectsSpent(t, a) = SpentOf(t, a, "obj")
  BY DEF ObjectsSpent, SpentOf, ObjectsMove
<1> QED BY <1>2, <1>3

\* The outputs of the next transaction are entered.
LEMMA AddsExact ==
  ASSUME NEW f, NEW g, NEW a, NEW S, NEW t \in Txs,
         Exact(f, a, S, S), OutputsAdded(f, g, t, a),
         \A u \in S : \A o \in Ins[u] : o[1] # t
  PROVE  Exact(g, a, S \cup {t}, S)
<1>1. \A kind : /\ MadeBy(S \cup {t}, a, kind) = MadeBy(S, a, kind) \cup MadeBy({t}, a, kind)
                /\ MadeBy({t}, a, kind) \cap SpentIn(S) = {}
  BY DEF MadeBy, SpentIn
<1>2. CoinFiles(g, a, S \cup {t}, S)
  <2>1. CoinFiles(f, a, S, S)
    BY DEF Exact
  <2>2. Blank(g["unspent"])
    BY <2>1 DEF CoinFiles, OutputsAdded, Blank
  <2> QED BY <1>1, <2>1, <2>2 DEF CoinFiles, OutputsAdded
<1>3. ASSUME ObjectsMove PROVE ObjectFiles(g, a, S \cup {t}, S)
  <2>1. ObjectFiles(f, a, S, S) /\ FirstObject(t, a) = MadeBy({t}, a, "obj")
    BY <1>3, ObjectParts DEF Exact
  <2> QED BY <1>1, <2>1 DEF ObjectFiles, OutputsAdded
<1> QED BY <1>2, <1>3 DEF Exact

\* Its inputs are entered: what it spends of is entered, and nobody else that is
\* entered spends it.
LEMMA SpendsExact ==
  ASSUME NEW f, NEW g, NEW a, NEW S, NEW t \in Txs, IsBook(f),
         Exact(f, a, S \cup {t}, S), InputsSpent(f, g, t, a),
         \A o \in Ins[t] : Out(o).to = a /\ Out(o).kind \in {"coin", "obj"} => o[1] \in S,
         \A u \in S : Ins[u] \cap Ins[t] = {}
  PROVE  Exact(g, a, S \cup {t}, S \cup {t})
<1> DEFINE O == S \cup {t}
<1>1. SpentIn(S \cup {t}) = SpentIn(S) \cup Ins[t]
  BY DEF SpentIn
<1>2. Ins[t] \cap SpentIn(S) = {}
  BY DEF SpentIn
<1>3. \A kind \in {"coin", "obj"} : SpentOf(t, a, kind) = MadeBy(O, a, kind) \cap Ins[t]
  BY PoolParts DEF SpentOf, MadeBy
<1>9. t \in O
  OBVIOUS
<1> HIDE DEF O
<1>4. CoinFiles(f, a, O, S) /\ (ObjectsMove => ObjectFiles(f, a, O, S))
  BY DEF Exact, O
<1>5. SpentOf(t, a, "coin") \subseteq DOMAIN f["unspent"] /\ SpentOf(t, a, "coin") \cap DOMAIN f["spent"] = {}
  BY <1>2, <1>3, <1>4 DEF CoinFiles
<1>6. CoinFiles(g, a, O, O)
  <2>1. DOMAIN g["unspent"] = MadeBy(O, a, "coin") \ SpentIn(O)
    BY <1>1, <1>3, <1>4 DEF CoinFiles, InputsSpent, O
  <2>2. DOMAIN g["spent"] = MadeBy(O, a, "coin") \cap SpentIn(O)
    BY <1>1, <1>3, <1>4, <1>5 DEF CoinFiles, InputsSpent, O
  <2>3. Blank(g["unspent"])
    BY <1>4 DEF CoinFiles, InputsSpent, Blank
  <2>4. ASSUME NEW o \in SpentOf(t, a, "coin")
        PROVE  /\ g["spent"][o].by # << >> /\ Last(g["spent"][o].by) = t /\ o \in Ins[t]
               /\ g["spent"][o].n > 0 => Len(g["spent"][o].by) = 1
    <3>1. /\ g["spent"][o].n = f["unspent"][o].n
          /\ g["spent"][o].by = Append(f["unspent"][o].by, t)
          /\ f["unspent"][o].n > 0 => f["unspent"][o].by = << >>
      BY <1>4, <1>5 DEF InputsSpent, CoinFiles, Blank
    <3>2. f["unspent"][o].by \in Seq(Txs)
      <4>1. IsDir(f["unspent"])
        BY DEF IsBook, Dirs, Parts
      <4> QED BY <1>5, <4>1 DEF IsDir, File
    <3>3. \A s \in Seq(Txs) : Append(s, t) # << >> /\ Last(Append(s, t)) = t /\ Len(Append(s, t)) = Len(s) + 1
      <4> SUFFICES ASSUME NEW s \in Seq(Txs)
                   PROVE  Append(s, t) # << >> /\ Last(Append(s, t)) = t /\ Len(Append(s, t)) = Len(s) + 1
        OBVIOUS
      <4>1. Len(Append(s, t)) = Len(s) + 1 /\ Append(s, t)[Len(s) + 1] = t /\ Len(s) \in Nat
        OBVIOUS
      <4>2. Append(s, t) # << >>
        <5>1. Len(<< >>) = 0 /\ Len(s) + 1 # 0
          BY <4>1
        <5> QED BY <4>1, <5>1
      <4> QED BY <4>1, <4>2 DEF Last
    <3>4. Len(<< >>) + 1 = 1
      OBVIOUS
    <3> QED BY <3>1, <3>2, <3>3, <3>4 DEF SpentOf
  <2>5. ASSUME NEW o \in DOMAIN f["spent"]
        PROVE  /\ g["spent"][o].by # << >> /\ Last(g["spent"][o].by) \in O /\ o \in Ins[Last(g["spent"][o].by)]
               /\ g["spent"][o].n > 0 => Len(g["spent"][o].by) = 1
    <3>1. g["spent"][o] = f["spent"][o]
      BY <1>5 DEF InputsSpent
    <3> QED BY <1>4, <3>1 DEF CoinFiles, Names, O
  <2>6. DOMAIN g["spent"] = DOMAIN f["spent"] \cup SpentOf(t, a, "coin")
    BY <1>5 DEF InputsSpent
  <2>7. Names(g["spent"], O)
    BY <1>9, <2>4, <2>5, <2>6 DEF Names
  <2> QED BY <2>1, <2>2, <2>3, <2>7 DEF CoinFiles
<1>7. ASSUME ObjectsMove PROVE ObjectFiles(g, a, O, O)
  <2>1. ObjectFiles(f, a, O, S) /\ ObjectsSpent(t, a) = SpentOf(t, a, "obj")
    BY <1>4, <1>7, ObjectParts
  <2>2. SpentOf(t, a, "obj") = MadeBy(O, a, "obj") \cap Ins[t] /\ SpentIn(O) = SpentIn(S) \cup Ins[t]
    BY <1>1, <1>3 DEF O
  <2>3. SpentOf(t, a, "obj") \subseteq DOMAIN f["objects"]
    BY <1>2, <2>1, <2>2 DEF ObjectFiles
  <2> QED BY <2>1, <2>2, <2>3 DEF ObjectFiles, InputsSpent
<1> QED BY <1>6, <1>7 DEF Exact, O

\* The last transaction is removed: nothing that is left spends of it.
LEMMA DropsExact ==
  ASSUME NEW f, NEW g, NEW a, NEW S, NEW t \in S, t \in Txs,
         Exact(f, a, S, S), OutputsDropped(f, g, t, a),
         \A u \in S : \A o \in Ins[u] : o[1] # t
  PROVE  Exact(g, a, S \ {t}, S)
<1>1. \A kind : /\ MadeBy(S \ {t}, a, kind) = MadeBy(S, a, kind) \ MadeBy({t}, a, kind)
                /\ MadeBy({t}, a, kind) \cap SpentIn(S) = {}
  BY DEF MadeBy, SpentIn
<1>2. CoinFiles(g, a, S \ {t}, S)
  <2>1. CoinFiles(f, a, S, S)
    BY DEF Exact
  <2>2. Blank(g["unspent"])
    BY <2>1 DEF CoinFiles, OutputsDropped, Blank
  <2> QED BY <1>1, <2>1, <2>2 DEF CoinFiles, OutputsDropped
<1>3. ASSUME ObjectsMove PROVE ObjectFiles(g, a, S \ {t}, S)
  <2>1. ObjectFiles(f, a, S, S)
    BY <1>3 DEF Exact
  <2> QED BY <1>1, <2>1 DEF ObjectFiles, OutputsDropped
<1> QED BY <1>2, <1>3 DEF Exact

LEMMA UnspendsExact ==
  ASSUME NEW f, NEW g, NEW a, NEW S, NEW t \in S, t \in Txs,
         Exact(f, a, S \ {t}, S), InputsUnspent(f, g, t, a),
         \A o \in Ins[t] : o[1] \in S \ {t},
         \A u \in S \ {t} : Ins[u] \cap Ins[t] = {}
  PROVE  Exact(g, a, S \ {t}, S \ {t})
<1> DEFINE O == S \ {t}
<1>1. SpentIn(O) = SpentIn(S) \ Ins[t] /\ Ins[t] \subseteq SpentIn(S)
  <2>1. SpentIn(O) = SpentIn(S) \ Ins[t]
    BY DEF SpentIn
  <2> QED BY <2>1 DEF SpentIn
<1>2. \A kind \in {"coin", "obj"} : SpentOf(t, a, kind) = MadeBy(O, a, kind) \cap Ins[t]
  BY PoolParts DEF SpentOf, MadeBy
<1>3. CoinFiles(f, a, O, S) /\ (ObjectsMove => ObjectFiles(f, a, O, S))
  BY DEF Exact
<1>7. \A u \in S : u # t => u \in O
  OBVIOUS
<1> HIDE DEF O
<1>4. SpentOf(t, a, "coin") \subseteq DOMAIN f["spent"]
  BY <1>1, <1>2, <1>3 DEF CoinFiles
<1>5. CoinFiles(g, a, O, O)
  <2>1. DOMAIN g["spent"] = MadeBy(O, a, "coin") \cap SpentIn(O)
    BY <1>1, <1>2, <1>3 DEF CoinFiles, InputsUnspent
  <2>2. DOMAIN g["unspent"] = MadeBy(O, a, "coin") \ SpentIn(O)
    BY <1>1, <1>2, <1>3, <1>4 DEF CoinFiles, InputsUnspent
  <2>3. Names(g["spent"], O)
    <3> SUFFICES ASSUME NEW o \in DOMAIN g["spent"]
                 PROVE  /\ g["spent"][o].by # << >> /\ Last(g["spent"][o].by) \in O
                        /\ o \in Ins[Last(g["spent"][o].by)]
                        /\ g["spent"][o].n > 0 => Len(g["spent"][o].by) = 1
      BY DEF Names
    <3>1. g["spent"][o] = f["spent"][o] /\ o \in DOMAIN f["spent"] /\ o \notin SpentOf(t, a, "coin")
      BY DEF InputsUnspent
    <3>2. /\ f["spent"][o].by # << >> /\ Last(f["spent"][o].by) \in S
          /\ o \in Ins[Last(f["spent"][o].by)]
          /\ f["spent"][o].n > 0 => Len(f["spent"][o].by) = 1
      BY <1>3, <3>1 DEF CoinFiles, Names
    <3>3. o \notin Ins[t]
      BY <1>1, <2>1
    <3> QED BY <1>7, <3>1, <3>2, <3>3
  <2>4. Blank(g["unspent"])
    <3> SUFFICES ASSUME NEW o \in DOMAIN g["unspent"], g["unspent"][o].n > 0
                 PROVE  g["unspent"][o].by = << >>
      BY DEF Blank
    <3>1. CASE o \in SpentOf(t, a, "coin")
      BY <1>4, <3>1 DEF InputsUnspent
    <3>2. CASE o \notin SpentOf(t, a, "coin")
      BY <1>3, <3>2 DEF InputsUnspent, CoinFiles, Blank
    <3> QED BY <3>1, <3>2
  <2> QED BY <2>1, <2>2, <2>3, <2>4 DEF CoinFiles
<1>6. ASSUME ObjectsMove PROVE ObjectFiles(g, a, O, O)
  <2>1. ObjectFiles(f, a, O, S) /\ SpentOf(t, a, "obj") = MadeBy(O, a, "obj") \cap Ins[t]
    BY <1>2, <1>3, <1>6
  <2>2. SpentOf(t, a, "obj") \subseteq DOMAIN f["sentobjs"]
    BY <1>1, <2>1 DEF ObjectFiles
  <2> QED BY <1>1, <2>1, <2>2 DEF ObjectFiles, InputsUnspent
<1> QED BY <1>5, <1>6 DEF Exact, O

\* Files that differ in nothing but the stakes, and sets that differ in nothing
\* that touches the address.
LEMMA SameExact ==
  ASSUME NEW f, NEW g, NEW a, NEW O, NEW S, Exact(f, a, O, S), \A d \in Dirs : g[d] = f[d]
  PROVE  Exact(g, a, O, S)
<1>1. /\ g["unspent"] = f["unspent"] /\ g["spent"] = f["spent"]
      /\ g["objects"] = f["objects"] /\ g["sentobjs"] = f["sentobjs"]
  BY DEF Dirs, Parts
<1> QED BY <1>1 DEF Exact, CoinFiles, ObjectFiles

LEMMA TouchedExact ==
  ASSUME NEW f, NEW a, NEW S, S \subseteq Txs, NEW T, T \subseteq Txs, Exact(f, a, S, S),
         \A t \in Txs : a \in Touched(t) => (t \in S <=> t \in T)
  PROVE  Exact(f, a, T, T)
<1>1. ASSUME NEW kind \in {"coin", "obj"}
      PROVE  /\ MadeBy(T, a, kind) = MadeBy(S, a, kind)
             /\ MadeBy(T, a, kind) \cap SpentIn(T) = MadeBy(S, a, kind) \cap SpentIn(S)
             /\ MadeBy(T, a, kind) \ SpentIn(T) = MadeBy(S, a, kind) \ SpentIn(S)
  <2>1. MadeBy(T, a, kind) = MadeBy(S, a, kind)
    BY TouchedBy, OutputParts DEF MadeBy
  <2>2. \A o \in MadeBy(S, a, kind) : o \in SpentIn(T) <=> o \in SpentIn(S)
    <3> SUFFICES ASSUME NEW o \in MadeBy(S, a, kind)
                 PROVE  (\E t \in T : o \in Ins[t]) <=> (\E t \in S : o \in Ins[t])
      BY DEF SpentIn
    <3>1. \A t \in Txs : o \in Ins[t] => a \in Touched(t)
      BY TouchedBy DEF MadeBy
    <3> QED BY <3>1
  <2> QED BY <2>1, <2>2
<1>2. Names(f["spent"], T)
  <2> SUFFICES ASSUME NEW o \in DOMAIN f["spent"]
               PROVE  /\ f["spent"][o].by # << >> /\ Last(f["spent"][o].by) \in T
                      /\ o \in Ins[Last(f["spent"][o].by)]
                      /\ f["spent"][o].n > 0 => Len(f["spent"][o].by) = 1
    BY DEF Names
  <2> DEFINE u == Last(f["spent"][o].by)
  <2>1. /\ f["spent"][o].by # << >> /\ u \in S /\ o \in Ins[u] /\ o \in MadeBy(S, a, "coin")
        /\ f["spent"][o].n > 0 => Len(f["spent"][o].by) = 1
    BY DEF Exact, CoinFiles, Names
  <2> HIDE DEF u
  <2>2. u \in T
    BY <2>1, TouchedBy DEF MadeBy
  <2> QED BY <2>1, <2>2 DEF u
<1> QED BY <1>1, <1>2 DEF Exact, CoinFiles, ObjectFiles

LEMMA EmptyExact == \A a : Exact(NoFiles, a, {}, {})
<1> SUFFICES ASSUME NEW a PROVE Exact(NoFiles, a, {}, {})
  OBVIOUS
<1>1. \A kind : MadeBy({}, a, kind) = {}
  BY DEF MadeBy
<1>2. \A d \in {"unspent", "spent", "objects", "sentobjs"} : NoFiles[d] = Empty /\ DOMAIN NoFiles[d] = {}
  BY EmptyBook DEF Dirs, Parts
<1> QED BY <1>1, <1>2 DEF Exact, CoinFiles, ObjectFiles, Names, Blank

-----------------------------------------------------------------------------
(* Nobody but the main loop scans: the invariant *)

Alone == use.scanners = {}
\* The scan of the main loop: what it has entered of the index of addresses, and
\* how far its page goes.
Reached == Smaller(sfirst[Main], Len(adr[sadr[Main]]))
Passed == Reached - Len(spage[Main])
Read == {adr[sadr[Main]][i] : i \in 1 .. Passed}
ReadOuts == IF spc[Main] = "ins" THEN Read \cup {Head(spage[Main])} ELSE Read
PageInv ==
    /\ Len(spage[Main]) <= Reached
    /\ \A i \in 1 .. Len(spage[Main]) : spage[Main][i] = adr[sadr[Main]][Passed + i]
    /\ spc[Main] = "unlock" => sfirst[Main] >= Len(adr[sadr[Main]])
ReadInv ==
    spc[Main] \in Scanned =>
        /\ PageInv
        /\ Exact(book[sadr[Main]], sadr[Main], ReadOuts, Read)
        /\ ToSet(book[sadr[Main]]["stakes"]) = StakesOf(sadr[Main], Read)

\* The scan of the main loop finds no lock, and deletes every file.
Cleared(p) == \A d \in Parts : d \in ToSet(scut[p]) \/ book[sadr[p]][d] = NoFiles[d]
LockInv ==
    /\ \A p \in Rpc : spc[p] = "idle"
    /\ spc[Main] # "idle" => sadr[Main] \in dirs
    /\ locks \subseteq (IF spc[Main] \in {"idle", "test", "lock"} THEN {} ELSE {sadr[Main]})
    /\ spc[Main] = "clear" => Cleared(Main)

\* An address that waits for no scan has the files of what the main loop has
\* entered.
SettledOuts == IF mpc = "ins" THEN Settled \cup {Head(queue)} ELSE Settled
\* Its records of stakes are of transactions that are stored, and none is missing
\* but that of the block that is being stored.
Staked == IF mpc = "undo" THEN Indexed ELSE Stored
StakesFit(a) ==
    /\ ToSet(book[a]["stakes"]) \subseteq StakesOf(a, Staked)
    /\ \A t \in StakesOf(a, Second(chain) \cap Staked) :
            t \in ToSet(book[a]["stakes"]) \/ MainAddsStakes(t)
Ready(a) == a \in dirs \ (partial \cup todo) /\ (spc[Main] = "idle" \/ sadr[Main] # a)
Follows(a) ==
    /\ Exact(book[a], a, SettledOuts, Settled)
    /\ a \notin undone => StakesFit(a)
RestInv == \A a \in Addrs : Ready(a) => Follows(a)

AloneInv == Alone => LockInv /\ ReadInv /\ RestInv

LEMMA AloneInit == Init => AloneInv
<1> SUFFICES ASSUME Init PROVE LockInv /\ ReadInv /\ RestInv
  BY DEF AloneInv
<1>1. spc[Main] = "idle" /\ \A p \in Rpc : spc[p] = "idle"
  BY PoolParts DEF Init
<1>2. dirs = {} /\ locks = {}
  BY DEF Init
<1> QED BY <1>1, <1>2 DEF LockInv, ReadInv, RestInv, Scanned, Ready

-----------------------------------------------------------------------------
(* The main loop enters and removes transactions *)

\* A step that leaves the chain and the records alone.
LEMMA StakesStay ==
  ASSUME NEW a \in Addrs, StakesFit(a), chain' = chain, mpc' = "store" <=> mpc = "store",
         book'[a]["stakes"] = book[a]["stakes"], Staked' = Staked
  PROVE  StakesFit(a)'
<1>1. \A t : MainAddsStakes(t)' <=> MainAddsStakes(t)
  BY DEF MainAddsStakes
<1> QED BY <1>1 DEF StakesFit

LEMMA FollowsAddBlock ==
  ASSUME TypeInv, TypeInv', OrderInv, AddBlock, NEW a \in Addrs, Follows(a)
  PROVE  Follows(a)'
<1>1. /\ Stored' = Stored \cup ToSet(queue') /\ Stored \subseteq Stored' /\ Settled' = Settled
      /\ Last(chain') = queue'
  BY OrderAddBlock
<1>2. mpc = "idle" /\ mpc' = "store" /\ undone' = undone /\ book' = book
  BY DEF AddBlock, histVars
<1>3. SettledOuts' = SettledOuts
  BY <1>1, <1>2 DEF SettledOuts
<1>4. Staked = Stored /\ Staked' = Stored'
  BY <1>2 DEF Staked
<1>5. Second(chain') \subseteq Second(chain) \cup ToSet(StakeTxs(queue'))
  BY SecondNext DEF AddBlock
<1>6. Second(chain) \subseteq Stored
  BY SecondParts DEF OrderInv
<1>7. ASSUME StakesFit(a) PROVE StakesFit(a)'
  <2>1. ToSet(book'[a]["stakes"]) \subseteq StakesOf(a, Staked')
    BY <1>1, <1>2, <1>4, <1>7 DEF StakesFit, StakesOf
  <2>2. ASSUME NEW t \in StakesOf(a, Second(chain') \cap Staked')
        PROVE  t \in ToSet(book'[a]["stakes"]) \/ MainAddsStakes(t)'
    <3>1. CASE t \in Second(chain)
      <4>1. t \in StakesOf(a, Second(chain) \cap Staked) /\ ~MainAddsStakes(t)
        BY <1>2, <1>4, <1>6, <2>2, <3>1 DEF StakesOf, MainAddsStakes
      <4> QED BY <1>2, <1>7, <4>1 DEF StakesFit
    <3>2. CASE t \in ToSet(StakeTxs(queue'))
      BY <1>1, <1>2, <3>2 DEF MainAddsStakes
    <3> QED BY <1>5, <2>2, <3>1, <3>2 DEF StakesOf
  <2> QED BY <2>1, <2>2 DEF StakesFit
<1> QED BY <1>1, <1>2, <1>3, <1>7 DEF Follows

\* The index changes; then the block's record is written.
LEMMA FollowsStore ==
  ASSUME TypeInv, TypeInv', OrderInv, DelIndex \/ MoveIndex \/ TxStored \/ BlockStored,
         NEW a \in Addrs, a \in dirs, Follows(a)
  PROVE  Follows(a)'
<1>1. /\ chain' = chain /\ chain # << >> /\ mpc = "store" /\ mpc' \in {"store", "outs"}
      /\ undone' = undone
  BY DEF DelIndex, MoveIndex, TxStored, BlockStored, chainVars, mainVars, histVars, TypeInv
<1>2. Stored' = Stored /\ Settled' = Settled
  BY OrderStore
<1>3. Staked = Stored /\ Staked' = Staked /\ SettledOuts = Settled /\ SettledOuts' = Settled
  BY <1>1, <1>2 DEF Staked, SettledOuts
<1>4. CASE ~BlockStored
  <2>1. book' = book /\ mpc' = mpc
    BY <1>4 DEF DelIndex, MoveIndex, TxStored, mainVars
  <2>2. StakesFit(a) => StakesFit(a)'
    BY <1>1, <1>3, <2>1, StakesStay
  <2> QED BY <1>1, <1>2, <1>3, <2>1, <2>2 DEF Follows
<1>5. CASE BlockStored
  <2> DEFINE x == StakeTxs(Last(chain))
             f == book[a]
             g == book'[a]
  <2>1. book'[a] = AddStakes(book[a], a, x) /\ mpc' = "outs"
    BY <1>5 DEF BlockStored
  <2>2. Last(chain) \in Seq(Txs) /\ ToSet(Last(chain)) \subseteq Stored
    BY <1>1, ChainType, OrderParts DEF OrderInv
  <2>3. x \in Seq(Txs) /\ ToSet(x) \subseteq Stored
    BY <2>2, StakeTxsParts
  <2>4. IsBook(book[a])
    BY DEF TypeInv
  <2>5. \A t : MainAddsStakes(t) => t \in ToSet(x)
    BY DEF MainAddsStakes
  <2> HIDE DEF x
  <2>6. StakesAdded(f, g, a, ToSet(x))
    BY <2>1, <2>3, <2>4, StakeParts
  <2>7. Exact(f, a, Settled, Settled)
    BY <1>3 DEF Follows
  <2>8. \A d \in Dirs : g[d] = f[d]
    BY <2>6 DEF StakesAdded
  <2>9. ToSet(g["stakes"]) = ToSet(f["stakes"]) \cup StakesOf(a, ToSet(x))
    BY <2>6 DEF StakesAdded
  <2> HIDE DEF f, g
  <2>10. Exact(g, a, Settled, Settled)
    BY ONLY <2>7, <2>8, SameExact
  <2>11. ASSUME StakesFit(a) PROVE StakesFit(a)'
    <3>1. /\ ToSet(f["stakes"]) \subseteq StakesOf(a, Stored)
          /\ \A t \in StakesOf(a, Second(chain) \cap Stored) : t \in ToSet(f["stakes"]) \/ MainAddsStakes(t)
      BY <1>3, <2>11 DEF StakesFit, f
    <3>2. ToSet(g["stakes"]) \subseteq StakesOf(a, Stored)
      BY <2>3, <2>9, <3>1 DEF StakesOf
    <3>3. ASSUME NEW t \in StakesOf(a, Second(chain) \cap Stored) PROVE t \in ToSet(g["stakes"])
      BY <2>5, <2>9, <3>1, <3>3 DEF StakesOf
    <3> QED BY <1>1, <1>3, <3>2, <3>3 DEF StakesFit, g
  <2> QED BY <1>1, <1>2, <1>3, <2>10, <2>11 DEF Follows, g
<1> QED BY <1>4, <1>5

LEMMA FollowsOuts ==
  ASSUME TypeInv, TypeInv', OrderInv, StoreWalletOuts, NEW a \in Addrs, a \in dirs, Follows(a)
  PROVE  Follows(a)'
<1> DEFINE t == Head(queue)
<1>1. /\ mpc = "outs" /\ mpc' = "ins" /\ queue' = queue /\ undone' = undone /\ queue # << >>
      /\ chain' = chain /\ book'[a] = AddOutputs(book[a], a, t)
  BY DEF StoreWalletOuts, chainVars, histVars, TypeInv
<1>2. t \in Txs /\ t \notin Settled
  BY <1>1, OrderEntered
<1>3. Stored' = Stored
  BY OrderMainLoop
<1>4. Settled' = Settled /\ SettledOuts = Settled /\ SettledOuts' = Settled \cup {t}
  BY <1>1, <1>3 DEF Settled, Entered, SettledOuts
<1>5. Staked' = Staked
  BY <1>1, <1>3 DEF Staked
<1>6. OutputsAdded(book[a], book'[a], t, a)
  BY <1>1, <1>2, AddOutputsParts DEF TypeInv
<1>7. \A u \in Settled : \A o \in Ins[u] : o[1] # t
  BY <1>2, OrderParts DEF OrderInv, Closed
<1>8. Exact(book[a], a, Settled, Settled)
  BY <1>4 DEF Follows
<1> HIDE DEF t
<1>9. Exact(book'[a], a, Settled \cup {t}, Settled)
  BY ONLY <1>2, <1>6, <1>7, <1>8, AddsExact
<1>10. StakesFit(a) => StakesFit(a)'
  <2>1. book'[a]["stakes"] = book[a]["stakes"]
    BY <1>6 DEF OutputsAdded
  <2> QED BY <1>1, <1>5, <2>1, StakesStay
<1> QED BY <1>1, <1>4, <1>9, <1>10 DEF Follows

LEMMA FollowsIns ==
  ASSUME TypeInv, TypeInv', OrderInv, StoreWalletIns, NEW a \in Addrs, Follows(a)
  PROVE  Follows(a)'
<1> DEFINE t == Head(queue)
<1>1. /\ mpc = "ins" /\ mpc' \in {"idle", "outs"} /\ queue' = Tail(queue) /\ undone' = undone
      /\ queue # << >> /\ chain' = chain /\ book'[a] = SpendInputs(book[a], a, t)
  BY DEF StoreWalletIns, chainVars, histVars, TypeInv
<1>2. /\ t \in Txs /\ t \in Stored /\ t \notin Settled /\ Closed(Settled \cup {t})
      /\ Stored \ ToSet(Tail(queue)) = Settled \cup {t}
  BY <1>1, OrderEntered
<1>3. Stored' = Stored
  BY OrderMainLoop
<1>4. Settled' = Settled \cup {t} /\ SettledOuts = Settled \cup {t} /\ SettledOuts' = Settled \cup {t}
  BY <1>1, <1>2, <1>3 DEF Settled, Entered, SettledOuts
<1>5. Staked' = Staked
  BY <1>1, <1>3 DEF Staked
<1>6. InputsSpent(book[a], book'[a], t, a) /\ IsBook(book[a])
  BY <1>1, <1>2, SpendParts DEF TypeInv
<1>7. \A o \in Ins[t] : o[1] \in Settled
  <2>1. queue \in Seq(Txs) /\ Sorted(queue)
    BY <1>1 DEF TypeInv, OrderInv, QueueInv
  <2>2. \A o \in Ins[t] : o[1] \notin ToSet(queue)
    BY <1>1, <2>1, EndParts
  <2>3. t \in ToSet(queue)
    BY <1>1, <2>1, SeqParts
  <2> QED BY <1>2, <2>2, <2>3 DEF Closed
<1>8. \A u \in Settled : Ins[u] \cap Ins[t] = {}
  <2>1. SpentOnce(Stored) /\ Settled \subseteq Stored
    BY <1>1, OrderParts DEF OrderInv
  <2> QED BY <1>2, <2>1 DEF SpentOnce
<1>9. Exact(book[a], a, Settled \cup {t}, Settled)
  BY <1>4 DEF Follows
<1> HIDE DEF t
<1>10. Exact(book'[a], a, Settled \cup {t}, Settled \cup {t})
  BY ONLY <1>2, <1>6, <1>7, <1>8, <1>9, SpendsExact
<1>11. StakesFit(a) => StakesFit(a)'
  <2>1. book'[a]["stakes"] = book[a]["stakes"]
    BY <1>6 DEF InputsSpent
  <2> QED BY <1>1, <1>5, <2>1, StakesStay
<1> QED BY <1>1, <1>4, <1>10, <1>11 DEF Follows

LEMMA FollowsRemoveBlock ==
  ASSUME TypeInv, TypeInv', OrderInv, RemoveBlock \/ DelIndexes, NEW a \in Addrs, Follows(a)
  PROVE  Follows(a)'
<1>1. /\ mpc \in {"idle", "undo"} /\ mpc' = "undo" /\ undone' = undone /\ book' = book /\ chain' = chain
      /\ \/ mpc = "idle" /\ queue' = Last(chain) /\ chain # << >>
         \/ mpc = "undo" /\ queue' = queue
  BY DEF RemoveBlock, DelIndexes, chainVars, mainVars, histVars
<1>2. Stored' = Stored
  BY OrderMainLoop
<1>3. Indexed' = (Stored' \ ToSet(Last(chain'))) \cup (Stored' \cap ToSet(queue'))
  BY <1>1, StoredNext
<1>4. /\ Settled = Indexed /\ ToSet(queue) \subseteq Stored
      /\ mpc = "idle" => Indexed = Stored
      /\ mpc = "undo" => Indexed = (Stored \ ToSet(Last(chain))) \cup ToSet(queue)
      /\ chain # << >> => ToSet(Last(chain)) \subseteq Stored
  BY <1>1, OrderParts DEF OrderInv
<1>5. Indexed' = Indexed
  BY <1>1, <1>2, <1>3, <1>4
<1>6. /\ Settled' = Settled /\ SettledOuts = Settled /\ SettledOuts' = Settled
      /\ Staked = Indexed /\ Staked' = Indexed
  BY <1>1, <1>4, <1>5 DEF Settled, Entered, SettledOuts, Staked
<1>7. StakesFit(a) => StakesFit(a)'
  BY <1>1, <1>6, StakesStay
<1> QED BY <1>1, <1>6, <1>7 DEF Follows

LEMMA FollowsBlockRemoved ==
  ASSUME TypeInv, TypeInv', OrderInv, BlockRemoved, NEW a \in Addrs, Follows(a)
  PROVE  Follows(a)'
<1>1. /\ mpc = "undo" /\ mpc' = "idle" /\ queue' = << >> /\ undone' = undone /\ book' = book
      /\ chain # << >> /\ chain' = Front(chain)
  BY DEF BlockRemoved, histVars, OrderInv, QueueInv
<1>2. Stored' = Indexed /\ Indexed' = Indexed
  BY OrderBlockRemoved
<1>3. ToSet(<< >>) = {}
  BY DEF ToSet
<1>4. /\ Settled = Indexed /\ SettledOuts = Indexed /\ Settled' = Indexed /\ SettledOuts' = Indexed
      /\ Staked = Indexed /\ Staked' = Indexed
  BY <1>1, <1>2, <1>3 DEF Settled, Entered, SettledOuts, Staked
<1>5. Second(chain') \subseteq Second(chain)
  BY <1>1, SecondNext
<1>6. \A t : ~MainAddsStakes(t)
  BY <1>1 DEF MainAddsStakes
<1>7. StakesFit(a) => StakesFit(a)'
  BY <1>1, <1>4, <1>5, <1>6 DEF StakesFit, StakesOf
<1> QED BY <1>1, <1>4, <1>7 DEF Follows

LEMMA FollowsRemoveTx ==
  ASSUME TypeInv, TypeInv', OrderInv, RemoveWalletTx, NEW a \in Addrs, Follows(a)
  PROVE  Follows(a)'
<1> DEFINE t == Last(queue)
           f == book[a]
           f1 == DropOutputs(f, a, t)
           f2 == DropStake(f1, a, t)
           g == UnspendInputs(f2, a, t)
           I == Indexed
<1>1. /\ mpc = "undo" /\ mpc' = "undo" /\ queue # << >> /\ queue' = Front(queue)
      /\ undone' = undone \cup Touched(t) /\ chain' = chain
      /\ book'[a] = g
  BY DEF RemoveWalletTx
<1>2. /\ t \in Indexed /\ t \in Txs /\ Closed(Indexed \ {t})
      /\ (Stored \ ToSet(Last(chain))) \cup ToSet(Front(queue)) = Indexed \ {t}
      /\ ToSet(Front(queue)) = ToSet(queue) \ {t}
  BY <1>1, OrderLeaving
<1>3. /\ Closed(Indexed) /\ SpentOnce(Stored) /\ Indexed \subseteq Stored
      /\ Settled = Indexed /\ ToSet(queue) \subseteq Stored
  BY <1>1, OrderParts DEF OrderInv
<1>4. Indexed' = Indexed \ {t}
  <2>1. Indexed' = (Stored' \ ToSet(Last(chain'))) \cup (Stored' \cap ToSet(queue'))
    BY <1>1, StoredNext
  <2>2. Stored' = Stored
    BY OrderMainLoop
  <2>3. Indexed' = (Stored \ ToSet(Last(chain))) \cup (Stored \cap ToSet(Front(queue)))
    BY <1>1, <2>1, <2>2
  <2>4. Stored \cap ToSet(Front(queue)) = ToSet(Front(queue))
    BY <1>2, <1>3
  <2> QED BY <1>2, <2>3, <2>4
<1>5. SettledOuts = Indexed /\ Settled' = Indexed \ {t} /\ SettledOuts' = Indexed \ {t}
  BY <1>1, <1>3, <1>4 DEF Settled, Entered, SettledOuts
<1>6. \A u \in ToSet(queue) : \A o \in Ins[u] : o[1] # t
  <2>1. queue \in Seq(Txs) /\ Sorted(queue)
    BY <1>1 DEF TypeInv, OrderInv, QueueInv
  <2> QED BY <1>1, <2>1, EndParts
<1>7. \A u \in Indexed : \A o \in Ins[u] : o[1] # t
  <2>1. t \in ToSet(queue)
    BY <1>1, SeqParts DEF TypeInv
  <2> QED BY <1>2, <1>6, <2>1 DEF Closed
<1>8. /\ \A o \in Ins[t] : o[1] \in Indexed \ {t}
      /\ \A u \in Indexed \ {t} : Ins[u] \cap Ins[t] = {}
  <2>1. \A o \in Ins[t] : o[1] \in Indexed \ {t}
    BY <1>2, <1>3, <1>7 DEF Closed
  <2> QED BY <1>2, <1>3, <2>1 DEF SpentOnce
<1>9. /\ IsBook(f) /\ OutputsDropped(f, f1, t, a)
      /\ IsBook(f1) /\ StakeDropped(f1, f2, a, t)
      /\ IsBook(f2) /\ InputsUnspent(f2, g, t, a)
  <2>1. IsBook(f) /\ OutputsDropped(f, f1, t, a)
    BY <1>2, DropParts DEF TypeInv
  <2>2. IsBook(f1)
    BY <2>1 DEF OutputsDropped
  <2> HIDE DEF f1
  <2>3. StakeDropped(f1, f2, a, t)
    BY <2>2, StakeParts
  <2>4. IsBook(f2)
    BY <2>3 DEF StakeDropped
  <2> HIDE DEF f2
  <2>5. InputsUnspent(f2, g, t, a)
    BY <1>2, <2>4, UnspendParts
  <2> QED BY <2>1, <2>2, <2>3, <2>4, <2>5
<1>10. Exact(f, a, I, I) /\ (a \notin undone => StakesFit(a))
  BY <1>3, <1>5 DEF Follows
<1>20. t \in I
  BY <1>2
<1>21. /\ \A u \in I : \A o \in Ins[u] : o[1] # t
       /\ \A o \in Ins[t] : o[1] \in I \ {t}
       /\ \A u \in I \ {t} : Ins[u] \cap Ins[t] = {}
  BY <1>7, <1>8
<1> HIDE DEF t, f, f1, f2, g, I
<1>11. Exact(f1, a, I \ {t}, I)
  BY ONLY <1>2, <1>9, <1>10, <1>20, <1>21, DropsExact
<1>12. Exact(f2, a, I \ {t}, I)
  <2>1. \A d \in Dirs : f2[d] = f1[d]
    BY <1>9 DEF StakeDropped
  <2> QED BY ONLY <1>11, <2>1, SameExact
<1>13. Exact(g, a, I \ {t}, I \ {t})
  BY ONLY <1>2, <1>9, <1>12, <1>20, <1>21, UnspendsExact
<1>14. ASSUME a \notin undone' PROVE StakesFit(a)'
  <2>1. a \notin Payees(t) /\ a \notin Touched(t) /\ a \notin undone
    BY <1>1, <1>14 DEF Touched
  <2>2. g["stakes"] = f["stakes"]
    BY <1>9, <2>1 DEF OutputsDropped, StakeDropped, InputsUnspent
  <2>3. \A T : StakesOf(a, T \cap (I \ {t})) = StakesOf(a, T \cap I)
    BY <1>2, <2>1, StakerParts DEF StakesOf
  <2>4. Staked = I /\ Staked' = I \ {t}
    BY <1>1, <1>4 DEF Staked, I
  <2>5. /\ ToSet(f["stakes"]) \subseteq StakesOf(a, I)
        /\ \A u \in StakesOf(a, Second(chain) \cap I) : u \in ToSet(f["stakes"])
    BY <1>1, <1>10, <2>1, <2>4 DEF StakesFit, MainAddsStakes, f
  <2>6. StakesOf(a, I \ {t}) = StakesOf(a, I)
    <3>1. I \cap (I \ {t}) = I \ {t} /\ I \cap I = I
      OBVIOUS
    <3> QED BY <2>3, <3>1
  <2>7. /\ ToSet(book'[a]["stakes"]) \subseteq StakesOf(a, I \ {t})
        /\ \A u \in StakesOf(a, Second(chain) \cap (I \ {t})) : u \in ToSet(book'[a]["stakes"])
    BY <1>1, <2>2, <2>3, <2>5, <2>6
  <2> QED BY <1>1, <2>4, <2>7 DEF StakesFit
<1> QED BY <1>1, <1>4, <1>5, <1>13, <1>14 DEF Follows, I

MainStep == \/ AddBlock \/ BlockRemoved
            \/ DelIndex \/ MoveIndex \/ TxStored \/ BlockStored
            \/ StoreWalletOuts \/ StoreWalletIns \/ RemoveBlock \/ DelIndexes \/ RemoveWalletTx
LEMMA AloneMain ==
  ASSUME TypeInv, TypeInv', OrderInv, LockInv, RestInv, MainStep
  PROVE  LockInv' /\ ReadInv' /\ RestInv'
<1>1. /\ UNCHANGED <<dirs, todo, locks, spc, sadr, scut, partial>>
      /\ spc[Main] = "idle"
  <2>1. mpc # "idle" => spc[Main] = "idle"
    BY DEF OrderInv, QueueInv
  <2> QED BY <2>1 DEF MainStep, AddBlock, DelIndex, MoveIndex, TxStored, BlockStored, StoreWalletOuts,
                      StoreWalletIns, RemoveBlock, DelIndexes, RemoveWalletTx, BlockRemoved, scanVars,
                      histVars
<1>2. LockInv'
  BY <1>1 DEF LockInv
<1>3. ReadInv'
  BY <1>1 DEF ReadInv, Scanned
<1>4. ASSUME NEW a \in Addrs, Ready(a)' PROVE Follows(a)'
  <2>1. a \in dirs /\ Follows(a)
    BY <1>1, <1>4 DEF Ready, RestInv
  <2> QED BY <2>1, FollowsAddBlock, FollowsStore, FollowsOuts, FollowsIns, FollowsRemoveBlock,
             FollowsRemoveTx, FollowsBlockRemoved DEF MainStep
<1> QED BY <1>2, <1>3, <1>4 DEF RestInv

-----------------------------------------------------------------------------
(* Requests, and the scan of the main loop *)

LEMMA AloneRequests ==
  ASSUME TypeInv, OrderInv, Alone, LockInv, ReadInv, RestInv,
         \/ \E a \in Addrs : Import(a)
         \/ \E p \in Rpc : Rescan(p)
         \/ ScanAddresses
         \/ UNCHANGED vars
  PROVE  LockInv' /\ ReadInv' /\ RestInv'
<1>1. /\ UNCHANGED <<use, chain, adr, mpc, queue>> /\ Stored' = Stored /\ Indexed' = Indexed
  BY WaitsParts, OrderWaits DEF Waits
<1>2. /\ SettledOuts' = SettledOuts /\ Settled' = Settled
      /\ \A a \in Addrs : book' = book /\ StakesFit(a) => StakesFit(a)'
  BY <1>1, StakesStay DEF SettledOuts, Settled, Entered, Staked
<1>3. /\ UNCHANGED <<locks, book, sfirst, spage, scut, undone>>
      /\ dirs \subseteq dirs' /\ \A a \in Addrs : a \in dirs' \ dirs => a \in todo' \cup partial'
      /\ \A a \in Addrs : a \in partial => a \in partial'
  BY DEF Import, Rescan, ScanAddresses, StartScan, vars, Alone, histVars, scanVars
<1>4. \/ UNCHANGED <<spc, sadr>> /\ todo \subseteq todo'
      \/ \E b \in todo : /\ spc[Main] = "idle" /\ spc' = [spc EXCEPT ![Main] = "test"]
                         /\ sadr' = [sadr EXCEPT ![Main] = b] /\ todo' = todo \ {b}
  <2>1. CASE \E a \in Addrs : Import(a)
    BY <2>1 DEF Import, scanVars
  <2>2. CASE \E p \in Rpc : Rescan(p)
    BY <2>2 DEF Rescan, Alone
  <2>3. CASE ScanAddresses
    BY <2>3 DEF ScanAddresses, StartScan
  <2>4. CASE UNCHANGED vars
    BY <2>4 DEF vars, scanVars
  <2> QED BY <2>1, <2>2, <2>3, <2>4
<1>5. /\ spc \in [Threads -> ScanSteps] /\ sadr \in [Threads -> Addrs] /\ todo \subseteq dirs
      /\ Main \in Threads /\ Main \notin Rpc /\ Rpc \subseteq Threads
  BY PoolParts DEF TypeInv
<1>6. \A a \in Addrs : Ready(a)' => Ready(a)
  BY <1>3, <1>4, <1>5 DEF Ready
<1>7. \A a \in Addrs : Follows(a) => Follows(a)'
  BY <1>1, <1>2, <1>3 DEF Follows
<1>8. RestInv'
  BY <1>6, <1>7 DEF RestInv
<1>9. LockInv'
  <2>1. spc[Main] # "clear" => spc'[Main] # "clear"
    BY <1>4, <1>5
  <2>2. spc[Main] = "clear" => Cleared(Main)'
    <3>1. spc[Main] = "clear" => sadr' = sadr
      BY <1>4
    <3> QED BY <1>3, <3>1 DEF LockInv, Cleared
  <2>3. spc'[Main] # "idle" => sadr'[Main] \in dirs'
    BY <1>3, <1>4, <1>5 DEF LockInv
  <2>4. \A p \in Rpc : spc'[p] = "idle"
    BY <1>4, <1>5 DEF LockInv
  <2>5. locks' \subseteq (IF spc'[Main] \in {"idle", "test", "lock"} THEN {} ELSE {sadr'[Main]})
    BY <1>3, <1>4, <1>5 DEF LockInv
  <2> QED BY <2>1, <2>2, <2>3, <2>4, <2>5 DEF LockInv
<1>10. ReadInv'
  <2>1. CASE UNCHANGED <<spc, sadr>>
    <3>1. Reached' = Reached
      BY <1>1, <1>3, <2>1 DEF Reached
    <3>2. Passed' = Passed
      BY <1>3, <3>1 DEF Passed
    <3>3. Read' = Read
      BY <1>1, <2>1, <3>2 DEF Read
    <3>4. ReadOuts' = ReadOuts /\ PageInv' = PageInv
      BY <1>1, <1>3, <2>1, <3>1, <3>2, <3>3 DEF ReadOuts, PageInv
    <3> QED BY <1>1, <1>3, <2>1, <3>3, <3>4 DEF ReadInv
  <2>2. CASE spc' = [spc EXCEPT ![Main] = "test"]
    BY <1>5, <2>2 DEF ReadInv, Scanned
  <2> QED BY <1>4, <2>1, <2>2
<1> QED BY <1>8, <1>9, <1>10

\* What the scan of the main loop has read of the index, and the transaction it
\* is at.
LEMMA ReadParts ==
  ASSUME TypeInv, OrderInv, LockInv, spc[Main] \in Scanned, PageInv
  PROVE  LET a == sadr[Main] t == Head(spage[Main])
         IN  /\ a \in Addrs /\ a \in dirs /\ mpc = "idle" /\ gone = {}
             /\ Settled = Stored /\ Indexed = Stored /\ SettledOuts = Stored /\ SpentOnce(Stored)
             /\ adr[a] \in Seq(Txs) /\ Len(adr[a]) \in Nat /\ sfirst[Main] \in Nat
             /\ ToSet(adr[a]) = {u \in Stored : a \in Touched(u)} /\ ToSet(adr[a]) = {adr[a][i] : i \in 1 .. Len(adr[a])}
             /\ spage[Main] \in Seq(Txs) /\ Len(spage[Main]) \in Nat
             /\ Passed \in Nat /\ Reached \in Nat /\ Reached <= Len(adr[a]) /\ Reached <= sfirst[Main]
             /\ Reached = Passed + Len(spage[Main])
             /\ Read \subseteq ToSet(adr[a])
             /\ spc[Main] \in {"outs", "ins"} =>
                /\ Len(spage[Main]) > 0 /\ t = adr[a][Passed + 1] /\ t \in Txs /\ t \in Stored
                /\ \A u \in Read : u # t /\ \A o \in Ins[u] : o[1] # t
                /\ \A o \in Ins[t] : a \in Touched(o[1]) => o[1] \in Read
<1> DEFINE a == sadr[Main]
           t == Head(spage[Main])
           s == adr[a]
           r == spage[Main]
<1>1. a \in Addrs /\ s \in Seq(Txs) /\ r \in Seq(Txs) /\ sfirst[Main] \in Nat /\ IsBook(book[a])
  BY PoolParts DEF TypeInv
<1>2. mpc = "idle" /\ a \in dirs /\ gone = {}
  BY DEF OrderInv, QueueInv, LockInv, Scanned
<1>3. /\ Settled = Stored /\ Indexed = Stored /\ SettledOuts = Stored /\ SpentOnce(Stored)
      /\ Closed(Stored) /\ Stored \subseteq Txs
  BY <1>2, OrderParts DEF OrderInv, SettledOuts
<1>4. ToSet(s) = {u \in Stored : a \in Touched(u)} /\ Sorted(s) /\ Once(s)
  BY <1>1, <1>2, <1>3 DEF OrderInv, IndexInv, Listed
<1>5. /\ Len(s) \in Nat /\ ToSet(s) = {s[i] : i \in 1 .. Len(s)} /\ Len(r) \in Nat
      /\ r # << >> => Len(r) > 0 /\ Head(r) = r[1] /\ Head(r) \in Txs
  BY <1>1, SeqParts
<1>6. Reached \in Nat /\ Reached <= Len(s) /\ Reached <= sfirst[Main]
  BY <1>1, <1>5 DEF Reached, Smaller
<1>7. Len(r) <= Reached /\ Passed = Reached - Len(r)
  BY DEF PageInv, Passed
<1>8. Passed \in Nat /\ Reached = Passed + Len(r)
  BY <1>5, <1>6, <1>7
<1>9. Read = {s[i] : i \in 1 .. Passed} /\ Read \subseteq ToSet(s)
  BY <1>5, <1>6, <1>8 DEF Read
<1>10. ASSUME spc[Main] \in {"outs", "ins"}
       PROVE  /\ Len(r) > 0 /\ t = s[Passed + 1] /\ t \in Txs /\ Passed + 1 \in 1 .. Len(s)
  <2>1. r # << >>
    BY <1>10, PoolParts DEF TypeInv
  <2>2. \A i \in 1 .. Len(r) : r[i] = s[Passed + i]
    BY DEF PageInv
  <2> QED BY <1>5, <1>6, <1>8, <2>1, <2>2
<1>11. ASSUME spc[Main] \in {"outs", "ins"}
       PROVE  /\ t \in Stored
              /\ \A u \in Read : u # t /\ \A o \in Ins[u] : o[1] # t
              /\ \A o \in Ins[t] : a \in Touched(o[1]) => o[1] \in Read
  <2>1. t = s[Passed + 1] /\ Passed + 1 \in 1 .. Len(s)
    BY <1>10, <1>11
  <2> HIDE DEF t, s, r, a
  <2>2. t \in Stored
    BY <1>4, <1>5, <2>1
  <2>3. ASSUME NEW u \in Read PROVE u # t /\ \A o \in Ins[u] : o[1] # t
    <3>1. PICK i \in 1 .. Passed : u = s[i]
      BY <1>9
    <3>2. i \in 1 .. Len(s) /\ i < Passed + 1
      BY <1>8, <2>1, <1>5
    <3>3. i # Passed + 1 /\ ~(Passed + 1 < i)
      BY <1>8, <3>2
    <3> QED BY <1>4, <2>1, <3>1, <3>2, <3>3 DEF Once, Sorted
  <2>4. ASSUME NEW o \in Ins[t], a \in Touched(o[1]) PROVE o[1] \in Read
    <3>1. o[1] \in Stored
      BY <1>3, <2>2 DEF Closed
    <3>2. PICK j \in 1 .. Len(s) : o[1] = s[j]
      BY <1>4, <1>5, <2>4, <3>1
    <3>3. j < Passed + 1
      BY <1>4, <2>1, <3>2 DEF Sorted
    <3>4. j \in 1 .. Passed
      BY <1>8, <3>3
    <3> QED BY <1>9, <3>2, <3>4
  <2> QED BY <2>2, <2>3, <2>4
<1> QED BY <1>1, <1>2, <1>3, <1>4, <1>5, <1>6, <1>8, <1>9, <1>10, <1>11

\* What a step of the scan leaves alone.
LEMMA AloneScanFrame ==
  ASSUME TypeInv, OrderInv, LockInv, RestInv, ScanStep(Main)
  PROVE  /\ \A p \in Rpc : spc'[p] = "idle"
         /\ sadr' = sadr /\ adr' = adr /\ dirs \subseteq dirs' /\ sadr[Main] \in dirs
         /\ Stored' = Stored /\ Indexed' = Indexed
         /\ \A b \in Addrs \ {sadr[Main]} : Ready(b)' => Follows(b)'
<1>1. Main \in Threads /\ sadr[Main] \in Addrs /\ \A p \in Rpc : p \in Threads \ {Main}
  BY PoolParts DEF TypeInv
<1>2. /\ UNCHANGED <<use, chain, adr, removed, mpc, queue, todo, sadr>>
      /\ \A q \in Threads \ {Main} : spc'[q] = spc[q]
      /\ \A b \in Addrs \ {sadr[Main]} : /\ book'[b] = book[b]
                                         /\ b \in dirs' <=> b \in dirs
                                         /\ b \in partial' <=> b \in partial
                                         /\ b \in undone' <=> b \in undone
      /\ dirs \subseteq dirs' /\ Stored' = Stored /\ Indexed' = Indexed
  BY <1>1, ScanFrame
<1>3. spc[Main] # "idle"
  BY DEF ScanStep, TestLock, PutLock, Clear, MakeDir, Load, StoreTxOuts, StoreTxGone, StoreTxIns, Unlock
<1>4. /\ Settled' = Settled /\ SettledOuts' = SettledOuts
      /\ \A b \in Addrs : book'[b] = book[b] /\ StakesFit(b) => StakesFit(b)'
  BY <1>2, StakesStay DEF Settled, Entered, SettledOuts, Staked
<1>5. ASSUME NEW b \in Addrs \ {sadr[Main]}, Ready(b)' PROVE Follows(b)'
  <2>1. Ready(b)
    BY <1>2, <1>5 DEF Ready
  <2>2. Follows(b)
    BY <2>1 DEF RestInv
  <2> QED BY <1>2, <1>4, <2>2 DEF Follows
<1>6. \A p \in Rpc : spc'[p] = "idle"
  BY <1>1, <1>2 DEF LockInv
<1> QED BY <1>2, <1>3, <1>5, <1>6 DEF LockInv

\* Up to the deletion of the last file.
LEMMA AloneStart ==
  ASSUME TypeInv, OrderInv, LockInv, RestInv, TestLock(Main) \/ PutLock(Main) \/ Clear(Main)
  PROVE  LockInv' /\ ReadInv' /\ RestInv'
<1> DEFINE a == sadr[Main]
<1>1. ScanStep(Main)
  BY DEF ScanStep
<1>2. /\ \A p \in Rpc : spc'[p] = "idle"
      /\ sadr' = sadr /\ dirs \subseteq dirs' /\ a \in dirs
      /\ \A b \in Addrs \ {a} : Ready(b)' => Follows(b)'
  BY <1>1, AloneScanFrame
<1>3. /\ spc \in [Threads -> ScanSteps] /\ scut \in [Threads -> Seq(Parts)] /\ Main \in Threads
      /\ a \in Addrs /\ book = [b \in Addrs |-> book[b]] /\ IsBook(book[a])
      /\ scut[Main] \in Seq(Parts)
  BY PoolParts DEF TypeInv
<1>4. spc'[Main] \in {"lock", "clear"}
  BY <1>3 DEF TestLock, PutLock, Clear, LockInv
<1>5. ReadInv'
  BY <1>4 DEF ReadInv, Scanned
<1>6. RestInv'
  BY <1>2, <1>4 DEF RestInv, Ready
<1>7. locks' \subseteq (IF spc'[Main] = "lock" THEN {} ELSE {a})
  BY <1>3 DEF TestLock, PutLock, Clear, LockInv
<1>8. ASSUME spc'[Main] = "clear" PROVE Cleared(Main)'
  <2>1. CASE PutLock(Main)
    <3>1. scut'[Main] = ClearedParts
      BY <1>2, <1>3, <2>1 DEF PutLock
    <3>2. ToSet(ClearedParts) = Parts
      <4>1. ClearedParts \in Seq(Parts) /\ Len(ClearedParts) = 5
        BY DEF ClearedParts, Parts
      <4>2. ToSet(ClearedParts) = {ClearedParts[i] : i \in 1 .. 5}
        BY <4>1, SeqParts
      <4> QED BY <4>2 DEF ClearedParts, Parts
    <3> QED BY <3>1, <3>2 DEF Cleared
  <2>2. CASE Clear(Main)
    <3> DEFINE c == scut[Main]
               d == Head(c)
    <3>1. /\ c # << >> /\ scut'[Main] = Tail(c) /\ spc[Main] = "clear"
          /\ book' = [book EXCEPT ![a][d] = NoFiles[d]]
      BY <1>3, <2>2 DEF Clear
    <3>2. ToSet(c) = ToSet(Tail(c)) \cup {d} /\ d \in Parts
      BY <1>3, <3>1, SeqParts
    <3> HIDE DEF c, d
    <3>3. book'[a] = [book[a] EXCEPT ![d] = NoFiles[d]]
      BY <1>3, <3>1
    <3>4. book'[a][d] = NoFiles[d] /\ \A e \in Parts \ {d} : book'[a][e] = book[a][e]
      BY <1>3, <3>2, <3>3 DEF IsBook
    <3>5. \A e \in Parts : e \in ToSet(c) \/ book[a][e] = NoFiles[e]
      BY <3>1 DEF LockInv, Cleared, c
    <3>6. \A e \in Parts : e \in ToSet(Tail(c)) \/ book'[a][e] = NoFiles[e]
      BY <3>2, <3>4, <3>5
    <3> QED BY <1>2, <3>1, <3>6 DEF Cleared
  <2>3. CASE TestLock(Main)
    BY <1>3, <1>8, <2>3 DEF TestLock
  <2> QED BY <2>1, <2>2, <2>3
<1> QED BY <1>2, <1>4, <1>5, <1>6, <1>7, <1>8 DEF LockInv

\* Nothing is entered yet.
LEMMA AloneMakeDir ==
  ASSUME TypeInv, OrderInv, LockInv, MakeDir(Main)
  PROVE  ReadInv'
<1> DEFINE a == sadr[Main]
<1>1. /\ spc[Main] = "clear" /\ spc'[Main] = "load" /\ scut[Main] = << >> /\ sfirst'[Main] = 0
      /\ sadr' = sadr /\ adr' = adr /\ spage' = spage /\ book' = book
  BY PoolParts DEF MakeDir, TypeInv, chainVars
<1>2. /\ spage[Main] = << >> /\ a \in Addrs /\ adr[a] \in Seq(Txs) /\ IsBook(book[a]) /\ Main \in Threads
  BY <1>1, PoolParts DEF TypeInv
<1>3. Len(adr[a]) \in Nat /\ Len(spage[Main]) = 0
  BY <1>2, SeqParts
<1>4. Reached' = 0
  BY <1>1, <1>3 DEF Reached, Smaller
<1>5. Passed' = 0
  BY <1>1, <1>3, <1>4 DEF Passed
<1>6. Read' = {} /\ ReadOuts' = {}
  BY <1>1, <1>5 DEF Read, ReadOuts
<1>7. PageInv'
  BY <1>1, <1>3, <1>4 DEF PageInv
<1>8. \A d \in Parts : book[a][d] = NoFiles[d]
  BY <1>1 DEF LockInv, Cleared, ToSet
<1>9. Exact(book[a], a, {}, {})
  <2>1. \A d \in Dirs : book[a][d] = NoFiles[d]
    BY <1>8 DEF Dirs
  <2>2. Exact(NoFiles, a, {}, {})
    BY EmptyExact
  <2> QED BY ONLY <2>1, <2>2, SameExact
<1>10. ToSet(book[a]["stakes"]) = StakesOf(a, {})
  BY <1>8, EmptyBook DEF Parts, ToSet, StakesOf
<1> QED BY <1>1, <1>6, <1>7, <1>9, <1>10 DEF ReadInv

LEMMA AloneLoad ==
  ASSUME TypeInv, OrderInv, LockInv, ReadInv, Load(Main)
  PROVE  ReadInv'
<1> DEFINE a == sadr[Main]
           s == adr[a]
           n == sfirst[Main]
           page == LoadPage(a, n)
           last == Smaller(n + Page, Len(s))
<1>0. gone = {}
  <2>1. spc[Main] = "load"
    BY DEF Load
  <2>2. PageInv
    BY <2>1 DEF ReadInv, Scanned
  <2> QED BY <2>1, <2>2, ReadParts DEF Scanned
<1>1. /\ spc[Main] = "load" /\ sadr' = sadr /\ adr' = adr /\ book' = book
      /\ spage'[Main] = page /\ sfirst'[Main] = n + Page
      /\ spc'[Main] = IF page = << >> THEN "unlock" ELSE "outs"
  BY <1>0, PoolParts DEF Load, TypeInv, chainVars
<1>2. PageInv /\ Exact(book[a], a, ReadOuts, Read) /\ ToSet(book[a]["stakes"]) = StakesOf(a, Read)
  BY <1>1 DEF ReadInv, Scanned
<1>3. /\ a \in Addrs /\ s \in Seq(Txs) /\ Len(s) \in Nat /\ n \in Nat
      /\ ToSet(s) = {u \in Indexed : a \in Touched(u)} /\ Passed \in Nat /\ Reached = Passed + Len(spage[Main])
  BY <1>1, <1>2, ReadParts DEF Scanned
<1>4. Only(s, Indexed) = s
  <2>1. \A k \in 1 .. Len(s) : s[k] \in Indexed
    BY <1>3, SeqParts
  <2> QED BY <1>3, <2>1, OnlyParts
<1>5. /\ n >= Len(s) => page = << >>
      /\ n < Len(s) => /\ page # << >> /\ Len(page) = last - n
                       /\ \A i \in 1 .. last - n : page[i] = s[n + i]
  BY <1>3, <1>4, PageParts
<1>6. spage[Main] = << >>
  BY <1>1, PoolParts DEF TypeInv
<1>7. Passed = Smaller(n, Len(s)) /\ Reached = Smaller(n, Len(s))
  BY <1>3, <1>6 DEF Reached
<1>8. Reached' = last
  BY <1>1 DEF Reached
<1>9. Passed' = last - Len(page)
  BY <1>1, <1>8 DEF Passed
<1>10. Page \in Nat /\ Page > 0
  BY PoolParts
<1> HIDE DEF page, s, n, a
<1>11. CASE n >= Len(s)
  <2>1. last = Len(s) /\ Smaller(n, Len(s)) = Len(s) /\ Len(page) = 0
    BY <1>3, <1>5, <1>10, <1>11 DEF Smaller
  <2>2. Passed' = Passed /\ Len(spage'[Main]) = 0 /\ Reached' = Len(s) /\ sfirst'[Main] >= Len(s)
    BY <1>1, <1>3, <1>7, <1>8, <1>9, <1>10, <1>11, <2>1
  <2>3. Read' = Read
    BY <1>1, <2>2 DEF Read
  <2>4. ReadOuts' = Read /\ ReadOuts = Read
    BY <1>1, <1>5, <1>11, <2>3 DEF ReadOuts
  <2>5. PageInv'
    BY <1>1, <1>3, <2>2 DEF PageInv, s, a
  <2> QED BY <1>1, <1>2, <2>3, <2>4, <2>5 DEF ReadInv, a
<1>12. CASE n < Len(s)
  <2>1. last \in Nat /\ n < last /\ Smaller(n, Len(s)) = n /\ Len(page) = last - n
    BY <1>3, <1>5, <1>10, <1>12 DEF Smaller
  <2>2. Passed' = Passed /\ Passed = n
    BY <1>3, <1>7, <1>9, <2>1
  <2>3. Read' = Read
    BY <1>1, <2>2 DEF Read
  <2>4. ReadOuts' = Read /\ ReadOuts = Read /\ spc'[Main] = "outs"
    BY <1>1, <1>5, <1>12, <2>3 DEF ReadOuts
  <2>5. \A i \in 1 .. Len(page) : page[i] = s[n + i]
    BY <1>5, <1>12, <2>1
  <2>6. PageInv'
    <3>1. Len(page) <= last
      BY <1>3, <2>1
    <3>2. Len(spage'[Main]) <= Reached'
      BY <1>1, <1>8, <3>1
    <3>3. \A i \in 1 .. Len(spage'[Main]) : spage'[Main][i] = s[Passed' + i]
      BY <1>1, <2>2, <2>5
    <3> QED BY <1>1, <2>4, <3>2, <3>3 DEF PageInv, s, a
  <2> QED BY <1>1, <1>2, <2>3, <2>4, <2>6 DEF ReadInv, a
<1> QED BY <1>3, <1>11, <1>12

LEMMA AloneStoreOuts ==
  ASSUME TypeInv, OrderInv, LockInv, ReadInv, StoreTxOuts(Main)
  PROVE  ReadInv'
<1> DEFINE a == sadr[Main]
           t == Head(spage[Main])
           f == book[a]
           g == AddOutputs(f, a, t)
<1>1. /\ spc[Main] = "outs" /\ spc'[Main] = "ins" /\ sadr' = sadr /\ adr' = adr /\ sfirst' = sfirst /\ spage' = spage
      /\ book'[a] = g
  BY PoolParts DEF StoreTxOuts, TypeInv, chainVars
<1>2. PageInv /\ Exact(f, a, ReadOuts, Read) /\ ToSet(f["stakes"]) = StakesOf(a, Read)
  BY <1>1 DEF ReadInv, Scanned
<1>3. /\ a \in Addrs /\ t \in Txs /\ \A u \in Read : \A o \in Ins[u] : o[1] # t
  BY <1>1, <1>2, ReadParts DEF Scanned
<1>4. Reached' = Reached
  BY <1>1 DEF Reached
<1>5. Passed' = Passed
  BY <1>1, <1>4 DEF Passed
<1>6. Read' = Read
  BY <1>1, <1>5 DEF Read
<1>7. ReadOuts = Read /\ ReadOuts' = Read \cup {t}
  BY <1>1, <1>6 DEF ReadOuts
<1>8. PageInv'
  BY <1>1, <1>2, <1>4, <1>5 DEF PageInv
<1>9. OutputsAdded(f, g, t, a)
  BY <1>3, AddOutputsParts DEF TypeInv
<1>10. Exact(f, a, Read, Read)
  BY <1>2, <1>7
<1> HIDE DEF a, t, f, g
<1>11. Exact(g, a, Read \cup {t}, Read)
  BY ONLY <1>3, <1>9, <1>10, AddsExact
<1>12. g["stakes"] = f["stakes"]
  BY <1>9 DEF OutputsAdded
<1> QED BY <1>1, <1>2, <1>6, <1>7, <1>8, <1>11, <1>12 DEF ReadInv, a

LEMMA AloneStoreIns ==
  ASSUME TypeInv, OrderInv, LockInv, ReadInv, StoreTxIns(Main)
  PROVE  ReadInv'
<1> DEFINE a == sadr[Main]
           t == Head(spage[Main])
           f == book[a]
           g == SpendInputs(f, a, t)
           h == AddStakes(g, a, <<t>>)
           r == spage[Main]
           s == adr[a]
<1>1. /\ spc[Main] = "ins" /\ sadr' = sadr /\ adr' = adr /\ sfirst' = sfirst /\ spage'[Main] = Tail(r)
      /\ book'[a] = h /\ spc'[Main] = IF Tail(r) = << >> THEN "load" ELSE "outs"
  BY PoolParts DEF StoreTxIns, NextTx, TypeInv, chainVars
<1>2. PageInv /\ Exact(f, a, ReadOuts, Read) /\ ToSet(f["stakes"]) = StakesOf(a, Read)
  BY <1>1 DEF ReadInv, Scanned
<1>3. /\ a \in Addrs /\ s \in Seq(Txs) /\ Len(s) \in Nat /\ r \in Seq(Txs) /\ Len(r) \in Nat /\ Len(r) > 0
      /\ Passed \in Nat /\ Reached \in Nat /\ Reached <= Len(s) /\ Reached = Passed + Len(r)
      /\ Read \subseteq ToSet(s) /\ ToSet(s) = {u \in Stored : a \in Touched(u)} /\ SpentOnce(Stored)
      /\ t = s[Passed + 1] /\ t \in Txs /\ t \in Stored
      /\ \A u \in Read : u # t
      /\ \A o \in Ins[t] : a \in Touched(o[1]) => o[1] \in Read
  BY <1>1, <1>2, ReadParts DEF Scanned
<1>4. /\ Tail(r) \in Seq(Txs) /\ Len(Tail(r)) = Len(r) - 1 /\ \A i \in 1 .. Len(r) - 1 : Tail(r)[i] = r[i + 1]
  <2>1. r # << >>
    <3>1. Len(<< >>) = 0
      OBVIOUS
    <3> QED BY <1>3, <3>1
  <2> QED BY <1>3, <2>1, SeqParts
<1>5. InputsSpent(f, g, t, a) /\ IsBook(f)
  BY <1>3, SpendParts DEF TypeInv
<1>6. StakesAdded(g, h, a, {t})
  <2>1. IsBook(g)
    BY <1>5 DEF InputsSpent
  <2> HIDE DEF g, t, a
  <2>2. <<t>> \in Seq(Txs) /\ ToSet(<<t>>) = {t}
    BY <1>3 DEF ToSet
  <2>3. StakesAdded(g, AddStakes(g, a, <<t>>), a, ToSet(<<t>>))
    BY <2>1, <2>2, StakeParts
  <2> QED BY <2>2, <2>3
<1>7. Reached' = Reached
  BY <1>1 DEF Reached
<1>8. Passed' = Passed + 1
  <2>1. Passed' = Reached - (Len(r) - 1)
    BY <1>1, <1>4, <1>7 DEF Passed
  <2> HIDE DEF r, s, t, f, g, h, a
  <2>2. \A m, n, k \in Nat : m = n + k => m - (k - 1) = n + 1
    OBVIOUS
  <2> QED BY <1>3, <2>1, <2>2
<1>9. Read' = Read \cup {t}
  <2>1. Read = {s[i] : i \in 1 .. Passed} /\ Read' = {s[i] : i \in 1 .. Passed + 1}
    BY <1>1, <1>8 DEF Read
  <2>2. 1 .. Passed + 1 = (1 .. Passed) \cup {Passed + 1}
    BY <1>3
  <2> HIDE DEF s, t
  <2> QED BY <1>3, <2>1, <2>2
<1>10. ReadOuts = Read \cup {t} /\ ReadOuts' = Read \cup {t}
  BY <1>1, <1>9 DEF ReadOuts
<1>11. PageInv'
  <2>1. Len(spage'[Main]) <= Reached'
    BY <1>1, <1>3, <1>4, <1>7
  <2>2. \A i \in 1 .. Len(r) : r[i] = s[Passed + i]
    BY <1>2 DEF PageInv
  <2>3. ASSUME NEW i \in 1 .. Len(r) - 1 PROVE Tail(r)[i] = s[Passed + 1 + i]
    <3>1. i + 1 \in 1 .. Len(r) /\ Passed + (i + 1) = Passed + 1 + i
      BY <1>3
    <3> QED BY <1>4, <2>2, <3>1
  <2>4. \A i \in 1 .. Len(spage'[Main]) : spage'[Main][i] = s[Passed' + i]
    BY <1>1, <1>4, <1>8, <2>3
  <2>5. spc'[Main] # "unlock"
    BY <1>1
  <2> QED BY <1>1, <2>1, <2>4, <2>5 DEF PageInv
<1>12. Exact(f, a, Read \cup {t}, Read)
  BY <1>2, <1>10
<1>13. \A o \in Ins[t] : Out(o).to = a /\ Out(o).kind \in {"coin", "obj"} => o[1] \in Read
  <2>1. Ins[t] \subseteq Output
    BY <1>3, PoolParts
  <2> HIDE DEF a, t
  <2>2. \A o \in Output : Out(o).to = a /\ Out(o).kind \in {"coin", "obj"} => a \in Touched(o[1])
    BY TouchedBy
  <2> QED BY <1>3, <2>1, <2>2
<1>14. \A u \in Read : Ins[u] \cap Ins[t] = {}
  BY <1>3 DEF SpentOnce
<1> HIDE DEF t, f, g, h, r, s
<1>15. Exact(g, a, Read \cup {t}, Read \cup {t})
  BY ONLY <1>3, <1>5, <1>12, <1>13, <1>14, SpendsExact
<1>16. Exact(h, a, Read \cup {t}, Read \cup {t})
  <2>1. \A d \in Dirs : h[d] = g[d]
    BY <1>6 DEF StakesAdded
  <2> QED BY ONLY <1>15, <2>1, SameExact
<1>17. ToSet(h["stakes"]) = StakesOf(a, Read \cup {t})
  <2>1. ToSet(h["stakes"]) = ToSet(g["stakes"]) \cup StakesOf(a, {t}) /\ g["stakes"] = f["stakes"]
    BY <1>5, <1>6 DEF StakesAdded, InputsSpent
  <2> QED BY <1>2, <2>1 DEF StakesOf
<1> QED BY <1>1, <1>9, <1>10, <1>11, <1>16, <1>17 DEF ReadInv

\* A scan that ends has entered what the chain has of the address.
LEMMA AloneUnlock ==
  ASSUME TypeInv, OrderInv, LockInv, ReadInv, Unlock(Main), NEW a \in Addrs, a = sadr[Main]
  PROVE  Follows(a)'
<1>1. /\ spc[Main] = "unlock" /\ book' = book /\ UNCHANGED <<mpc, queue, chain, adr>>
  BY DEF Unlock, chainVars, mainVars
<1>2. PageInv /\ Exact(book[a], a, ReadOuts, Read) /\ ToSet(book[a]["stakes"]) = StakesOf(a, Read)
  BY <1>1 DEF ReadInv, Scanned
<1>3. /\ Settled = Stored /\ Indexed = Stored /\ SettledOuts = Stored
      /\ Len(adr[a]) \in Nat /\ sfirst[Main] \in Nat
      /\ ToSet(adr[a]) = {u \in Stored : a \in Touched(u)} /\ ToSet(adr[a]) = {adr[a][i] : i \in 1 .. Len(adr[a])}
      /\ Reached = Passed + Len(spage[Main]) /\ Passed \in Nat
  BY <1>1, <1>2, ReadParts DEF Scanned
<1>4. Passed = Len(adr[a])
  <2>1. Len(spage[Main]) = 0
    <3>1. spage[Main] = << >>
      BY <1>1, PoolParts DEF TypeInv
    <3> QED BY <3>1
  <2>2. sfirst[Main] >= Len(adr[a])
    BY <1>1, <1>2 DEF PageInv
  <2> QED BY <1>3, <2>1, <2>2 DEF Reached, Smaller
<1>5. Read = {u \in Stored : a \in Touched(u)} /\ ReadOuts = Read
  BY <1>1, <1>3, <1>4 DEF Read, ReadOuts
<1>6. Stored \subseteq Txs
  BY StoredParts
<1>7. Exact(book[a], a, Stored, Stored)
  <2>1. Exact(book[a], a, Read, Read) /\ Read \subseteq Txs
    BY <1>2, <1>5, <1>6
  <2>2. \A t \in Txs : a \in Touched(t) => (t \in Read <=> t \in Stored)
    BY <1>5
  <2> QED BY ONLY <1>6, <2>1, <2>2, TouchedExact
<1>8. StakesOf(a, Read) = StakesOf(a, Stored)
  BY <1>5, <1>6, StakerParts DEF StakesOf
<1>9. /\ Stored' = Stored /\ Indexed' = Indexed
  <2>1. ScanStep(Main)
    BY DEF ScanStep
  <2> QED BY <2>1, ScanFrame, PoolParts
<1>10. mpc = "idle"
  BY <1>1 DEF OrderInv, QueueInv
<1>11. Settled' = Stored /\ SettledOuts' = Stored /\ Staked' = Stored
  BY <1>1, <1>3, <1>9, <1>10 DEF Settled, Entered, SettledOuts, Staked
<1>12. StakesFit(a)'
  BY <1>1, <1>2, <1>8, <1>11 DEF StakesFit, StakesOf
<1> QED BY <1>1, <1>7, <1>11, <1>12 DEF Follows

LEMMA AloneScan ==
  ASSUME TypeInv, OrderInv, LockInv, ReadInv, RestInv, ScanStep(Main)
  PROVE  LockInv' /\ ReadInv' /\ RestInv'
<1> DEFINE a == sadr[Main]
<1>1. /\ \A p \in Rpc : spc'[p] = "idle"
      /\ sadr' = sadr /\ dirs \subseteq dirs' /\ a \in dirs
      /\ \A b \in Addrs \ {a} : Ready(b)' => Follows(b)'
  BY AloneScanFrame
<1>2. a \in Addrs /\ spc \in [Threads -> ScanSteps] /\ Main \in Threads
  BY PoolParts DEF TypeInv
<1>3. CASE TestLock(Main) \/ PutLock(Main) \/ Clear(Main)
  BY <1>3, AloneStart
<1>4. CASE MakeDir(Main) \/ Load(Main) \/ StoreTxOuts(Main) \/ StoreTxIns(Main)
  <2>1. spc'[Main] \in Scanned /\ locks' = locks /\ spc[Main] \in Scanned \cup {"clear"}
    BY <1>2, <1>4 DEF MakeDir, Load, StoreTxOuts, StoreTxIns, NextTx, Scanned
  <2>2. LockInv'
    BY <1>1, <2>1 DEF LockInv, Scanned
  <2>3. RestInv'
    BY <1>1, <2>1 DEF RestInv, Ready, Scanned
  <2> QED BY <1>4, <2>2, <2>3, AloneMakeDir, AloneLoad, AloneStoreOuts, AloneStoreIns
<1>5. CASE StoreTxGone(Main)
  <2>1. spc[Main] = "outs" /\ ~Loadable(Head(spage[Main]))
    BY <1>5 DEF StoreTxGone
  <2>2. PageInv
    BY <2>1 DEF ReadInv, Scanned
  <2>3. Head(spage[Main]) \in Indexed
    BY <2>1, <2>2, ReadParts DEF Scanned
  <2> QED BY <2>1, <2>3 DEF Indexed
<1>6. CASE Unlock(Main)
  <2>1. spc'[Main] = "idle" /\ locks' = locks \ {a} /\ spc[Main] = "unlock"
    BY <1>2, <1>6 DEF Unlock, RmAddrScan
  <2>2. LockInv'
    BY <1>1, <2>1 DEF LockInv
  <2>3. ReadInv'
    BY <2>1 DEF ReadInv, Scanned
  <2>4. ASSUME NEW b \in Addrs, b = a PROVE Follows(b)'
    BY <1>6, <2>4, AloneUnlock
  <2>5. RestInv'
    BY <1>1, <2>4 DEF RestInv
  <2> QED BY <2>2, <2>3, <2>5
<1> QED BY <1>3, <1>4, <1>5, <1>6 DEF ScanStep

LEMMA AloneStep ==
  ASSUME TypeInv, OrderInv, AloneInv, [Next]_vars
  PROVE  AloneInv'
<1> SUFFICES ASSUME Alone' PROVE LockInv' /\ ReadInv' /\ RestInv'
  BY DEF AloneInv
<1>1. TypeInv'
  BY TypeStep
<1>2. use' = use
  BY DEF Next, MainLoop, AddBlock, DelIndex, MoveIndex, TxStored, BlockStored, StoreWalletOuts,
         StoreWalletIns, RemoveBlock, DelIndexes, RemoveWalletTx, BlockRemoved, ScanAddresses, Import,
         Rescan, ScanStep, TestLock, PutLock, Clear, MakeDir, Load, StoreTxOuts,
         StoreTxGone, StoreTxIns, Unlock, vars
<1>3. Alone /\ LockInv /\ ReadInv /\ RestInv
  BY <1>2 DEF Alone, AloneInv
<1>4. CASE MainStep
  BY <1>1, <1>3, <1>4, AloneMain
<1>5. CASE \/ \E a \in Addrs : Import(a)
           \/ \E p \in Rpc : Rescan(p)
           \/ ScanAddresses
           \/ UNCHANGED vars
  BY <1>3, <1>5, AloneRequests
<1>6. CASE \E p \in Threads : ScanStep(p)
  <2>1. PICK p \in Threads : ScanStep(p)
    BY <1>6
  <2>2. spc[p] # "idle"
    BY <2>1 DEF ScanStep, TestLock, PutLock, Clear, MakeDir, Load, StoreTxOuts, StoreTxGone, StoreTxIns, Unlock
  <2>3. p = Main
    BY <1>3, <2>2 DEF LockInv, Threads
  <2> QED BY <1>3, <2>1, <2>3, AloneScan
<1> QED BY <1>4, <1>5, <1>6 DEF Next, MainLoop, MainStep

-----------------------------------------------------------------------------
(* The properties *)

FilesInv == TypeInv /\ OrderInv /\ ScanInv /\ GrowingInv /\ AloneInv
LEMMA FilesHold == Spec => []FilesInv
<1>1. Init => FilesInv
  BY TypeInit, OrderInit, GrowInit, AloneInit DEF FilesInv
<1>2. FilesInv /\ [Next]_vars => FilesInv'
  BY TypeStep, OrderStep, ScanInvStep, GrowStep, AloneStep DEF FilesInv
<1> QED BY <1>1, <1>2, PTL DEF Spec

\* What the chain has for an address.
LEMMA MadeParts ==
  ASSUME TypeInv
  PROVE  /\ \A a, kind : /\ Made(a, kind) = MadeBy(Stored, a, kind)
                         /\ Made(a, kind) \cap Unspent = MadeBy(Stored, a, kind) \ SpentIn(Stored)
                         /\ Made(a, kind) \ Unspent = MadeBy(Stored, a, kind) \cap SpentIn(Stored)
         /\ SpentOnce(Stored) => \A t \in Stored : \A o \in Ins[t] : Spender(o) = t
<1>1. \A o \in Output : OnChain(o[1]) <=> o[1] \in Stored
  BY StoredParts, OutputParts
<1>2. ASSUME NEW a, NEW kind PROVE Made(a, kind) = MadeBy(Stored, a, kind)
  BY <1>1 DEF Made, MadeBy
<1>3. Unspent = {o \in Output : o[1] \in Stored /\ o \notin SpentIn(Stored)}
  BY <1>1 DEF Unspent, SpentIn
<1>4. \A a, kind : \A o \in MadeBy(Stored, a, kind) : o \in Output /\ o[1] \in Stored
  BY DEF MadeBy
<1>5. ASSUME SpentOnce(Stored), NEW t \in Stored, NEW o \in Ins[t] PROVE Spender(o) = t
  <2>1. \A u \in Stored : o \in Ins[u] => u = t
    BY <1>5 DEF SpentOnce
  <2> QED BY <2>1 DEF Spender
<1> QED BY <1>2, <1>3, <1>4, <1>5

\* When the node rests nothing is under way.
LEMMA AloneAtRest ==
  ASSUME FilesInv, AtRest, Alone, NEW a \in dirs \ partial
  PROVE  /\ Exact(book[a], a, Stored, Stored) /\ SpentOnce(Stored)
         /\ a \notin undone => /\ ToSet(book[a]["stakes"]) \subseteq StakesOf(a, Stored)
                              /\ StakesOf(a, Second(chain)) \subseteq ToSet(book[a]["stakes"])
<1>1. mpc = "idle" /\ todo = {} /\ spc[Main] = "idle" /\ a \in Addrs
  BY PoolParts DEF AtRest, FilesInv, TypeInv
<1>2. Settled = Stored /\ Indexed = Stored /\ SpentOnce(Stored) /\ SettledOuts = Stored
  BY <1>1, OrderParts DEF FilesInv, OrderInv, SettledOuts
<1>3. Follows(a)
  BY <1>1 DEF FilesInv, AloneInv, RestInv, Ready
<1>4. Second(chain) \cap Stored = Second(chain) /\ Staked = Stored /\ \A t : ~MainAddsStakes(t)
  BY <1>1, SecondParts DEF FilesInv, OrderInv, Staked, MainAddsStakes
<1> QED BY <1>2, <1>3, <1>4 DEF Follows, StakesFit

LEMMA GrowingAtRest ==
  ASSUME FilesInv, AtRest, Growing, NEW a \in dirs \ (partial \cup missed)
  PROVE  /\ Live(a) \subseteq DOMAIN book[a]["unspent"]
         /\ ToSet(book[a]["stakes"]) \subseteq StakesOf(a, Stored)
         /\ StakesOf(a, Second(chain)) \subseteq ToSet(book[a]["stakes"])
<1>1. mpc = "idle" /\ todo = {} /\ (\A p \in Threads : spc[p] = "idle") /\ a \in Addrs
  BY DEF AtRest, FilesInv, TypeInv
<1>2. CoinsOwed(a) /\ StakesOwed(a) /\ ToSet(book[a]["stakes"]) \subseteq StakesOf(a, Stored)
  BY <1>1, PoolParts DEF FilesInv, GrowingInv, GrowthInv, Filled, Awaited, At
<1>3. \A t : /\ ~MainAddsCoins(t) /\ ~MainAddsStakes(t)
             /\ \A p \in Threads : ~ScanAddsCoins(p, t) /\ ~ScanAddsStakes(p, t)
  BY <1>1 DEF MainAddsCoins, MainAddsStakes, ScanAddsCoins, ScanAddsStakes
<1> QED BY <1>2, <1>3 DEF CoinsOwed, StakesOwed

\* No coin that an address can spend is missing in its files when the node
\* rests: whatever scans of the RPC service ran beside the main loop, while no
\* block is removed; and after removals too, when only the main loop scans. An
\* address is excepted of which a scan found no index, because the main loop had
\* deleted its file and not yet moved the new one in place, until it is scanned
\* again.
THEOREM CoinsListed == Spec => []CoinsAreListed
<1>1. FilesInv => CoinsAreListed
  <2> SUFFICES ASSUME FilesInv, AtRest, use.scanners = {} \/ use.removals = 0,
                      NEW a \in dirs \ (partial \cup missed)
               PROVE  Made(a, "coin") \cap Unspent \subseteq DOMAIN book[a]["unspent"]
    BY DEF CoinsAreListed
  <2>1. CASE use.scanners = {}
    <3>1. DOMAIN book[a]["unspent"] = MadeBy(Stored, a, "coin") \ SpentIn(Stored)
      BY <2>1, AloneAtRest DEF Alone, Exact, CoinFiles
    <3> QED BY <3>1, MadeParts DEF FilesInv
  <2>2. CASE use.removals = 0
    BY <2>2, GrowingAtRest DEF Growing, Live
  <2> QED BY <2>1, <2>2
<1> QED BY <1>1, FilesHold, PTL

\* The record of the blocks an address staked names only transactions that
\* stake for it, and of no block whose second transaction stakes for it is that
\* one missing, when the node rests: until a block that touches it is removed,
\* and but for the addresses of which a scan found no index.
THEOREM StakesFollow == Spec => []StakesFollowChain
<1>1. FilesInv => StakesFollowChain
  <2> SUFFICES ASSUME FilesInv, AtRest, use.scanners = {} \/ use.removals = 0,
                      NEW a \in dirs \ (undone \cup partial \cup missed)
               PROVE  /\ ToSet(book[a]["stakes"]) \subseteq StakeOf(a)
                      /\ \A k \in StakedBlocks(a) : chain[k][2] \in ToSet(book[a]["stakes"])
    BY DEF StakesFollowChain
  <2>1. /\ ToSet(book[a]["stakes"]) \subseteq StakesOf(a, Stored)
        /\ StakesOf(a, Second(chain)) \subseteq ToSet(book[a]["stakes"])
    BY AloneAtRest, GrowingAtRest DEF Alone, Growing
  <2>2. StakeOf(a) = StakesOf(a, Stored)
    BY DEF StakeOf, StakesOf
  <2>3. \A k \in StakedBlocks(a) : chain[k][2] \in StakesOf(a, Second(chain))
    BY DEF StakedBlocks, StakeOf, StakesOf, Second
  <2> QED BY <2>1, <2>2, <2>3
<1> QED BY <1>1, FilesHold, PTL

\* When only the main loop scans, the files of an address say what the chain
\* says whenever the node rests, after any blocks added and removed, scans and
\* imports: the coins it can spend, the spent ones with the one transaction that
\* spent each, the objects it holds and those it gave away.
THEOREM FilesFollow ==
  ASSUME ObjectsMove
  PROVE  Spec => []ListsFollowChain
<1>1. FilesInv => ListsFollowChain
  <2> SUFFICES ASSUME FilesInv, AtRest, use.scanners = {}, NEW a \in dirs \ partial
               PROVE  /\ DOMAIN book[a]["unspent"] = Made(a, "coin") \cap Unspent
                      /\ DOMAIN book[a]["spent"] = Made(a, "coin") \ Unspent
                      /\ \A o \in DOMAIN book[a]["spent"] :
                            LET f == book[a]["spent"][o]
                            IN f.by # << >> /\ Last(f.by) = Spender(o) /\ (f.n > 0 => Len(f.by) = 1)
                      /\ DOMAIN book[a]["objects"] = Made(a, "obj") \cap Unspent
                      /\ DOMAIN book[a]["sentobjs"] = Made(a, "obj") \ Unspent
    BY DEF ListsFollowChain
  <2>1. Exact(book[a], a, Stored, Stored) /\ SpentOnce(Stored)
    BY AloneAtRest DEF Alone
  <2>2. CoinFiles(book[a], a, Stored, Stored) /\ ObjectFiles(book[a], a, Stored, Stored)
    BY <2>1 DEF Exact
  <2>3. /\ \A kind : /\ Made(a, kind) \cap Unspent = MadeBy(Stored, a, kind) \ SpentIn(Stored)
                     /\ Made(a, kind) \ Unspent = MadeBy(Stored, a, kind) \cap SpentIn(Stored)
        /\ \A t \in Stored : \A o \in Ins[t] : Spender(o) = t
    BY <2>1, MadeParts DEF FilesInv
  <2>4. \A o \in DOMAIN book[a]["spent"] :
            LET f == book[a]["spent"][o]
            IN f.by # << >> /\ Last(f.by) = Spender(o) /\ (f.n > 0 => Len(f.by) = 1)
    BY <2>2, <2>3 DEF CoinFiles, Names
  <2> QED BY <2>2, <2>3, <2>4 DEF CoinFiles, ObjectFiles
<1> QED BY <1>1, FilesHold, PTL

=============================================================================
