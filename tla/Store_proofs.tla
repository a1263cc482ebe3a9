------------------------------ MODULE Store_proofs ------------------------------
(***************************************************************************)
(* Proofs about the store: of BlockStore, and of StoreRecovery, which stops *)
(* and starts it.                                                          *)
(*                                                                         *)
(* The first part is about BlockStore: its types, what its files hold of    *)
(* the coins, that it implements CoinLedger, that the money supply backs    *)
(* the coins, and that the list of the applications is the one on disk.     *)
(*                                                                         *)
(* The second part is about StoreRecovery, and uses the lemmas of the first *)
(* for the steps of a node that is up.                                      *)
(***************************************************************************)
EXTENDS StoreRecovery, FiniteSetTheorems, WellFoundedInduction, TLAPS

\* Every input is a record with a source and an index.
LEMMA RefType ==
  ASSUME NEW t \in Tx, NEW r \in Refs(t)
  PROVE  r \in [src : Tx \cup Specials, idx : Nat]
<1> DEFINE S == [src : Tx \cup Specials, idx : Nat]
<1>1. Ins[t] \in Seq(S)
  BY TxAssumption
<1>2. PICK i \in DOMAIN Ins[t] : r = Ins[t][i]
  BY DEF Refs, SeqRange
<1> HIDE DEF S
<1>3. Ins[t][i] \in S
  BY <1>1, <1>2
<1> QED BY <1>2, <1>3 DEF S

\* An output that exists is an output of a transaction.
LEMMA ExistsType ==
  ASSUME NEW t \in Tx, NEW r \in Refs(t), Exists(r)
  PROVE  r \in OutRef
<1>1. r \in [src : Tx \cup Specials, idx : Nat]
  BY RefType
<1>2. r.src \in Tx
  BY DEF Exists
<1> QED BY <1>1, <1>2 DEF OutRef

\* The outputs of a transaction are references to outputs.
LEMMA OutRefsType ==
  ASSUME NEW t \in Tx
  PROVE  OutRefs(t) \subseteq OutRef
<1> DEFINE O == [kind : OutKinds, val : Nat, obj : Tx \cup {None}]
<1>1. Outs[t] \in Seq(O)
  BY TxAssumption
<1> HIDE DEF O
<1>2. DOMAIN Outs[t] \subseteq Nat
  BY <1>1
<1> QED BY <1>2 DEF OutRefs, OutRef

\* What check_tx_inputs puts in blk_root exists.
LEMMA SpendType ==
  ASSUME NEW t \in Tx
  PROVE  RefsOfKind(t, {"spend"}) \subseteq OutRef
<1>1. ASSUME NEW r \in Refs(t), InKind(r) = "spend" PROVE Exists(r)
  BY <1>1 DEF InKind
<1> QED BY <1>1, ExistsType DEF RefsOfKind

\* The transactions of a block that arrives are transactions.
LEMMA CandidateType ==
  ASSUME NEW b \in Candidates
  PROVE  /\ b \in Seq(Tx) /\ Len(b) \in Nat \ {0}
         /\ DOMAIN b = 1 .. Len(b)
         /\ SeqRange(b) \subseteq Tx
BY CandidateAssumption DEF SeqRange

\* A reward is a number of coins.
LEMMA RewardType ==
  ASSUME NEW b, NEW h \in 0 .. MaxHeight + MaxRecords + 1
  PROVE  Reward(b, h) \in Int
BY RewardAssumption, BoundAssumption DEF Reward

-----------------------------------------------------------------------------
(* Types *)

\* A block is only received below the bound, so storing it keeps the bound; one
\* is only removed from a chain that has one, and that "blocks" agrees with.
Below == /\ pc \in {"check", "store"} => Height < MaxHeight
         /\ pc = "remove" => Height > 0 /\ Len(blocks) = Len(index)
TypeInv == TypeOK /\ Below

\* The store starts well typed ...
LEMMA TypeInit == Init => TypeInv
<1> SUFFICES ASSUME Init PROVE TypeInv
  OBVIOUS
<1>1. Len(index) = 1
  BY DEF Init
<1>2. Height \in 0 .. MaxHeight
  BY <1>1, BoundAssumption DEF Height
<1>3. blocks \in Seq(Seq(Tx)) /\ index \in Seq(Seq(Tx))
  BY DEF Init, Genesis
<1>4. supply \in Int /\ cur \in Seq(Tx) /\ k \in Nat \ {0}
  BY DEF Init
<1> QED BY <1>2, <1>3, <1>4 DEF Init, TypeInv, TypeOK, Below

\* ... and every step of the main loop leaves it well typed.
LEMMA TypeStep == TypeInv /\ [Next]_vars => TypeInv'
<1> SUFFICES ASSUME TypeInv, [Next]_vars PROVE TypeInv'
  OBVIOUS
<1> USE DEF TypeInv
<1>1. ASSUME NEW b \in Candidates, Receive(b) PROVE TypeInv'
  BY <1>1, CandidateType
     DEF Receive, TypeOK, Below, Height, chainVars, stateVars
<1>2. CASE CheckTx
  <2> DEFINE t == cur[k]
  <2>1. t \in Tx
    BY <1>2 DEF CheckTx, TypeOK
  <2>2. root' \subseteq OutRef
    BY <1>2, <2>1, SpendType DEF CheckTx, TypeOK
  <2>3. objs' \subseteq Tx /\ minter' \in Tx \cup {None} /\ k' \in Nat \ {0}
    BY <1>2, <2>1 DEF CheckTx, TypeOK
  <2> QED BY <1>2, <2>2, <2>3
             DEF CheckTx, TypeOK, Below, Height, chainVars, stateVars
<1>3. CASE CheckAppRoot
  BY <1>3 DEF CheckAppRoot, TypeOK, Below, Height, chainVars, stateVars, checkVars
<1>4. CASE Reject
  BY <1>4 DEF Reject, TypeOK, Below, Height, chainVars, stateVars
<1>5. CASE Accept
  <2>1. blocks' \in Seq(Seq(Tx))
    BY <1>5 DEF Accept, AcceptList, TypeOK
  <2> QED BY <1>5, <2>1 DEF Accept, AcceptList, TypeOK, Below, Height, stateVars, checkVars
<1>6. CASE StoreTx
  <2> DEFINE t == cur[k]
  <2>1. t \in Tx
    BY <1>6 DEF StoreTx, TypeOK
  <2>2. utxo' \subseteq OutRef
    BY <1>6, <2>1, OutRefsType DEF StoreTx, TypeOK, StoredOuts
  <2>3. txIndex' \subseteq Tx /\ apps' \subseteq Tx /\ k' \in Nat \ {0}
    BY <1>6, <2>1 DEF StoreTx, TypeOK
  <2> QED BY <1>6, <2>2, <2>3
             DEF StoreTx, TypeOK, Below, Height, chainVars, checkVars
<1>7. CASE StoreNullTx
  <2>1. cur[k] \in Tx
    BY <1>7 DEF StoreNullTx, TypeOK
  <2> QED BY <1>7, <2>1
             DEF StoreNullTx, TypeOK, Below, Height, chainVars, checkVars
<1>8. CASE StoreFails
  <2>1. cur[k] \in Tx
    BY <1>8 DEF StoreFails, TypeOK
  <2> QED BY <1>8, <2>1
             DEF StoreFails, TypeOK, Below, Height, chainVars, checkVars
<1>9. CASE SetLastBlock
  <2>1. /\ index' \in Seq(Seq(Tx))
        /\ Len(index') = Len(index) + 1
    BY <1>9 DEF SetLastBlock, SetLast, TypeOK
  <2>2. Height' \in 0 .. MaxHeight
    BY <1>9, <2>1, BoundAssumption DEF SetLastBlock, SetLast, TypeOK, Below, Height
  <2>3. supply' \in Int
    BY <1>9, RewardType DEF SetLastBlock, SetLast, TypeOK, Height, BlockHeight
  <2> QED BY <1>9, <2>1, <2>2, <2>3
             DEF SetLastBlock, SetLast, TypeOK, Below, stateVars, checkVars
<1>10. CASE BeginRemove
  <2>1. index[Len(index)] \in Seq(Tx)
    BY <1>10 DEF BeginRemove, TypeOK, Height
  <2>2. SeqRange(index[Len(index)]) \subseteq Tx
    BY <2>1 DEF SeqRange
  <2> QED BY <1>10, <2>1, <2>2
             DEF BeginRemove, TypeOK, Below, Height, chainVars, stateVars, checkVars
<1>11. ASSUME NEW t \in Tx, RemoveTx(t) PROVE TypeInv'
  <2>1. Restored(t) \subseteq OutRef
    BY ExistsType DEF Restored
  <2> QED BY <1>11, <2>1
             DEF RemoveTx, AppsAfter, TypeOK, Below, Height, chainVars, checkVars
<1>12. ASSUME NEW t \in Tx, RemoveAppRoot(t) PROVE TypeInv'
  BY <1>12 DEF RemoveAppRoot, TypeOK, Below, Height, chainVars, checkVars
<1>13. CASE EndRemove
  <2>1. Len(index) \in Nat /\ Len(index) > 1 /\ Len(blocks) = Len(index)
    BY <1>13 DEF EndRemove, TypeOK, Below, Height
  <2>2. /\ blocks' \in Seq(Seq(Tx)) /\ index' \in Seq(Seq(Tx))
        /\ Len(index') = Len(index) - 1
    BY <1>13, <2>1 DEF EndRemove, TypeOK
  <2>3. Height' \in 0 .. MaxHeight
    BY <2>1, <2>2, BoundAssumption DEF TypeOK, Height
  <2>4. supply' \in Int
    BY <1>13, RewardType, BoundAssumption DEF EndRemove, TypeOK, RemovedReward, Height
  <2>5. cur' \in Seq(Tx) /\ pc' = "idle"
    BY <1>13 DEF EndRemove
  <2> QED BY <1>13, <2>2, <2>3, <2>4, <2>5
             DEF EndRemove, TypeOK, Below, stateVars, checkVars
<1>14. CASE UNCHANGED vars
  BY <1>14 DEF vars, chainVars, stateVars, checkVars, TypeOK, Below, Height
<1> QED
  BY <1>1, <1>2, <1>3, <1>4, <1>5, <1>6, <1>7, <1>8, <1>9, <1>10, <1>11, <1>12,
     <1>13, <1>14 DEF Next

\* The variables of the store always hold what their files and lists can hold.
THEOREM TypeCorrect == Spec => []TypeOK
<1>1. TypeInv => TypeOK
  BY DEF TypeInv
<1> QED BY TypeInit, TypeStep, <1>1, PTL DEF Spec

-----------------------------------------------------------------------------
(* What the handlers do to coins *)

\* apps only holds transactions that name an application.
AppsHaveName == apps \subseteq {t \in Tx : HasAppName(t)}

\* A coin is an output of a transaction, and not the key of an object.
LEMMA CoinSource ==
  ASSUME NEW r, Coin(r)
  PROVE  r.src \in Tx /\ r.idx \in DOMAIN Outs[r.src] /\ r.idx # KeyRef
<1>1. r.src \in Tx /\ r.idx \in DOMAIN Outs[r.src]
  BY DEF Coin, Exists
<1> DEFINE O == [kind : OutKinds, val : Nat, obj : Tx \cup {None}]
<1>2. Outs[r.src] \in Seq(O) /\ KeyRef = 0
  BY <1>1, TxAssumption
<1> HIDE DEF O
<1>3. r.idx \in Nat \ {0}
  BY <1>1, <1>2
<1> QED BY <1>1, <1>2, <1>3

\* What a transaction makes are coins of its own.
LEMMA MakesCoin ==
  ASSUME NEW t \in Tx, NEW r \in Makes(t)
  PROVE  Coin(r) /\ r.src = t /\ r \in OutRefs(t)
BY DEF Makes, OutRefs

\* A coin whose source is a transaction is one that transaction makes.
LEMMA MakesSource ==
  ASSUME NEW t \in Tx, NEW r \in OutRef, Coin(r), r.src = t
  PROVE  r \in Makes(t)
<1>1. r.idx \in DOMAIN Outs[t]
  BY CoinSource
<1>2. r = [src |-> t, idx |-> r.idx]
  BY DEF OutRef
<1> QED BY <1>1, <1>2 DEF Makes, OutRefs

\* What a transaction spends are coins among its inputs.
LEMMA SpendsCoin ==
  ASSUME NEW t \in Tx, NEW r \in Spends(t)
  PROVE  Coin(r) /\ r \in Refs(t) /\ r \in OutRef /\ r.src \in Tx
BY CoinSource, ExistsType DEF Spends, Coin

\* An input that names a coin is read as a spending, or as nothing.
LEMMA CoinKind ==
  ASSUME NEW r, Coin(r), AppsHaveName
  PROVE  /\ r.src \notin apps /\ ~TxIsAppItem(r)
         /\ InKind(r) = IF r.src \in txIndex \cup objs THEN "spend" ELSE "none"
<1>1. r.src \in Tx /\ r.src \notin Specials
  BY CoinSource, TxAssumption
<1>2. r.src \notin apps
  BY DEF AppsHaveName, Coin
<1>3. ~TxIsAppItem(r)
  BY <1>2 DEF TxIsAppItem
<1>4. r.idx = 1 => ~MakesObject(r.src)
  BY DEF AppsHaveName, Coin, MakesObject, TxIsAppItem, UsesApp
<1>5. ~(r.idx \in {1, KeyRef} /\ MakesObject(r.src))
  BY <1>4, CoinSource
<1>6. OutAt(r).kind # "func" /\ Exists(r)
  BY DEF Coin, IsMoney
<1> QED BY <1>1, <1>2, <1>3, <1>5, <1>6 DEF InKind, Specials

\* store_tx_inputs deletes the coins its transaction spends and no other ...
LEMMA LoadedCoins ==
  ASSUME NEW t \in Tx, NEW r, Coin(r), AppsHaveName, r.src \in txIndex,
         ~IsTxNull(t), ~IsAppRoot(t)
  PROVE  r \in {Ins[t][i] : i \in Loaded(t)} <=> r \in Spends(t)
<1>1. r.src \notin apps /\ InKind(r) = "spend"
  BY CoinKind
<1> QED BY <1>1 DEF Loaded, Spends, Refs, SeqRange

\* ... and store_tx_outputs writes the coins it makes.
LEMMA StoredCoins ==
  ASSUME NEW t \in Tx, NEW r, Coin(r)
  PROVE  r \in StoredOuts(t) <=> r \in Makes(t)
BY DEF StoredOuts, Makes, Coin, Storable, IsMoney

\* cancel_tx_outputs deletes the coins its transaction made ...
LEMMA CancelledCoins ==
  ASSUME NEW t \in Tx, NEW r, Coin(r), AppsHaveName, txIndex \subseteq Tx
  PROVE  r \in Cancelled(t) <=> r \in Makes(t)
<1>1. ASSUME r \in OutRefs(t), r.idx = 1 PROVE ~WasItem(t) /\ ~WasChild(t)
  <2>1. r.src = t
    BY <1>1 DEF OutRefs
  <2>2. ~UsesApp(t) /\ ~UsesObject(t)
    BY <1>1, <2>1 DEF Coin
  <2>3. ~WasItem(t)
    BY <2>2 DEF WasItem, TxIsAppItem, UsesApp, AppsHaveName
  <2>4. ~WasChild(t)
    <3> SUFFICES ASSUME WasChild(t) PROVE FALSE
      OBVIOUS
    <3>1. TxIsAppItem(Ins[Ins[t][1].src][1]) /\ Ins[t][1].idx = 1
      BY DEF WasChild
    <3>2. UsesApp(Ins[t][1].src)
      BY <3>1 DEF TxIsAppItem, UsesApp, AppsHaveName
    <3> QED BY <2>2, <3>1, <3>2 DEF UsesObject, WasChild
  <2> QED BY <2>3, <2>4
<1> QED BY <1>1 DEF Cancelled, Makes, Coin

\* ... and cancel_tx_inputs writes back the coins it spent.
LEMMA RestoredCoins ==
  ASSUME NEW t \in Tx, NEW r, Coin(r), AppsHaveName, ~IsAppRoot(t)
  PROVE  r \in Restored(t) <=> r \in Spends(t) /\ r.src \in txIndex
<1>1. ~TxIsAppItem(r) /\ Exists(r) /\ Storable(OutAt(r))
  BY CoinKind DEF Coin, Storable, IsMoney
<1>2. IsTxNull(t) => r \notin Refs(t)
  BY NullTxAssumption, CoinSource
<1> QED BY <1>1, <1>2 DEF Restored, Spends

-----------------------------------------------------------------------------
(* The inductive invariant                                                  *)
(*                                                                          *)
(* CoinUtxoExact alone is not inductive: that storing a transaction keeps   *)
(* it needs that its coins are still there, which the check of the block    *)
(* established on the same files; that removing one keeps it needs that     *)
(* nothing after the block it is in spends what it made.                    *)

InBlock(t, h) == h \in DOMAIN index /\ t \in SeqRange(index[h])
Busy == pc \in {"check", "store"}

\* A transaction is in one block, and spends coins of earlier blocks.
OneBlock == \A g, h \in DOMAIN index : \A t \in Tx :
                InBlock(t, g) /\ InBlock(t, h) => g = h
SpendsEarlier == \A h \in DOMAIN index : \A t \in Tx :
                    InBlock(t, h) => \A r \in Spends(t) :
                        \E g \in DOMAIN index : g < h /\ InBlock(r.src, g)

\* The block checked or stored is new, and what the files hold of it.
CurIsNew ==
    Busy => /\ cur \in Candidates
            /\ k \in 1 .. Len(cur) + 1
            /\ SeqRange(cur) \cap ChainTxs = {}
Indexed ==
    /\ pc \in {"idle", "check"} => txIndex = ChainTxs
    /\ pc = "store" => txIndex = ChainTxs \cup {cur[i] : i \in 1 .. k - 1}
    /\ pc = "remove" => /\ Height > 0
                        /\ cur = index[Len(index)]
                        /\ pending \subseteq SeqRange(cur)
                        /\ txIndex = ChainTxs \ (SeqRange(cur) \ pending)

\* What checking a block establishes about its coins, and storing it uses.
Checked ==
    pc = "check" => /\ \A i \in 1 .. k - 1 : Spends(cur[i]) \subseteq utxo \cap root
                    /\ \A i, j \in 1 .. k - 1 :
                            i # j => Spends(cur[i]) \cap Spends(cur[j]) = {}
Promised ==
    pc = "store" => /\ \A i \in k .. Len(cur) : Spends(cur[i]) \subseteq utxo
                    /\ \A i \in 1 .. Len(cur) : \A r \in Spends(cur[i]) : r.src \in ChainTxs
                    /\ \A i, j \in 1 .. Len(cur) :
                            i # j => Spends(cur[i]) \cap Spends(cur[j]) = {}

Sound == /\ OneBlock /\ SpendsEarlier /\ CurIsNew /\ Indexed /\ Checked /\ Promised
         /\ CoinUtxoExact /\ SpentOnce

CoinInv == TypeInv /\ AppsHaveName /\ (~failed => Sound)

\* An empty store satisfies the invariant of the coins.
LEMMA CoinInit == Init => CoinInv
<1> SUFFICES ASSUME Init PROVE CoinInv
  OBVIOUS
<1>1. index = << <<>> >> /\ txIndex = {} /\ utxo = {} /\ apps = {} /\ pc = "idle"
  BY DEF Init, Genesis
<1>2. DOMAIN index = {1} /\ SeqRange(index[1]) = {}
  BY <1>1 DEF SeqRange
<1>3. ChainTxs = {} /\ \A t, h : ~InBlock(t, h)
  BY <1>2 DEF ChainTxs, InBlock
<1>4. Sound
  BY <1>1, <1>3 DEF Sound, OneBlock, SpendsEarlier, CurIsNew, Busy, Indexed, Checked,
     Promised, CoinUtxoExact, SpentOnce
<1> QED BY <1>1, <1>4, TypeInit DEF CoinInv, AppsHaveName

\* The transactions of the chain are those of its blocks.
LEMMA InChain ==
  ASSUME TypeOK
  PROVE  /\ ChainTxs \subseteq Tx
         /\ \A t : t \in ChainTxs <=> \E h \in DOMAIN index : InBlock(t, h)
<1>1. \A h \in DOMAIN index : index[h] \in Seq(Tx)
  BY DEF TypeOK
<1>2. \A h \in DOMAIN index : SeqRange(index[h]) \subseteq Tx
  BY <1>1 DEF SeqRange
<1> QED BY <1>2 DEF ChainTxs, InBlock

\* A transaction on disk spends coins of transactions on disk.
LEMMA SourcesIndexed ==
  ASSUME CoinInv, ~failed, NEW s \in txIndex, NEW r \in Spends(s)
  PROVE  r.src \in txIndex
<1> USE DEF CoinInv, Sound
<1>1. TypeOK /\ s \in Tx
  BY DEF TypeInv, TypeOK
<1>2. r.src \in Tx
  BY <1>1, SpendsCoin
<1>3. s \in ChainTxs => \E g, h \in DOMAIN index : g < h /\ InBlock(s, h) /\ InBlock(r.src, g)
  BY <1>1, InChain DEF SpendsEarlier
<1>4. s \in ChainTxs => r.src \in ChainTxs
  BY <1>1, <1>3, InChain
<1>5. CASE pc \in {"idle", "check"}
  BY <1>4, <1>5 DEF Indexed
<1>6. CASE pc = "store"
  <2>1. SUFFICES ASSUME s \notin ChainTxs PROVE r.src \in txIndex
    BY <1>4, <1>6 DEF Indexed
  <2>2. PICK i \in 1 .. k - 1 : s = cur[i]
    BY <2>1, <1>6 DEF Indexed
  <2>3. i \in 1 .. Len(cur)
    BY <1>1, <1>6, <2>2 DEF CurIsNew, Busy, TypeOK
  <2>4. r.src \in ChainTxs
    BY <1>6, <2>2, <2>3 DEF Promised
  <2> QED BY <1>6, <2>4 DEF Indexed
<1>7. CASE pc = "remove"
  <2>1. s \in ChainTxs /\ Len(index) \in DOMAIN index /\ cur = index[Len(index)]
    BY <1>1, <1>7 DEF Indexed, TypeOK, Height
  <2>2. PICK g, h \in DOMAIN index : g < h /\ InBlock(s, h) /\ InBlock(r.src, g)
    BY <2>1, <1>3
  <2>3. g # Len(index)
    BY <1>1, <2>2 DEF TypeOK
  <2>4. ~InBlock(r.src, Len(index))
    BY <1>2, <2>1, <2>2, <2>3 DEF OneBlock
  <2>5. r.src \notin SeqRange(cur)
    BY <2>1, <2>4 DEF InBlock
  <2> QED BY <1>4, <1>7, <2>1, <2>5 DEF Indexed
<1> QED BY <1>1, <1>5, <1>6, <1>7 DEF TypeOK

-----------------------------------------------------------------------------
(* One lemma per action *)

\* Receiving a block starts its check with nothing spent.
LEMMA ReceiveStep ==
  ASSUME CoinInv, NEW b \in Candidates, Receive(b)
  PROVE  AppsHaveName' /\ (~failed' => Sound')
<1> USE DEF CoinInv, Sound
<1>1. AppsHaveName'
  BY DEF Receive, stateVars, AppsHaveName
<1> SUFFICES ASSUME ~failed PROVE Sound'
  BY <1>1 DEF Receive
<1>2. UNCHANGED <<index, txIndex, utxo, apps>> /\ ChainTxs' = ChainTxs
  BY DEF Receive, chainVars, stateVars, ChainTxs
<1>3. OneBlock' /\ SpendsEarlier'
  BY <1>2 DEF OneBlock, SpendsEarlier, InBlock
<1>4. Len(b) \in Nat \ {0}
  BY CandidateType
<1>5. CurIsNew'
  BY <1>2, <1>4 DEF Receive, CurIsNew, Busy
<1>6. Indexed'
  BY <1>2 DEF Receive, Indexed
<1>7. IsTxNull(b[1]) => Spends(b[1]) = {}
  BY DEF Spends
<1>8. Checked' /\ Promised'
  BY <1>7 DEF Receive, Checked, Promised
<1>9. CoinUtxoExact' /\ SpentOnce'
  BY <1>2 DEF Receive, CoinUtxoExact, SpentOnce
<1> QED BY <1>3, <1>5, <1>6, <1>8, <1>9

\* A transaction that passes the checks spends coins that are there, and that
\* no transaction checked before it spends.
LEMMA CheckTxStep ==
  ASSUME CoinInv, CheckTx
  PROVE  AppsHaveName' /\ (~failed' => Sound')
<1> USE DEF CoinInv, Sound
<1> DEFINE t == cur[k]
<1>1. AppsHaveName'
  BY DEF CheckTx, stateVars, AppsHaveName
<1> SUFFICES ASSUME ~failed PROVE Sound'
  BY <1>1 DEF CheckTx
<1>2. /\ UNCHANGED <<index, txIndex, utxo, apps, pc, cur>> /\ ChainTxs' = ChainTxs
      /\ pc = "check" /\ k <= Len(cur) /\ k' = k + 1
  BY DEF CheckTx, chainVars, stateVars, ChainTxs
<1>3. cur \in Seq(Tx) /\ k \in 1 .. Len(cur) /\ t \in Tx
  BY <1>2 DEF TypeInv, TypeOK
<1>4. OneBlock' /\ SpendsEarlier' /\ Indexed' /\ Promised'
  BY <1>2 DEF OneBlock, SpendsEarlier, InBlock, Indexed, Promised, Height
<1>5. CurIsNew'
  BY <1>2, <1>3 DEF CurIsNew, Busy
<1>6. ASSUME NEW r \in Spends(t) PROVE r \in utxo /\ r \notin root /\ r \in root'
  <2>1. Coin(r) /\ r \in Refs(t)
    BY <1>3, SpendsCoin
  <2>2. InKind(r) = "spend"
    BY <2>1, CoinKind DEF CheckTx, CheckTxInputs, RefsOfKind
  <2>3. PICK i \in DOMAIN Ins[t] : r = Ins[t][i]
    BY <2>1 DEF Refs, SeqRange
  <2>4. i \in IndexesOfKind(t, {"spend"})
    BY <2>2, <2>3 DEF IndexesOfKind
  <2>5. r \in utxo \ root
    BY <2>3, <2>4 DEF CheckTx, CheckTxInputs
  <2>6. r \in RefsOfKind(t, {"spend"})
    BY <2>1, <2>2 DEF RefsOfKind
  <2> QED BY <2>5, <2>6 DEF CheckTx
<1>7. Checked'
  <2>1. root \subseteq root'
    BY DEF CheckTx
  <2>2. \A i \in 1 .. k : i = k \/ i \in 1 .. k - 1
    BY <1>3
  <2>3. \A i \in 1 .. k : Spends(cur[i]) \subseteq utxo \cap root'
    BY <1>2, <1>6, <2>1, <2>2 DEF Checked
  <2>4. \A i \in 1 .. k - 1 : Spends(cur[i]) \cap Spends(t) = {}
    BY <1>2, <1>6 DEF Checked
  <2>5. \A i, j \in 1 .. k : i # j => Spends(cur[i]) \cap Spends(cur[j]) = {}
    BY <1>2, <2>2, <2>4 DEF Checked
  <2>6. k' - 1 = k
    BY <1>2, <1>3
  <2> QED BY <1>2, <2>3, <2>5, <2>6 DEF Checked
<1>8. CoinUtxoExact' /\ SpentOnce'
  BY <1>2 DEF CheckTx, CoinUtxoExact, SpentOnce
<1> QED BY <1>4, <1>5, <1>7, <1>8

\* The declaration of the root of applications spends nothing.
LEMMA CheckAppRootStep ==
  ASSUME CoinInv, CheckAppRoot
  PROVE  AppsHaveName' /\ (~failed' => Sound')
<1> USE DEF CoinInv, Sound
<1>1. AppsHaveName'
  BY DEF CheckAppRoot, stateVars, AppsHaveName
<1> SUFFICES ASSUME ~failed PROVE Sound'
  BY <1>1 DEF CheckAppRoot
<1>2. /\ UNCHANGED <<index, txIndex, utxo, apps, pc, cur, root>> /\ ChainTxs' = ChainTxs
      /\ pc = "check" /\ k <= Len(cur) /\ k' = k + 1
  BY DEF CheckAppRoot, chainVars, stateVars, checkVars, ChainTxs
<1>3. cur \in Seq(Tx) /\ k \in 1 .. Len(cur)
  BY <1>2 DEF TypeInv, TypeOK
<1>4. OneBlock' /\ SpendsEarlier' /\ Indexed' /\ Promised'
  BY <1>2 DEF OneBlock, SpendsEarlier, InBlock, Indexed, Promised, Height
<1>5. CurIsNew'
  BY <1>2, <1>3 DEF CurIsNew, Busy
<1>6. Spends(cur[k]) = {}
  BY DEF CheckAppRoot, Spends
<1>7. \A i \in 1 .. k' - 1 : i = k \/ i \in 1 .. k - 1
  BY <1>2, <1>3
<1>8. Checked'
  BY <1>2, <1>6, <1>7 DEF Checked
<1>9. CoinUtxoExact' /\ SpentOnce'
  BY <1>2 DEF CheckAppRoot, CoinUtxoExact, SpentOnce
<1> QED BY <1>4, <1>5, <1>8, <1>9

\* A block that is refused leaves no trace.
LEMMA RejectStep ==
  ASSUME CoinInv, Reject
  PROVE  AppsHaveName' /\ (~failed' => Sound')
<1> USE DEF CoinInv, Sound
<1>1. UNCHANGED <<index, txIndex, utxo, apps, failed>> /\ ChainTxs' = ChainTxs
  BY DEF Reject, chainVars, stateVars, ChainTxs
<1>2. pc = "check" /\ pc' = "idle"
  BY DEF Reject
<1>3. AppsHaveName'
  BY <1>1 DEF AppsHaveName
<1> SUFFICES ASSUME ~failed PROVE Sound'
  BY <1>1, <1>3
<1>4. OneBlock' /\ SpendsEarlier' /\ CoinUtxoExact' /\ SpentOnce'
  BY <1>1 DEF OneBlock, SpendsEarlier, InBlock, CoinUtxoExact, SpentOnce
<1>5. Indexed' /\ CurIsNew' /\ Checked' /\ Promised'
  BY <1>1, <1>2 DEF Indexed, CurIsNew, Busy, Checked, Promised
<1> QED BY <1>4, <1>5

\* Accepting a block turns what was checked into what storing it may use.
LEMMA AcceptStep ==
  ASSUME CoinInv, Accept
  PROVE  AppsHaveName' /\ (~failed' => Sound')
<1> USE DEF CoinInv, Sound
<1>1. UNCHANGED <<index, txIndex, utxo, apps, cur, failed>> /\ ChainTxs' = ChainTxs
  BY DEF Accept, AcceptList, stateVars, ChainTxs
<1>2. pc = "check" /\ pc' = "store" /\ k > Len(cur) /\ k' = 1
  BY DEF Accept, AcceptList
<1>3. AppsHaveName'
  BY <1>1 DEF AppsHaveName
<1> SUFFICES ASSUME ~failed PROVE Sound'
  BY <1>1, <1>3
<1>4. OneBlock' /\ SpendsEarlier' /\ CoinUtxoExact' /\ SpentOnce'
  BY <1>1 DEF OneBlock, SpendsEarlier, InBlock, CoinUtxoExact, SpentOnce
<1>5. cur \in Seq(Tx) /\ Len(cur) \in Nat /\ k = Len(cur) + 1
  BY <1>2 DEF TypeInv, TypeOK, CurIsNew, Busy
<1>6. CurIsNew' /\ Indexed' /\ Checked'
  BY <1>1, <1>2, <1>5 DEF CurIsNew, Busy, Indexed, Checked
<1>7. ASSUME NEW i \in 1 .. Len(cur), NEW r \in Spends(cur[i]) PROVE r.src \in ChainTxs
  <2>1. r \in utxo /\ cur[i] \in Tx
    BY <1>2, <1>5, <1>7 DEF Checked
  <2>2. Coin(r) /\ r \in OutRef /\ r.src \in Tx
    BY <1>7, <2>1, SpendsCoin
  <2>3. r \in Makes(r.src)
    BY <2>2, MakesSource
  <2>4. r.src \in txIndex
    BY <2>1, <2>2, <2>3 DEF CoinUtxoExact
  <2> QED BY <1>2, <2>4 DEF Indexed
<1>8. Promised'
  <2>1. k - 1 = Len(cur) /\ k' .. Len(cur') = 1 .. Len(cur)
    BY <1>1, <1>2, <1>5
  <2>2. \A i \in 1 .. Len(cur) : Spends(cur[i]) \subseteq utxo
    BY <1>2, <2>1 DEF Checked
  <2>3. \A i, j \in 1 .. Len(cur) : i # j => Spends(cur[i]) \cap Spends(cur[j]) = {}
    BY <1>2, <2>1 DEF Checked
  <2> QED BY <1>1, <1>2, <1>7, <2>1, <2>2, <2>3 DEF Promised
<1> QED BY <1>4, <1>6, <1>8

\* What CoinUtxoExact says of one coin.
Unspent(r) == r.src \in txIndex /\ \A s \in txIndex : r \notin Spends(s)

\* CoinUtxoExact, read for one coin ...
LEMMA ExactOf ==
  ASSUME CoinUtxoExact, ~failed, NEW r \in OutRef, Coin(r)
  PROVE  r \in utxo <=> Unspent(r)
<1>1. r.src \in Tx /\ r \in Makes(r.src)
  BY CoinSource, MakesSource
<1> QED BY <1>1 DEF CoinUtxoExact, Unspent

\* ... and established from it.
LEMMA ExactIf ==
  ASSUME NEW U, NEW I,
         \A r \in OutRef : Coin(r) =>
             (r \in U <=> r.src \in I /\ \A s \in I : r \notin Spends(s))
  PROVE  \A t \in Tx : \A r \in Makes(t) :
             r \in U <=> t \in I /\ \A s \in I : r \notin Spends(s)
<1> SUFFICES ASSUME NEW t \in Tx, NEW r \in Makes(t)
             PROVE  r \in U <=> t \in I /\ \A s \in I : r \notin Spends(s)
  OBVIOUS
<1>1. Coin(r) /\ r.src = t /\ r \in OutRef
  BY MakesCoin, OutRefsType
<1> QED BY <1>1

\* A transaction that is stored takes its coins and adds those it makes.
LEMMA StoreTxStep ==
  ASSUME CoinInv, StoreTx
  PROVE  AppsHaveName' /\ (~failed' => Sound')
<1> USE DEF CoinInv, Sound
<1> DEFINE t == cur[k]
<1>1. /\ UNCHANGED <<index, pc, cur, failed>> /\ ChainTxs' = ChainTxs
      /\ pc = "store" /\ k \in 1 .. Len(cur) /\ k' = k + 1 /\ t \in Tx
      /\ cur \in Seq(Tx)
  BY DEF StoreTx, chainVars, ChainTxs, TypeInv, TypeOK
<1>2. AppsHaveName'
  BY <1>1 DEF StoreTx, AppsHaveName
<1> SUFFICES ASSUME ~failed PROVE Sound'
  BY <1>1, <1>2
<1>3. /\ txIndex' = txIndex \cup {t} /\ ~IsTxNull(t) /\ ~IsAppRoot(t)
      /\ utxo' = (utxo \ {Ins[t][i] : i \in Loaded(t)}) \cup StoredOuts(t)
  BY DEF StoreTx
<1>4. t \notin txIndex
  <2>1. \A i \in 1 .. k - 1 : cur[i] # t
    BY <1>1, CandidateAssumption DEF CurIsNew, Busy
  <2>2. t \notin ChainTxs
    BY <1>1 DEF CurIsNew, Busy, SeqRange
  <2> QED BY <1>1, <2>1, <2>2 DEF Indexed
<1>5. Spends(t) \subseteq utxo /\ \A r \in Spends(t) : r.src \in txIndex
  BY <1>1 DEF Promised, Indexed
<1>6. ASSUME NEW r \in Spends(t) PROVE Unspent(r)
  BY <1>1, <1>5, <1>6, SpendsCoin, ExactOf
<1>7. \A r \in OutRef : Coin(r) => (r \in utxo <=> Unspent(r))'
  <2> SUFFICES ASSUME NEW r \in OutRef, Coin(r)
               PROVE  r \in utxo' <=> Unspent(r)'
    OBVIOUS
  <2>1. r \in StoredOuts(t) <=> r.src = t
    BY <1>1, StoredCoins, MakesCoin, MakesSource
  <2>2. r.src \in txIndex => (r \in {Ins[t][i] : i \in Loaded(t)} <=> r \in Spends(t))
    BY <1>1, <1>3, LoadedCoins
  <2>3. r \in utxo <=> Unspent(r)
    BY ExactOf
  <2>4. Unspent(r)' <=> /\ r.src \in txIndex \/ r.src = t
                        /\ \A s \in txIndex : r \notin Spends(s)
                        /\ r \notin Spends(t)
    BY <1>3 DEF Unspent
  <2>5. CASE r.src = t
    <3>1. \A s \in txIndex : r \notin Spends(s)
      BY <1>4, <2>5, SourcesIndexed
    <3>2. r \notin Spends(t)
      BY <1>4, <1>5, <2>5
    <3> QED BY <1>3, <2>1, <2>4, <2>5, <3>1, <3>2
  <2>6. CASE r.src # t
    <3>1. r \in utxo' <=> r \in utxo /\ r \notin {Ins[t][i] : i \in Loaded(t)}
      BY <1>3, <2>1, <2>6
    <3> QED BY <2>2, <2>3, <2>4, <2>6, <3>1 DEF Unspent
  <2> QED BY <2>5, <2>6
<1>8. CoinUtxoExact'
  BY <1>7, ExactIf DEF CoinUtxoExact, Unspent
<1>9. SpentOnce'
  <2>1. \A s \in txIndex : Spends(s) \cap Spends(t) = {}
    BY <1>6 DEF Unspent
  <2> QED BY <1>3, <2>1 DEF SpentOnce
<1>10. OneBlock' /\ SpendsEarlier' /\ Checked'
  BY <1>1 DEF OneBlock, SpendsEarlier, InBlock, Checked
<1>11. CurIsNew'
  BY <1>1 DEF CurIsNew, Busy
<1>12. Indexed'
  <2>1. 1 .. k' - 1 = (1 .. k - 1) \cup {k}
    BY <1>1
  <2>2. txIndex' = ChainTxs \cup {cur[i] : i \in 1 .. k' - 1}
    BY <1>1, <1>3, <2>1 DEF Indexed
  <2> QED BY <1>1, <2>2 DEF Indexed
<1>13. Promised'
  <2>1. ASSUME NEW i \in k + 1 .. Len(cur), NEW r \in Spends(cur[i]) PROVE r \in utxo'
    <3>1. i \in k .. Len(cur) /\ i \in 1 .. Len(cur) /\ i # k /\ cur[i] \in Tx
      BY <1>1
    <3>2. r \in utxo /\ r \notin Spends(t) /\ r.src \in txIndex
      BY <1>1, <2>1, <3>1 DEF Promised, Indexed
    <3>3. Coin(r)
      BY <2>1, <3>1, SpendsCoin
    <3> QED BY <1>1, <1>3, <3>2, <3>3, LoadedCoins
  <2> QED BY <1>1, <2>1 DEF Promised
<1> QED BY <1>8, <1>9, <1>10, <1>11, <1>12, <1>13

\* A block that stops half way ends what is promised.
LEMMA StoreFailsStep ==
  ASSUME CoinInv, StoreFails
  PROVE  AppsHaveName' /\ (~failed' => Sound')
BY DEF CoinInv, StoreFails, AppsHaveName

\* A null transaction, or the root of applications, touches no coin.
LEMMA StoreNullTxStep ==
  ASSUME CoinInv, StoreNullTx
  PROVE  AppsHaveName' /\ (~failed' => Sound')
<1> USE DEF CoinInv, Sound
<1> DEFINE t == cur[k]
<1>1. /\ UNCHANGED <<index, utxo, apps, pc, cur, failed>> /\ ChainTxs' = ChainTxs
      /\ pc = "store" /\ k \in 1 .. Len(cur) /\ k' = k + 1 /\ t \in Tx
      /\ cur \in Seq(Tx)
  BY DEF StoreNullTx, chainVars, ChainTxs, TypeInv, TypeOK
<1>2. AppsHaveName'
  BY <1>1 DEF AppsHaveName
<1> SUFFICES ASSUME ~failed PROVE Sound'
  BY <1>1, <1>2
<1>3. txIndex' = txIndex \cup {t} /\ (IsTxNull(t) \/ IsAppRoot(t))
  BY DEF StoreNullTx
<1>4. Spends(t) = {}
  BY <1>3 DEF Spends
<1>5. ASSUME NEW r, Coin(r) PROVE r.src # t
  <2>1. ~IsAppRoot(r.src) /\ Exists(r) /\ IsMoney(OutAt(r))
    BY <1>5 DEF Coin
  <2>2. ~IsTxNull(r.src)
    <3> SUFFICES ASSUME IsTxNull(r.src) PROVE FALSE
      OBVIOUS
    <3> DEFINE O == [kind : OutKinds, val : Nat, obj : Tx \cup {None}]
    <3>1. Outs[r.src] \in Seq(O)
      BY <2>1, TxAssumption DEF Exists
    <3> HIDE DEF O
    <3>2. r.idx = 1
      BY <2>1, <3>1 DEF IsTxNull, Exists
    <3> QED BY <2>1, <3>2 DEF IsTxNull, OutAt, IsMoney
  <2> QED BY <1>3, <2>1, <2>2
<1>6. CoinUtxoExact'
  <2> SUFFICES ASSUME NEW r \in OutRef, Coin(r)
               PROVE  r \in utxo' <=> r.src \in txIndex' /\ \A s \in txIndex' : r \notin Spends(s)
    BY ExactIf DEF CoinUtxoExact
  <2>1. r \in utxo <=> Unspent(r)
    BY ExactOf
  <2> QED BY <1>1, <1>3, <1>4, <1>5, <2>1 DEF Unspent
<1>7. SpentOnce'
  BY <1>3, <1>4 DEF SpentOnce
<1>8. OneBlock' /\ SpendsEarlier' /\ Checked'
  BY <1>1 DEF OneBlock, SpendsEarlier, InBlock, Checked
<1>9. CurIsNew'
  BY <1>1 DEF CurIsNew, Busy
<1>10. Indexed'
  <2>1. 1 .. k' - 1 = (1 .. k - 1) \cup {k}
    BY <1>1
  <2>2. txIndex' = ChainTxs \cup {cur[i] : i \in 1 .. k' - 1}
    BY <1>1, <1>3, <2>1 DEF Indexed
  <2> QED BY <1>1, <2>2 DEF Indexed
<1>11. Promised'
  <2>1. \A i \in k' .. Len(cur) : i \in k .. Len(cur)
    BY <1>1
  <2>2. \A i \in k' .. Len(cur) : Spends(cur[i]) \subseteq utxo
    BY <1>1, <2>1 DEF Promised
  <2> QED BY <1>1, <2>2 DEF Promised
<1> QED BY <1>6, <1>7, <1>8, <1>9, <1>10, <1>11

\* A block that joins the chain spends coins of the blocks before it.
LEMMA SetLastBlockStep ==
  ASSUME CoinInv, SetLastBlock
  PROVE  AppsHaveName' /\ (~failed' => Sound')
<1> USE DEF CoinInv, Sound
<1>1. /\ UNCHANGED <<utxo, txIndex, apps, failed>> /\ index' = Append(index, cur)
      /\ pc = "store" /\ pc' = "idle" /\ k > Len(cur)
  BY DEF SetLastBlock, SetLast, stateVars
<1>2. AppsHaveName'
  BY <1>1 DEF AppsHaveName
<1> SUFFICES ASSUME ~failed PROVE Sound'
  BY <1>1, <1>2
<1>3. cur \in Seq(Tx) /\ k = Len(cur) + 1 /\ index \in Seq(Seq(Tx)) /\ TypeOK
  BY <1>1 DEF CurIsNew, Busy, TypeInv, TypeOK
<1> DEFINE n == Len(index) + 1
<1>4. /\ DOMAIN index' = DOMAIN index \cup {n} /\ n \notin DOMAIN index
      /\ index'[n] = cur /\ \A h \in DOMAIN index : index'[h] = index[h] /\ h < n
  BY <1>1, <1>3
<1>5. \A t, h : InBlock(t, h)' <=> InBlock(t, h) \/ (h = n /\ t \in SeqRange(cur))
  BY <1>4 DEF InBlock
<1>6. \A t, h : InBlock(t, h) => t \in ChainTxs /\ h \in DOMAIN index
  BY DEF InBlock, ChainTxs
<1>7. SeqRange(cur) \cap ChainTxs = {}
  BY <1>1 DEF CurIsNew, Busy
<1>8. OneBlock'
  BY <1>4, <1>5, <1>6, <1>7 DEF OneBlock
<1>9. SpendsEarlier'
  <2> SUFFICES ASSUME NEW h \in DOMAIN index', NEW t \in Tx, InBlock(t, h)',
                      NEW r \in Spends(t)
               PROVE  \E g \in DOMAIN index' : g < h /\ InBlock(r.src, g)'
    BY DEF SpendsEarlier
  <2>1. CASE InBlock(t, h)
    <3>1. PICK g \in DOMAIN index : g < h /\ InBlock(r.src, g)
      BY <1>6, <2>1 DEF SpendsEarlier
    <3> QED BY <1>4, <1>5, <3>1
  <2>2. CASE h = n /\ t \in SeqRange(cur)
    <3>1. PICK i \in 1 .. Len(cur) : t = cur[i]
      BY <1>3, <2>2 DEF SeqRange
    <3>2. r.src \in ChainTxs
      BY <1>1, <3>1 DEF Promised
    <3>3. PICK g \in DOMAIN index : InBlock(r.src, g)
      BY <1>3, <3>2, InChain
    <3> QED BY <1>4, <1>5, <2>2, <3>3
  <2> QED BY <1>5, <2>1, <2>2
<1>10. ChainTxs' = ChainTxs \cup SeqRange(cur)
  BY <1>4 DEF ChainTxs
<1>11. Indexed'
  <2>1. SeqRange(cur) = {cur[i] : i \in 1 .. k - 1}
    BY <1>3 DEF SeqRange
  <2> QED BY <1>1, <1>10, <2>1 DEF Indexed
<1>12. CurIsNew' /\ Checked' /\ Promised' /\ CoinUtxoExact' /\ SpentOnce'
  BY <1>1 DEF CurIsNew, Busy, Checked, Promised, CoinUtxoExact, SpentOnce
<1> QED BY <1>8, <1>9, <1>11, <1>12

\* A removal starts with all the transactions of the last block.
LEMMA BeginRemoveStep ==
  ASSUME CoinInv, BeginRemove
  PROVE  AppsHaveName' /\ (~failed' => Sound')
<1> USE DEF CoinInv, Sound
<1>1. UNCHANGED <<index, txIndex, utxo, apps, failed>> /\ ChainTxs' = ChainTxs
  BY DEF BeginRemove, chainVars, stateVars, ChainTxs
<1>2. /\ pc = "idle" /\ pc' = "remove" /\ Height > 0 /\ Height' = Height
      /\ cur' = index[Len(index)] /\ pending' = SeqRange(cur')
  BY <1>1 DEF BeginRemove, Height
<1>3. AppsHaveName'
  BY <1>1 DEF AppsHaveName
<1> SUFFICES ASSUME ~failed PROVE Sound'
  BY <1>1, <1>3
<1>4. OneBlock' /\ SpendsEarlier' /\ CoinUtxoExact' /\ SpentOnce'
  BY <1>1 DEF OneBlock, SpendsEarlier, InBlock, CoinUtxoExact, SpentOnce
<1>5. Indexed' /\ CurIsNew' /\ Checked' /\ Promised'
  BY <1>1, <1>2 DEF Indexed, CurIsNew, Busy, Checked, Promised
<1> QED BY <1>4, <1>5

\* A transaction that is removed takes back what it made and gives back what
\* it spent; no other transaction spends any of it.
LEMMA RemoveTxStep ==
  ASSUME CoinInv, NEW t \in Tx, RemoveTx(t)
  PROVE  AppsHaveName' /\ (~failed' => Sound')
<1> USE DEF CoinInv, Sound
<1>1. /\ UNCHANGED <<index, pc, cur, failed>> /\ ChainTxs' = ChainTxs /\ Height' = Height
      /\ pc = "remove" /\ t \in pending /\ pending' = pending \ {t}
      /\ txIndex' = txIndex \ {t} /\ ~IsAppRoot(t)
      /\ utxo' = (utxo \ Cancelled(t)) \cup Restored(t)
      /\ apps' \subseteq apps
  BY DEF RemoveTx, AppsAfter, chainVars, ChainTxs, Height
<1>2. AppsHaveName'
  BY <1>1 DEF AppsHaveName
<1> SUFFICES ASSUME ~failed PROVE Sound'
  BY <1>1, <1>2
<1>3. TypeOK /\ txIndex \subseteq Tx
  BY DEF TypeInv, TypeOK
<1>4. /\ Len(index) \in DOMAIN index /\ SeqRange(cur) \subseteq ChainTxs
      /\ pending \subseteq SeqRange(cur) /\ t \in txIndex /\ t \in ChainTxs
  BY <1>1, <1>3 DEF Indexed, Height, TypeOK, ChainTxs
<1>5. ASSUME NEW r \in Spends(t) PROVE r.src # t /\ r.src \in txIndex
  <2>1. PICK h \in DOMAIN index : InBlock(t, h)
    BY <1>3, <1>4, InChain
  <2>2. PICK g \in DOMAIN index : g < h /\ InBlock(r.src, g)
    BY <1>5, <2>1 DEF SpendsEarlier
  <2>3. g # h
    BY <1>3, <2>2 DEF TypeOK
  <2> QED BY <1>4, <1>5, <2>1, <2>2, <2>3, SourcesIndexed DEF OneBlock
<1>6. CoinUtxoExact'
  <2> SUFFICES ASSUME NEW r \in OutRef, Coin(r)
               PROVE  r \in utxo' <=> r.src \in txIndex' /\ \A s \in txIndex' : r \notin Spends(s)
    BY ExactIf DEF CoinUtxoExact
  <2>1. r \in utxo <=> Unspent(r)
    BY ExactOf
  <2>2. r \in Cancelled(t) <=> r.src = t
    BY <1>3, CancelledCoins, MakesCoin, MakesSource
  <2>3. r \in Restored(t) <=> r \in Spends(t)
    BY <1>1, <1>5, RestoredCoins
  <2>4. CASE r.src = t
    BY <1>1, <1>5, <2>2, <2>3, <2>4
  <2>5. CASE r.src # t /\ r \in Spends(t)
    <3>1. \A s \in txIndex : s # t => r \notin Spends(s)
      BY <1>4, <2>5 DEF SpentOnce
    <3> QED BY <1>1, <1>5, <2>3, <2>5, <3>1
  <2>6. CASE r.src # t /\ r \notin Spends(t)
    BY <1>1, <2>1, <2>2, <2>3, <2>6 DEF Unspent
  <2> QED BY <2>4, <2>5, <2>6
<1>7. SpentOnce'
  BY <1>1 DEF SpentOnce
<1>8. OneBlock' /\ SpendsEarlier'
  BY <1>1 DEF OneBlock, SpendsEarlier, InBlock
<1>9. Indexed'
  BY <1>1, <1>4 DEF Indexed
<1>10. CurIsNew' /\ Checked' /\ Promised'
  BY <1>1 DEF CurIsNew, Busy, Checked, Promised
<1> QED BY <1>6, <1>7, <1>8, <1>9, <1>10

\* The root of the applications makes and spends no coin.
LEMMA RemoveAppRootStep ==
  ASSUME CoinInv, NEW t \in Tx, RemoveAppRoot(t)
  PROVE  AppsHaveName' /\ (~failed' => Sound')
<1> USE DEF CoinInv, Sound
<1>1. /\ UNCHANGED <<index, utxo, apps, pc, cur, failed>> /\ ChainTxs' = ChainTxs
      /\ Height' = Height
      /\ pc = "remove" /\ t \in pending /\ pending' = pending \ {t}
      /\ txIndex' = txIndex \ {t} /\ IsAppRoot(t)
  BY DEF RemoveAppRoot, chainVars, ChainTxs, Height
<1>2. AppsHaveName'
  BY <1>1 DEF AppsHaveName
<1> SUFFICES ASSUME ~failed PROVE Sound'
  BY <1>1, <1>2
<1>3. Spends(t) = {} /\ \A r : Coin(r) => r.src # t
  BY <1>1 DEF Spends, Coin
<1>4. CoinUtxoExact'
  <2> SUFFICES ASSUME NEW r \in OutRef, Coin(r)
               PROVE  r \in utxo' <=> r.src \in txIndex' /\ \A s \in txIndex' : r \notin Spends(s)
    BY ExactIf DEF CoinUtxoExact
  <2> QED BY <1>1, <1>3, ExactOf DEF Unspent
<1>5. SpentOnce'
  BY <1>1 DEF SpentOnce
<1>6. OneBlock' /\ SpendsEarlier'
  BY <1>1 DEF OneBlock, SpendsEarlier, InBlock
<1>7. t \in ChainTxs
  BY <1>1 DEF Indexed, Height, TypeInv, TypeOK, ChainTxs
<1>8. Indexed'
  BY <1>1, <1>7 DEF Indexed
<1>9. CurIsNew' /\ Checked' /\ Promised'
  BY <1>1 DEF CurIsNew, Busy, Checked, Promised
<1> QED BY <1>4, <1>5, <1>6, <1>8, <1>9

\* When they are all removed, the block leaves the chain.
LEMMA EndRemoveStep ==
  ASSUME CoinInv, EndRemove
  PROVE  AppsHaveName' /\ (~failed' => Sound')
<1> USE DEF CoinInv, Sound
<1>1. /\ UNCHANGED <<utxo, txIndex, apps, failed>> /\ pending = {}
      /\ index' = SubSeq(index, 1, Len(index) - 1)
      /\ pc = "remove" /\ pc' = "idle"
  BY DEF EndRemove, stateVars
<1>2. AppsHaveName'
  BY <1>1 DEF AppsHaveName
<1> SUFFICES ASSUME ~failed PROVE Sound'
  BY <1>1, <1>2
<1> DEFINE n == Len(index)
<1>3. TypeOK /\ index \in Seq(Seq(Tx)) /\ n \in Nat /\ n > 1 /\ cur = index[n]
  BY <1>1 DEF TypeInv, TypeOK, Indexed, Height
<1>4. /\ DOMAIN index' = 1 .. n - 1 /\ DOMAIN index = 1 .. n
      /\ \A h \in 1 .. n - 1 : index'[h] = index[h]
  BY <1>1, <1>3
<1>5. \A t, h : InBlock(t, h)' <=> InBlock(t, h) /\ h # n
  <2>1. 1 .. n - 1 = (1 .. n) \ {n}
    BY <1>3
  <2>2. DOMAIN index' = DOMAIN index \ {n} /\ \A h \in DOMAIN index' : index'[h] = index[h]
    BY <1>4, <2>1
  <2> HIDE DEF n
  <2> QED BY <2>2 DEF InBlock
<1>6. OneBlock'
  <2>1. DOMAIN index' \subseteq DOMAIN index
    BY <1>3, <1>4
  <2> HIDE DEF n
  <2> QED BY <1>5, <2>1 DEF OneBlock
<1>7. SpendsEarlier'
  <2> SUFFICES ASSUME NEW h \in DOMAIN index', NEW t \in Tx, InBlock(t, h)',
                      NEW r \in Spends(t)
               PROVE  \E g \in DOMAIN index' : g < h /\ InBlock(r.src, g)'
    BY DEF SpendsEarlier
  <2>1. InBlock(t, h) /\ h \in DOMAIN index
    BY <1>5 DEF InBlock
  <2>2. PICK g \in DOMAIN index : g < h /\ InBlock(r.src, g)
    BY <2>1 DEF SpendsEarlier
  <2>3. g \in 1 .. n - 1 /\ g # n
    BY <1>3, <1>4, <2>2
  <2> QED BY <1>4, <1>5, <2>2, <2>3
<1>8. txIndex = ChainTxs \ SeqRange(cur)
  BY <1>1 DEF Indexed
<1>9. ChainTxs' = ChainTxs \ SeqRange(cur)
  <2>1. \A t \in ChainTxs' : t \in ChainTxs /\ t \notin SeqRange(cur)
    <3> SUFFICES ASSUME NEW h \in 1 .. n - 1, NEW t \in SeqRange(index[h])
                 PROVE  t \in ChainTxs /\ t \notin SeqRange(cur)
      BY <1>4 DEF ChainTxs
    <3>1. InBlock(t, h) /\ h # n /\ n \in DOMAIN index /\ h \in DOMAIN index
      <4>1. h # n /\ n \in 1 .. n /\ h \in 1 .. n
        BY <1>3
      <4> HIDE DEF n
      <4> QED BY <1>4, <4>1 DEF InBlock
    <3>2. t \in ChainTxs /\ t \in Tx
      BY <1>3, <3>1, InChain
    <3> QED BY <1>3, <3>1, <3>2 DEF OneBlock, InBlock
  <2>2. \A t \in ChainTxs \ SeqRange(cur) : t \in ChainTxs'
    <3> SUFFICES ASSUME NEW h \in 1 .. n, NEW t \in SeqRange(index[h]), t \notin SeqRange(cur)
                 PROVE  t \in ChainTxs'
      BY <1>4 DEF ChainTxs
    <3>1. h \in 1 .. n - 1
      BY <1>3
    <3> QED BY <1>4, <3>1 DEF ChainTxs
  <2> QED BY <2>1, <2>2
<1>10. Indexed'
  BY <1>1, <1>8, <1>9 DEF Indexed
<1>11. CurIsNew' /\ Checked' /\ Promised' /\ CoinUtxoExact' /\ SpentOnce'
  BY <1>1 DEF CurIsNew, Busy, Checked, Promised, CoinUtxoExact, SpentOnce
<1> QED BY <1>6, <1>7, <1>10, <1>11

\* Nothing changes while the main loop does nothing.
LEMMA StutterStep ==
  ASSUME CoinInv, UNCHANGED vars
  PROVE  AppsHaveName' /\ (~failed' => Sound')
<1> USE DEF CoinInv
<1>1. /\ UNCHANGED <<index, txIndex, utxo, apps, pc, cur, k, root, pending, failed>>
      /\ ChainTxs' = ChainTxs /\ Height' = Height
  BY DEF vars, chainVars, stateVars, checkVars, ChainTxs, Height
<1>2. AppsHaveName'
  BY <1>1 DEF AppsHaveName
<1> SUFFICES ASSUME ~failed PROVE Sound'
  BY <1>1, <1>2
<1>3. OneBlock' /\ SpendsEarlier' /\ CoinUtxoExact' /\ SpentOnce'
  BY <1>1 DEF Sound, OneBlock, SpendsEarlier, InBlock, CoinUtxoExact, SpentOnce
<1>4. Indexed' /\ CurIsNew' /\ Checked' /\ Promised'
  BY <1>1 DEF Sound, Indexed, CurIsNew, Busy, Checked, Promised
<1> QED BY <1>3, <1>4 DEF Sound

\* Every step of the main loop preserves the invariant of the coins.
LEMMA CoinStep == CoinInv /\ [Next]_vars => CoinInv'
<1> SUFFICES ASSUME CoinInv, [Next]_vars PROVE AppsHaveName' /\ (~failed' => Sound')
  BY TypeStep DEF CoinInv
<1> QED
  BY ReceiveStep, CheckTxStep, CheckAppRootStep, RejectStep, AcceptStep, StoreTxStep,
     StoreNullTxStep, StoreFailsStep, SetLastBlockStep, BeginRemoveStep, RemoveTxStep,
     RemoveAppRootStep, EndRemoveStep, StutterStep DEF Next

-----------------------------------------------------------------------------
(* The theorems *)

\* The unspent outputs, the index of transactions and the block at hand agree
\* at every step of the store, as long as no block stopped half way.
THEOREM CoinInvariant == Spec => []CoinInv
BY CoinInit, CoinStep, PTL DEF Spec

\* Whatever the chain, and however blocks are stored and removed, the unspent
\* coins on disk are those made on disk and not spent there.
THEOREM CoinsAreExact == Spec => []CoinUtxoExact
<1>1. CoinInv => CoinUtxoExact
  BY DEF CoinInv, Sound, CoinUtxoExact
<1> QED BY CoinInvariant, <1>1, PTL

\* No two transactions on disk spend the same coin.
THEOREM NoDoubleSpend == Spec => []SpentOnce
<1>1. CoinInv => SpentOnce
  BY DEF CoinInv, Sound, SpentOnce
<1> QED BY CoinInvariant, <1>1, PTL

\* An accepted block does not stop half way because of a coin.
THEOREM AcceptedSpendsSucceed == Spec => []AcceptedCoinsAreThere
<1>1. ASSUME CoinInv PROVE AcceptedCoinsAreThere
  <2> SUFFICES ASSUME ~failed, pc = "store", k <= Len(cur),
                      ~IsTxNull(cur[k]), ~IsAppRoot(cur[k]),
                      NEW i \in Missing(cur[k]), Coin(Ins[cur[k]][i])
               PROVE  FALSE
    BY DEF AcceptedCoinsAreThere
  <2> DEFINE t == cur[k]
             r == Ins[t][i]
  <2>1. t \in Tx /\ k \in k .. Len(cur)
    BY <1>1 DEF CoinInv, TypeInv, TypeOK
  <2>2. r \in Refs(t) /\ r \notin utxo
    BY DEF Missing, Loaded, Refs, SeqRange
  <2>3. r \notin Spends(t)
    BY <1>1, <2>1, <2>2 DEF CoinInv, Sound, Promised
  <2> QED BY <2>2, <2>3 DEF Spends
<1> QED BY CoinInvariant, <1>1, PTL

-----------------------------------------------------------------------------
(* BlockStore implements CoinLedger: every step of the store is a step of   *)
(* the ledger or leaves it alone.                                           *)

\* The transactions of the chain spend a coin once, also while the last block
\* is being removed and some of them are no longer on disk.
ChainSpentOnce ==
    ~failed => \A s, t \in ChainTxs : s # t => Spends(s) \cap Spends(t) = {}

LedgerInv == CoinInv /\ ChainSpentOnce

\* The steps that leave the chain alone.
Quiet ==
    \/ \E b \in Candidates : Receive(b)
    \/ CheckTx \/ CheckAppRoot \/ Reject \/ Accept
    \/ StoreTx \/ StoreNullTx
    \/ BeginRemove
    \/ \E t \in Tx : RemoveTx(t) \/ RemoveAppRoot(t)
    \/ UNCHANGED vars

\* Every step is quiet, except the three that move the ledger.
LEMMA QuietSteps == [Next]_vars => Quiet \/ StoreFails \/ SetLastBlock \/ EndRemove
BY DEF Next, Quiet

\* A quiet step leaves the chain alone.
LEMMA QuietChain == Quiet => UNCHANGED <<index, failed>>
BY DEF Quiet, Receive, CheckTx, CheckAppRoot, Reject, Accept, AcceptList, StoreTx, StoreNullTx,
   BeginRemove, RemoveTx, RemoveAppRoot, vars, chainVars

\* The chain gains the transactions of the block that was stored ...
LEMMA ChainGains ==
  ASSUME CoinInv, SetLastBlock, ~failed
  PROVE  /\ ChainTxs' = ChainTxs \cup SeqRange(cur) /\ SeqRange(cur) \cap ChainTxs = {}
         /\ txIndex = ChainTxs' /\ cur \in Seq(Tx) /\ cur \in Candidates
<1> USE DEF CoinInv, Sound
<1>1. /\ pc = "store" /\ k = Len(cur) + 1 /\ index' = Append(index, cur)
      /\ cur \in Seq(Tx) /\ index \in Seq(Seq(Tx)) /\ cur \in Candidates
  BY DEF SetLastBlock, SetLast, TypeInv, TypeOK, CurIsNew, Busy
<1>2. ChainTxs' = ChainTxs \cup SeqRange(cur)
  <2>1. /\ DOMAIN index' = DOMAIN index \cup {Len(index) + 1}
        /\ index'[Len(index) + 1] = cur /\ \A h \in DOMAIN index : index'[h] = index[h]
    BY <1>1
  <2> QED BY <2>1 DEF ChainTxs
<1>3. txIndex = ChainTxs \cup SeqRange(cur)
  BY <1>1 DEF Indexed, SeqRange
<1> QED BY <1>1, <1>2, <1>3 DEF CurIsNew, Busy

\* ... and loses those of the block that was removed, which spend coins of the
\* blocks before it.
LEMMA ChainLoses ==
  ASSUME CoinInv, EndRemove, ~failed
  PROVE  /\ ChainTxs' = ChainTxs \ SeqRange(cur) /\ SeqRange(cur) \subseteq ChainTxs
         /\ Len(index) > 1 /\ cur = index[Len(index)]
         /\ \A t \in SeqRange(cur) : \A r \in Spends(t) : r.src \in ChainTxs'
<1> USE DEF CoinInv, Sound
<1>1. /\ pc = "remove" /\ Len(index) > 1 /\ cur = index[Len(index)]
      /\ index \in Seq(Seq(Tx)) /\ txIndex = ChainTxs \ SeqRange(cur) /\ ~failed'
      /\ UNCHANGED txIndex /\ pc' = "idle"
  BY DEF EndRemove, stateVars, TypeInv, TypeOK, Indexed, Height
<1>2. ChainTxs' = ChainTxs \ SeqRange(cur)
  BY <1>1, EndRemoveStep DEF Indexed
<1>3. Len(index) \in DOMAIN index /\ SeqRange(cur) \subseteq ChainTxs
  BY <1>1 DEF ChainTxs
<1>4. ASSUME NEW t \in SeqRange(cur), NEW r \in Spends(t) PROVE r.src \in ChainTxs'
  <2>1. InBlock(t, Len(index)) /\ t \in Tx /\ r.src \in Tx
    BY <1>1, <1>3, <1>4, InChain, SpendsCoin DEF InBlock, TypeInv
  <2>2. PICK g \in DOMAIN index : g < Len(index) /\ InBlock(r.src, g)
    BY <1>3, <1>4, <2>1 DEF SpendsEarlier
  <2>3. ~InBlock(r.src, Len(index))
    BY <1>1, <1>3, <2>1, <2>2 DEF OneBlock
  <2> QED BY <1>1, <1>2, <1>3, <2>2, <2>3, InChain DEF InBlock, TypeInv
<1> QED BY <1>1, <1>2, <1>3, <1>4

\* No coin is spent twice on an empty chain ...
LEMMA LedgerInvInit == Init => LedgerInv
<1>1. Init => ChainTxs = {}
  BY DEF Init, Genesis, ChainTxs, SeqRange
<1> QED BY <1>1, CoinInit DEF LedgerInv, ChainSpentOnce

\* ... nor on one that a block joins or leaves.
LEMMA LedgerInvStep == LedgerInv /\ [Next]_vars => LedgerInv'
<1> SUFFICES ASSUME LedgerInv, [Next]_vars PROVE ChainSpentOnce'
  BY CoinStep DEF LedgerInv
<1> USE DEF LedgerInv
<1>1. CASE Quiet
  BY <1>1, QuietChain DEF ChainSpentOnce, ChainTxs
<1>2. CASE StoreFails
  BY <1>2 DEF StoreFails, ChainSpentOnce
<1>3. CASE SetLastBlock
  <2>1. failed' = failed
    BY <1>3 DEF SetLastBlock, SetLast
  <2> QED BY <1>3, <2>1, ChainGains DEF ChainSpentOnce, CoinInv, Sound, SpentOnce
<1>4. CASE EndRemove
  <2>1. failed' = failed
    BY <1>4 DEF EndRemove
  <2> QED BY <1>4, <2>1, ChainLoses DEF ChainSpentOnce
<1> QED BY <1>1, <1>2, <1>3, <1>4, QuietSteps

-----------------------------------------------------------------------------
(* The coins of the ledger are those of the chain *)

\* The coins of the chain: made by its transactions, spent by none of them.
LEMMA InChainCoins ==
  ASSUME ChainTxs \subseteq Tx, NEW r
  PROVE  r \in ChainCoins <=> /\ r \in OutRef /\ Coin(r) /\ r.src \in ChainTxs
                              /\ \A s \in ChainTxs : r \notin Spends(s)
<1>1. \A t \in ChainTxs : r \in Makes(t) <=> r \in OutRef /\ Coin(r) /\ r.src = t
  BY MakesCoin, MakesSource, OutRefsType
<1> QED BY <1>1 DEF ChainCoins

\* Between two blocks the unspent outputs on disk are the coins of the chain.
LEMMA LiveCoins == CoinInv /\ ~failed => LedgerCoins = ChainCoins
<1> SUFFICES ASSUME CoinInv, ~failed PROVE LedgerCoins = ChainCoins
  OBVIOUS
<1>1. CASE pc \in {"idle", "check"}
  <2>1. txIndex = ChainTxs /\ utxo \subseteq OutRef /\ ChainTxs \subseteq Tx
    BY <1>1, InChain DEF CoinInv, Sound, Indexed, TypeInv, TypeOK
  <2>2. \A r \in OutRef : Coin(r) => (r \in utxo <=> Unspent(r))
    BY ExactOf DEF CoinInv, Sound
  <2>3. \A r : r \in utxo /\ Coin(r) <=> r \in ChainCoins
    BY <2>1, <2>2, InChainCoins DEF Unspent
  <2> QED BY <1>1, <2>3 DEF LedgerCoins
<1>2. CASE pc \notin {"idle", "check"}
  BY <1>2 DEF LedgerCoins
<1> QED BY <1>1, <1>2

\* The same after a step.
LEMMA LiveCoinsNext == (CoinInv /\ ~failed => LedgerCoins = ChainCoins)'
BY LiveCoins, PTL

\* SetLastBlock, once every transaction is stored, extends the ledger.
LEMMA ExtendStep ==
  ASSUME LedgerInv, LedgerInv', SetLastBlock, ~failed
  PROVE  Ledger!Extend(cur)
<1> USE DEF LedgerInv
<1>1. /\ ~failed' /\ failed' = failed /\ index' = Append(index, cur) /\ pc = "store"
      /\ k = Len(cur) + 1
  <2>1. cur \in Seq(Tx) /\ pc = "store" /\ k > Len(cur)
    BY DEF SetLastBlock, SetLast, CoinInv, TypeInv, TypeOK
  <2>2. k \in 1 .. Len(cur) + 1
    BY <2>1 DEF CoinInv, Sound, CurIsNew, Busy
  <2> QED BY <2>1, <2>2 DEF SetLastBlock, SetLast
<1>2. /\ ChainTxs' = ChainTxs \cup SeqRange(cur) /\ SeqRange(cur) \cap ChainTxs = {}
      /\ txIndex = ChainTxs' /\ cur \in Seq(Tx)
  BY ChainGains
<1>3. ChainTxs' \subseteq Tx
  <2>1. TypeOK
    BY DEF CoinInv, TypeInv
  <2> QED BY <1>2, <2>1 DEF TypeOK
<1>4. LedgerCoins = ChainCoins /\ LedgerCoins' = ChainCoins'
  BY <1>1, LiveCoins, LiveCoinsNext
<1>5. \A t \in SeqRange(cur) : \A r \in Spends(t) : r.src \in ChainTxs
  BY <1>1, <1>2 DEF CoinInv, Sound, Promised, SeqRange
<1>6. \A t \in ChainTxs : \A r \in Spends(t) : r.src \in ChainTxs
  <2> SUFFICES ASSUME NEW t \in ChainTxs, NEW r \in Spends(t) PROVE r.src \in ChainTxs
    OBVIOUS
  <2>1. PICK h \in DOMAIN index : InBlock(t, h) /\ t \in Tx
    BY InChain DEF CoinInv, TypeInv
  <2>2. PICK g \in DOMAIN index : InBlock(r.src, g)
    BY <1>1, <2>1 DEF CoinInv, Sound, SpendsEarlier
  <2> QED BY <2>2, InChain DEF CoinInv, TypeInv
<1>7. \A t \in SeqRange(cur) : Spends(t) \subseteq ChainCoins
  <2> SUFFICES ASSUME NEW t \in SeqRange(cur), NEW r \in Spends(t) PROVE r \in ChainCoins
    OBVIOUS
  <2>1. r \in OutRef /\ Coin(r) /\ r.src \in ChainTxs
    BY <1>2, <1>3, <1>5, SpendsCoin
  <2>2. \A s \in ChainTxs : r \notin Spends(s)
    BY <1>1, <1>2 DEF ChainSpentOnce
  <2> QED BY <1>2, <1>3, <2>1, <2>2, InChainCoins
<1>8. \A i, j \in DOMAIN cur : i # j => Spends(cur[i]) \cap Spends(cur[j]) = {}
  <2>1. DOMAIN cur = 1 .. Len(cur)
    BY <1>2
  <2> QED BY <1>1, <2>1 DEF CoinInv, Sound, Promised
<1> DEFINE made == UNION {Makes(t) : t \in SeqRange(cur)}
           spent == UNION {Spends(t) : t \in SeqRange(cur)}
<1>9. ChainCoins' = (ChainCoins \ spent) \cup made
  <2> SUFFICES ASSUME NEW r
               PROVE  r \in ChainCoins' <=> (r \in ChainCoins /\ r \notin spent) \/ r \in made
    OBVIOUS
  <2>1. r \in ChainCoins' <=> /\ r \in OutRef /\ Coin(r) /\ r.src \in ChainTxs'
                             /\ \A s \in ChainTxs' : r \notin Spends(s)
    <3>1. r \in UNION {Makes(t) : t \in ChainTxs'}
                <=> r \in OutRef /\ Coin(r) /\ r.src \in ChainTxs'
      BY <1>2, <1>3, MakesCoin, MakesSource, OutRefsType
    <3> QED BY <3>1 DEF ChainCoins
  <2>2. r \in ChainCoins <=> /\ r \in OutRef /\ Coin(r) /\ r.src \in ChainTxs
                            /\ \A s \in ChainTxs : r \notin Spends(s)
    BY <1>2, <1>3, InChainCoins
  <2>3. r \in made <=> r \in OutRef /\ Coin(r) /\ r.src \in SeqRange(cur)
    BY <1>2, <1>3, MakesCoin, MakesSource, OutRefsType
  <2> QED BY <1>2, <1>5, <1>6, <2>1, <2>2, <2>3
<1> QED
  BY <1>1, <1>4, <1>7, <1>8, <1>9
     DEF Ledger!Extend, Ledger!Made, Ledger!Spent, Ledger!Txs, SeqRange

\* EndRemove, once every transaction is removed, retracts it.
LEMMA RetractStep ==
  ASSUME LedgerInv, LedgerInv', EndRemove, ~failed
  PROVE  Ledger!Retract
<1> USE DEF LedgerInv
<1>1. /\ ~failed' /\ failed' = failed /\ index' = SubSeq(index, 1, Len(index) - 1)
  BY DEF EndRemove
<1>2. /\ ChainTxs' = ChainTxs \ SeqRange(cur) /\ SeqRange(cur) \subseteq ChainTxs
      /\ Len(index) > 1 /\ cur = index[Len(index)] /\ ChainTxs \subseteq Tx
      /\ \A t \in SeqRange(cur) : \A r \in Spends(t) : r.src \in ChainTxs'
  BY ChainLoses, InChain DEF CoinInv, TypeInv
<1>3. LedgerCoins = ChainCoins /\ LedgerCoins' = ChainCoins'
  BY <1>1, LiveCoins, LiveCoinsNext
<1> DEFINE made == UNION {Makes(t) : t \in SeqRange(cur)}
           spent == UNION {Spends(t) : t \in SeqRange(cur)}
<1>4. ChainCoins' = (ChainCoins \ made) \cup spent
  <2> SUFFICES ASSUME NEW r
               PROVE  r \in ChainCoins' <=> (r \in ChainCoins /\ r \notin made) \/ r \in spent
    OBVIOUS
  <2>1. r \in ChainCoins' <=> /\ r \in OutRef /\ Coin(r) /\ r.src \in ChainTxs'
                             /\ \A s \in ChainTxs' : r \notin Spends(s)
    <3>1. r \in UNION {Makes(t) : t \in ChainTxs'}
                <=> r \in OutRef /\ Coin(r) /\ r.src \in ChainTxs'
      BY <1>2, MakesCoin, MakesSource, OutRefsType
    <3> QED BY <3>1 DEF ChainCoins
  <2>2. r \in ChainCoins <=> /\ r \in OutRef /\ Coin(r) /\ r.src \in ChainTxs
                            /\ \A s \in ChainTxs : r \notin Spends(s)
    BY <1>2, InChainCoins
  <2>3. r \in made <=> r \in OutRef /\ Coin(r) /\ r.src \in SeqRange(cur)
    BY <1>2, MakesCoin, MakesSource, OutRefsType
  <2>4. r \in spent => r \in OutRef /\ Coin(r) /\ r.src \in ChainTxs'
    BY <1>2, SpendsCoin
  <2>5. r \in spent => \A s \in ChainTxs' : r \notin Spends(s)
    BY <1>1, <1>2 DEF ChainSpentOnce
  <2> QED BY <1>2, <2>1, <2>2, <2>3, <2>4, <2>5
<1> QED
  BY <1>1, <1>2, <1>3, <1>4
     DEF Ledger!Retract, Ledger!Made, Ledger!Spent, Ledger!Txs, SeqRange

\* An empty store is an empty ledger.
LEMMA LedgerInit == Init => Ledger!Init
<1> SUFFICES ASSUME Init PROVE Ledger!Init
  OBVIOUS
<1>1. index = <<Genesis>> /\ ~failed /\ failed = FALSE /\ pc = "idle" /\ utxo = {}
  BY DEF Init
<1>2. LedgerCoins = {}
  BY <1>1 DEF LedgerCoins
<1> QED BY <1>1, <1>2 DEF Ledger!Init

\* Every step of the store is a step of the ledger, or none.
LEMMA LedgerStep ==
  ASSUME LedgerInv, LedgerInv', [Next]_vars
  PROVE  [Ledger!Next]_(Ledger!ledgerVars)
<1>1. CASE failed
  <2>1. failed'
    BY <1>1, QuietSteps, QuietChain DEF StoreFails, SetLastBlock, SetLast, EndRemove
  <2> QED BY <1>1, <2>1 DEF Ledger!Next, Ledger!Break, LedgerInv, CoinInv, TypeInv, TypeOK
<1>2. CASE StoreFails
  BY <1>2 DEF StoreFails, Ledger!Next, Ledger!Break
<1>3. CASE ~failed /\ Quiet
  <2>1. ~failed' /\ UNCHANGED <<index, failed>>
    BY <1>3, QuietChain
  <2>2. ChainCoins' = ChainCoins
    BY <2>1 DEF ChainCoins, ChainTxs
  <2>3. LedgerCoins' = LedgerCoins
    BY <1>3, <2>1, <2>2, LiveCoins, LiveCoinsNext DEF LedgerInv
  <2> QED BY <2>1, <2>3 DEF Ledger!ledgerVars
<1>4. CASE ~failed /\ SetLastBlock
  <2>1. cur \in Candidates
    BY <1>4, ChainGains DEF LedgerInv
  <2> QED BY <1>4, <2>1, ExtendStep DEF Ledger!Next
<1>5. CASE ~failed /\ EndRemove
  BY <1>5, RetractStep DEF Ledger!Next
<1> QED BY <1>1, <1>2, <1>3, <1>4, <1>5, QuietSteps

\* The store of files implements the ledger of coins: a block joins the chain
\* only with the coins it spends, and gives them back when it leaves.
THEOREM StoreImplementsLedger == Spec => ImplementsLedger
BY LedgerInvInit, LedgerInvStep, LedgerInit, LedgerStep, PTL
   DEF Spec, ImplementsLedger, Ledger!Spec

-----------------------------------------------------------------------------
(* Sums over finite sets. MapThenSumSet chooses a function over the subsets of *)
(* its set; the facts below come from the least set that would refute them.     *)

\* Induction over the subsets of a finite set: the least of a set of them.
LEMMA LeastSet ==
  ASSUME NEW S, IsFiniteSet(S), NEW B, B \subseteq SUBSET S, B # {}
  PROVE  \E T \in B : \A U \in B : U \subseteq T => U = T
<1>1. B \subseteq FiniteSubsetsOf(S)
  BY FS_Subset DEF FiniteSubsetsOf
<1>2. PICK T \in B : \A U \in B : <<U, T>> \notin StrictSubsetOrdering(S)
  BY <1>1, WFMin, FS_StrictSubsetOrderingWellFounded
<1>3. ASSUME NEW U \in B, U \subseteq T, U # T PROVE FALSE
  <2>1. <<U, T>> \in (SUBSET S) \X (SUBSET S)
    OBVIOUS
  <2> QED BY <1>2, <1>3, <2>1 DEF StrictSubsetOrdering
<1> QED BY <1>3

Pick(s) == CHOOSE x \in s : TRUE
\* h adds up g over every subset of S, one element after the other.
AddsUp(g, S, h) ==
    h = [s \in SUBSET S |-> IF s = {} THEN 0 ELSE g[Pick(s)] + h[s \ {Pick(s)}]]
\* The sum of g over S.
SumOver(g, S) == (CHOOSE h : AddsUp(g, S, h))[S]

Agree(f, g, s) == \A x \in s : f[x] = g[x]

\* The element picked is one, and the set without it is smaller.
LEMMA PickIn ==
  ASSUME NEW s, s # {}
  PROVE  Pick(s) \in s /\ s \ {Pick(s)} \subseteq s /\ s \ {Pick(s)} # s
BY DEF Pick

\* What such a function says of one set.
LEMMA AddsUpAt ==
  ASSUME NEW g, NEW S, NEW h, AddsUp(g, S, h), NEW s \in SUBSET S
  PROVE  h[s] = IF s = {} THEN 0 ELSE g[Pick(s)] + h[s \ {Pick(s)}]
BY DEF AddsUp

\* What functions that add up g say of a set does not depend on where they stop,
\* nor on g elsewhere.
LEMMA AddsUpOnce ==
  ASSUME NEW S, NEW T, IsFiniteSet(S), NEW g, NEW f, NEW h, NEW i,
         AddsUp(g, S, h), AddsUp(f, T, i),
         NEW s, s \subseteq S, s \subseteq T, Agree(f, g, s)
  PROVE  h[s] = i[s]
<1> DEFINE B == {u \in SUBSET S : u \in SUBSET s /\ h[u] # i[u]}
<1> SUFFICES ASSUME B # {} PROVE FALSE
  OBVIOUS
<1>1. PICK u \in B : \A v \in B : v \subseteq u => v = u
  <2> B \subseteq SUBSET S
    OBVIOUS
  <2> HIDE DEF B
  <2> QED BY LeastSet
<1>2. u \in SUBSET S /\ u \in SUBSET T /\ u \in SUBSET s /\ h[u] # i[u]
  OBVIOUS
<1> DEFINE v == u \ {Pick(u)}
<1>3. h[u] = (IF u = {} THEN 0 ELSE g[Pick(u)] + h[v])
  <2>1. AddsUp(g, S, h) /\ u \in SUBSET S
    BY <1>2
  <2> QED BY ONLY <2>1, AddsUpAt
<1>4. i[u] = (IF u = {} THEN 0 ELSE f[Pick(u)] + i[v])
  <2>1. AddsUp(f, T, i) /\ u \in SUBSET T
    BY <1>2
  <2> QED BY ONLY <2>1, AddsUpAt
<1>5. u # {} /\ Pick(u) \in u /\ v \in SUBSET S /\ v \in SUBSET s /\ v \subseteq u /\ v # u
  BY <1>2, <1>3, <1>4, PickIn
<1>6. h[v] = i[v]
  <2> HIDE DEF v
  <2> QED BY <1>1, <1>5
<1> QED BY <1>2, <1>3, <1>4, <1>5, <1>6 DEF Agree

\* Two of them agree on the whole set.
LEMMA AddsUpSame ==
  ASSUME NEW S, IsFiniteSet(S), NEW g, NEW f, NEW h, NEW i,
         AddsUp(g, S, h), AddsUp(f, S, i), Agree(f, g, S)
  PROVE  h[S] = i[S]
<1>1. S \subseteq S
  OBVIOUS
<1> QED BY <1>1, AddsUpOnce

\* There is one, for every finite set.
LEMMA AddsUpExists ==
  ASSUME NEW D, NEW S \in SUBSET D, IsFiniteSet(S), NEW g \in [D -> Int]
  PROVE  \E h : AddsUp(g, S, h) /\ h[S] \in Int
<1> DEFINE B == {u \in SUBSET S : ~ \E h : AddsUp(g, u, h) /\ h[u] \in Int}
<1> SUFFICES ASSUME B # {} PROVE FALSE
  OBVIOUS
<1>1. PICK T \in B : \A v \in B : v \subseteq T => v = T
  <2> B \subseteq SUBSET S
    OBVIOUS
  <2> HIDE DEF B
  <2> QED BY LeastSet
<1> DEFINE sum(u) == CHOOSE h : AddsUp(g, u, h) /\ h[u] \in Int
<1>2. T \in SUBSET S /\ ~ \E h : AddsUp(g, T, h) /\ h[T] \in Int
  OBVIOUS
<1>3. ASSUME NEW u \in SUBSET T, u # T
      PROVE  AddsUp(g, u, sum(u)) /\ sum(u)[u] \in Int
  <2>1. u \in SUBSET S /\ u \notin B
    BY <1>1, <1>2, <1>3
  <2> QED BY <2>1
<1> DEFINE rest == T \ {Pick(T)}
           h == [u \in SUBSET T |-> IF u # T THEN sum(u)[u]
                                    ELSE IF T = {} THEN 0 ELSE g[Pick(T)] + sum(rest)[rest]]
<1> HIDE DEF B, sum
<1>4. h[T] \in Int
  <2>1. T # {} => Pick(T) \in D /\ rest \in SUBSET T /\ rest # T
    BY <1>2, PickIn
  <2>2. T # {} => g[Pick(T)] \in Int /\ sum(rest)[rest] \in Int
    <3> HIDE DEF rest
    <3> QED BY <1>3, <2>1
  <2> HIDE DEF rest
  <2> QED BY <2>2
<1>5. ASSUME NEW u \in SUBSET T, u # {}
      PROVE  h[u] = g[Pick(u)] + h[u \ {Pick(u)}]
  <2> DEFINE v == u \ {Pick(u)}
  <2>1. v \in SUBSET T /\ v \in SUBSET u /\ v # u /\ v # T
    BY <1>5, PickIn
  <2>2. h[v] = sum(v)[v]
    <3> HIDE DEF v
    <3> QED BY <2>1
  <2>3. CASE u = T
    BY <1>5, <2>2, <2>3
  <2>4. CASE u # T
    <3>1. AddsUp(g, u, sum(u)) /\ h[u] = sum(u)[u] /\ AddsUp(g, v, sum(v))
      <4> HIDE DEF v
      <4> QED BY <1>3, <2>1, <2>4
    <3>2. sum(u)[u] = g[Pick(u)] + sum(u)[v]
      BY <1>5, <3>1, AddsUpAt
    <3>3. IsFiniteSet(u) /\ v \in SUBSET v
      BY <1>2, FS_Subset
    <3>4. sum(u)[v] = sum(v)[v]
      <4> HIDE DEF v
      <4> QED BY <2>1, <3>1, <3>3, AddsUpOnce DEF Agree
    <3> QED BY <2>2, <3>1, <3>2, <3>4
  <2> QED BY <2>3, <2>4
<1>6. h[{}] = 0
  <2>1. {} # T => AddsUp(g, {}, sum({})) /\ h[{}] = sum({})[{}]
    BY <1>3
  <2>2. {} # T => sum({})[{}] = 0
    BY <2>1, AddsUpAt
  <2> QED BY <2>1, <2>2
<1>7. AddsUp(g, T, h)
  <2>1. h = [u \in SUBSET T |-> h[u]]
    OBVIOUS
  <2> HIDE DEF h
  <2> QED BY <1>5, <1>6, <2>1 DEF AddsUp
<1> QED BY <1>2, <1>4, <1>7

\* A sum is an integer, and any function that adds up says what it is.
LEMMA SumType ==
  ASSUME NEW D, NEW S \in SUBSET D, IsFiniteSet(S), NEW g \in [D -> Int]
  PROVE  /\ SumOver(g, S) \in Int
         /\ \A h : AddsUp(g, S, h) => SumOver(g, S) = h[S]
<1>1. PICK h : AddsUp(g, S, h) /\ h[S] \in Int
  BY AddsUpExists
<1> DEFINE i == CHOOSE i : AddsUp(g, S, i)
<1>2. AddsUp(g, S, i)
  BY <1>1
<1>3. SumOver(g, S) = i[S]
  BY DEF SumOver
<1> HIDE DEF i
<1>4. \A j : AddsUp(g, S, j) => i[S] = j[S]
  BY <1>2, AddsUpOnce DEF Agree
<1> QED BY <1>1, <1>3, <1>4

\* The sum over no element.
LEMMA SumEmpty ==
  ASSUME NEW D, NEW g \in [D -> Int]
  PROVE  SumOver(g, {}) = 0
<1>1. IsFiniteSet({})
  BY FS_EmptySet
<1>2. PICK h : AddsUp(g, {}, h)
  BY <1>1, AddsUpExists
<1>3. h[{}] = 0
  BY <1>2, AddsUpAt
<1> QED BY <1>1, <1>2, <1>3, SumType

\* A sum depends on the values over its set.
LEMMA SumSame ==
  ASSUME NEW D, NEW E, NEW S \in SUBSET D, S \in SUBSET E, IsFiniteSet(S),
         NEW g \in [D -> Int], NEW f \in [E -> Int], Agree(f, g, S)
  PROVE  SumOver(f, S) = SumOver(g, S)
<1>1. PICK h : AddsUp(g, S, h)
  BY AddsUpExists
<1>2. PICK i : AddsUp(f, S, i)
  BY AddsUpExists
<1>3. S \in SUBSET S
  OBVIOUS
<1>4. h[S] = i[S]
  <2>1. /\ IsFiniteSet(S) /\ AddsUp(g, S, h) /\ AddsUp(f, S, i)
        /\ Agree(f, g, S)
    BY <1>1, <1>2
  <2> QED BY ONLY <2>1, AddsUpSame
<1> QED BY <1>1, <1>2, <1>4, SumType

\* A sum, with its first element taken out.
LEMMA SumPick ==
  ASSUME NEW D, NEW S \in SUBSET D, IsFiniteSet(S), NEW g \in [D -> Int], S # {}
  PROVE  SumOver(g, S) = g[Pick(S)] + SumOver(g, S \ {Pick(S)})
<1> DEFINE T == S \ {Pick(S)}
<1>1. T \in SUBSET S /\ T \in SUBSET T /\ T \in SUBSET D /\ IsFiniteSet(T)
  BY FS_Subset
<1>2. PICK h : AddsUp(g, S, h)
  BY AddsUpExists
<1>3. PICK i : AddsUp(g, T, i)
  <2> HIDE DEF T
  <2> QED BY <1>1, AddsUpExists
<1>4. h[S] = g[Pick(S)] + h[T]
  <2>1. S \in SUBSET S
    OBVIOUS
  <2>2. h[S] = IF S = {} THEN 0 ELSE g[Pick(S)] + h[T]
    BY <1>2, <2>1 DEF AddsUp
  <2> QED BY <2>2
<1> HIDE DEF T
<1>5. h[T] = i[T]
  BY <1>1, <1>2, <1>3, AddsUpOnce DEF Agree
<1>6. SumOver(g, S) = h[S] /\ SumOver(g, T) = i[T]
  BY <1>1, <1>2, <1>3, SumType
<1> QED BY <1>4, <1>5, <1>6 DEF T

\* The order does not matter: any element may be taken out.
LEMMA SumRemove ==
  ASSUME NEW D, NEW S \in SUBSET D, IsFiniteSet(S), NEW g \in [D -> Int], NEW x \in S
  PROVE  SumOver(g, S) = g[x] + SumOver(g, S \ {x})
<1> DEFINE Fine(T) == \A y \in T : SumOver(g, T) = g[y] + SumOver(g, T \ {y})
           B == {T \in SUBSET S : ~Fine(T)}
<1> SUFFICES ASSUME B # {} PROVE FALSE
  OBVIOUS
<1>1. PICK T \in B : \A v \in B : v \subseteq T => v = T
  <2> B \subseteq SUBSET S
    OBVIOUS
  <2> HIDE DEF B
  <2> QED BY LeastSet
<1>2. PICK y \in T : SumOver(g, T) # g[y] + SumOver(g, T \ {y})
  OBVIOUS
<1> DEFINE c == Pick(T)
<1>3. /\ T \in SUBSET D /\ IsFiniteSet(T) /\ T # {} /\ c \in T /\ y \in T
      /\ g[c] \in Int /\ g[y] \in Int /\ T \in SUBSET S
  BY <1>2, PickIn, FS_Subset
<1>4. SumOver(g, T) = g[c] + SumOver(g, T \ {c})
  BY <1>3, SumPick
<1> HIDE DEF c
<1>5. y # c
  BY <1>2, <1>4
<1>6. ASSUME NEW z \in T
      PROVE  Fine(T \ {z})
  <2>1. T \ {z} \in SUBSET S /\ T \ {z} \subseteq T /\ T \ {z} # T
    BY <1>3
  <2>2. T \ {z} \notin B
    <3> HIDE DEF B
    <3> QED BY <1>1, <2>1
  <2> HIDE DEF Fine
  <2> QED BY <2>1, <2>2
<1>7. SumOver(g, T \ {c}) = g[y] + SumOver(g, (T \ {c}) \ {y})
  BY <1>3, <1>5, <1>6
<1>8. SumOver(g, T \ {y}) = g[c] + SumOver(g, (T \ {y}) \ {c})
  BY <1>3, <1>5, <1>6
<1>9. (T \ {c}) \ {y} = (T \ {y}) \ {c} /\ IsFiniteSet((T \ {y}) \ {c}) /\ (T \ {y}) \ {c} \in SUBSET D
  BY <1>3, FS_Subset
<1>10. SumOver(g, (T \ {y}) \ {c}) \in Int
  BY <1>9, SumType
<1> DEFINE a == g[c]
           b == g[y]
           r == SumOver(g, (T \ {y}) \ {c})
<1>11. a \in Int /\ b \in Int /\ r \in Int /\ SumOver(g, T) = a + (b + r) /\ SumOver(g, T \ {y}) = a + r
  BY <1>3, <1>4, <1>7, <1>8, <1>9, <1>10
<1> HIDE DEF a, r
<1>12. SumOver(g, T) = b + SumOver(g, T \ {y})
  <2> HIDE DEF b
  <2> QED BY <1>11
<1> QED BY <1>2, <1>12

\* A sum with one more element.
LEMMA SumAdd ==
  ASSUME NEW D, NEW S \in SUBSET D, IsFiniteSet(S), NEW g \in [D -> Int], NEW x \in D, x \notin S
  PROVE  SumOver(g, S \cup {x}) = g[x] + SumOver(g, S)
<1>1. IsFiniteSet(S \cup {x})
  BY FS_AddElement
<1>2. (S \cup {x}) \ {x} = S /\ S \cup {x} \in SUBSET D
  OBVIOUS
<1> QED BY <1>1, <1>2, SumRemove

\* Two sets that share nothing add up.
LEMMA SumUnion ==
  ASSUME NEW D, NEW g \in [D -> Int], NEW S \in SUBSET D, NEW T \in SUBSET D,
         IsFiniteSet(S), IsFiniteSet(T), S \cap T = {}
  PROVE  SumOver(g, S \cup T) = SumOver(g, S) + SumOver(g, T)
<1> DEFINE Fine(u) == SumOver(g, u \cup T) = SumOver(g, u) + SumOver(g, T)
           B == {u \in SUBSET S : ~Fine(u)}
<1> SUFFICES ASSUME B # {} PROVE FALSE
  OBVIOUS
<1>1. PICK u \in B : \A v \in B : v \subseteq u => v = u
  <2> B \subseteq SUBSET S
    OBVIOUS
  <2> HIDE DEF B
  <2> QED BY LeastSet
<1>2. u \in SUBSET S /\ ~Fine(u) /\ SumOver(g, T) \in Int
  BY SumType
<1>3. CASE u = {}
  <2>1. u \cup T = T /\ SumOver(g, u) = 0
    BY <1>3, SumEmpty
  <2>2. Fine(u)
    BY <1>2, <2>1
  <2> HIDE DEF Fine
  <2> QED BY <1>2, <2>2
<1>4. CASE u # {}
  <2>1. PICK x : x \in u
    BY <1>4
  <2> DEFINE v == u \ {x}
  <2>2. v \in SUBSET S /\ v \subseteq u /\ v # u /\ IsFiniteSet(v) /\ v \in SUBSET D
    BY <1>2, <2>1, FS_Subset
  <2>3. Fine(v)
    <3>1. v \notin B
      <4> HIDE DEF B, v
      <4> QED BY <1>1, <2>2
    <3> HIDE DEF Fine
    <3> QED BY <2>2, <3>1
  <2>4. IsFiniteSet(v \cup T) /\ v \cup T \in SUBSET D /\ x \in D /\ x \notin v /\ x \notin v \cup T
    BY <1>2, <2>1, <2>2, FS_Union
  <2>5. (v \cup T) \cup {x} = u \cup T /\ v \cup {x} = u
    BY <2>1
  <2> HIDE DEF v
  <2>6. SumOver(g, u \cup T) = g[x] + SumOver(g, v \cup T)
    BY <2>4, <2>5, SumAdd
  <2>7. SumOver(g, u) = g[x] + SumOver(g, v)
    BY <2>2, <2>4, <2>5, SumAdd
  <2>8. SumOver(g, v) \in Int /\ g[x] \in Int
    BY <2>2, <2>4, SumType
  <2> QED BY <1>2, <2>3, <2>6, <2>7, <2>8
<1> QED BY <1>3, <1>4

\* A sum of larger numbers is larger.
LEMMA SumLess ==
  ASSUME NEW D, NEW S \in SUBSET D, IsFiniteSet(S),
         NEW g \in [D -> Int], NEW f \in [D -> Int], \A x \in S : f[x] <= g[x]
  PROVE  SumOver(f, S) <= SumOver(g, S)
<1> DEFINE Fine(u) == SumOver(f, u) <= SumOver(g, u)
           B == {u \in SUBSET S : ~Fine(u)}
<1> SUFFICES ASSUME B # {} PROVE FALSE
  BY DEF SumOver
<1>1. PICK u \in B : \A v \in B : v \subseteq u => v = u
  <2> B \subseteq SUBSET S
    OBVIOUS
  <2> HIDE DEF B
  <2> QED BY LeastSet
<1>2. u \in SUBSET S /\ ~Fine(u)
  OBVIOUS
<1>3. u # {}
  BY <1>2, SumEmpty
<1>4. PICK x : x \in u
  BY <1>3
<1> DEFINE v == u \ {x}
<1>5. v \in SUBSET S /\ v \subseteq u /\ v # u /\ IsFiniteSet(v) /\ v \in SUBSET D
  BY <1>2, <1>4, FS_Subset
<1>6. Fine(v)
  <2>1. v \notin B
    <3> HIDE DEF B, v
    <3> QED BY <1>1, <1>5
  <2> HIDE DEF Fine
  <2> QED BY <1>5, <2>1
<1>7. x \in D /\ x \notin v /\ v \cup {x} = u /\ f[x] <= g[x]
  BY <1>2, <1>4
<1> HIDE DEF v
<1>8. SumOver(g, u) = g[x] + SumOver(g, v) /\ SumOver(f, u) = f[x] + SumOver(f, v)
  BY <1>5, <1>7, SumAdd
<1>9. /\ SumOver(g, v) \in Int /\ SumOver(f, v) \in Int
      /\ g[x] \in Int /\ f[x] \in Int
  BY <1>5, <1>7, SumType
<1> QED BY <1>2, <1>6, <1>7, <1>8, <1>9

\* A sum of natural numbers is one, and grows with its set.
LEMMA SumNat ==
  ASSUME NEW D, NEW S \in SUBSET D, IsFiniteSet(S),
         NEW g \in [D -> Int], \A x \in S : g[x] >= 0
  PROVE  SumOver(g, S) >= 0
<1> DEFINE B == {u \in SUBSET S : ~(SumOver(g, u) >= 0)}
<1> SUFFICES ASSUME B # {} PROVE FALSE
  BY DEF SumOver
<1>1. PICK u \in B : \A v \in B : v \subseteq u => v = u
  <2> B \subseteq SUBSET S
    OBVIOUS
  <2> HIDE DEF B
  <2> QED BY LeastSet
<1>2. u \in SUBSET S /\ ~(SumOver(g, u) >= 0)
  OBVIOUS
<1>3. u # {}
  BY <1>2, SumEmpty
<1>4. PICK x : x \in u
  BY <1>3
<1> DEFINE v == u \ {x}
<1>5. v \in SUBSET S /\ v \subseteq u /\ v # u /\ IsFiniteSet(v) /\ v \in SUBSET D
  BY <1>2, <1>4, FS_Subset
<1>6. SumOver(g, v) >= 0
  <2>1. v \notin B
    <3> HIDE DEF B, v
    <3> QED BY <1>1, <1>5
  <2> QED BY <1>5, <2>1
<1>7. x \in D /\ x \notin v /\ v \cup {x} = u /\ g[x] >= 0
  BY <1>2, <1>4
<1> HIDE DEF v
<1>8. SumOver(g, u) = g[x] + SumOver(g, v)
  BY <1>5, <1>7, SumAdd
<1>9. SumOver(g, v) \in Int /\ g[x] \in Int
  BY <1>5, <1>7, SumType
<1> QED BY <1>2, <1>6, <1>7, <1>8, <1>9

\* What is taken from the elements of T, never twice from the same one, adds up
\* to no more than T.
LEMMA SumInto ==
  ASSUME NEW D, NEW S \in SUBSET D, IsFiniteSet(S), NEW w \in [D -> Nat],
         NEW E, NEW T \in SUBSET E, IsFiniteSet(T), NEW g \in [E -> Nat],
         NEW to, \A x \in S : w[x] > 0 => to[x] \in T /\ w[x] <= g[to[x]],
         \A x, y \in S : w[x] > 0 /\ w[y] > 0 /\ to[x] = to[y] => x = y
  PROVE  SumOver(w, S) <= SumOver(g, T)
<1> DEFINE Goes(u, V) == \A x \in u : w[x] > 0 => to[x] \in V
           Fine(u) == \A V \in SUBSET T : Goes(u, V) => SumOver(w, u) <= SumOver(g, V)
           B == {u \in SUBSET S : ~Fine(u)}
<1> SUFFICES ASSUME B # {} PROVE FALSE
  <2>1. Goes(S, T) /\ S \in SUBSET S /\ T \in SUBSET T
    OBVIOUS
  <2>2. S \notin B => Fine(S)
    BY <2>1
  <2>3. Fine(S) => SumOver(w, S) <= SumOver(g, T)
    <3> HIDE DEF Goes
    <3> QED BY <2>1
  <2> HIDE DEF Fine
  <2> QED BY <2>2, <2>3
<1>1. PICK u \in B : \A v \in B : v \subseteq u => v = u
  <2> B \subseteq SUBSET S
    OBVIOUS
  <2> HIDE DEF B
  <2> QED BY LeastSet
<1>2. u \in SUBSET S /\ ~Fine(u)
  OBVIOUS
<1>3. PICK V \in SUBSET T : Goes(u, V) /\ ~(SumOver(w, u) <= SumOver(g, V))
  BY <1>2
<1>4. /\ V \in SUBSET E /\ IsFiniteSet(V) /\ w \in [D -> Int] /\ g \in [E -> Int]
      /\ \A x \in V : g[x] >= 0
  BY FS_Subset
<1>5. SumOver(g, V) >= 0 /\ SumOver(g, V) \in Int
  BY <1>4, SumNat, SumType
<1>6. u # {}
  BY <1>3, <1>4, <1>5, SumEmpty
<1>7. PICK x : x \in u
  BY <1>6
<1> DEFINE v == u \ {x}
<1>8. v \in SUBSET S /\ v \subseteq u /\ v # u /\ IsFiniteSet(v) /\ v \in SUBSET D
  BY <1>2, <1>7, FS_Subset
<1>9. Fine(v)
  <2>1. v \notin B
    <3> HIDE DEF B, v
    <3> QED BY <1>1, <1>8
  <2> HIDE DEF Fine
  <2> QED BY <1>8, <2>1
<1>10. x \in D /\ x \notin v /\ v \cup {x} = u /\ w[x] \in Nat /\ x \in S
  BY <1>2, <1>7
<1>11. SumOver(w, u) = w[x] + SumOver(w, v) /\ SumOver(w, v) \in Int
  <2> HIDE DEF v
  <2> QED BY <1>4, <1>8, <1>10, SumAdd, SumType
<1>12. CASE w[x] = 0
  <2>1. Goes(v, V)
    BY <1>3
  <2>2. SumOver(w, v) <= SumOver(g, V)
    BY <1>9, <2>1
  <2> HIDE DEF v
  <2> QED BY <1>3, <1>5, <1>11, <1>12, <2>2
<1>13. CASE w[x] > 0
  <2> DEFINE y == to[x]
             W == V \ {y}
  <2>1. y \in V /\ y \in E /\ w[x] <= g[y] /\ g[y] \in Nat
    BY <1>3, <1>4, <1>7, <1>10, <1>13
  <2>2. Goes(v, W)
    BY <1>2, <1>3, <1>10, <1>13
  <2>3. W \in SUBSET T /\ W \in SUBSET E /\ IsFiniteSet(W) /\ y \notin W /\ W \cup {y} = V
    BY <1>4, <2>1, FS_Subset
  <2>4. SumOver(w, v) <= SumOver(g, W)
    <3> HIDE DEF v, W, Goes
    <3> QED BY <1>9, <2>2, <2>3
  <2> HIDE DEF v, W, y
  <2>5. SumOver(g, W) \in Int
    BY <1>4, <2>3, SumType
  <2>6. SumOver(g, W \cup {y}) = g[y] + SumOver(g, W)
    <3>1. g \in [E -> Int]
      BY <1>4
    <3> HIDE DEF Goes, Fine, B
    <3> QED BY ONLY <3>1, <2>1, <2>3, SumAdd
  <2>7. SumOver(g, V) = g[y] + SumOver(g, W) /\ g[y] \in Nat /\ w[x] <= g[y]
    BY <2>1, <2>3, <2>6
  <2>8. SumOver(w, u) <= SumOver(g, V)
    <3>1. w[x] \in Nat /\ SumOver(w, u) = w[x] + SumOver(w, v) /\ SumOver(w, v) \in Int
      BY <1>10, <1>11 DEF v
    <3> QED BY <3>1, <2>4, <2>5, <2>7
  <2> HIDE DEF Goes
  <2> QED BY <1>3, <2>8
<1> QED BY <1>10, <1>12, <1>13

-----------------------------------------------------------------------------
(* The money supply is the sum of the rewards of the chain *)

\* The rewards of the blocks on the chain, one per height.
Rewards == [h \in 2 .. Len(index) |-> Reward(index[h], h - 1)]

\* The heights are finite in number and each has a reward.
LEMMA RewardsType ==
  ASSUME TypeOK
  PROVE  /\ Len(index) \in Nat \ {0} /\ IsFiniteSet(2 .. Len(index))
         /\ Rewards \in [2 .. Len(index) -> Int]
<1>1. Len(index) \in Nat \ {0} /\ Len(index) <= MaxHeight + 1 /\ MaxHeight \in Nat /\ MaxRecords \in Nat
  BY BoundAssumption DEF TypeOK, Height
<1>2. IsFiniteSet(2 .. Len(index))
  BY <1>1, FS_Interval
<1>3. ASSUME NEW h \in 2 .. Len(index) PROVE Reward(index[h], h - 1) \in Int
  <2>1. h - 1 \in 0 .. MaxHeight + MaxRecords + 1
    BY <1>1
  <2> QED BY <2>1, RewardType
<1> QED BY <1>1, <1>2, <1>3 DEF Rewards

\* Their sum is an integer,
LEMMA TotalType == TypeOK => SumOver(Rewards, 2 .. Len(index)) \in Int
<1> SUFFICES ASSUME TypeOK PROVE SumOver(Rewards, 2 .. Len(index)) \in Int
  OBVIOUS
<1> DEFINE S == 2 .. Len(index)
<1>1. IsFiniteSet(S) /\ Rewards \in [S -> Int] /\ S \in SUBSET S
  BY RewardsType
<1> HIDE DEF S
<1>2. SumOver(Rewards, S) \in Int
  BY <1>1, SumType
<1> QED BY <1>2 DEF S

\* and stays one.
LEMMA TotalTypeNext == (TypeOK => SumOver(Rewards, 2 .. Len(index)) \in Int)'
BY TotalType, PTL

\* What rebuild_money_supply computes is that sum.
LEMMA RebuiltIsSum ==
  ASSUME TypeOK
  PROVE  RebuiltSupply = SumOver(Rewards, 2 .. Len(index))
<1> DEFINE S == 2 .. Len(index)
           R(h) == Reward(index[h], h - 1)
           P(it) == it = [s \in SUBSET S |->
                            IF s = {} THEN 0
                            ELSE R(CHOOSE x \in s : TRUE) + it[s \ {CHOOSE x \in s : TRUE}]]
<1>1. RebuiltSupply = (CHOOSE it : P(it))[S]
  BY DEF RebuiltSupply, MapThenSumSet, MapThenFoldSet
<1>2. ASSUME NEW it PROVE P(it) <=> AddsUp(Rewards, S, it)
  <2>1. \A s \in SUBSET S : s # {} => Rewards[Pick(s)] = R(Pick(s))
    BY PickIn DEF Rewards
  <2> HIDE DEF S, R
  <2> QED BY <2>1 DEF AddsUp, Pick
<1>3. PICK h : AddsUp(Rewards, S, h)
  BY RewardsType, AddsUpExists
<1> DEFINE i == CHOOSE it : P(it)
<1>4. AddsUp(Rewards, S, i)
  <2> HIDE DEF S, P
  <2>1. P(i)
    BY <1>2, <1>3
  <2> QED BY <1>2, <2>1
<1> HIDE DEF i
<1>5. SumOver(Rewards, S) = i[S]
  BY <1>4, RewardsType, SumType
<1> QED BY <1>1, <1>5 DEF i

SupplyInv ==
    /\ TypeInv
    /\ pc = "remove" => cur = index[Len(index)]
    /\ supply = SumOver(Rewards, 2 .. Len(index))

\* A sum over the blocks of a chain grows by its last one.
LEMMA SumGrow ==
  ASSUME NEW n \in Nat \ {0}, NEW f \in [2 .. n -> Int], NEW g \in [2 .. n + 1 -> Int],
         \A h \in 2 .. n : g[h] = f[h]
  PROVE  SumOver(g, 2 .. n + 1) = g[n + 1] + SumOver(f, 2 .. n)
<1> DEFINE S == 2 .. n
           D == 2 .. n + 1
<1>1. IsFiniteSet(S)
  BY FS_Interval
<1>2. S \in SUBSET D /\ n + 1 \in D /\ n + 1 \notin S /\ S \cup {n + 1} = D /\ S \in SUBSET S
  OBVIOUS
<1>3. Agree(g, f, S)
  BY DEF Agree
<1> HIDE DEF S, D
<1>4. f \in [S -> Int] /\ g \in [D -> Int]
  BY DEF S, D
<1>5. SumOver(g, S \cup {n + 1}) = g[n + 1] + SumOver(g, S)
  BY ONLY <1>1, <1>2, <1>4, SumAdd
<1>6. SumOver(g, S) = SumOver(f, S)
  <2>1. /\ S \in SUBSET S /\ S \in SUBSET D /\ IsFiniteSet(S)
        /\ f \in [S -> Int] /\ g \in [D -> Int] /\ Agree(g, f, S)
    BY <1>1, <1>2, <1>3, <1>4
  <2> QED BY ONLY <2>1, SumSame
<1> QED BY <1>2, <1>5, <1>6 DEF S, D

\* Adding a block adds its reward.
LEMMA RewardsGrow ==
  ASSUME TypeOK, NEW b \in Seq(Tx), index' = Append(index, b)
  PROVE  SumOver(Rewards, 2 .. Len(index))'
            = Reward(b, BlockHeight) + SumOver(Rewards, 2 .. Len(index))
<1> DEFINE n == Len(index)
<1>1. /\ Len(index') = n + 1 /\ n \in Nat \ {0} /\ index'[n + 1] = b
      /\ \A h \in 2 .. n : index'[h] = index[h]
  <2>1. index \in Seq(Seq(Tx)) /\ Height \in 0 .. MaxHeight
    BY DEF TypeOK
  <2>2. n \in Nat \ {0}
    BY <2>1 DEF Height
  <2> QED BY <2>1, <2>2
<1>2. /\ Rewards \in [2 .. n -> Int]
      /\ Rewards' = [h \in 2 .. n + 1 |-> Reward(index'[h], h - 1)]
      /\ Rewards = [h \in 2 .. n |-> Reward(index[h], h - 1)]
  BY <1>1, RewardsType DEF Rewards
<1>3. Reward(b, n) \in Int
  <2>1. n \in 0 .. MaxHeight + MaxRecords + 1
    BY <1>1, BoundAssumption DEF TypeOK, Height
  <2> QED BY <2>1, RewardType
<1>4. \A h \in 2 .. n + 1 : h \in 2 .. n \/ (h = n + 1 /\ h - 1 = n)
  BY <1>1
<1>5. n + 1 \in 2 .. n + 1 /\ n + 1 - 1 = n /\ \A h \in 2 .. n : h \in 2 .. n + 1
  BY <1>1
<1> HIDE DEF n
<1>6. /\ Rewards' \in [2 .. n + 1 -> Int] /\ Rewards'[n + 1] = Reward(b, n)
      /\ \A h \in 2 .. n : Rewards'[h] = Rewards[h]
  BY <1>1, <1>2, <1>3, <1>4, <1>5
<1>7. SumOver(Rewards', 2 .. n + 1) = Rewards'[n + 1] + SumOver(Rewards, 2 .. n)
  BY ONLY <1>1, <1>2, <1>6, SumGrow
<1> QED BY <1>1, <1>6, <1>7 DEF BlockHeight, n

\* Removing the last one takes it back.
LEMMA RewardsShrink ==
  ASSUME TypeOK, Height > 0, index' = SubSeq(index, 1, Len(index) - 1)
  PROVE  SumOver(Rewards, 2 .. Len(index))
            = Reward(index[Len(index)], Height) + SumOver(Rewards, 2 .. Len(index))'
<1> DEFINE n == Len(index) - 1
<1>1. /\ Len(index') = n /\ n \in Nat \ {0} /\ Height = n /\ Len(index) = n + 1
      /\ \A h \in 2 .. n : index'[h] = index[h] /\ h \in 2 .. n + 1
      /\ n + 1 \in 2 .. n + 1 /\ n + 1 - 1 = n
  <2>1. index \in Seq(Seq(Tx)) /\ Height \in 0 .. MaxHeight
    BY DEF TypeOK
  <2>2. n \in Nat \ {0} /\ Height = n /\ Len(index) = n + 1
    BY <2>1 DEF Height
  <2>3. Len(index') = n /\ \A h \in 1 .. n : index'[h] = index[h]
    BY <2>1, <2>2
  <2> HIDE DEF n
  <2> QED BY <2>2, <2>3
<1> HIDE DEF n
<1>2. /\ Rewards \in [2 .. n + 1 -> Int]
      /\ Rewards' = [h \in 2 .. n |-> Reward(index'[h], h - 1)]
      /\ Rewards = [h \in 2 .. n + 1 |-> Reward(index[h], h - 1)]
  BY <1>1, RewardsType DEF Rewards
<1>3. /\ Rewards' \in [2 .. n -> Int] /\ Rewards[n + 1] = Reward(index[n + 1], n)
      /\ \A h \in 2 .. n : Rewards[h] = Rewards'[h]
  BY <1>1, <1>2
<1>4. SumOver(Rewards, 2 .. n + 1) = Rewards[n + 1] + SumOver(Rewards', 2 .. n)
  BY ONLY <1>1, <1>2, <1>3, SumGrow
<1> QED BY <1>1, <1>3, <1>4

\* The supply of the genesis block.
LEMMA SupplyInit == Init => SupplyInv
<1> SUFFICES ASSUME Init PROVE SupplyInv
  OBVIOUS
<1>1. Len(index) = 1 /\ supply = 0 /\ pc = "idle"
  BY DEF Init
<1>2. TypeInv
  BY TypeInit
<1>3. 2 .. Len(index) = {} /\ Rewards \in [{} -> Int]
  BY <1>1, <1>2, RewardsType DEF TypeInv
<1>4. SumOver(Rewards, 2 .. Len(index)) = 0
  BY <1>3, SumEmpty
<1> QED BY <1>1, <1>2, <1>4 DEF SupplyInv

\* SetLastBlock adds the reward of the block, EndRemove takes back that of the
\* block it removes, at the height it was given it; no other step touches either.
LEMMA SupplyStep == SupplyInv /\ [Next]_vars => SupplyInv'
<1> SUFFICES ASSUME SupplyInv, [Next]_vars PROVE SupplyInv'
  OBVIOUS
<1>1. TypeInv /\ TypeInv' /\ TypeOK /\ TypeOK'
  BY TypeStep DEF SupplyInv, TypeInv
<1> DEFINE Total == SumOver(Rewards, 2 .. Len(index))
<1>2. ASSUME UNCHANGED <<index, supply>>, pc' = "remove" => cur' = index[Len(index)]
      PROVE  SupplyInv'
  BY <1>1, <1>2 DEF SupplyInv, Rewards
<1>3. ASSUME NEW b \in Candidates, Receive(b) PROVE SupplyInv'
  BY <1>2, <1>3 DEF Receive, chainVars
<1>4. CASE CheckTx \/ CheckAppRoot \/ Reject \/ Accept
  BY <1>2, <1>4 DEF CheckTx, CheckAppRoot, Reject, Accept, AcceptList, chainVars
<1>5. CASE StoreTx \/ StoreNullTx \/ StoreFails
  BY <1>2, <1>5 DEF StoreTx, StoreNullTx, StoreFails, chainVars
<1>6. CASE SetLastBlock
  <2>1. /\ cur \in Seq(Tx) /\ index' = Append(index, cur) /\ pc' = "idle"
        /\ supply' = supply + Reward(cur, BlockHeight)
    BY <1>1, <1>6 DEF SetLastBlock, SetLast, TypeOK
  <2>2. Total' = Reward(cur, BlockHeight) + Total
    BY <1>1, <2>1, RewardsGrow
  <2>3. supply = Total /\ supply \in Int /\ BlockHeight \in 0 .. MaxHeight + MaxRecords + 1
    BY <1>1, BoundAssumption DEF SupplyInv, TypeOK, BlockHeight, Height
  <2>4. Reward(cur, BlockHeight) \in Int
    BY <2>3, RewardType
  <2> HIDE DEF Total
  <2>5. supply' = Total'
    BY <2>1, <2>2, <2>3, <2>4
  <2> QED BY <1>1, <2>1, <2>5 DEF SupplyInv, Total
<1>7. CASE BeginRemove
  BY <1>2, <1>7 DEF BeginRemove, chainVars
<1>8. ASSUME NEW t \in Tx, RemoveTx(t) \/ RemoveAppRoot(t) PROVE SupplyInv'
  <2>1. UNCHANGED <<index, supply, pc, cur>>
    BY <1>8 DEF RemoveTx, RemoveAppRoot, chainVars
  <2> QED BY <1>2, <2>1 DEF SupplyInv
<1>9. CASE EndRemove
  <2>1. /\ index' = SubSeq(index, 1, Len(index) - 1) /\ pc' = "idle" /\ Height > 0
        /\ supply' = supply - Reward(index[Len(index)], Height)
    BY <1>1, <1>9 DEF EndRemove, RemovedReward, SupplyInv, TypeInv, Below
  <2>2. Total = Reward(index[Len(index)], Height) + Total'
    BY <1>1, <2>1, RewardsShrink
  <2>3. supply = Total /\ supply \in Int /\ Height \in 0 .. MaxHeight + MaxRecords + 1
    BY <1>1, BoundAssumption DEF SupplyInv, TypeOK, Height
  <2>4. Reward(index[Len(index)], Height) \in Int
    BY <2>3, RewardType
  <2>5. Total' \in Int
    BY <1>1, TotalTypeNext
  <2> HIDE DEF Total
  <2>6. supply' = Total'
    BY <2>1, <2>2, <2>3, <2>4, <2>5
  <2> QED BY <1>1, <2>1, <2>6 DEF SupplyInv, Total
<1>10. CASE UNCHANGED vars
  <2>1. UNCHANGED <<index, supply, pc, cur>>
    BY <1>10 DEF vars, chainVars
  <2> QED BY <1>2, <2>1 DEF SupplyInv
<1> QED BY <1>3, <1>4, <1>5, <1>6, <1>7, <1>8, <1>9, <1>10 DEF Next

\* However blocks were stored and removed, mined or staked, the supply kept on
\* disk is what rebuild_money_supply would compute from the chain.
THEOREM SupplyRebuilt == Spec => []SupplyIsRebuilt
<1>1. SupplyInv => SupplyIsRebuilt
  BY RebuiltIsSum DEF SupplyInv, TypeInv, SupplyIsRebuilt
<1> QED BY SupplyInit, SupplyStep, <1>1, PTL DEF Spec

-----------------------------------------------------------------------------
(* Amounts: MapThenSumSet of the model as sums, and what a check says of them *)

\* Words: what is left of a number.
LEMMA ModRange ==
  ASSUME NEW n \in Int, NEW m \in Nat \ {0}
  PROVE  /\ n % m \in 0 .. m - 1
         /\ n \in 0 .. m - 1 => n % m = n
         /\ n \in Nat => n % m <= n
<1>1. n % m \in 0 .. m - 1
  OBVIOUS
<1>2. n \in 0 .. m - 1 => n % m = n
  OBVIOUS
<1>3. n \in Nat => n % m <= n
  OBVIOUS
<1> QED BY <1>1, <1>2, <1>3

\* The amount of an output is a natural number.
LEMMA AmountType ==
  ASSUME NEW r
  PROVE  /\ Amount(r) \in Nat
         /\ Amount(r) > 0 => Exists(r) /\ IsMoney(OutAt(r)) /\ OutAt(r).val > 0
<1>1. CASE Exists(r) /\ IsMoney(OutAt(r))
  <2> DEFINE O == [kind : OutKinds, val : Nat, obj : Tx \cup {None}]
  <2>1. Outs[r.src] \in Seq(O) /\ r.idx \in DOMAIN Outs[r.src]
    BY <1>1, TxAssumption DEF Exists
  <2> HIDE DEF O
  <2>2. OutAt(r) \in O
    BY <2>1 DEF OutAt
  <2>3. OutAt(r).val \in Nat
    BY <2>2 DEF O
  <2> QED BY <1>1, <2>3 DEF Amount
<1>2. CASE ~(Exists(r) /\ IsMoney(OutAt(r)))
  BY <1>2 DEF Amount
<1> QED BY <1>1, <1>2

Amounts == [r \in OutRef |-> Amount(r)]
\* The value of a set of outputs.
Val(C) == SumOver(Amounts, C)

\* So is every entry of the table.
LEMMA AmountsType == Amounts \in [OutRef -> Int] /\ Amounts \in [OutRef -> Nat]
BY AmountType DEF Amounts

\* Transactions have finitely many inputs and outputs.
LEMMA Finite ==
  ASSUME NEW t \in Tx
  PROVE  /\ IsFiniteSet(DOMAIN Ins[t]) /\ IsFiniteSet(OutRefs(t))
         /\ IsFiniteSet(Makes(t)) /\ Makes(t) \subseteq OutRefs(t)
         /\ IsFiniteSet(Spends(t)) /\ Spends(t) \subseteq OutRef
         /\ OutRefs(t) \subseteq OutRef
<1> DEFINE R == [src : Tx \cup Specials, idx : Nat]
           O == [kind : OutKinds, val : Nat, obj : Tx \cup {None}]
<1>1. Ins[t] \in Seq(R) /\ Outs[t] \in Seq(O)
  BY TxAssumption
<1> HIDE DEF R, O
<1>2. /\ DOMAIN Ins[t] = 1 .. Len(Ins[t]) /\ Len(Ins[t]) \in Nat
      /\ DOMAIN Outs[t] = 1 .. Len(Outs[t]) /\ Len(Outs[t]) \in Nat
  BY <1>1
<1>3. IsFiniteSet(DOMAIN Ins[t]) /\ IsFiniteSet(DOMAIN Outs[t])
  BY <1>2, FS_Interval
<1>4. IsFiniteSet(OutRefs(t)) /\ IsFiniteSet(Refs(t))
  <2>1. Ins[t] \in Surjection(DOMAIN Ins[t], Refs(t))
    BY <1>1 DEF Refs, SeqRange, Surjection
  <2> DEFINE f == [i \in DOMAIN Outs[t] |-> [src |-> t, idx |-> i]]
  <2>2. f \in Surjection(DOMAIN Outs[t], OutRefs(t))
    BY DEF OutRefs, Surjection
  <2> QED BY <1>3, <2>1, <2>2, FS_Surjection
<1>5. Makes(t) \subseteq OutRefs(t) /\ Spends(t) \subseteq Refs(t) /\ OutRefs(t) \subseteq OutRef
  BY OutRefsType DEF Makes, Spends
<1>6. Spends(t) \subseteq OutRef
  BY SpendsCoin
<1> QED BY <1>3, <1>4, <1>5, <1>6, FS_Subset

\* The value of a finite set is a natural number.
LEMMA ValType ==
  ASSUME NEW C, C \subseteq OutRef, IsFiniteSet(C)
  PROVE  Val(C) \in Nat
<1>1. C \in SUBSET OutRef /\ \A x \in C : Amounts[x] >= 0
  BY AmountType DEF Amounts
<1>2. Val(C) \in Int
  BY <1>1, AmountsType, SumType DEF Val
<1>3. Val(C) >= 0
  BY <1>1, AmountsType, SumNat DEF Val
<1> QED BY <1>2, <1>3

\* The total of the outputs is the value of their set, cut to a word.
LEMMA OutIsSum ==
  ASSUME NEW t \in Tx
  PROVE  PaidOut(t) = Val(OutRefs(t)) /\ TotalOut(t) = Val(OutRefs(t)) % AmountMod
<1> DEFINE S == OutRefs(t)
           P(it) == it = [s \in SUBSET S |->
                            IF s = {} THEN 0
                            ELSE Amount(CHOOSE x \in s : TRUE) + it[s \ {CHOOSE x \in s : TRUE}]]
<1>1. PaidOut(t) = (CHOOSE it : P(it))[S] /\ TotalOut(t) = (CHOOSE it : P(it))[S] % AmountMod
  BY DEF PaidOut, TotalOut, MapThenSumSet, MapThenFoldSet
<1>2. ASSUME NEW it PROVE P(it) <=> AddsUp(Amounts, S, it)
  <2>1. \A s \in SUBSET S : s # {} => Amounts[Pick(s)] = Amount(Pick(s))
    BY PickIn, OutRefsType DEF Amounts
  <2> HIDE DEF S
  <2> QED BY <2>1 DEF AddsUp, Pick
<1>3. PICK h : AddsUp(Amounts, S, h)
  BY AmountsType, Finite, AddsUpExists
<1> DEFINE i == CHOOSE it : P(it)
<1>4. AddsUp(Amounts, S, i)
  <2> HIDE DEF S, P
  <2>1. P(i)
    BY <1>2, <1>3
  <2> QED BY <1>2, <2>1
<1> HIDE DEF i
<1>5. SumOver(Amounts, S) = i[S]
  BY <1>4, AmountsType, Finite, SumType
<1> QED BY <1>1, <1>5 DEF i, Val

\* The total of the unspent coins is the value of their set.
LEMMA CoinTotalIsSum ==
  ASSUME NEW C, C = {r \in utxo : Coin(r)}, C \subseteq OutRef, IsFiniteSet(C)
  PROVE  CoinTotal = Val(C)
<1> DEFINE P(it) == it = [s \in SUBSET C |->
                            IF s = {} THEN 0
                            ELSE Amount(CHOOSE x \in s : TRUE) + it[s \ {CHOOSE x \in s : TRUE}]]
<1>1. CoinTotal = (CHOOSE it : P(it))[C]
  BY DEF CoinTotal, MapThenSumSet, MapThenFoldSet
<1>2. ASSUME NEW it PROVE P(it) <=> AddsUp(Amounts, C, it)
  <2>1. \A s \in SUBSET C : s # {} => Amounts[Pick(s)] = Amount(Pick(s))
    BY PickIn DEF Amounts
  <2> QED BY <2>1 DEF AddsUp, Pick
<1>3. PICK h : AddsUp(Amounts, C, h)
  BY AmountsType, AddsUpExists
<1> DEFINE i == CHOOSE it : P(it)
<1>4. AddsUp(Amounts, C, i)
  <2> HIDE DEF P
  <2>1. P(i)
    BY <1>2, <1>3
  <2> QED BY <1>2, <2>1
<1> HIDE DEF i
<1>5. SumOver(Amounts, C) = i[C]
  BY <1>4, AmountsType, SumType
<1> QED BY <1>1, <1>5 DEF i, Val

\* What an input read as a spending brings in.
Takes(t) == [i \in IndexesOfKind(t, {"spend"}) |-> Amount(Ins[t][i])]

\* The total of the inputs is the sum of what they bring in, cut to a word.
LEMMA InIsSum ==
  ASSUME NEW t \in Tx
  PROVE  /\ Takes(t) \in [IndexesOfKind(t, {"spend"}) -> Nat]
         /\ IsFiniteSet(IndexesOfKind(t, {"spend"}))
         /\ TotalIn(t) = SumOver(Takes(t), IndexesOfKind(t, {"spend"})) % AmountMod
<1> DEFINE S == IndexesOfKind(t, {"spend"})
           g == Takes(t)
           P(it) == it = [s \in SUBSET S |->
                            IF s = {} THEN 0
                            ELSE Amount(Ins[t][CHOOSE x \in s : TRUE]) + it[s \ {CHOOSE x \in s : TRUE}]]
<1>1. TotalIn(t) = (CHOOSE it : P(it))[S] % AmountMod
  BY DEF TotalIn, MapThenSumSet, MapThenFoldSet
<1>2. IsFiniteSet(S) /\ g \in [S -> Nat] /\ g \in [S -> Int] /\ g = [i \in S |-> Amount(Ins[t][i])]
  <2>1. S \subseteq DOMAIN Ins[t]
    BY DEF IndexesOfKind
  <2> QED BY <2>1, Finite, FS_Subset, AmountType DEF Takes
<1> HIDE DEF g, S
<1>3. ASSUME NEW it PROVE P(it) <=> AddsUp(g, S, it)
  <2>1. \A s \in SUBSET S : s # {} => g[Pick(s)] = Amount(Ins[t][Pick(s)])
    BY <1>2, PickIn
  <2> QED BY <2>1 DEF AddsUp, Pick
<1>4. PICK h : AddsUp(g, S, h)
  BY <1>2, AddsUpExists
<1> DEFINE i == CHOOSE it : P(it)
<1>5. AddsUp(g, S, i)
  <2> HIDE DEF P
  <2>1. P(i)
    BY <1>3, <1>4
  <2> QED BY <1>3, <2>1
<1> HIDE DEF i
<1>6. SumOver(g, S) = i[S]
  BY <1>2, <1>5, SumType
<1> QED BY <1>1, <1>2, <1>6 DEF i, g, S

\* The fees of the ordinary transactions of a block.
Plains(b) == {i \in DOMAIN b : Plain(b[i])}
FeeOf(b) == [i \in DOMAIN b |-> Fee(b[i])]

\* The fees of a block are the sum of those of its transactions, cut to a word.
LEMMA FeesIsSum ==
  ASSUME NEW b \in Seq(Tx)
  PROVE  /\ FeeOf(b) \in [DOMAIN b -> Int]
         /\ IsFiniteSet(DOMAIN b)
         /\ Fees(b) = SumOver(FeeOf(b), Plains(b)) % AmountMod
<1> DEFINE S == Plains(b)
           g == FeeOf(b)
           P(it) == it = [s \in SUBSET S |->
                            IF s = {} THEN 0
                            ELSE Fee(b[CHOOSE x \in s : TRUE]) + it[s \ {CHOOSE x \in s : TRUE}]]
<1>1. Fees(b) = (CHOOSE it : P(it))[S] % AmountMod
  BY DEF Fees, Plains, MapThenSumSet, MapThenFoldSet
<1>2. IsFiniteSet(DOMAIN b) /\ IsFiniteSet(S) /\ S \in SUBSET DOMAIN b
  BY FS_Interval, FS_Subset DEF Plains
<1>3. g \in [DOMAIN b -> Int] /\ g = [i \in DOMAIN b |-> Fee(b[i])]
  <2>1. ASSUME NEW i \in DOMAIN b PROVE Fee(b[i]) \in Int
    <3> DEFINE t == b[i]
    <3>1. t \in Tx
      OBVIOUS
    <3> HIDE DEF t
    <3>2. TotalOut(t) \in Int
      <4>1. Val(OutRefs(t)) \in Int
        BY <3>1, Finite, ValType
      <4> QED BY <3>1, <4>1, OutIsSum, ModRange, BoundAssumption
    <3> DEFINE s == IndexesOfKind(t, {"spend"})
    <3>3. SumOver(Takes(t), s) \in Int
      <4>1. Takes(t) \in [s -> Int] /\ IsFiniteSet(s) /\ s \in SUBSET s
        BY <3>1, InIsSum
      <4> HIDE DEF s
      <4> QED BY <4>1, SumType
    <3>4. TotalIn(t) \in Int
      BY <3>1, <3>3, InIsSum, ModRange, BoundAssumption
    <3> QED BY <3>2, <3>4 DEF Fee, t
  <2> QED BY <2>1 DEF FeeOf
<1> HIDE DEF g, S
<1>4. ASSUME NEW it PROVE P(it) <=> AddsUp(g, S, it)
  <2>1. \A s \in SUBSET S : s # {} => g[Pick(s)] = Fee(b[Pick(s)])
    BY <1>2, <1>3, PickIn
  <2> QED BY <2>1 DEF AddsUp, Pick
<1>5. PICK h : AddsUp(g, S, h)
  BY <1>2, <1>3, AddsUpExists
<1> DEFINE i == CHOOSE it : P(it)
<1>6. AddsUp(g, S, i)
  <2> HIDE DEF P
  <2>1. P(i)
    BY <1>4, <1>5
  <2> QED BY <1>4, <2>1
<1> HIDE DEF i
<1>7. SumOver(g, S) = i[S]
  BY <1>2, <1>3, <1>6, SumType
<1> QED BY <1>1, <1>2, <1>3, <1>7 DEF i, g, S

\* The totals of a transaction are words.
LEMMA TotalsType ==
  ASSUME NEW t \in Tx
  PROVE  TotalOut(t) \in 0 .. AmountMod - 1 /\ TotalIn(t) \in 0 .. AmountMod - 1
<1>1. TotalOut(t) \in 0 .. AmountMod - 1
  <2>1. Val(OutRefs(t)) \in Int
    BY Finite, ValType
  <2> QED BY <2>1, OutIsSum, ModRange, BoundAssumption
<1> DEFINE s == IndexesOfKind(t, {"spend"})
<1>2. SumOver(Takes(t), s) \in Int
  <2>1. Takes(t) \in [s -> Int] /\ IsFiniteSet(s) /\ s \in SUBSET s
    BY InIsSum
  <2> HIDE DEF s
  <2> QED BY <2>1, SumType
<1>3. TotalIn(t) = SumOver(Takes(t), s) % AmountMod
  BY InIsSum
<1> HIDE DEF s
<1> QED BY <1>1, <1>2, <1>3, ModRange, BoundAssumption

\* The coins a transaction makes are worth no more than what it pays.
LEMMA MakesPaid ==
  ASSUME NoOverflow, NEW t \in Tx, t \in Submitted
  PROVE  Val(Makes(t)) <= TotalOut(t)
<1>1. TotalOut(t) = Val(OutRefs(t))
  <2>1. Val(OutRefs(t)) \in Nat /\ Val(OutRefs(t)) < AmountMod
    BY Finite, ValType, OutIsSum DEF NoOverflow
  <2>2. Val(OutRefs(t)) \in 0 .. AmountMod - 1
    BY <2>1, BoundAssumption
  <2> QED BY <2>1, <2>2, OutIsSum, ModRange, BoundAssumption
<1> DEFINE to == [r \in OutRef |-> r]
<1>2. /\ Makes(t) \in SUBSET OutRef /\ OutRefs(t) \in SUBSET OutRef
      /\ IsFiniteSet(Makes(t)) /\ IsFiniteSet(OutRefs(t)) /\ Amounts \in [OutRef -> Nat]
      /\ \A r \in Makes(t) : to[r] = r /\ r \in OutRefs(t) /\ Amounts[r] \in Nat
  BY Finite, AmountsType
<1> HIDE DEF to
<1>3. /\ \A x \in Makes(t) : Amounts[x] > 0 => to[x] \in OutRefs(t) /\ Amounts[x] <= Amounts[to[x]]
      /\ \A x, y \in Makes(t) : Amounts[x] > 0 /\ Amounts[y] > 0 /\ to[x] = to[y] => x = y
  BY <1>2
<1>4. SumOver(Amounts, Makes(t)) <= SumOver(Amounts, OutRefs(t))
  BY ONLY <1>2, <1>3, SumInto
<1> QED BY <1>1, <1>4 DEF Val

\* What a transaction that passes the check of its inputs brings in is worth no
\* more than the coins it spends.
LEMMA TakesSpends ==
  ASSUME OnlyCoinsPay, NEW t \in Tx, t \in Submitted, ~IsAppRoot(t), txIndex \subseteq Tx, objs \subseteq Tx,
         CheckTxInputs(t)
  PROVE  TotalIn(t) <= Val(Spends(t))
<1> DEFINE S == IndexesOfKind(t, {"spend"})
           w == Takes(t)
           to == Ins[t]
<1>1. /\ w \in [S -> Nat] /\ w \in [S -> Int] /\ IsFiniteSet(S) /\ S \in SUBSET S
      /\ TotalIn(t) = SumOver(w, S) % AmountMod
  BY InIsSum
<1>2. SumOver(w, S) \in Int /\ SumOver(w, S) >= 0
  <2> HIDE DEF S, w
  <2>1. \A x \in S : w[x] >= 0
    BY <1>1
  <2> QED BY <1>1, <2>1, SumType, SumNat
<1>3. TotalIn(t) <= SumOver(w, S)
  BY <1>1, <1>2, ModRange, BoundAssumption
<1>4. ASSUME NEW i \in S, w[i] > 0
      PROVE  to[i] \in Spends(t) /\ w[i] <= Amounts[to[i]]
  <2>1. w[i] = Amount(to[i]) /\ to[i] \in Refs(t)
    BY <1>4 DEF Takes, IndexesOfKind, Refs, SeqRange
  <2>2. Coin(to[i]) /\ to[i].src \in Tx
    BY <1>4, <2>1, CoinSource DEF OnlyCoinsPay
  <2>3. ~IsTxNull(t)
    BY <2>1, <2>2, NullTxAssumption
  <2>4. to[i] \in Spends(t)
    BY <2>1, <2>2, <2>3 DEF Spends
  <2>5. to[i] \in OutRef
    BY <2>4, SpendsCoin
  <2> HIDE DEF to
  <2>6. Amounts[to[i]] = Amount(to[i]) /\ Amount(to[i]) \in Nat
    BY <2>5, AmountType DEF Amounts
  <2> QED BY <2>1, <2>4, <2>6
<1>5. \A i, j \in S : to[i] = to[j] => i = j
  BY DEF CheckTxInputs, IndexesOfKind
<1>6. Spends(t) \in SUBSET OutRef /\ IsFiniteSet(Spends(t)) /\ Amounts \in [OutRef -> Nat]
  BY Finite, AmountsType
<1> HIDE DEF S, w, to
<1>7. /\ \A x \in S : w[x] > 0 => to[x] \in Spends(t) /\ w[x] <= Amounts[to[x]]
      /\ \A x, y \in S : w[x] > 0 /\ w[y] > 0 /\ to[x] = to[y] => x = y
  BY <1>4, <1>5
<1>8. SumOver(w, S) <= SumOver(Amounts, Spends(t))
  BY ONLY <1>1, <1>6, <1>7, SumInto
<1>9. Val(Spends(t)) = SumOver(Amounts, Spends(t)) /\ Val(Spends(t)) \in Int
  BY Finite, ValType DEF Val
<1>10. TotalIn(t) \in Int
  BY TotalsType
<1> QED BY <1>2, <1>3, <1>8, <1>9, <1>10

\* How an input is read does not change while the block is checked, but for the
\* inputs that match nothing.
LEMMA KindStable ==
  ASSUME UNCHANGED <<txIndex, apps, hasRoot>>, objs \subseteq objs', NEW r, InKind(r) # "none"
  PROVE  InKind(r)' = InKind(r)
<1>1. TxIsAppItem(r)' <=> TxIsAppItem(r)
  BY DEF TxIsAppItem
<1>2. MakesObject(r.src)' <=> MakesObject(r.src)
  BY DEF MakesObject, TxIsAppItem
<1>3. CASE r.src \in txIndex \cup objs
  <2>1. r.src \in txIndex' \cup objs'
    BY <1>3
  <2> QED BY <1>1, <1>2, <1>3, <2>1 DEF InKind
<1>4. CASE r.src \notin txIndex \cup objs
  BY <1>1, <1>2, <1>4 DEF InKind
<1> QED BY <1>3, <1>4

\* InIsSum after a step.
LEMMA InIsSumNext ==
  (\A t \in Tx : TotalIn(t) = SumOver(Takes(t), IndexesOfKind(t, {"spend"})) % AmountMod)'
<1>1. \A t \in Tx : TotalIn(t) = SumOver(Takes(t), IndexesOfKind(t, {"spend"})) % AmountMod
  BY InIsSum
<1> QED BY <1>1, PTL

\* Nor does what a transaction already checked brings in.
LEMMA InStable ==
  ASSUME UNCHANGED <<txIndex, apps, hasRoot>>, objs \subseteq objs', NEW t \in Tx,
         RefsOfKind(t, {"none"}) = {}
  PROVE  TotalIn(t)' = TotalIn(t) /\ Fee(t)' = Fee(t) /\ RefsOfKind(t, {"none"})' = {}
<1>1. \A r \in Refs(t) : InKind(r)' = InKind(r) /\ InKind(r) # "none"
  BY KindStable DEF RefsOfKind
<1>2. RefsOfKind(t, {"none"})' = {}
  BY <1>1 DEF RefsOfKind
<1>3. IndexesOfKind(t, {"spend"})' = IndexesOfKind(t, {"spend"})
  BY <1>1 DEF IndexesOfKind, Refs, SeqRange
<1>4. Takes(t)' = Takes(t)
  BY <1>3 DEF Takes
<1>5. TotalIn(t)' = TotalIn(t)
  BY <1>3, <1>4, InIsSum, InIsSumNext
<1> QED BY <1>2, <1>5 DEF Fee, TotalOut

-----------------------------------------------------------------------------
(* What the transactions of a block gain, one after the other *)

\* The coins the first n transactions of a block make, and those they spend.
MadeTo(b, n) == UNION {Makes(b[i]) : i \in 1 .. n}
SpentTo(b, n) == UNION {Spends(b[i]) : i \in 1 .. n}
GainTo(b, n) == Val(MadeTo(b, n)) - Val(SpentTo(b, n))
Gain(b) == GainTo(b, Len(b))

\* Those sets are finite, and worth natural numbers.
LEMMA BlockSets ==
  ASSUME NEW b \in Seq(Tx), NEW n \in 0 .. Len(b)
  PROVE  /\ MadeTo(b, n) \subseteq OutRef /\ IsFiniteSet(MadeTo(b, n))
         /\ SpentTo(b, n) \subseteq OutRef /\ IsFiniteSet(SpentTo(b, n))
         /\ Val(MadeTo(b, n)) \in Nat /\ Val(SpentTo(b, n)) \in Nat /\ GainTo(b, n) \in Int
<1>1. \A i \in 1 .. n : /\ b[i] \in Tx
                        /\ IsFiniteSet(Makes(b[i])) /\ Makes(b[i]) \subseteq OutRef
                        /\ IsFiniteSet(Spends(b[i])) /\ Spends(b[i]) \subseteq OutRef
  <2>1. \A i \in 1 .. n : b[i] \in Tx
    OBVIOUS
  <2> QED BY <2>1, Finite
<1>2. IsFiniteSet(1 .. n)
  BY FS_Interval
<1> DEFINE M == {Makes(b[i]) : i \in 1 .. n}
           S == {Spends(b[i]) : i \in 1 .. n}
<1>3. IsFiniteSet(M) /\ IsFiniteSet(S)
  <2> DEFINE f == [i \in 1 .. n |-> Makes(b[i])]
             g == [i \in 1 .. n |-> Spends(b[i])]
  <2>1. f \in Surjection(1 .. n, M) /\ g \in Surjection(1 .. n, S)
    BY DEF Surjection
  <2> QED BY <1>2, <2>1, FS_Surjection
<1>4. IsFiniteSet(UNION M) /\ IsFiniteSet(UNION S)
  BY <1>1, <1>3, FS_UNION
<1>5. /\ MadeTo(b, n) \subseteq OutRef /\ IsFiniteSet(MadeTo(b, n))
      /\ SpentTo(b, n) \subseteq OutRef /\ IsFiniteSet(SpentTo(b, n))
  BY <1>1, <1>4 DEF MadeTo, SpentTo
<1>6. Val(MadeTo(b, n)) \in Nat /\ Val(SpentTo(b, n)) \in Nat
  BY <1>5, ValType
<1> QED BY <1>5, <1>6 DEF GainTo

\* Values of sets that share nothing add up.
LEMMA ValUnion ==
  ASSUME NEW C, C \subseteq OutRef, IsFiniteSet(C), NEW D, D \subseteq OutRef, IsFiniteSet(D),
         C \cap D = {}
  PROVE  Val(C \cup D) = Val(C) + Val(D)
BY AmountsType, SumUnion DEF Val

\* One more transaction adds what it makes and takes what it spends, provided
\* no earlier one of the block spends the same.
LEMMA GainGrows ==
  ASSUME NEW b \in Candidates, NEW n \in 1 .. Len(b),
         \A i \in 1 .. n - 1 : Spends(b[i]) \cap Spends(b[n]) = {}
  PROVE  GainTo(b, n) = GainTo(b, n - 1) + Val(Makes(b[n])) - Val(Spends(b[n]))
<1>1. /\ b \in Seq(Tx) /\ b[n] \in Tx /\ n - 1 \in 0 .. Len(b) /\ n \in 0 .. Len(b)
      /\ 1 .. n = (1 .. n - 1) \cup {n} /\ \A i \in 1 .. n - 1 : b[i] # b[n] /\ b[i] \in Tx
  BY CandidateType, CandidateAssumption
<1>2. /\ MadeTo(b, n) = MadeTo(b, n - 1) \cup Makes(b[n])
      /\ SpentTo(b, n) = SpentTo(b, n - 1) \cup Spends(b[n])
  BY <1>1 DEF MadeTo, SpentTo
<1>3. MadeTo(b, n - 1) \cap Makes(b[n]) = {}
  BY <1>1, MakesCoin DEF MadeTo
<1>4. SpentTo(b, n - 1) \cap Spends(b[n]) = {}
  BY DEF SpentTo
<1>5. /\ Makes(b[n]) \subseteq OutRef /\ IsFiniteSet(Makes(b[n]))
      /\ Spends(b[n]) \subseteq OutRef /\ IsFiniteSet(Spends(b[n]))
  BY <1>1, Finite
<1> DEFINE p == MadeTo(b, n - 1)
           q == SpentTo(b, n - 1)
           m == Makes(b[n])
           s == Spends(b[n])
<1>6. p \subseteq OutRef /\ IsFiniteSet(p) /\ q \subseteq OutRef /\ IsFiniteSet(q)
  BY <1>1, BlockSets
<1>7. Val(p) \in Int /\ Val(q) \in Int /\ Val(m) \in Int /\ Val(s) \in Int
  BY <1>5, <1>6, ValType
<1>8. Val(p \cup m) = Val(p) + Val(m) /\ Val(q \cup s) = Val(q) + Val(s)
  <2> HIDE DEF p, q, m, s
  <2> QED BY <1>3, <1>4, <1>5, <1>6, ValUnion DEF p, q, m, s
<1>9. GainTo(b, n) = Val(p \cup m) - Val(q \cup s) /\ GainTo(b, n - 1) = Val(p) - Val(q)
  BY <1>2 DEF GainTo
<1> HIDE DEF p, q
<1>10. GainTo(b, n) = GainTo(b, n - 1) + Val(m) - Val(s)
  <2> HIDE DEF m, s
  <2> QED BY <1>7, <1>8, <1>9
<1> QED BY <1>10

\* A transaction that makes and spends no coin changes nothing.
LEMMA GainSame ==
  ASSUME NEW b \in Candidates, NEW n \in 1 .. Len(b), Makes(b[n]) = {}, Spends(b[n]) = {}
  PROVE  GainTo(b, n) = GainTo(b, n - 1)
<1>1. 1 .. n = (1 .. n - 1) \cup {n}
  OBVIOUS
<1>2. MadeTo(b, n) = MadeTo(b, n - 1) /\ SpentTo(b, n) = SpentTo(b, n - 1)
  BY <1>1 DEF MadeTo, SpentTo
<1> QED BY <1>2 DEF GainTo

\* Null transactions and the root of applications make and spend no coin.
LEMMA NoCoins ==
  ASSUME NEW t \in Tx, IsTxNull(t) \/ IsAppRoot(t)
  PROVE  Makes(t) = {} /\ Spends(t) = {}
<1>1. Spends(t) = {}
  BY DEF Spends
<1>2. ASSUME NEW r \in Makes(t) PROVE FALSE
  <2>1. Coin(r) /\ r.src = t
    BY MakesCoin
  <2>2. IsTxNull(t) /\ Exists(r) /\ IsMoney(OutAt(r))
    BY <2>1 DEF Coin
  <2> DEFINE O == [kind : OutKinds, val : Nat, obj : Tx \cup {None}]
  <2>3. Outs[t] \in Seq(O)
    BY TxAssumption
  <2> HIDE DEF O
  <2>4. r.idx = 1
    BY <2>1, <2>2, <2>3 DEF IsTxNull, Exists
  <2> QED BY <2>1, <2>2, <2>4 DEF IsTxNull, OutAt, IsMoney
<1> QED BY <1>1, <1>2

-----------------------------------------------------------------------------
(* The coins are backed.                                                     *)
(*                                                                            *)
(* CoinsBacked says nothing of the block that is being checked. While it is,  *)
(* its transactions so far make no more than they spend plus the gain of the  *)
(* minter less the fees (Weighed); check_tx_list compares that gain with the  *)
(* reward and the fees (Earned, once accepted); so every block of the chain   *)
(* gained at most its reward (BlocksEarned), and the coins of the chain are   *)
(* the sum of the gains (Worth), the supply that of the rewards.              *)

FeeTo(n) == SumOver(FeeOf(cur), {i \in Plains(cur) : i <= n})
MinterGain == IF minter = None THEN 0 ELSE TotalOut(minter) - TotalIn(minter)
Weighed ==
    pc = "check" =>
        /\ \A i \in 1 .. k - 1 : Plain(cur[i]) => RefsOfKind(cur[i], {"none"}) = {}
        /\ minter # None => RefsOfKind(minter, {"none"}) = {}
        /\ FeeTo(k - 1) >= 0
        /\ GainTo(cur, k - 1) + FeeTo(k - 1) <= MinterGain
Earned == pc = "store" => Gain(cur) <= Reward(cur, BlockHeight)
BlocksEarned == \A h \in 2 .. Len(index) : Gain(index[h]) <= Reward(index[h], h - 1)
Gains == [h \in 2 .. Len(index) |-> Gain(index[h])]
Worth == Val(ChainCoins) = SumOver(Gains, 2 .. Len(index))

BackedInv ==
    /\ LedgerInv /\ SupplyInv
    /\ ~failed => Weighed /\ Earned /\ BlocksEarned /\ Worth

\* One more entry in a sum whose other entries stay as they are.
LEMMA FeeStep ==
  ASSUME NEW D, IsFiniteSet(D), NEW n \in D,
         NEW f \in [D -> Int], NEW g \in [D -> Int],
         NEW S \in SUBSET D, n \notin S, Agree(g, f, S)
  PROVE  /\ SumOver(f, S) \in Int
         /\ SumOver(g, S) = SumOver(f, S)
         /\ SumOver(g, S \cup {n}) = g[n] + SumOver(f, S)
<1>1. IsFiniteSet(S)
  BY FS_Subset
<1>2. SumOver(f, S) \in Int
  BY <1>1, SumType
<1>3. SumOver(g, S) = SumOver(f, S)
  BY <1>1, SumSame
<1>4. SumOver(g, S \cup {n}) = g[n] + SumOver(g, S)
  BY <1>1, SumAdd
<1> QED BY <1>2, <1>3, <1>4

\* The table of the fees after a step.
LEMMA FeesIsSumNext == (\A b \in Seq(Tx) : FeeOf(b) \in [DOMAIN b -> Int])'
<1>1. \A b \in Seq(Tx) : FeeOf(b) \in [DOMAIN b -> Int]
  BY FeesIsSum
<1> QED BY <1>1, PTL

\* Checking one more transaction keeps the account. (The block, the place and
\* the transaction are named, for what they are must not change with the step.)
LEMMA WeighTx ==
  ASSUME OnlyCoinsPay, NoOverflow, BackedInv, CheckTx, ~failed,
         NEW b, b = cur, NEW n, n = k, NEW t, t = b[n], NEW m, m = minter
  PROVE  Weighed'
<1> DEFINE D == DOMAIN b
           Q == Plains(b)
           f == FeeOf(b)
           g == FeeOf(b)'
           S == {i \in Q : i <= n - 1}
           T == {i \in Q : i <= n}
<1>1. /\ pc = "check" /\ pc' = pc /\ cur' = b /\ k' = n + 1
      /\ b \in Candidates /\ b \in Seq(Tx) /\ n \in 1 .. Len(b) /\ t \in Tx
      /\ D = 1 .. Len(b) /\ Len(b) \in Nat
      /\ txIndex \subseteq Tx /\ objs \subseteq Tx /\ m \in Tx \cup {None}
  <2>1. cur \in Seq(Tx) /\ k \in Nat \ {0} /\ k <= Len(cur) /\ pc = "check"
    BY DEF CheckTx, BackedInv, LedgerInv, CoinInv, TypeInv, TypeOK
  <2>2. cur \in Candidates /\ txIndex \subseteq Tx /\ objs \subseteq Tx /\ minter \in Tx \cup {None}
    BY <2>1 DEF BackedInv, LedgerInv, CoinInv, Sound, CurIsNew, Busy, TypeInv, TypeOK
  <2> QED BY <2>1, <2>2 DEF CheckTx
<1>2. /\ UNCHANGED <<txIndex, apps, hasRoot>> /\ objs \subseteq objs'
      /\ ~IsAppRoot(t) /\ CheckTxInputs(t) /\ CheckRole(t)
      /\ minter' = IF IsStaking(t) \/ IsCoinbase(t) THEN t ELSE m
  BY DEF CheckTx, stateVars
<1>3. RefsOfKind(t, {"none"}) = {}
  BY <1>2 DEF CheckTxInputs
<1>4. /\ \A i \in 1 .. n - 1 : Plain(b[i]) => RefsOfKind(b[i], {"none"}) = {}
      /\ m # None => RefsOfKind(m, {"none"}) = {}
      /\ SumOver(f, S) >= 0
      /\ GainTo(b, n - 1) + SumOver(f, S) <= MinterGain
  BY <1>1 DEF BackedInv, Weighed, FeeTo
<1>5. \A s \in Tx : RefsOfKind(s, {"none"}) = {} =>
            TotalIn(s)' = TotalIn(s) /\ Fee(s)' = Fee(s) /\ RefsOfKind(s, {"none"})' = {}
  BY <1>2, InStable
<1>6. \A i \in 1 .. n : i \in 1 .. n - 1 \/ i = n
  BY <1>1
<1>7. \A i \in 1 .. n : Plain(b[i]) => RefsOfKind(b[i], {"none"})' = {}
  <2>1. \A i \in 1 .. n : b[i] \in Tx
    BY <1>1
  <2>2. \A i \in 1 .. n : Plain(b[i]) => RefsOfKind(b[i], {"none"}) = {}
    BY <1>3, <1>4, <1>6
  <2> QED BY <1>5, <2>1, <2>2
<1>8. (minter # None => RefsOfKind(minter, {"none"}) = {})'
  <2>1. minter' = t => RefsOfKind(t, {"none"})' = {}
    BY <1>1, <1>3, <1>5
  <2>2. minter' = m /\ m # None => RefsOfKind(m, {"none"})' = {}
    BY <1>1, <1>4, <1>5
  <2> QED BY <1>2, <2>1, <2>2 DEF RefsOfKind, Refs
<1>9. /\ f \in [D -> Int] /\ g \in [D -> Int] /\ IsFiniteSet(D)
      /\ f = [i \in D |-> Fee(b[i])] /\ g = [i \in D |-> Fee(b[i])']
  <2>1. f \in [D -> Int] /\ IsFiniteSet(D)
    BY <1>1, FeesIsSum
  <2>2. g = [i \in D |-> Fee(b[i])']
    BY <1>1 DEF FeeOf
  <2>3. g \in [D -> Int]
    BY <1>1, FeesIsSumNext
  <2> QED BY <2>1, <2>2, <2>3 DEF FeeOf
<1>10. Agree(g, f, S) /\ Q \in SUBSET D /\ n \in D /\ D \in SUBSET Nat
  <2>1. Q \in SUBSET D /\ n \in D /\ D \in SUBSET Nat
    BY <1>1 DEF Plains
  <2>2. ASSUME NEW i \in S PROVE g[i] = f[i]
    <3>1. i \in 1 .. n - 1 /\ i \in D /\ Plain(b[i]) /\ b[i] \in Tx
      BY <1>1 DEF Plains
    <3>2. RefsOfKind(b[i], {"none"}) = {}
      BY <1>4, <3>1
    <3> QED BY <1>5, <1>9, <3>1, <3>2
  <2> QED BY <2>1, <2>2 DEF Agree
<1>11. /\ SumOver(f, S) \in Int
       /\ SumOver(g, T) = IF n \in Q THEN g[n] + SumOver(f, S) ELSE SumOver(f, S)
  <2>1. n \notin S /\ (n \in Q => T = S \cup {n}) /\ (n \notin Q => T = S)
    <3>1. n \in Nat /\ \A i \in Q : i \in Nat
      BY <1>10
    <3>2. n \notin S
      BY <3>1
    <3>3. \A i \in Q : i \in S <=> i \in T /\ i # n
      BY <3>1
    <3>4. n \in Q => n \in T
      BY <3>1
    <3>5. S \subseteq Q /\ T \subseteq Q
      OBVIOUS
    <3> QED BY ONLY <3>2, <3>3, <3>4, <3>5
  <2>2. /\ f \in [D -> Int] /\ g \in [D -> Int] /\ IsFiniteSet(D) /\ n \in D
        /\ S \in SUBSET D /\ n \notin S /\ Agree(g, f, S)
    BY <1>9, <1>10, <2>1
  <2> HIDE DEF D, f, g, Q, S, T
  <2>3. /\ SumOver(f, S) \in Int /\ SumOver(g, S) = SumOver(f, S)
        /\ SumOver(g, S \cup {n}) = g[n] + SumOver(f, S)
    <3>1. \A x, y : /\ x \in [D -> Int] /\ y \in [D -> Int] /\ IsFiniteSet(D) /\ n \in D
                    /\ S \in SUBSET D /\ n \notin S /\ Agree(y, x, S)
                    => /\ SumOver(x, S) \in Int /\ SumOver(y, S) = SumOver(x, S)
                       /\ SumOver(y, S \cup {n}) = y[n] + SumOver(x, S)
      BY ONLY FeeStep
    <3> QED BY ONLY <2>2, <3>1
  <2> QED BY ONLY <2>1, <2>3
<1>12. FeeTo(k - 1)' = SumOver(g, T)
  <2>1. k' - 1 = n
    BY <1>1
  <2> QED BY <1>1, <2>1 DEF FeeTo, Plains, Plain, IsAppRoot, IsStaking, IsCoinbase, FeeOf
<1> HIDE DEF D, f, g, S, T, Q
<1>13. GainTo(b, n) = GainTo(b, n - 1) + Val(Makes(t)) - Val(Spends(t))
  <2>1. pc' = "check" /\ Checked' /\ k' - 1 = n
    <3>1. CoinInv /\ [Next]_vars
      BY DEF BackedInv, LedgerInv, Next
    <3>2. Sound'
      BY <3>1, CheckTxStep DEF CheckTx
    <3> QED BY <1>1, <3>2 DEF Sound
  <2>2. \A i, j \in 1 .. n : i # j => Spends(b[i]) \cap Spends(b[j]) = {}
    BY <1>1, <2>1 DEF Checked
  <2>3. \A i \in 1 .. n - 1 : i \in 1 .. n /\ i # n /\ n \in 1 .. n
    BY <1>1
  <2>4. \A i \in 1 .. n - 1 : Spends(b[i]) \cap Spends(b[n]) = {}
    BY <2>2, <2>3
  <2> QED BY <1>1, <2>4, GainGrows
<1>14. /\ Val(Makes(t)) \in Int /\ Val(Spends(t)) \in Int /\ GainTo(b, n - 1) \in Int
       /\ TotalIn(t) \in Int /\ TotalOut(t) \in Int
       /\ Val(Makes(t)) <= TotalOut(t) /\ TotalIn(t) <= Val(Spends(t))
  <2>1. n - 1 \in 0 .. Len(b)
    BY <1>1
  <2>2. Makes(t) \subseteq OutRef
    BY <1>1, Finite
  <2>3. Val(Makes(t)) \in Int /\ Val(Spends(t)) \in Int
    BY <1>1, <2>2, Finite, ValType
  <2>4. GainTo(b, n - 1) \in Int
    BY <1>1, <2>1, BlockSets
  <2>5. TotalIn(t) \in Int /\ TotalOut(t) \in Int
    BY <1>1, TotalsType
  <2>6. t \in Submitted
    <3>1. n \in DOMAIN b
      BY <1>1
    <3> QED BY <1>1, <3>1 DEF Submitted, SeqRange
  <2> QED BY <1>1, <1>2, <2>3, <2>4, <2>5, <2>6, MakesPaid, TakesSpends
<1> DEFINE a == GainTo(b, n - 1)
           p == Val(Makes(t))
           q == Val(Spends(t))
           o == TotalOut(t)
           i == TotalIn(t)
           s == SumOver(f, S)
           u == SumOver(g, T)
<1>15. /\ a \in Int /\ p \in Int /\ q \in Int /\ i \in Int /\ o \in Int /\ s \in Int
       /\ p <= o /\ i <= q /\ s >= 0 /\ a + s <= MinterGain /\ GainTo(b, n) = a + p - q
  BY <1>4, <1>11, <1>13, <1>14
<1>16. MinterGain \in Int
  BY <1>1, TotalsType DEF MinterGain
<1>17. u >= 0 /\ a + p - q + u <= MinterGain'
  <2>1. CASE Plain(t)
    <3>1. n \in Q /\ u = g[n] + s
      BY <1>1, <1>11, <2>1 DEF Q, D, Plains
    <3>2. g[n] = TotalIn(t) - TotalOut(t)
      <4>1. g[n] = Fee(t)'
        BY <1>1, <1>9, <1>10
      <4>2. Fee(t)' = Fee(t)
        BY <1>1, <1>3, <1>5
      <4> QED BY <4>1, <4>2 DEF Fee
    <3>3. o <= i
      BY <1>2, <2>1 DEF CheckRole, Plain
    <3>4. MinterGain' = MinterGain
      <4>1. minter' = m
        BY <1>2, <2>1 DEF Plain
      <4>2. m # None => TotalIn(m)' = TotalIn(m)
        BY <1>1, <1>4, <1>5
      <4>3. MinterGain' = IF m = None THEN 0 ELSE TotalOut(m) - TotalIn(m)'
        BY <4>1 DEF MinterGain, TotalOut, TotalIn, IndexesOfKind
      <4> QED BY <4>2, <4>3 DEF MinterGain
    <3>5. g[n] = i - o
      BY <3>2
    <3> HIDE DEF a, p, q, o, i, s, u
    <3>6. u = i - o + s
      BY <3>1, <3>5
    <3> QED BY <1>15, <1>16, <3>3, <3>4, <3>6
  <2>2. CASE ~Plain(t)
    <3>1. u = s
      <4>1. n \notin Q
        BY <2>2 DEF Q, Plains
      <4> QED BY <1>11, <4>1
    <3>2. IsStaking(t) \/ IsCoinbase(t)
      BY <1>2, <2>2 DEF Plain
    <3>3. MinterGain = 0
      BY <1>2, <3>2 DEF CheckRole, MinterGain
    <3>4. MinterGain' = o - i
      <4>1. minter' = t /\ t # None
        BY <1>1, <1>2, <3>2, TxAssumption
      <4>2. TotalIn(t)' = TotalIn(t)
        BY <1>1, <1>3, <1>5
      <4>3. MinterGain' = TotalOut(t) - TotalIn(t)'
        BY <4>1 DEF MinterGain, TotalOut, TotalIn, IndexesOfKind
      <4> QED BY <4>2, <4>3
    <3> HIDE DEF a, p, q, o, i, s, u
    <3> QED BY <1>15, <3>1, <3>3, <3>4
  <2> QED BY <2>1, <2>2
<1>18. GainTo(cur, k - 1)' = a + p - q
  <2>1. k' - 1 = n
    BY <1>1
  <2>2. GainTo(cur, k - 1)' = GainTo(b, n)
    BY <1>1, <2>1 DEF GainTo, MadeTo, SpentTo
  <2> QED BY <1>15, <2>2
<1>19. \A j \in 1 .. k' - 1 : Plain(cur'[j]) => RefsOfKind(b[j], {"none"})' = {}
  <2>1. k' - 1 = n
    BY <1>1
  <2> QED BY ONLY <1>1, <1>7, <2>1
<1> QED BY <1>1, <1>8, <1>12, <1>17, <1>18, <1>19 DEF Weighed, RefsOfKind, Refs

\* An account of no transaction is empty.
LEMMA GainNone == ASSUME NEW b PROVE GainTo(b, 0) = 0
<1>1. MadeTo(b, 0) = {} /\ SpentTo(b, 0) = {}
  BY DEF MadeTo, SpentTo
<1>2. Val({}) = 0
  BY AmountsType, SumEmpty DEF Val
<1> QED BY <1>1, <1>2 DEF GainTo

\* A block received opens an empty account.
LEMMA WeighReceive ==
  ASSUME NEW b \in Candidates, Receive(b)
  PROVE  Weighed'
<1>1. /\ cur' = b /\ k' \in {1, 2} /\ (k' = 2 => IsTxNull(b[1])) /\ minter' = None
      /\ b \in Seq(Tx) /\ Len(b) \in Nat \ {0} /\ DOMAIN b = 1 .. Len(b)
  BY CandidateType DEF Receive
<1>2. GainTo(b, k' - 1) = 0
  <2>1. CASE k' = 1
    <3>1. k' - 1 = 0
      BY <2>1
    <3> QED BY <3>1, GainNone
  <2>2. CASE k' = 2
    <3>1. k' - 1 = 1 /\ 1 \in 1 .. Len(b) /\ b[1] \in Tx /\ 1 - 1 = 0
      BY <1>1, <2>2
    <3>2. Makes(b[1]) = {} /\ Spends(b[1]) = {}
      BY <1>1, <2>2, <3>1, NoCoins
    <3> QED BY <3>1, <3>2, GainSame, GainNone
  <2> QED BY <1>1, <2>1, <2>2
<1>3. \A i \in DOMAIN b : i <= k' - 1 => ~Plain(b[i])
  <2>1. \A i \in DOMAIN b : i <= k' - 1 => i = 1 /\ IsTxNull(b[1])
    BY <1>1
  <2>2. IsTxNull(b[1]) => ~Plain(b[1])
    BY DEF IsTxNull, Plain, IsStaking
  <2> QED BY <2>1, <2>2
<1>4. {i \in Plains(b) : i <= k' - 1} = {}
  BY <1>3 DEF Plains
<1>5. FeeTo(k - 1)' = 0
  <2>1. FeeTo(k - 1)' = SumOver(FeeOf(b)', {i \in Plains(b) : i <= k' - 1})
    BY <1>1 DEF FeeTo, Plains, Plain, IsAppRoot, IsStaking, IsCoinbase, FeeOf
  <2>2. FeeOf(b)' \in [DOMAIN b -> Int]
    BY <1>1, FeesIsSumNext
  <2> QED BY <1>4, <2>1, <2>2, SumEmpty
<1>6. GainTo(cur, k - 1)' = 0
  BY <1>1, <1>2 DEF GainTo, MadeTo, SpentTo
<1>7. MinterGain' = 0
  BY <1>1 DEF MinterGain
<1>8. \A i \in 1 .. k' - 1 : ~Plain(cur'[i])
  <2>1. k' - 1 \in {0, 1} /\ 1 \in DOMAIN b
    BY <1>1
  <2>2. \A i \in 1 .. k' - 1 : i \in DOMAIN b /\ i <= k' - 1
    BY <2>1
  <2> QED BY <1>1, <1>3, <2>2
<1>9. (\A i \in 1 .. k - 1 : Plain(cur[i]) => RefsOfKind(cur[i], {"none"}) = {})'
  BY <1>8 DEF Plain, IsAppRoot, IsStaking, IsCoinbase
<1>10. FeeTo(k - 1)' >= 0 /\ GainTo(cur, k - 1)' + FeeTo(k - 1)' <= MinterGain'
  BY <1>5, <1>6, <1>7
<1> QED BY <1>1, <1>9, <1>10 DEF Weighed

\* The root of the applications adds nothing to it.
LEMMA WeighAppRoot ==
  ASSUME BackedInv, CheckAppRoot, ~failed, NEW b, b = cur, NEW n, n = k
  PROVE  Weighed'
<1>1. /\ pc = "check" /\ pc' = pc /\ cur' = b /\ k' = n + 1
      /\ b \in Candidates /\ b \in Seq(Tx) /\ n \in 1 .. Len(b) /\ b[n] \in Tx
      /\ DOMAIN b = 1 .. Len(b) /\ Len(b) \in Nat /\ IsAppRoot(b[n])
  <2>1. cur \in Seq(Tx) /\ k \in Nat \ {0} /\ k <= Len(cur) /\ pc = "check"
    BY DEF CheckAppRoot, BackedInv, LedgerInv, CoinInv, TypeInv, TypeOK
  <2>2. cur \in Candidates
    BY <2>1 DEF BackedInv, LedgerInv, CoinInv, Sound, CurIsNew, Busy
  <2> QED BY <2>1, <2>2 DEF CheckAppRoot
<1>2. UNCHANGED <<txIndex, apps, hasRoot, objs, minter>>
  BY DEF CheckAppRoot, stateVars, checkVars
<1>3. /\ \A i \in 1 .. n - 1 : Plain(b[i]) => RefsOfKind(b[i], {"none"}) = {}
      /\ minter # None => RefsOfKind(minter, {"none"}) = {}
      /\ SumOver(FeeOf(b), {i \in Plains(b) : i <= n - 1}) >= 0
      /\ GainTo(b, n - 1) + SumOver(FeeOf(b), {i \in Plains(b) : i <= n - 1}) <= MinterGain
  BY <1>1 DEF BackedInv, Weighed, FeeTo
<1>4. \A r : InKind(r)' = InKind(r)
  BY <1>2 DEF InKind, TxIsAppItem, MakesObject
<1>5. \A s : /\ RefsOfKind(s, {"none"})' = RefsOfKind(s, {"none"})
             /\ IndexesOfKind(s, {"spend"})' = IndexesOfKind(s, {"spend"})
  BY <1>4 DEF RefsOfKind, IndexesOfKind
<1>6. \A s \in Tx : TotalIn(s)' = TotalIn(s)
  <2>1. \A s \in Tx : Takes(s)' = Takes(s)
    BY <1>5 DEF Takes
  <2> QED BY <1>5, <2>1, InIsSum, InIsSumNext
<1>7. FeeOf(b)' = FeeOf(b)
  <2>1. \A i \in DOMAIN b : Fee(b[i])' = Fee(b[i])
    BY <1>1, <1>6 DEF Fee, TotalOut
  <2> QED BY <2>1 DEF FeeOf
<1>8. k' - 1 = n
  BY <1>1
<1>9. {i \in Plains(b) : i <= n} = {i \in Plains(b) : i <= n - 1}
  <2>1. n \notin Plains(b) /\ Plains(b) \subseteq Nat /\ n \in Nat
    BY <1>1 DEF Plains, Plain
  <2>2. \A i \in Plains(b) : i <= n <=> i <= n - 1
    BY <2>1
  <2> QED BY <2>2
<1>10. FeeTo(k - 1)' = SumOver(FeeOf(b), {i \in Plains(b) : i <= n - 1})
  BY <1>1, <1>7, <1>8, <1>9 DEF FeeTo, Plains, Plain, IsAppRoot, IsStaking, IsCoinbase, FeeOf
<1>11. GainTo(cur, k - 1)' = GainTo(b, n - 1)
  <2>1. GainTo(b, n) = GainTo(b, n - 1)
    BY <1>1, NoCoins, GainSame
  <2>2. GainTo(cur, k - 1)' = GainTo(b, n)
    BY <1>1, <1>8 DEF GainTo, MadeTo, SpentTo
  <2> QED BY <2>1, <2>2
<1>12. (MinterGain)' = MinterGain
  <2>1. minter \in Tx \cup {None}
    BY DEF BackedInv, LedgerInv, CoinInv, TypeInv, TypeOK
  <2>2. ASSUME NEW m, m = minter PROVE (MinterGain)' = MinterGain
    <3>1. m # None => TotalIn(m)' = TotalIn(m)
      BY <1>6, <2>1, <2>2
    <3>2. MinterGain' = IF m = None THEN 0 ELSE TotalOut(m) - TotalIn(m)'
      BY <1>2, <2>2 DEF MinterGain, TotalOut, TotalIn, IndexesOfKind
    <3> QED BY <2>2, <3>1, <3>2 DEF MinterGain
  <2> QED BY <2>2
<1>13. \A j \in 1 .. k' - 1 : Plain(cur'[j]) => RefsOfKind(b[j], {"none"})' = {}
  <2>1. \A j \in 1 .. n : j \in 1 .. n - 1 \/ j = n
    BY <1>1
  <2>2. ~Plain(b[n])
    BY <1>1 DEF Plain
  <2> QED BY <1>1, <1>3, <1>5, <1>8, <2>1, <2>2
<1>14. (minter # None => RefsOfKind(minter, {"none"}) = {})'
  BY <1>2, <1>3, <1>5 DEF RefsOfKind, Refs
<1> QED BY <1>1, <1>3, <1>10, <1>11, <1>12, <1>13, <1>14 DEF Weighed, RefsOfKind, Refs

\* Nothing happens to the account of a block that nobody touches.
LEMMA WeighSame ==
  ASSUME TypeOK, Weighed, UNCHANGED <<pc, cur, k, txIndex, apps, hasRoot, objs, minter>>,
         NEW b, b = cur, NEW n, n = k, NEW m, m = minter
  PROVE  Weighed'
<1>1. b \in Seq(Tx) /\ m \in Tx \cup {None} /\ cur' = b /\ k' = n /\ minter' = m /\ pc' = pc
  BY DEF TypeOK
<1>2. \A r : InKind(r)' = InKind(r)
  BY DEF InKind, TxIsAppItem, MakesObject
<1>3. \A s : /\ RefsOfKind(s, {"none"})' = RefsOfKind(s, {"none"})
             /\ IndexesOfKind(s, {"spend"})' = IndexesOfKind(s, {"spend"})
  BY <1>2 DEF RefsOfKind, IndexesOfKind
<1>4. \A s \in Tx : TotalIn(s)' = TotalIn(s)
  <2>1. \A s \in Tx : Takes(s)' = Takes(s)
    BY <1>3 DEF Takes
  <2> QED BY <1>3, <2>1, InIsSum, InIsSumNext
<1>5. FeeOf(b)' = FeeOf(b)
  <2>1. \A i \in DOMAIN b : Fee(b[i])' = Fee(b[i])
    BY <1>1, <1>4 DEF Fee, TotalOut
  <2> QED BY <2>1 DEF FeeOf
<1>6. FeeTo(k - 1)' = FeeTo(k - 1)
  BY <1>1, <1>5 DEF FeeTo, Plains, Plain, IsAppRoot, IsStaking, IsCoinbase, FeeOf
<1>7. MinterGain' = MinterGain
  <2>1. m # None => TotalIn(m)' = TotalIn(m)
    BY <1>1, <1>4
  <2>2. MinterGain' = IF m = None THEN 0 ELSE TotalOut(m) - TotalIn(m)'
    BY <1>1 DEF MinterGain, TotalOut, TotalIn, IndexesOfKind
  <2> QED BY <2>1, <2>2 DEF MinterGain
<1>8. GainTo(cur, k - 1)' = GainTo(cur, k - 1)
  BY <1>1 DEF GainTo, MadeTo, SpentTo
<1>9. (\A i \in 1 .. k - 1 : Plain(cur[i]) => RefsOfKind(cur[i], {"none"}) = {})'
        <=> \A i \in 1 .. n - 1 : Plain(b[i]) => RefsOfKind(b[i], {"none"})' = {}
  BY <1>1 DEF Plain, IsAppRoot, IsStaking, IsCoinbase, RefsOfKind, Refs
<1>10. (minter # None => RefsOfKind(minter, {"none"}) = {})'
         <=> (m # None => RefsOfKind(m, {"none"})' = {})
  BY <1>1 DEF RefsOfKind, Refs
<1> QED BY <1>1, <1>3, <1>6, <1>7, <1>8, <1>9, <1>10 DEF Weighed

\* A block that is accepted makes no more, on top of what it spends, than its
\* reward: what check_tx_list compares the coinbase with.
LEMMA WeighAccept ==
  ASSUME BackedInv, Accept, ~failed
  PROVE  Gain(cur) <= Reward(cur, BlockHeight)
<1> DEFINE Q == Plains(cur)
           f == FeeOf(cur)
           D == DOMAIN cur
<1>1. /\ pc = "check" /\ cur \in Candidates /\ cur \in Seq(Tx) /\ k = Len(cur) + 1
      /\ Len(cur) \in Nat /\ k - 1 = Len(cur)
      /\ minter \in Tx \cup {None} /\ BlockHeight \in 0 .. MaxHeight + MaxRecords + 1
  <2>1. cur \in Seq(Tx) /\ k \in Nat \ {0} /\ k > Len(cur) /\ pc = "check"
    BY DEF Accept, AcceptList, BackedInv, LedgerInv, CoinInv, TypeInv, TypeOK
  <2>2. cur \in Candidates /\ k \in 1 .. Len(cur) + 1 /\ minter \in Tx \cup {None}
    BY <2>1 DEF BackedInv, LedgerInv, CoinInv, Sound, CurIsNew, Busy, TypeInv, TypeOK
  <2>3. BlockHeight \in 0 .. MaxHeight + MaxRecords + 1
    BY BoundAssumption DEF BackedInv, LedgerInv, CoinInv, TypeInv, TypeOK, BlockHeight, Height
  <2> QED BY <2>1, <2>2, <2>3
<1>2. {i \in Q : i <= k - 1} = Q
  BY <1>1 DEF Plains
<1>3. SumOver(f, Q) >= 0 /\ Gain(cur) + SumOver(f, Q) <= MinterGain
  BY <1>1, <1>2 DEF BackedInv, Weighed, FeeTo, Gain
<1>4. SumOver(f, Q) \in Int
  <2>1. f \in [D -> Int] /\ IsFiniteSet(D) /\ Q \in SUBSET D /\ IsFiniteSet(Q)
    BY <1>1, FeesIsSum, FS_Subset DEF Plains
  <2> HIDE DEF f, Q, D
  <2> QED BY <2>1, SumType
<1>5. Fees(cur) <= SumOver(f, Q) /\ Fees(cur) \in Int
  <2>1. Fees(cur) = SumOver(f, Q) % AmountMod
    BY <1>1, FeesIsSum
  <2> DEFINE e == SumOver(f, Q)
  <2>2. e \in Nat /\ Fees(cur) = e % AmountMod
    BY <1>3, <1>4, <2>1
  <2> HIDE DEF e
  <2>3. e % AmountMod <= e /\ e % AmountMod \in Int
    <3>1. e \in Nat /\ e \in Int /\ AmountMod \in Nat \ {0}
      BY <2>2, BoundAssumption
    <3>2. e % AmountMod \in 0 .. AmountMod - 1 /\ e % AmountMod <= e
      BY ONLY <3>1, ModRange
    <3> QED BY <3>1, <3>2
  <2>4. Fees(cur) <= e /\ Fees(cur) \in Int
    BY <2>2, <2>3
  <2> QED BY <2>4 DEF e
<1>6. MinterGain <= ListReward /\ ListReward \in Int /\ MinterGain \in Int
  <2>1. CASE minter = None
    BY <2>1 DEF MinterGain, ListReward
  <2>2. CASE minter # None
    <3> DEFINE d == TotalOut(minter) - TotalIn(minter)
    <3>1. TotalOut(minter) \in 0 .. AmountMod - 1 /\ TotalIn(minter) \in 0 .. AmountMod - 1
      BY <1>1, <2>2, TotalsType
    <3>2. d \in Int /\ d <= AmountMod - 1
      BY <3>1, BoundAssumption
    <3>3. MinterGain = d /\ ListReward = d % AmountMod
      BY <2>2 DEF MinterGain, ListReward
    <3> HIDE DEF d
    <3>4. d % AmountMod \in 0 .. AmountMod - 1 /\ (d \in 0 .. AmountMod - 1 => d % AmountMod = d)
      BY <3>2, ModRange, BoundAssumption
    <3> QED BY <3>2, <3>3, <3>4, BoundAssumption
  <2> QED BY <2>1, <2>2
<1>7. Gain(cur) \in Int
  <2>1. Len(cur) \in 0 .. Len(cur)
    BY <1>1
  <2> QED BY <1>1, <2>1, BlockSets DEF Gain
<1>8. ListReward <= Reward(cur, BlockHeight) + Fees(cur) /\ Reward(cur, BlockHeight) \in Int
  BY <1>1, RewardType DEF Accept, AcceptList
<1> HIDE DEF f, Q
<1> QED BY <1>3, <1>4, <1>5, <1>6, <1>7, <1>8

-----------------------------------------------------------------------------
(* What a block does to the coins of the chain *)

\* What a block gains, in terms of what the ledger adds and takes.
LEMMA GainIs ==
  ASSUME NEW b \in Seq(Tx)
  PROVE  /\ Gain(b) = Val(Ledger!Made(b)) - Val(Ledger!Spent(b)) /\ Gain(b) \in Int
         /\ Ledger!Made(b) \subseteq OutRef /\ IsFiniteSet(Ledger!Made(b))
         /\ Ledger!Spent(b) \subseteq OutRef /\ IsFiniteSet(Ledger!Spent(b))
<1>1. DOMAIN b = 1 .. Len(b) /\ Len(b) \in Nat /\ Len(b) \in 0 .. Len(b)
  OBVIOUS
<1>2. Ledger!Made(b) = MadeTo(b, Len(b)) /\ Ledger!Spent(b) = SpentTo(b, Len(b))
  BY <1>1 DEF Ledger!Made, Ledger!Spent, Ledger!Txs, MadeTo, SpentTo
<1> QED BY <1>1, <1>2, BlockSets DEF Gain, GainTo

\* The coins of a chain are finite in number.
LEMMA ChainFinite ==
  ASSUME TypeOK
  PROVE  ChainCoins \subseteq OutRef /\ IsFiniteSet(ChainCoins)
<1>1. \A h \in DOMAIN index : index[h] \in Seq(Tx)
  BY DEF TypeOK
<1> DEFINE B == {Ledger!Made(index[h]) : h \in DOMAIN index}
<1>2. IsFiniteSet(B)
  <2>1. IsFiniteSet(DOMAIN index)
    <3>1. DOMAIN index = 1 .. Len(index) /\ Len(index) \in Nat
      BY DEF TypeOK
    <3> QED BY <3>1, FS_Interval
  <2> DEFINE f == [h \in DOMAIN index |-> Ledger!Made(index[h])]
  <2>2. f \in Surjection(DOMAIN index, B)
    BY DEF Surjection
  <2> QED BY <2>1, <2>2, FS_Surjection
<1>3. \A S \in B : IsFiniteSet(S) /\ S \subseteq OutRef
  BY <1>1, GainIs
<1>4. IsFiniteSet(UNION B) /\ UNION B \subseteq OutRef
  BY <1>2, <1>3, FS_UNION
<1>5. ChainCoins \subseteq UNION B
  BY DEF ChainCoins, ChainTxs, Ledger!Made, Ledger!Txs, SeqRange
<1> QED BY <1>4, <1>5, FS_Subset

\* ChainFinite after a step.
LEMMA ChainFiniteNext ==
  (TypeOK => ChainCoins \subseteq OutRef /\ IsFiniteSet(ChainCoins))'
BY ChainFinite, PTL

\* Their value after a step.
LEMMA ChainValueNext == (TypeOK => Val(ChainCoins) \in Int)'
<1>1. TypeOK => Val(ChainCoins) \in Int
  BY ChainFinite, ValType
<1> QED BY <1>1, PTL

\* The value of the chain after a block is taken in.
LEMMA ChainWorthGrows ==
  ASSUME LedgerInv, LedgerInv', SetLastBlock, ~failed
  PROVE  /\ Val(ChainCoins)' = Val(ChainCoins) + Gain(cur)
         /\ index' = Append(index, cur) /\ cur \in Seq(Tx) /\ pc = "store" /\ ~failed'
<1>1. /\ cur \in Seq(Tx) /\ pc = "store" /\ ~failed' /\ index' = Append(index, cur)
      /\ TypeOK /\ TypeOK'
  BY DEF SetLastBlock, SetLast, LedgerInv, CoinInv, TypeInv, TypeOK
<1>2. Ledger!Extend(cur)
  BY ExtendStep
<1>3. LedgerCoins = ChainCoins /\ LedgerCoins' = ChainCoins'
  BY <1>1, LiveCoins, LiveCoinsNext DEF LedgerInv
<1> DEFINE m == Ledger!Made(cur)
           s == Ledger!Spent(cur)
           c == ChainCoins \ s
<1>4. s \subseteq ChainCoins /\ ChainCoins' = c \cup m
  BY <1>2, <1>3 DEF Ledger!Extend, Ledger!Spent
<1>5. /\ m \subseteq OutRef /\ IsFiniteSet(m) /\ s \subseteq OutRef /\ IsFiniteSet(s)
      /\ Gain(cur) = Val(m) - Val(s)
  BY <1>1, GainIs
<1>6. /\ ChainCoins \subseteq OutRef /\ IsFiniteSet(ChainCoins)
      /\ c \subseteq OutRef /\ IsFiniteSet(c)
  BY <1>1, ChainFinite, FS_Subset
<1>7. c \cap m = {}
  <2> SUFFICES ASSUME NEW r \in c, r \in m PROVE FALSE
    OBVIOUS
  <2>1. r.src \in ChainTxs
    BY <1>1, InChain, InChainCoins
  <2>2. PICK t \in SeqRange(cur) : r \in Makes(t)
    BY DEF Ledger!Made, Ledger!Txs, SeqRange
  <2>3. t \in Tx /\ r.src = t
    BY <1>1, <2>2, MakesCoin DEF SeqRange
  <2> QED BY <2>1, <2>2, <2>3, ChainGains DEF LedgerInv
<1>8. c \cup s = ChainCoins /\ c \cap s = {}
  BY <1>4
<1> HIDE DEF c, m, s
<1>9. Val(ChainCoins) = Val(c) + Val(s) /\ Val(c \cup m) = Val(c) + Val(m)
  BY <1>5, <1>6, <1>7, <1>8, ValUnion
<1>10. Val(c) \in Int /\ Val(s) \in Int /\ Val(m) \in Int
  BY <1>5, <1>6, ValType
<1>11. Val(ChainCoins)' = Val(c \cup m)
  BY <1>4 DEF Val, Amounts, Amount
<1> QED BY <1>1, <1>5, <1>9, <1>10, <1>11

\* The same when the last block leaves.
LEMMA ChainWorthShrinks ==
  ASSUME LedgerInv, LedgerInv', EndRemove, ~failed
  PROVE  /\ Val(ChainCoins) = Val(ChainCoins)' + Gain(index[Len(index)])
         /\ index' = SubSeq(index, 1, Len(index) - 1) /\ Height > 0 /\ ~failed'
<1>1. /\ ~failed' /\ index' = SubSeq(index, 1, Len(index) - 1) /\ Height > 0
      /\ TypeOK /\ TypeOK'
  BY DEF EndRemove, LedgerInv, CoinInv, TypeInv, Below
<1> DEFINE b == index[Len(index)]
<1>2. b \in Seq(Tx) /\ Len(index) \in DOMAIN index
  BY <1>1 DEF TypeOK, Height
<1>3. Ledger!Retract
  BY RetractStep
<1>4. LedgerCoins = ChainCoins /\ LedgerCoins' = ChainCoins'
  BY <1>1, LiveCoins, LiveCoinsNext DEF LedgerInv
<1> DEFINE m == Ledger!Made(b)
           s == Ledger!Spent(b)
           c == ChainCoins \ m
<1>5. ChainCoins' = c \cup s
  BY <1>3, <1>4 DEF Ledger!Retract
<1>6. /\ m \subseteq OutRef /\ IsFiniteSet(m) /\ s \subseteq OutRef /\ IsFiniteSet(s)
      /\ Gain(b) = Val(m) - Val(s)
  BY <1>2, GainIs
<1>7. /\ ChainCoins \subseteq OutRef /\ IsFiniteSet(ChainCoins)
      /\ c \subseteq OutRef /\ IsFiniteSet(c)
  BY <1>1, ChainFinite, FS_Subset
<1>8. \A t \in SeqRange(b) : t \in Tx /\ t \in ChainTxs /\ InBlock(t, Len(index))
  BY <1>1, <1>2, InChain DEF InBlock, SeqRange
<1>9. c \cap s = {}
  <2> SUFFICES ASSUME NEW r \in c, r \in s PROVE FALSE
    OBVIOUS
  <2>1. PICK t \in SeqRange(b) : r \in Spends(t)
    BY DEF Ledger!Spent, Ledger!Txs, SeqRange
  <2> QED BY <1>1, <1>8, <2>1, InChain, InChainCoins
<1>10. m \subseteq ChainCoins
  <2> SUFFICES ASSUME NEW r \in m PROVE r \in ChainCoins
    OBVIOUS
  <2>1. PICK t \in SeqRange(b) : r \in Makes(t)
    BY DEF Ledger!Made, Ledger!Txs, SeqRange
  <2>2. r \in OutRef /\ Coin(r) /\ r.src = t /\ t \in ChainTxs
    BY <1>6, <1>8, <2>1, MakesCoin
  <2>3. ASSUME NEW u \in ChainTxs, r \in Spends(u) PROVE FALSE
    <3>1. PICK h \in DOMAIN index : InBlock(u, h) /\ u \in Tx
      BY <1>1, InChain
    <3>2. PICK g \in DOMAIN index : g < h /\ InBlock(t, g)
      BY <2>2, <2>3, <3>1 DEF LedgerInv, CoinInv, Sound, SpendsEarlier
    <3>3. g = Len(index)
      BY <1>2, <1>8, <3>2 DEF LedgerInv, CoinInv, Sound, OneBlock
    <3> QED BY <1>1, <3>1, <3>2, <3>3 DEF TypeOK
  <2> QED BY <1>1, <2>2, <2>3, InChain, InChainCoins
<1>11. c \cup m = ChainCoins /\ c \cap m = {}
  BY <1>10
<1> HIDE DEF c, m, s
<1>12. Val(ChainCoins) = Val(c) + Val(m) /\ Val(c \cup s) = Val(c) + Val(s)
  BY <1>6, <1>7, <1>9, <1>11, ValUnion
<1>13. Val(c) \in Int /\ Val(s) \in Int /\ Val(m) \in Int
  BY <1>6, <1>7, ValType
<1>14. Val(ChainCoins)' = Val(c \cup s)
  BY <1>5 DEF Val, Amounts, Amount
<1> HIDE DEF b
<1>15. Val(ChainCoins) = Val(ChainCoins)' + Gain(b)
  BY <1>6, <1>12, <1>13, <1>14
<1> QED BY <1>1, <1>15 DEF b

-----------------------------------------------------------------------------
(* The chain with one more block, or one less *)

\* Each block has its gain.
LEMMA GainsType ==
  ASSUME TypeOK
  PROVE  /\ Len(index) \in Nat \ {0} /\ index \in Seq(Seq(Tx))
         /\ Gains \in [2 .. Len(index) -> Int]
<1>1. Len(index) \in Nat \ {0} /\ index \in Seq(Seq(Tx))
  BY DEF TypeOK, Height
<1>2. \A h \in 2 .. Len(index) : index[h] \in Seq(Tx)
  BY <1>1
<1>3. \A h \in 2 .. Len(index) : Gain(index[h]) \in Int
  BY <1>2, GainIs
<1> QED BY <1>1, <1>3 DEF Gains

\* A block joins the chain with what it gained.
LEMMA BackedGrows ==
  ASSUME BackedInv, LedgerInv', SetLastBlock, ~failed
  PROVE  BlocksEarned' /\ Worth'
<1> DEFINE n == Len(index)
<1>1. /\ Val(ChainCoins)' = Val(ChainCoins) + Gain(cur)
      /\ index' = Append(index, cur) /\ cur \in Seq(Tx) /\ pc = "store"
  BY ChainWorthGrows DEF BackedInv
<1>2. n \in Nat \ {0} /\ index \in Seq(Seq(Tx)) /\ Gains \in [2 .. n -> Int] /\ TypeOK
  BY GainsType DEF BackedInv, LedgerInv, CoinInv, TypeInv
<1>3. /\ Len(index') = n + 1 /\ index'[n + 1] = cur
      /\ \A h \in 2 .. n : index'[h] = index[h] /\ h \in 2 .. n + 1
      /\ \A h \in 2 .. n + 1 : h \in 2 .. n \/ (h = n + 1 /\ h - 1 = n)
      /\ n + 1 \in 2 .. n + 1 /\ n + 1 - 1 = n
  BY <1>1, <1>2
<1> HIDE DEF n
<1>4. BlocksEarned'
  <2>1. Gain(cur) <= Reward(cur, n)
    BY <1>1 DEF BackedInv, Earned, BlockHeight, n
  <2>2. \A h \in 2 .. n : Gain(index[h]) <= Reward(index[h], h - 1)
    BY DEF BackedInv, BlocksEarned, n
  <2>3. \A h \in 2 .. n + 1 : Gain(index'[h]) <= Reward(index'[h], h - 1)
    BY <1>3, <2>1, <2>2
  <2> QED BY <1>3, <2>3 DEF BlocksEarned, Gain, GainTo, MadeTo, SpentTo, Val, Amounts, Amount
<1>5. Worth'
  <2>1. Gain(cur) \in Int
    BY <1>1, GainIs
  <2>2. Gains' = [h \in 2 .. n + 1 |-> Gain(index'[h])] /\ Gains = [h \in 2 .. n |-> Gain(index[h])]
    BY <1>3 DEF Gains, n, Gain, GainTo, MadeTo, SpentTo, Val, Amounts, Amount
  <2>3. /\ Gains' \in [2 .. n + 1 -> Int] /\ Gains'[n + 1] = Gain(cur)
        /\ \A h \in 2 .. n : Gains'[h] = Gains[h]
    BY <1>2, <1>3, <2>1, <2>2
  <2>4. SumOver(Gains', 2 .. n + 1) = Gain(cur) + SumOver(Gains, 2 .. n)
    BY <1>2, <2>3, SumGrow
  <2>5. Val(ChainCoins) = SumOver(Gains, 2 .. n)
    BY DEF BackedInv, Worth, n
  <2>6. Val(ChainCoins) \in Int
    BY <1>2, ChainFinite, ValType
  <2>7. Val(ChainCoins)' = SumOver(Gains', 2 .. n + 1)
    BY <1>1, <2>1, <2>4, <2>5, <2>6
  <2> QED BY <1>3, <2>7 DEF Worth
<1> QED BY <1>4, <1>5

\* ... and takes it along when it leaves.
LEMMA BackedShrinks ==
  ASSUME BackedInv, LedgerInv', EndRemove, ~failed
  PROVE  BlocksEarned' /\ Worth'
<1> DEFINE n == Len(index) - 1
<1>1. /\ Val(ChainCoins) = Val(ChainCoins)' + Gain(index[Len(index)])
      /\ index' = SubSeq(index, 1, Len(index) - 1) /\ Height > 0
  BY ChainWorthShrinks DEF BackedInv
<1>2. /\ Len(index) \in Nat /\ index \in Seq(Seq(Tx)) /\ Gains \in [2 .. Len(index) -> Int]
      /\ TypeOK /\ TypeOK'
  BY GainsType DEF BackedInv, LedgerInv, CoinInv, TypeInv
<1>3. n \in Nat \ {0} /\ Len(index) = n + 1
  BY <1>1, <1>2 DEF Height
<1>4. Len(index') = n /\ \A h \in 1 .. n : index'[h] = index[h]
  BY <1>1, <1>2, <1>3
<1> HIDE DEF n
<1>5. /\ \A h \in 2 .. n : index'[h] = index[h] /\ h \in 2 .. n + 1
      /\ n + 1 \in 2 .. n + 1
  BY <1>3, <1>4
<1>6. BlocksEarned'
  <2>1. \A h \in 2 .. n + 1 : Gain(index[h]) <= Reward(index[h], h - 1)
    BY <1>3 DEF BackedInv, BlocksEarned
  <2>2. \A h \in 2 .. n : Gain(index'[h]) <= Reward(index'[h], h - 1)
    BY <1>5, <2>1
  <2> QED BY <1>4, <2>2 DEF BlocksEarned, Gain, GainTo, MadeTo, SpentTo, Val, Amounts, Amount
<1>7. Worth'
  <2>1. Gains' = [h \in 2 .. n |-> Gain(index'[h])] /\ Gains = [h \in 2 .. n + 1 |-> Gain(index[h])]
    BY <1>3, <1>4 DEF Gains, Gain, GainTo, MadeTo, SpentTo, Val, Amounts, Amount
  <2>2. Gains \in [2 .. n + 1 -> Int] /\ Gains[n + 1] = Gain(index[n + 1]) /\ Gains[n + 1] \in Int
    BY <1>2, <1>3, <1>5, <2>1
  <2>3. Gains' \in [2 .. n -> Int] /\ \A h \in 2 .. n : Gains[h] = Gains'[h]
    BY <1>5, <2>1, <2>2
  <2>4. SumOver(Gains, 2 .. n + 1) = Gains[n + 1] + SumOver(Gains', 2 .. n)
    BY <1>3, <2>2, <2>3, SumGrow
  <2>5. Val(ChainCoins) = SumOver(Gains, 2 .. n + 1)
    BY <1>3 DEF BackedInv, Worth
  <2>6. Val(ChainCoins)' \in Int
    BY <1>2, ChainValueNext
  <2>7. SumOver(Gains', 2 .. n) \in Int
    <3> DEFINE S == 2 .. n
    <3>1. IsFiniteSet(S) /\ Gains' \in [S -> Int] /\ S \in SUBSET S
      BY <1>3, <2>3, FS_Interval
    <3>2. \A x : x \in [S -> Int] /\ IsFiniteSet(S) /\ S \in SUBSET S => SumOver(x, S) \in Int
      <4> HIDE DEF S
      <4> QED BY ONLY SumType
    <3> QED BY <3>1, <3>2
  <2>8. Val(ChainCoins)' = SumOver(Gains', 2 .. n)
    BY <1>1, <1>3, <2>2, <2>4, <2>5, <2>6, <2>7
  <2> QED BY <1>4, <2>8 DEF Worth
<1> QED BY <1>6, <1>7

\* A chain of one block has no coins, and no reward.
LEMMA BackedInit == Init => BackedInv
<1> SUFFICES ASSUME Init PROVE BackedInv
  OBVIOUS
<1>1. LedgerInv /\ SupplyInv
  BY LedgerInvInit, SupplyInit
<1>2. Len(index) = 1 /\ index = <<Genesis>> /\ pc = "idle"
  BY DEF Init
<1>3. Weighed /\ Earned /\ BlocksEarned
  BY <1>2 DEF Weighed, Earned, BlocksEarned
<1>4. ChainCoins = {}
  BY <1>2 DEF ChainCoins, ChainTxs, SeqRange, Genesis
<1>5. 2 .. Len(index) = {} /\ Gains \in [{} -> Int]
  BY <1>2 DEF Gains
<1>6. Val(ChainCoins) = 0 /\ SumOver(Gains, 2 .. Len(index)) = 0
  BY <1>4, <1>5, AmountsType, SumEmpty DEF Val
<1> QED BY <1>1, <1>3, <1>6 DEF BackedInv, Worth

\* Every step keeps the account of the block and that of the chain.
LEMMA BackedStep ==
  ASSUME OnlyCoinsPay, NoOverflow
  PROVE  BackedInv /\ [Next]_vars => BackedInv'
<1> SUFFICES ASSUME BackedInv, [Next]_vars PROVE BackedInv'
  OBVIOUS
<1>1. LedgerInv /\ SupplyInv /\ LedgerInv' /\ SupplyInv'
  BY LedgerInvStep, SupplyStep DEF BackedInv
<1>2. CASE failed'
  BY <1>1, <1>2 DEF BackedInv
<1>3. CASE ~failed'
  <2>1. SUFFICES Weighed' /\ Earned' /\ BlocksEarned' /\ Worth'
    BY <1>1 DEF BackedInv
  <2>2. ~failed
    <3>1. failed' = failed \/ failed' = TRUE
      BY DEF Next, Receive, CheckTx, CheckAppRoot, Reject, Accept, AcceptList, StoreTx, StoreNullTx,
             StoreFails, SetLastBlock, SetLast, BeginRemove, RemoveTx, RemoveAppRoot, EndRemove, vars
    <3> QED BY <1>3, <3>1
  <2>3. Weighed /\ Earned /\ BlocksEarned /\ Worth
    BY <2>2 DEF BackedInv
  <2>4. index' = index => BlocksEarned' /\ Worth'
    <3> SUFFICES ASSUME index' = index PROVE BlocksEarned' /\ Worth'
      OBVIOUS
    <3>1. Gains' = Gains /\ ChainCoins' = ChainCoins
      BY DEF Gains, Gain, GainTo, MadeTo, SpentTo, Val, Amounts, Amount, ChainCoins, ChainTxs
    <3>2. Val(ChainCoins)' = Val(ChainCoins)
      BY <3>1 DEF Val, Amounts, Amount
    <3> QED BY <2>3, <3>1, <3>2
            DEF Worth, BlocksEarned, Gain, GainTo, MadeTo, SpentTo, Val, Amounts, Amount
  <2>5. pc' \in {"idle", "remove"} => Weighed' /\ Earned'
    BY DEF Weighed, Earned
  <2>6. pc' = "store" => Weighed'
    BY DEF Weighed
  <2>7. pc' = "check" => Earned'
    BY DEF Earned
  <2>8. pc = "store" /\ pc' = "store" /\ UNCHANGED <<cur, index>> => Earned'
    BY <2>3 DEF Earned, BlockHeight, Gain, GainTo, MadeTo, SpentTo, Val, Amounts, Amount
  <2>9. ASSUME NEW b \in Candidates, Receive(b) PROVE Weighed' /\ Earned' /\ BlocksEarned' /\ Worth'
    BY <2>4, <2>7, <2>9, WeighReceive DEF Receive, chainVars
  <2>10. CASE CheckTx
    <3>1. Weighed'
      BY <2>2, <2>10, WeighTx
    <3> QED BY <2>4, <2>7, <2>10, <3>1 DEF CheckTx, chainVars
  <2>11. CASE CheckAppRoot
    <3>1. Weighed'
      BY <2>2, <2>11, WeighAppRoot
    <3> QED BY <2>4, <2>7, <2>11, <3>1 DEF CheckAppRoot, chainVars
  <2>12. CASE Reject
    BY <2>4, <2>5, <2>12 DEF Reject, chainVars
  <2>13. CASE Accept
    <3>1. Gain(cur) <= Reward(cur, BlockHeight)
      BY <2>2, <2>13, WeighAccept
    <3>2. Earned'
      BY <2>13, <3>1
         DEF Accept, AcceptList, Earned, BlockHeight, Gain, GainTo, MadeTo, SpentTo, Val, Amounts, Amount
    <3> QED BY <2>4, <2>6, <2>13, <3>2 DEF Accept, AcceptList
  <2>14. CASE StoreTx \/ StoreNullTx
    BY <2>4, <2>6, <2>8, <2>14 DEF StoreTx, StoreNullTx, chainVars
  <2>15. CASE StoreFails
    BY <1>3, <2>15 DEF StoreFails
  <2>16. CASE SetLastBlock
    BY <1>1, <2>2, <2>5, <2>16, BackedGrows DEF SetLastBlock, SetLast
  <2>17. CASE BeginRemove
    BY <2>4, <2>5, <2>17 DEF BeginRemove, chainVars
  <2>18. ASSUME NEW t \in Tx, RemoveTx(t) \/ RemoveAppRoot(t)
         PROVE  Weighed' /\ Earned' /\ BlocksEarned' /\ Worth'
    BY <2>4, <2>5, <2>18 DEF RemoveTx, RemoveAppRoot, chainVars
  <2>19. CASE EndRemove
    BY <1>1, <2>2, <2>5, <2>19, BackedShrinks DEF EndRemove
  <2>20. CASE UNCHANGED vars
    <3>1. UNCHANGED <<pc, cur, k, txIndex, apps, hasRoot, objs, minter, index>>
      BY <2>20 DEF vars, chainVars, stateVars, checkVars
    <3>2. Weighed'
      BY <2>3, <3>1, WeighSame DEF BackedInv, LedgerInv, CoinInv, TypeInv
    <3>3. Earned'
      BY <2>8, <3>1 DEF Earned
    <3> QED BY <2>4, <3>1, <3>2, <3>3
  <2> QED BY <2>9, <2>10, <2>11, <2>12, <2>13, <2>14, <2>15, <2>16, <2>17, <2>18, <2>19, <2>20
          DEF Next
<1> QED BY <1>2, <1>3

\* The coins that can be spent are never worth more than the money supply, for
\* every set of blocks whose amounts are coins and fit in a word.
THEOREM CoinsAreBacked ==
  ASSUME OnlyCoinsPay, NoOverflow
  PROVE  Spec => []CoinsBacked
<1>1. BackedInv => CoinsBacked
  <2> SUFFICES ASSUME BackedInv, pc = "idle", ~failed PROVE CoinTotal <= supply
    BY DEF CoinsBacked
  <2> DEFINE C == {r \in utxo : Coin(r)}
             R == 2 .. Len(index)
  <2>1. TypeOK
    BY DEF BackedInv, LedgerInv, CoinInv, TypeInv
  <2>2. C = ChainCoins
    BY LiveCoins DEF BackedInv, LedgerInv, LedgerCoins
  <2>3. CoinTotal = Val(ChainCoins)
    BY <2>1, <2>2, ChainFinite, CoinTotalIsSum
  <2>4. Val(ChainCoins) = SumOver(Gains, R) /\ supply = SumOver(Rewards, R)
    BY DEF BackedInv, Worth, SupplyInv
  <2>5. /\ Gains \in [R -> Int] /\ Rewards \in [R -> Int] /\ IsFiniteSet(R) /\ R \in SUBSET R
        /\ \A h \in R : Gains[h] <= Rewards[h]
    BY <2>1, GainsType, RewardsType DEF BackedInv, BlocksEarned, Gains, Rewards
  <2>6. \A x, y : /\ x \in [R -> Int] /\ y \in [R -> Int] /\ IsFiniteSet(R) /\ R \in SUBSET R
                  /\ \A h \in R : x[h] <= y[h]
                  => SumOver(x, R) <= SumOver(y, R)
    <3> HIDE DEF R
    <3> QED BY ONLY SumLess
  <2>7. SumOver(Gains, R) <= SumOver(Rewards, R)
    BY ONLY <2>5, <2>6
  <2> QED BY <2>3, <2>4, <2>7
<1>2. BackedInv /\ [Next]_vars => BackedInv'
  BY BackedStep
<1> QED BY BackedInit, <1>1, <1>2, PTL DEF Spec

-----------------------------------------------------------------------------
(* The applications are those on disk.                                       *)
(*                                                                           *)
(* remove_tx reads has_root_app to tell an application, and the removal of   *)
(* the root clears it: that no application is removed after the root is      *)
(* because the root is in an earlier block (RootFirst). The check of a block *)
(* sees to that, for it reads has_root_app as the chain left it.             *)

AppsHaveRoot == \A t \in txIndex : HasAppName(t) => hasRoot
RootFirst == \A g, h \in DOMAIN index : \A s, t \in Tx :
    InBlock(s, g) /\ IsAppRoot(s) /\ InBlock(t, h) /\ HasAppName(t) => g < h
RootOrApps ==
    /\ pc = "check" => \A i \in 1 .. k - 1 : /\ HasAppName(cur[i]) => hasRoot
                                             /\ IsAppRoot(cur[i]) => ~hasRoot
    /\ pc = "store" => \A i \in 1 .. Len(cur) :
            /\ HasAppName(cur[i]) => hasRoot /\ \A j \in 1 .. Len(cur) : ~IsAppRoot(cur[j])
            /\ IsAppRoot(cur[i]) => \A t \in ChainTxs : ~HasAppName(t)

AppsSound ==
    /\ apps = {t \in txIndex : HasAppName(t)}
    /\ ChainTxs \subseteq Submitted
    /\ AppsHaveRoot /\ RootFirst /\ RootOrApps
AppsInv == CoinInv /\ (~failed => AppsSound)

\* The check of its inputs lets an application pass only after their root.
LEMMA NewAppNeedsRoot ==
  ASSUME TypeOK, NEW t \in Tx, CheckTxInputs(t), HasAppName(t)
  PROVE  hasRoot
<1>1. PICK r \in Refs(t) : r.src = AppRootHash
  BY DEF HasAppName
<1>2. InKind(r) # "none"
  BY DEF CheckTxInputs, RefsOfKind
<1>3. /\ r.src \notin {NullHash, AppRootDecl, FFHash}
      /\ r.src \notin txIndex \cup objs /\ ~TxIsAppItem(r)
  BY <1>1, TxAssumption DEF Specials, TypeOK, TxIsAppItem
<1> SUFFICES ASSUME ~hasRoot PROVE InKind(r) = "none"
  BY <1>2
<1> QED BY <1>3 DEF InKind

\* A step that leaves the files and the block alone, or ends the block.
LEMMA AppsSame ==
  ASSUME AppsSound, UNCHANGED <<index, txIndex, apps, hasRoot>>,
         pc' \in {"idle", "remove"} \/ UNCHANGED <<pc, cur, k>>
  PROVE  AppsSound'
<1>1. RootOrApps'
  BY DEF AppsSound, RootOrApps, ChainTxs
<1>2. ChainTxs' = ChainTxs /\ RootFirst'
  BY DEF AppsSound, ChainTxs, RootFirst, InBlock
<1> QED BY <1>1, <1>2 DEF AppsSound, AppsHaveRoot

\* Checking a block: the root and applications exclude each other.
LEMMA AppsCheck ==
  ASSUME AppsNamedFirst, CoinInv, ~failed, AppsSound,
         (\E b \in Candidates : Receive(b)) \/ CheckTx \/ CheckAppRoot \/ Accept
  PROVE  AppsSound'
<1> USE DEF CoinInv, Sound, TypeInv
<1>1. UNCHANGED <<index, txIndex, apps, hasRoot>> /\ ChainTxs' = ChainTxs
  BY DEF Receive, CheckTx, CheckAppRoot, Accept, AcceptList, chainVars, stateVars, ChainTxs
<1>2. SUFFICES RootOrApps'
  BY <1>1 DEF AppsSound, AppsHaveRoot, RootFirst, InBlock
<1>3. ASSUME NEW b \in Candidates, Receive(b) PROVE RootOrApps'
  <2>1. pc' = "check" /\ cur' = b /\ k' = IF IsTxNull(b[1]) THEN 2 ELSE 1
    BY <1>3 DEF Receive
  <2>2. IsTxNull(b[1]) => ~HasAppName(b[1]) /\ ~IsAppRoot(b[1])
    <3>1. 1 \in DOMAIN b
      BY CandidateType
    <3> QED BY <3>1 DEF AppsNamedFirst, Submitted, SeqRange
  <2>3. \A i \in 1 .. k' - 1 : i = 1 /\ IsTxNull(b[1])
    BY <2>1
  <2>4. \A i \in 1 .. k' - 1 : ~HasAppName(b[i]) /\ ~IsAppRoot(b[i])
    BY <2>2, <2>3
  <2> QED BY <2>1, <2>4 DEF RootOrApps, HasAppName, IsAppRoot
<1>4. ASSUME CheckTx \/ CheckAppRoot PROVE RootOrApps'
  <2>1. /\ pc = "check" /\ pc' = "check" /\ cur' = cur /\ k' = k + 1
        /\ k \in 1 .. Len(cur) /\ cur \in Seq(Tx) /\ cur \in Candidates
    BY <1>4 DEF CheckTx, CheckAppRoot, CurIsNew, Busy, TypeOK
  <2>2. cur[k] \in Tx /\ cur[k] \in Submitted
    BY <2>1 DEF Submitted, SeqRange
  <2>3. /\ HasAppName(cur[k]) => hasRoot
        /\ IsAppRoot(cur[k]) => ~hasRoot
    BY <1>4, <2>2, NewAppNeedsRoot DEF CheckTx, CheckAppRoot, AppsNamedFirst
  <2>4. \A i \in 1 .. k' - 1 : i \in 1 .. k - 1 \/ i = k
    BY <2>1
  <2>5. \A i \in 1 .. k' - 1 : /\ HasAppName(cur[i]) => hasRoot
                               /\ IsAppRoot(cur[i]) => ~hasRoot
    BY <2>1, <2>3, <2>4 DEF AppsSound, RootOrApps
  <2> QED BY <1>1, <2>1, <2>5 DEF RootOrApps, HasAppName, IsAppRoot
<1>5. ASSUME Accept PROVE RootOrApps'
  <2>0. pc = "check" /\ pc' = "store" /\ cur' = cur /\ k > Len(cur)
    BY <1>5 DEF Accept, AcceptList
  <2>3a. k \in 1 .. Len(cur) + 1 /\ Len(cur) \in Nat /\ txIndex = ChainTxs
    BY <2>0 DEF CurIsNew, Busy, Indexed, TypeOK
  <2>1. /\ pc = "check" /\ pc' = "store" /\ cur' = cur /\ k - 1 = Len(cur)
        /\ txIndex = ChainTxs
    BY <2>0, <2>3a
  <2>2. \A i \in 1 .. Len(cur) : /\ HasAppName(cur[i]) => hasRoot
                                 /\ IsAppRoot(cur[i]) => ~hasRoot
    BY <2>1 DEF AppsSound, RootOrApps
  <2>3. ~hasRoot => \A t \in ChainTxs : ~HasAppName(t)
    BY <2>1 DEF AppsSound, AppsHaveRoot
  <2> QED BY <1>1, <2>1, <2>2, <2>3 DEF RootOrApps, HasAppName, IsAppRoot
<1> QED BY <1>3, <1>4, <1>5

\* Storing it: what joins the list joins the files.
LEMMA AppsStore ==
  ASSUME AppsNamedFirst, CoinInv, ~failed, AppsSound, StoreTx \/ StoreNullTx
  PROVE  AppsSound'
<1> USE DEF CoinInv, Sound, TypeInv
<1>1. /\ pc = "store" /\ pc' = "store" /\ cur' = cur /\ index' = index
      /\ k \in 1 .. Len(cur) /\ cur \in Seq(Tx) /\ cur \in Candidates
      /\ txIndex' = txIndex \cup {cur[k]} /\ (hasRoot => hasRoot')
  BY DEF StoreTx, StoreNullTx, chainVars, CurIsNew, Busy, TypeOK
<1>2. cur[k] \in Submitted
  BY <1>1 DEF Submitted, SeqRange
<1>3. apps' = {t \in txIndex' : HasAppName(t)}
  BY <1>1, <1>2 DEF AppsSound, StoreTx, StoreNullTx, AppsNamedFirst
<1>4. AppsHaveRoot'
  BY <1>1 DEF AppsSound, AppsHaveRoot, RootOrApps
<1>5. ChainTxs' = ChainTxs /\ RootFirst'
  BY <1>1 DEF AppsSound, RootFirst, InBlock, ChainTxs
<1>6. RootOrApps'
  BY <1>1, <1>5 DEF AppsSound, RootOrApps
<1> QED BY <1>3, <1>4, <1>5, <1>6 DEF AppsSound, HasAppName

\* A block with the root joins a chain that has no application.
LEMMA AppsExtend ==
  ASSUME CoinInv, ~failed, AppsSound, SetLastBlock
  PROVE  AppsSound'
<1> USE DEF CoinInv, Sound, TypeInv
<1>1. /\ UNCHANGED <<txIndex, apps, hasRoot>> /\ index' = Append(index, cur)
      /\ pc = "store" /\ pc' = "idle" /\ cur \in Seq(Tx) /\ cur \in Candidates
      /\ index \in Seq(Seq(Tx))
  BY DEF SetLastBlock, SetLast, stateVars, CurIsNew, Busy, TypeOK
<1> DEFINE n == Len(index) + 1
<1>2. /\ DOMAIN index' = DOMAIN index \cup {n} /\ index'[n] = cur
      /\ \A h \in DOMAIN index : index'[h] = index[h] /\ h < n
  BY <1>1
<1>3. \A t, h : InBlock(t, h)' <=> InBlock(t, h) \/ (h = n /\ t \in SeqRange(cur))
  BY <1>2 DEF InBlock
<1>4. ChainTxs' = ChainTxs \cup SeqRange(cur)
  BY <1>2 DEF ChainTxs
<1>5. \A t, h : InBlock(t, h) => t \in ChainTxs
  BY DEF InBlock, ChainTxs
<1>6. \A s \in SeqRange(cur) : IsAppRoot(s) =>
            /\ \A t \in SeqRange(cur) : ~HasAppName(t)
            /\ \A t \in ChainTxs : ~HasAppName(t)
  <2>1. DOMAIN cur = 1 .. Len(cur)
    BY <1>1
  <2> QED BY <1>1, <2>1 DEF AppsSound, RootOrApps, SeqRange
<1> HIDE DEF n
<1>7. RootFirst'
  <2> SUFFICES ASSUME NEW g \in DOMAIN index', NEW h \in DOMAIN index', NEW s \in Tx, NEW t \in Tx,
                      InBlock(s, g)', IsAppRoot(s), InBlock(t, h)', HasAppName(t)
               PROVE  g < h
    BY DEF RootFirst, IsAppRoot, HasAppName
  <2>1. s \notin SeqRange(cur)
    BY <1>3, <1>5, <1>6
  <2>2. InBlock(s, g) /\ g \in DOMAIN index
    BY <1>3, <2>1 DEF InBlock
  <2> QED BY <1>2, <1>3, <2>2 DEF AppsSound, RootFirst, InBlock
<1>8. SeqRange(cur) \subseteq Submitted
  BY <1>1 DEF Submitted
<1> QED BY <1>1, <1>4, <1>7, <1>8 DEF AppsSound, AppsHaveRoot, RootOrApps

\* Removing a transaction: an application finds has_root_app still set, and
\* the root has no application left to leave behind.
LEMMA AppsRemove ==
  ASSUME AppsNamedFirst, CoinInv, ~failed, AppsSound,
         NEW t \in Tx, RemoveTx(t) \/ RemoveAppRoot(t)
  PROVE  AppsSound'
<1> USE DEF CoinInv, Sound, TypeInv
<1>1. /\ pc = "remove" /\ pc' = "remove" /\ index' = index /\ t \in pending
      /\ txIndex' = txIndex \ {t}
  BY DEF RemoveTx, RemoveAppRoot, chainVars
<1>2. /\ cur = index[Len(index)] /\ t \in SeqRange(cur) /\ Len(index) \in DOMAIN index
      /\ txIndex \subseteq ChainTxs /\ t \in txIndex /\ TypeOK
  <2>1. /\ Height > 0 /\ cur = index[Len(index)] /\ pending \subseteq SeqRange(cur)
        /\ txIndex = ChainTxs \ (SeqRange(cur) \ pending) /\ TypeOK
    BY <1>1 DEF Indexed
  <2>2. Len(index) \in DOMAIN index
    BY <2>1 DEF TypeOK, Height
  <2> QED BY <1>1, <2>1, <2>2 DEF ChainTxs
<1>3. InBlock(t, Len(index)) /\ t \in Submitted
  BY <1>2 DEF InBlock, AppsSound
<1>4. ChainTxs' = ChainTxs /\ RootFirst' /\ RootOrApps'
  BY <1>1 DEF AppsSound, ChainTxs, RootFirst, InBlock, RootOrApps
<1>5. CASE RemoveTx(t)
  <2>1. apps' = AppsAfter(t) /\ hasRoot' = hasRoot
    BY <1>5 DEF RemoveTx
  <2>2. Ins[t][1].src = AppRootHash => HasAppName(t)
    <3>1. 1 \in DOMAIN Ins[t]
      BY TxAssumption
    <3> QED BY <3>1 DEF HasAppName, Refs, SeqRange
  <2>3. HasAppName(t) => Ins[t][1].src = AppRootHash /\ hasRoot
    BY <1>2, <1>3 DEF AppsNamedFirst, AppsSound, AppsHaveRoot
  <2>4. apps' = {s \in txIndex' : HasAppName(s)}
    BY <1>1, <2>1, <2>2, <2>3 DEF AppsAfter, AppsSound
  <2> QED BY <1>1, <1>4, <2>1, <2>4 DEF AppsSound, AppsHaveRoot, HasAppName
<1>6. CASE RemoveAppRoot(t)
  <2>1. apps' = apps /\ IsAppRoot(t) /\ ~HasAppName(t)
    BY <1>3, <1>6 DEF RemoveAppRoot, AppsNamedFirst
  <2>2. ASSUME NEW s \in txIndex', HasAppName(s) PROVE FALSE
    <3>1. s \in Tx /\ \E h \in DOMAIN index : InBlock(s, h)
      BY <1>1, <1>2, <2>2, InChain DEF TypeOK
    <3>2. PICK h \in DOMAIN index : InBlock(s, h)
      BY <3>1
    <3>3. Len(index) < h
      BY <1>2, <1>3, <2>1, <2>2, <3>1, <3>2 DEF AppsSound, RootFirst
    <3> QED BY <1>2, <3>2, <3>3 DEF TypeOK
  <2>3. apps' = {s \in txIndex' : HasAppName(s)}
    BY <1>1, <2>1 DEF AppsSound
  <2> QED BY <1>1, <1>4, <2>2, <2>3 DEF AppsSound, AppsHaveRoot, HasAppName
<1> QED BY <1>5, <1>6

\* The last block leaves when nothing of it is on disk.
LEMMA AppsRetract ==
  ASSUME CoinInv, ~failed, AppsSound, EndRemove
  PROVE  AppsSound'
<1> USE DEF CoinInv, Sound, TypeInv
<1>1. /\ UNCHANGED <<txIndex, apps, hasRoot>> /\ pc' = "idle"
      /\ index' = SubSeq(index, 1, Len(index) - 1) /\ index \in Seq(Seq(Tx)) /\ Len(index) > 0
  BY DEF EndRemove, stateVars, TypeOK, Height
<1>2. \A h \in DOMAIN index' : h \in DOMAIN index /\ index'[h] = index[h]
  BY <1>1
<1>3. \A t, h : InBlock(t, h)' => InBlock(t, h)
  BY <1>2 DEF InBlock
<1>4. ChainTxs' \subseteq ChainTxs
  BY <1>2 DEF ChainTxs
<1>5. RootFirst'
  BY <1>2, <1>3 DEF AppsSound, RootFirst, IsAppRoot, HasAppName
<1> QED BY <1>1, <1>4, <1>5 DEF AppsSound, AppsHaveRoot, RootOrApps, HasAppName

\* Every step keeps the list of the applications.
LEMMA AppsStep ==
  ASSUME AppsNamedFirst
  PROVE  AppsInv /\ [Next]_vars => AppsInv'
<1> SUFFICES ASSUME AppsInv, [Next]_vars PROVE AppsInv'
  OBVIOUS
<1>1. CoinInv /\ CoinInv'
  BY CoinStep DEF AppsInv
<1> SUFFICES ASSUME ~failed' PROVE AppsSound'
  BY <1>1 DEF AppsInv
<1>2. ~failed
  <2>1. failed' = failed \/ failed' = TRUE
    BY DEF Next, Receive, CheckTx, CheckAppRoot, Reject, Accept, AcceptList, StoreTx, StoreNullTx,
           StoreFails, SetLastBlock, SetLast, BeginRemove, RemoveTx, RemoveAppRoot, EndRemove, vars
  <2> QED BY <2>1
<1>3. AppsSound
  BY <1>2 DEF AppsInv
<1>4. CASE (\E b \in Candidates : Receive(b)) \/ CheckTx \/ CheckAppRoot \/ Accept
  BY <1>1, <1>2, <1>3, <1>4, AppsCheck
<1>5. CASE StoreTx \/ StoreNullTx
  BY <1>1, <1>2, <1>3, <1>5, AppsStore
<1>6. CASE StoreFails
  BY <1>6 DEF StoreFails
<1>7. CASE SetLastBlock
  BY <1>1, <1>2, <1>3, <1>7, AppsExtend
<1>8. CASE \E t \in Tx : RemoveTx(t) \/ RemoveAppRoot(t)
  BY <1>1, <1>2, <1>3, <1>8, AppsRemove
<1>9. CASE EndRemove
  BY <1>1, <1>2, <1>3, <1>9, AppsRetract
<1>10. CASE Reject \/ BeginRemove \/ UNCHANGED vars
  <2>1. /\ UNCHANGED <<index, txIndex, apps, hasRoot>>
        /\ pc' \in {"idle", "remove"} \/ UNCHANGED <<pc, cur, k>>
    BY <1>10 DEF Reject, BeginRemove, vars, chainVars, stateVars
  <2> QED BY <1>3, <2>1, AppsSame
<1> QED BY <1>4, <1>5, <1>6, <1>7, <1>8, <1>9, <1>10 DEF Next

\* However blocks come and go, the list of the applications is that of the
\* transactions on disk that name one, for every set of blocks in which remove_tx
\* can tell them.
THEOREM AppsAreListed ==
  ASSUME AppsNamedFirst
  PROVE  Spec => []AppsAreStored
<1>1. Init => AppsInv
  <2> SUFFICES ASSUME Init PROVE AppsInv
    OBVIOUS
  <2>1. index = << <<>> >> /\ txIndex = {} /\ apps = {} /\ pc = "idle"
    BY DEF Init, Genesis
  <2>2. ChainTxs = {} /\ \A t, h : ~InBlock(t, h)
    BY <2>1 DEF ChainTxs, InBlock, SeqRange
  <2> QED BY <2>1, <2>2, CoinInit DEF AppsInv, AppsSound, AppsHaveRoot, RootFirst, RootOrApps
<1>2. AppsInv /\ [Next]_vars => AppsInv'
  BY AppsStep
<1>3. AppsInv => AppsAreStored
  BY DEF AppsInv, AppsSound, AppsAreStored
<1> QED BY <1>1, <1>2, <1>3, PTL DEF Spec

-----------------------------------------------------------------------------
(***************************************************************************)
(* Why a start leaves the chain and its coins in order, for every set of   *)
(* transactions, every bound and every number of blocks block_check_last   *)
(* looks at.                                                               *)
(*                                                                         *)
(* The records are the chain with at most one behind it, and only of the   *)
(* last record the index of transactions may hold a part (RecordsInv): so  *)
(* block_check_last answers the height of that record or the one before    *)
(* it, and one turn of truncate_chain is enough (StepInv). The coins of    *)
(* that last record may be made, spent or given back in part; those of the *)
(* records before it are exact (PartlyExact), and what it spends was made  *)
(* before it and is spent by no other, so that taking it back twice is     *)
(* taking it back once.                                                    *)
(*                                                                         *)
(* The invariant is in layers: types always hold; the files agree unless a *)
(* start has given up on them (Sane); the coins do unless a stop has torn  *)
(* those of a block the start finds in order (Safe). A stop in             *)
(* store_blk_staking leaves a short record, which no start cuts: until the *)
(* node is up again the records are the chain and the transactions on disk *)
(* those of the chain and of that record (ShortInv).                       *)
(***************************************************************************)

\* The files agree with the chain, as far as the start can tell; and what they
\* hold of the coins as well.
Sane == "files" \notin torn /\ "record" \notin torn /\ ~failed
Safe == torn = {} /\ ~failed

LastRecord == blocks[Len(blocks)]
\* The transactions of every record but the last.
Before(s) == UNION {SeqRange(s[h]) : h \in 1 .. Len(s) - 1}
BeforeTxs == Before(blocks)

Stored == Len(blocks) > 1 /\ Len(blocks) <= MaxRecords
Steps == {"up", "down", "cut", "load", "lost"}
LifeTypes ==
    /\ TypeOK /\ AppsHaveName /\ Len(blocks) > 0
    /\ times \in Nat \ {0} /\ target \in Nat /\ stops \in Nat
    /\ torn \subseteq {"coins", "record", "files"} /\ mode \in Steps
    /\ short \in Seq(Seq(Tx)) /\ ("record" \notin torn => short = <<>>)
    /\ mode = "up" => Below
    /\ mode # "up" => pc \in {"idle", "remove"} /\ (mode # "cut" => pc = "idle")
    /\ mode = "cut" /\ pc = "remove" => Len(blocks) > 1
    /\ pc # "remove" => pending = {}
    /\ Len(blocks) <= MaxRecords + 1
    /\ (pc = "check" => Len(blocks) < MaxRecords) /\ (pc = "store" => Stored)

\* The records are the chain, with at most one behind it ...
RecordsAre ==
    /\ Len(index) <= Len(blocks) /\ Len(blocks) <= Len(index) + 1
    /\ \A h \in 1 .. Len(index) : blocks[h] = index[h]
    /\ index[1] = Genesis /\ OneBlock
    /\ Len(blocks) > Len(index) => SeqRange(LastRecord) \cap ChainTxs = {}
\* ... of which only the last may be in the index of transactions in part.
RecordsInv ==
    /\ RecordsAre
    /\ Len(index) <= times /\ times <= Len(blocks)
    /\ BeforeTxs \subseteq txIndex /\ txIndex \subseteq BeforeTxs \cup SeqRange(LastRecord)

\* The files agree.
Level == Len(blocks) = Len(index) /\ txIndex = ChainTxs
\* The last record is going to be cut: it is not in the chain, or not all stored.
ToCut ==
    /\ target = Len(blocks) - 2 /\ target > 0
    /\ Len(blocks) = Len(index) => ~(SeqRange(LastRecord) \subseteq txIndex)

StepInv ==
    /\ mode = "up" =>
        /\ times = Len(index) /\ CurIsNew /\ Indexed
        /\ pc = "store" => Len(blocks) = Len(index) + 1 /\ cur = LastRecord
        /\ pc # "store" => Len(blocks) = Len(index)
    /\ mode = "cut" /\ pc = "idle" => (target = Len(blocks) - 1 /\ Level) \/ ToCut
    /\ mode = "cut" /\ pc = "remove" =>
        /\ ToCut /\ cur = LastRecord
        /\ pending \subseteq SeqRange(cur) /\ txIndex \subseteq BeforeTxs \cup pending
    /\ mode \in {"load", "lost"} => Level

\* What the last record spends are coins that the records before it made and did
\* not spend.
NewSpends ==
    Len(blocks) > Len(index) =>
        \A t \in SeqRange(LastRecord) : \A r \in Spends(t) :
            r.src \in ChainTxs /\ \A s \in ChainTxs : r \notin Spends(s)

\* Wherever the last record was interrupted: no coin is unspent that a record
\* before it has spent, or that nobody made; and what the records before it made
\* and no transaction on disk spends is unspent.
PartlyExact ==
    \A r \in OutRef : Coin(r) =>
        /\ r \in utxo => r.src \in txIndex /\ \A s \in BeforeTxs : r \notin Spends(s)
        /\ r.src \in BeforeTxs /\ (\A s \in txIndex : r \notin Spends(s)) => r \in utxo

CoinsInv ==
    /\ SpendsEarlier /\ ChainSpentOnce /\ NewSpends
    /\ mode = "up" => LedgerInv
    /\ mode # "up" =>
        /\ PartlyExact
        /\ pc = "idle" /\ Len(blocks) = Len(index) /\ SeqRange(LastRecord) \subseteq txIndex
              => CoinUtxoExact

\* A record is short, and no start has taken it for the end of the file yet.
HalfStop == "record" \in torn /\ "files" \notin torn /\ ~failed
ShortInv ==
    /\ mode \in {"down", "cut", "load"} /\ pc = "idle" /\ short # <<>>
    /\ RecordsAre /\ Len(blocks) = Len(index) /\ times = Len(index)
    /\ txIndex = ChainTxs \cup HalfStored
    /\ mode = "cut" => target = Len(blocks) - 1
    /\ torn = {"record"} => CoinUtxoExact

LifeInv ==
    /\ LifeTypes
    /\ Sane => RecordsInv /\ StepInv
    /\ Safe => CoinsInv
    /\ HalfStop => ShortInv

-----------------------------------------------------------------------------
(* Types *)

\* Without applications, no transaction names one.
LEMMA NoApps ==
  ASSUME NEW t \in Tx
  PROVE  ~HasAppName(t) /\ ~IsAppRoot(t)
BY CoinsOnly DEF HasAppName, IsAppRoot

\* What SubSeq leaves of a sequence of blocks.
LEMMA FrontOf ==
  ASSUME NEW s \in Seq(Seq(Tx)), NEW m \in 0 .. Len(s)
  PROVE  /\ SubSeq(s, 1, m) \in Seq(Seq(Tx)) /\ Len(SubSeq(s, 1, m)) = m
         /\ \A h \in 1 .. m : SubSeq(s, 1, m)[h] = s[h]
OBVIOUS

\* The smaller of two numbers is what Min makes of them ...
LEMMA MinOfTwo ==
  ASSUME NEW a \in Int, NEW b \in Int
  PROVE  Min({a, b}) = IF a <= b THEN a ELSE b
<1> DEFINE m == IF a <= b THEN a ELSE b
<1>1. m \in {a, b} /\ \A y \in {a, b} : m =< y
  OBVIOUS
<1>2. \A x \in {a, b} : (\A y \in {a, b} : x =< y) => x = m
  OBVIOUS
<1> HIDE DEF m
<1>3. Min({a, b}) \in {a, b} /\ \A y \in {a, b} : Min({a, b}) =< y
  BY <1>1 DEF Min
<1>4. Min({a, b}) = m
  BY <1>2, <1>3
<1> QED BY <1>4 DEF m

\* ... and one of three is below the others.
LEMMA MinOfThree ==
  ASSUME NEW a \in Int, NEW b \in Int, NEW c \in Int
  PROVE  Min({a, b, c}) \in {a, b, c} /\ \A y \in {a, b, c} : Min({a, b, c}) =< y
<1>1. \E x \in {a, b, c} : \A y \in {a, b, c} : x =< y
  <2>1. CASE a <= b /\ a <= c
    BY <2>1
  <2>2. CASE b <= a /\ b <= c
    BY <2>2
  <2>3. CASE c <= a /\ c <= b
    BY <2>3
  <2> QED BY <2>1, <2>2, <2>3
<1> QED BY <1>1 DEF Min

\* node_remove_last_block and the cut of the start take the last record, and the
\* last block of the chain when it has one for that record.
LEMMA CutLengths ==
  ASSUME TypeOK, Len(blocks) > 1, times \in Nat \ {0}, CutFiles
  PROVE  /\ blocks' \in Seq(Seq(Tx)) /\ Len(blocks') = Len(blocks) - 1
         /\ \A h \in 1 .. Len(blocks) - 1 : blocks'[h] = blocks[h]
         /\ index' \in Seq(Seq(Tx))
         /\ Len(index') = (IF Len(index) <= Len(blocks) - 1 THEN Len(index) ELSE Len(blocks) - 1)
         /\ \A h \in 1 .. Len(index') : index'[h] = index[h]
         /\ times' = (IF times <= Len(blocks) - 1 THEN times ELSE Len(blocks) - 1)
         /\ Height' \in 0 .. MaxHeight /\ Len(blocks') > 0 /\ times' \in Nat \ {0}
<1> DEFINE m == Min({Len(index), Len(blocks) - 1})
<1>1. blocks \in Seq(Seq(Tx)) /\ index \in Seq(Seq(Tx)) /\ Height \in 0 .. MaxHeight
      /\ MaxHeight \in Nat
  BY BoundAssumption DEF TypeOK
<1>2. Len(index) \in Nat /\ Len(blocks) \in Nat /\ Len(index) > 0
  BY <1>1 DEF Height
<1>3. m = (IF Len(index) <= Len(blocks) - 1 THEN Len(index) ELSE Len(blocks) - 1)
  BY <1>2, MinOfTwo
<1>4. m \in 0 .. Len(index) /\ m > 0 /\ Len(blocks) - 1 \in 0 .. Len(blocks)
  BY <1>2, <1>3
<1>5. times' = (IF times <= Len(blocks) - 1 THEN times ELSE Len(blocks) - 1)
  <2>1. times' = Min({times, Len(blocks) - 1})
    BY DEF CutFiles
  <2>2. times \in Int /\ Len(blocks) - 1 \in Int
    BY <1>2
  <2>3. Min({times, Len(blocks) - 1}) = IF times <= Len(blocks) - 1 THEN times ELSE Len(blocks) - 1
    BY ONLY <2>2, MinOfTwo
  <2> QED BY <2>1, <2>3
<1>6. blocks' = SubSeq(blocks, 1, Len(blocks) - 1) /\ index' = SubSeq(index, 1, m)
  BY DEF CutFiles
<1> HIDE DEF m
<1>7. Len(index') = m /\ Len(blocks') = Len(blocks) - 1
  BY <1>1, <1>4, <1>6, FrontOf
<1>8. Height' = m - 1 /\ m - 1 \in 0 .. MaxHeight
  BY <1>1, <1>2, <1>3, <1>7 DEF Height
<1>9. blocks' \in Seq(Seq(Tx)) /\ \A h \in 1 .. Len(blocks) - 1 : blocks'[h] = blocks[h]
  BY <1>1, <1>4, <1>6, FrontOf
<1>10. index' \in Seq(Seq(Tx)) /\ \A h \in 1 .. m : index'[h] = index[h]
  BY <1>1, <1>4, <1>6, FrontOf
<1>11. /\ Len(index') = (IF Len(index) <= Len(blocks) - 1 THEN Len(index) ELSE Len(blocks) - 1)
       /\ \A h \in 1 .. Len(index') : index'[h] = index[h]
  BY <1>3, <1>7, <1>10
<1>12. Len(blocks') > 0 /\ times' \in Nat \ {0}
  BY <1>2, <1>5, <1>7
<1> QED BY <1>5, <1>7, <1>8, <1>9, <1>10, <1>11, <1>12

\* What a stop leaves in memory.
LEMMA ForgetTypes ==
  ASSUME LifeTypes, ForgetAll
  PROVE  /\ mode' = "down" /\ pc' = "idle" /\ cur' \in Seq(Tx) /\ k' \in Nat \ {0}
         /\ pending' = {}
         /\ root' = {} /\ objs' = {} /\ minter' = None /\ target' \in Nat /\ stops' \in Nat
         /\ apps' = apps /\ hasRoot' = hasRoot /\ failed' = failed
BY DEF ForgetAll, LifeTypes

\* The steps of the main loop add no application and keep the records.
LEMMA RunTypes ==
  ASSUME LifeTypes, Run
  PROVE  LifeTypes'
<1>1. TypeInv /\ mode = "up" /\ [Next]_vars /\ UNCHANGED <<mode, target, stops, torn>>
  BY DEF Run, LifeTypes, TypeInv
<1>2. TypeInv'
  BY <1>1, TypeStep
<1>3. apps' \subseteq apps \cup {t \in Tx : HasAppName(t)}
  <2> USE DEF stateVars
  <2>1. CASE StoreTx
    <3>1. cur[k] \in Tx
      BY <2>1, <1>1 DEF StoreTx, TypeInv, TypeOK
    <3> QED BY <2>1, <3>1 DEF StoreTx
  <2>2. ASSUME NEW t \in Tx, RemoveTx(t)
        PROVE  apps' \subseteq apps
    BY <2>2 DEF RemoveTx, AppsAfter
  <2>3. ASSUME NEW b \in Candidates, Receive(b)
        PROVE  apps' = apps
    BY <2>3 DEF Receive
  <2>4. ASSUME NEW t \in Tx, RemoveAppRoot(t)
        PROVE  apps' = apps
    BY <2>4 DEF RemoveAppRoot
  <2>5. CASE \/ CheckTx \/ CheckAppRoot \/ Reject \/ Accept
             \/ StoreNullTx \/ StoreFails \/ SetLastBlock \/ BeginRemove \/ EndRemove
    BY <2>5
       DEF CheckTx, CheckAppRoot, Reject, Accept, AcceptList, StoreNullTx, StoreFails, SetLastBlock, SetLast,
           BeginRemove, EndRemove
  <2> QED BY <2>1, <2>2, <2>3, <2>4, <2>5 DEF Run, Next
<1>4. /\ Len(blocks') > 0 /\ (pc' # "remove" => pending' = {})
      /\ Len(blocks') <= MaxRecords + 1
      /\ (pc' = "check" => Len(blocks') < MaxRecords) /\ (pc' = "store" => Stored')
  <2> USE DEF Stored
  <2>0. /\ blocks \in Seq(Seq(Tx)) /\ Len(blocks) > 0 /\ (pc # "remove" => pending = {})
        /\ cur \in Seq(Tx) /\ Len(blocks) <= MaxRecords + 1
        /\ (pc = "check" => Len(blocks) < MaxRecords) /\ (pc = "store" => Stored)
        /\ MaxRecords \in Nat
    BY BoundAssumption DEF LifeTypes, TypeOK
  <2>1. ASSUME NEW t \in Tx, RemoveTx(t) \/ RemoveAppRoot(t)
        PROVE  blocks' = blocks /\ pc' = pc /\ pc = "remove"
    BY <2>1 DEF RemoveTx, RemoveAppRoot, chainVars
  <2>2. ASSUME NEW b \in Candidates, Receive(b)
        PROVE  blocks' = blocks /\ pending' = pending /\ pc = "idle" /\ pc' = "check"
               /\ Len(blocks) < MaxRecords
    BY <2>0, <2>2 DEF Receive, chainVars
  <2>3. CASE BeginRemove
    BY <2>0, <2>3 DEF BeginRemove, chainVars
  <2>4. CASE EndRemove
    <3>1. Len(blocks) > 1
      BY <1>1, <2>4 DEF EndRemove, TypeInv, TypeOK, Below, Height
    <3> QED BY <2>0, <2>4, <3>1 DEF EndRemove
  <2>5. CASE Accept
    BY <2>0, <2>5 DEF Accept, AcceptList
  <2>6. CASE \/ CheckTx \/ CheckAppRoot \/ Reject
             \/ StoreTx \/ StoreNullTx \/ StoreFails \/ SetLastBlock
    BY <2>0, <2>6
       DEF CheckTx, CheckAppRoot, Reject, StoreTx, StoreNullTx, StoreFails, SetLastBlock, SetLast,
           chainVars
  <2> QED BY <2>0, <2>1, <2>2, <2>3, <2>4, <2>5, <2>6 DEF Run, Next
<1>5. times' \in Nat \ {0}
  <2>1. index' \in Seq(Seq(Tx)) /\ Len(index') > 0
    BY <1>2 DEF TypeInv, TypeOK, Height
  <2> QED BY <2>1 DEF Run, LifeTypes
<1>6. short' \in Seq(Seq(Tx)) /\ ("record" \notin torn => short' = <<>>)
  <2>1. short' = <<>> \/ short' = short
    BY DEF Run
  <2>2. <<>> \in Seq(Seq(Tx))
    OBVIOUS
  <2> QED BY <2>1, <2>2 DEF LifeTypes
<1> QED BY <1>1, <1>2, <1>3, <1>4, <1>5, <1>6 DEF LifeTypes, TypeInv, AppsHaveName

LEMMA NoRecords == <<>> \in Seq(Tx) /\ <<>> \in Seq(Seq(Tx))
  OBVIOUS

\* So do those behind a short record.
LEMMA BehindTypes ==
  ASSUME LifeTypes, AcceptBehind \/ SetLastBehind
  PROVE  LifeTypes' /\ torn' = torn /\ failed' = failed /\ "record" \in torn
<1>1. /\ TypeOK /\ AppsHaveName /\ Below /\ mode = "up" /\ short \in Seq(Seq(Tx)) /\ short # <<>>
      /\ UNCHANGED <<mode, target, stops, torn>> /\ "record" \in torn
      /\ (pc # "remove" => pending = {})
      /\ (pc = "check" => Len(blocks) < MaxRecords) /\ (pc = "store" => Stored) /\ Len(blocks) > 0
  BY DEF LifeTypes, AcceptBehind, SetLastBehind
<1>2. blocks \in Seq(Seq(Tx)) /\ Len(blocks) \in Nat /\ short[1] \in Seq(Tx) /\ Hole \in Seq(Tx)
      /\ cur \in Seq(Tx) /\ index \in Seq(Seq(Tx)) /\ Len(index) \in Nat /\ MaxRecords \in Nat
      /\ MaxHeight \in Nat
  BY <1>1, BoundAssumption DEF TypeOK, Hole
<1>3. CASE AcceptBehind
  <2>1. /\ pc = "check" /\ pc' = "store" /\ k' = 1 /\ blocks' = Append(blocks, short[1])
        /\ short' = <<Hole>> /\ times' = times
        /\ UNCHANGED <<index, supply, stateVars, cur, checkVars, pending, failed>>
    BY <1>3 DEF AcceptBehind, AcceptList
  <2>2. blocks' \in Seq(Seq(Tx)) /\ Len(blocks') = Len(blocks) + 1 /\ short' \in Seq(Seq(Tx))
    BY <1>2, <2>1
  <2>3. TypeOK' /\ Below'
    BY <1>1, <1>2, <2>1, <2>2 DEF TypeOK, Below, Height, stateVars, checkVars
  <2>4. Stored' /\ Len(blocks') <= MaxRecords + 1 /\ Len(blocks') > 0
    BY <1>1, <1>2, <2>1, <2>2 DEF Stored
  <2>5. times' \in Nat \ {0} /\ target' \in Nat /\ stops' \in Nat /\ mode' = "up" /\ mode' \in Steps
        /\ torn' \subseteq {"coins", "record", "files"} /\ torn' = torn /\ pending' = {}
        /\ AppsHaveName' /\ failed' = failed
    BY <1>1, <2>1 DEF LifeTypes, AppsHaveName, stateVars
  <2> QED BY <1>1, <2>1, <2>2, <2>3, <2>4, <2>5 DEF LifeTypes
<1>4. CASE SetLastBehind
  <2>1. /\ pc = "store" /\ pc' = "idle" /\ k' = 1 /\ cur' = <<>> /\ blocks' = Append(blocks, Hole)
        /\ short' = <<>> /\ times' = Len(index') /\ index' = Append(index, cur)
        /\ supply' = supply + Reward(cur, BlockHeight)
        /\ UNCHANGED <<stateVars, checkVars, pending, failed>>
    BY <1>4 DEF SetLastBehind, SetLast
  <2>2. blocks' \in Seq(Seq(Tx)) /\ Len(blocks') = Len(blocks) + 1 /\ short' \in Seq(Seq(Tx))
    BY <1>2, <2>1
  <2>3. index' \in Seq(Seq(Tx)) /\ Len(index') = Len(index) + 1 /\ Height' \in 0 .. MaxHeight
    BY <1>1, <1>2, <2>1 DEF Below, Height, TypeOK
  <2>4. Reward(cur, BlockHeight) \in Int
    <3>1. BlockHeight \in 0 .. MaxHeight + MaxRecords + 1
      BY <1>1, <1>2, <2>1 DEF TypeOK, Height, BlockHeight, Below
    <3> QED BY <3>1, RewardType
  <2>5. TypeOK'
    BY <1>1, <2>1, <2>2, <2>3, <2>4 DEF TypeOK, stateVars, checkVars
  <2>6. times' \in Nat \ {0} /\ Len(blocks') > 0 /\ Len(blocks') <= MaxRecords + 1
    BY <1>1, <1>2, <2>1, <2>2, <2>3 DEF Stored
  <2> QED BY <1>1, <1>2, <2>1, <2>2, <2>5, <2>6 DEF LifeTypes, AppsHaveName, Below, stateVars
<1> QED BY <1>1, <1>3, <1>4 DEF AcceptBehind, AcceptList, SetLastBehind, SetLast

\* What StopInTx and StopInRemoval write back or not are unspent outputs.
LEMMA PartTypes ==
  ASSUME TypeOK, NEW t \in Tx
  PROVE  StoredOuts(t) \subseteq OutRef /\ Restored(t) \subseteq OutRef
<1>1. StoredOuts(t) \subseteq OutRef
  BY OutRefsType DEF StoredOuts
<1>2. Restored(t) \subseteq OutRef
  BY ExistsType DEF Restored
<1> QED BY <1>1, <1>2

\* Every stop leaves well typed files.
LEMMA StopTypes ==
  ASSUME LifeTypes,
         \/ StopIdle \/ StopBeforeTx \/ StopInTx \/ StopInStaking
         \/ StopBeforeIndex \/ StopInRemoval \/ StopBeforeSupply
  PROVE  LifeTypes'
<1>1. ForgetAll
  BY DEF StopIdle, StopBeforeTx, StopInTx, StopInStaking, StopBeforeIndex, StopInRemoval,
         StopBeforeSupply
<1>2. /\ mode' = "down" /\ pc' = "idle" /\ cur' \in Seq(Tx) /\ k' \in Nat \ {0} /\ pending' = {}
      /\ root' = {} /\ objs' = {} /\ minter' = None /\ target' \in Nat /\ stops' \in Nat
      /\ apps' = apps /\ hasRoot' = hasRoot /\ failed' = failed
  BY <1>1, ForgetTypes
<1>3. TypeOK /\ AppsHaveName /\ Len(blocks) > 0 /\ Len(blocks) <= MaxRecords + 1
      /\ times \in Nat \ {0} /\ torn \subseteq {"coins", "record", "files"}
      /\ short \in Seq(Seq(Tx)) /\ ("record" \notin torn => short = <<>>)
  BY DEF LifeTypes
<1>4. SUFFICES /\ blocks' \in Seq(Seq(Tx)) /\ index' \in Seq(Seq(Tx))
      /\ Height' \in 0 .. MaxHeight
               /\ Len(blocks') > 0 /\ Len(blocks') <= MaxRecords + 1 /\ times' \in Nat \ {0}
               /\ supply' \in Int
               /\ txIndex' \subseteq Tx /\ utxo' \subseteq OutRef
               /\ torn' \subseteq {"coins", "record", "files"}
               /\ short' \in Seq(Seq(Tx)) /\ ("record" \notin torn' => short' = <<>>)
  BY <1>2, <1>3 DEF LifeTypes, TypeOK, AppsHaveName, Below, Steps
<1>5. CASE StopIdle \/ StopBeforeTx
  BY <1>3, <1>5 DEF StopIdle, StopBeforeTx, chainVars, TypeOK, Height
<1>6. CASE StopInTx
  <2>1. /\ UNCHANGED <<chainVars, times, short, torn>> /\ cur[k] \in Tx
        /\ txIndex' = txIndex \cup {cur[k]}
    BY <1>3, <1>6 DEF StopInTx, TypeOK
  <2>2. utxo' \subseteq utxo \cup StoredOuts(cur[k])
    BY <1>6 DEF StopInTx
  <2> QED BY <1>3, <2>1, <2>2, PartTypes DEF chainVars, TypeOK, Height
<1>10. ASSUME pc = "store"
       PROVE  mode = "up" /\ Reward(cur, BlockHeight) \in Int /\ Len(blocks) <= MaxRecords
              /\ Len(blocks) > 1
  <2>1. mode = "up" /\ Height < MaxHeight /\ Len(blocks) <= MaxRecords /\ Len(blocks) > 1
    BY <1>10 DEF LifeTypes, Below, Stored
  <2>2. BlockHeight \in 0 .. MaxHeight + MaxRecords + 1
    BY <1>3, <2>1, BoundAssumption DEF TypeOK, Height, BlockHeight
  <2> QED BY <2>1, <2>2, RewardType
<1>7. CASE StopBeforeIndex
  <2>1. pc = "store" /\ supply' = supply + Reward(cur, BlockHeight) /\ times' \in {times, times + 1}
        /\ UNCHANGED <<index, txIndex, utxo, torn>> /\ short' = <<>>
        /\ blocks' = IF short = <<>> THEN blocks ELSE Append(blocks, Hole)
    BY <1>7 DEF StopBeforeIndex
  <2>2. Reward(cur, BlockHeight) \in Int /\ Len(blocks) <= MaxRecords /\ Hole \in Seq(Tx)
        /\ MaxRecords \in Nat
    BY <1>10, <2>1, BoundAssumption DEF Hole
  <2>3. blocks' \in Seq(Seq(Tx)) /\ Len(blocks') > 0 /\ Len(blocks') <= MaxRecords + 1
    BY <1>3, <2>1, <2>2 DEF TypeOK
  <2>4. supply' \in Int /\ times' \in Nat \ {0}
    <3>1. supply \in Int
      BY <1>3 DEF TypeOK
    <3>2. supply' \in Int
      BY <2>1, <2>2, <3>1
    <3>3. times' \in Nat \ {0}
      BY <1>3, <2>1
    <3> QED BY <3>2, <3>3
  <2>5. short' \in Seq(Seq(Tx))
    BY <2>1, NoRecords
  <2> QED BY <1>3, <2>1, <2>3, <2>4, <2>5 DEF TypeOK, Height
<1>11. CASE StopInStaking
  <2>1. /\ pc = "store" /\ UNCHANGED <<index, txIndex, utxo, times>>
        /\ torn' = torn \cup {"record"}
        /\ supply' = IF IsStaked(cur) THEN supply ELSE supply + Reward(cur, BlockHeight)
    BY <1>11 DEF StopInStaking
  <2>2. Reward(cur, BlockHeight) \in Int /\ Len(blocks) > 1
    BY <1>10, <2>1
  <2>3. /\ blocks' \in Seq(Seq(Tx)) /\ Len(blocks') > 0 /\ Len(blocks') <= MaxRecords + 1
        /\ short' \in Seq(Seq(Tx))
    <3>1. blocks \in Seq(Seq(Tx)) /\ Len(blocks) \in Nat /\ MaxRecords \in Nat
      BY <1>3, BoundAssumption DEF TypeOK
    <3>2. CASE short = <<>>
      <4>1. blocks' = SubSeq(blocks, 1, Len(blocks) - 1) /\ short' = <<blocks[Len(blocks)]>>
        BY <1>11, <3>2 DEF StopInStaking
      <4>2. Len(blocks) - 1 \in 0 .. Len(blocks) /\ blocks[Len(blocks)] \in Seq(Tx)
        BY <2>2, <3>1
      <4>3. blocks' \in Seq(Seq(Tx)) /\ Len(blocks') = Len(blocks) - 1
        BY <3>1, <4>1, <4>2, FrontOf
      <4> QED BY <1>3, <2>2, <3>1, <4>1, <4>2, <4>3
    <3>3. CASE short # <<>>
      <4>1. UNCHANGED <<blocks, short>>
        BY <1>11, <3>3 DEF StopInStaking
      <4> QED BY <1>3, <3>1, <4>1
    <3> QED BY <3>2, <3>3
  <2> QED BY <1>3, <2>1, <2>2, <2>3 DEF TypeOK, Height
<1>8. CASE StopInRemoval
  <2>1. PICK t \in pending \cap txIndex : \E o \in 0 .. Len(Outs[t]), i \in 0 .. Len(Ins[t]) :
            utxo' = (utxo \ {r \in Cancelled(t) : r.idx <= o})
                        \cup (Restored(t) \cap {Ins[t][j] : j \in 1 .. i})
    BY <1>8 DEF StopInRemoval
  <2>2. t \in Tx /\ utxo' \subseteq utxo \cup Restored(t)
    BY <1>3, <2>1 DEF TypeOK
  <2>3. torn' \in {torn, torn \cup {"coins"}} /\ UNCHANGED <<chainVars, txIndex, times, short>>
    BY <1>8 DEF StopInRemoval
  <2> QED BY <1>3, <2>2, <2>3, PartTypes DEF chainVars, TypeOK, Height
<1>9. CASE StopBeforeSupply
  <2>1. Len(blocks) > 1 /\ CutFiles /\ UNCHANGED <<supply, txIndex, utxo, torn>>
    <3>1. mode = "up" => Len(blocks) > 1
      BY <1>9 DEF StopBeforeSupply, LifeTypes, Below, Height, TypeOK
    <3> QED BY <1>9, <3>1 DEF StopBeforeSupply, LifeTypes, Steps
  <2>2. Len(blocks) \in Nat /\ MaxRecords \in Nat
    BY <1>3, BoundAssumption DEF TypeOK
  <2>3. /\ blocks' \in Seq(Seq(Tx)) /\ Len(blocks') = Len(blocks) - 1 /\ index' \in Seq(Seq(Tx))
        /\ Height' \in 0 .. MaxHeight /\ Len(blocks') > 0 /\ times' \in Nat \ {0}
    BY <1>3, <2>1, CutLengths
  <2>4. short' = <<>> /\ short' \in Seq(Seq(Tx))
    BY <2>1, NoRecords DEF CutFiles
  <2>5. supply' \in Int /\ txIndex' \subseteq Tx /\ utxo' \subseteq OutRef
    BY <1>3, <2>1 DEF TypeOK
  <2>6. Len(blocks') <= MaxRecords + 1
    BY <1>3, <2>2, <2>3
  <2> QED BY <1>3, <2>1, <2>3, <2>4, <2>5, <2>6
<1> QED BY <1>5, <1>6, <1>7, <1>8, <1>9, <1>11

\* A set of numbers below a bound has a largest one: what is left of it above x,
\* for x in the set, is never empty, and one of these sets has no smaller one.
LEMMA MaxOfNats ==
  ASSUME NEW S \in SUBSET Nat, S # {}, NEW b \in Nat, \A x \in S : x <= b
  PROVE  Max(S) \in S /\ \A y \in S : Max(S) >= y
<1> DEFINE Above(x) == {y \in S : y >= x}
           F == {Above(x) : x \in S}
<1>1. IsFiniteSet(S)
  BY FS_BoundedSetOfNaturals
<1>a. ASSUME NEW x \in S
      PROVE  Above(x) \in FiniteSubsetsOf(S)
  <2>1. Above(x) \in SUBSET S
    OBVIOUS
  <2> HIDE DEF Above
  <2> QED BY <2>1, <1>1, FS_Subset DEF FiniteSubsetsOf
<1>2. F \subseteq FiniteSubsetsOf(S) /\ F # {}
  BY <1>a
<1>3. PICK T \in F : \A U \in F : <<U, T>> \notin StrictSubsetOrdering(S)
  <2> HIDE DEF F
  <2> QED BY <1>2, WFMin, FS_StrictSubsetOrderingWellFounded
<1>4. PICK m \in S : T = Above(m)
  OBVIOUS
<1>5. ASSUME NEW y \in S
      PROVE  m >= y
  <2> SUFFICES ASSUME y > m PROVE FALSE
    BY <1>5
  <2>0. m \in Nat /\ y \in Nat /\ S \subseteq Nat /\ ~(m >= y) /\ m >= m
    BY <1>5
  <2>3. \A z \in S : z >= y => z >= m
    BY <2>0
  <2>1. Above(y) \subseteq Above(m) /\ m \in Above(m) /\ m \notin Above(y)
    BY <2>0, <2>3
  <2>2. Above(y) \in SUBSET S /\ Above(m) \in SUBSET S /\ Above(y) \in F
    BY <1>5
  <2> HIDE DEF Above, F
  <2> QED BY <1>3, <1>4, <2>1, <2>2 DEF StrictSubsetOrdering
<1> QED BY <1>5 DEF Max

\* What block_check_last looks at.
LEMMA CheckedRange ==
  ASSUME TypeOK, times \in Nat \ {0}
  PROVE  /\ CheckedHeight = (IF Len(index) < times THEN Len(index) ELSE times)
         /\ CheckedHeight \in Nat \ {0} /\ FirstChecked \in Nat \ {0}
         /\ FirstChecked = (IF CheckNum < CheckedHeight THEN CheckedHeight - CheckNum ELSE 1)
         /\ LastChecked \in Int /\ LastChecked <= CheckedHeight
         /\ Len(blocks) >= CheckedHeight => LastChecked = CheckedHeight
<1>1. Len(index) \in Nat \ {0} /\ Len(blocks) \in Nat /\ CheckNum \in Nat \ {0}
  BY RecoveryAssumption, BoundAssumption DEF TypeOK, Height
<1>2. CheckedHeight = (IF Len(index) < times THEN Len(index) ELSE times)
  BY DEF CheckedHeight
<1>3. FirstChecked = (IF CheckNum < CheckedHeight THEN CheckedHeight - CheckNum ELSE 1)
  BY DEF FirstChecked
<1>4. CheckedHeight \in Nat \ {0} /\ FirstChecked \in Nat \ {0}
      /\ FirstChecked + CheckNum >= CheckedHeight
  BY <1>1, <1>2, <1>3
<1>5. LastChecked = Min({FirstChecked + CheckNum, CheckedHeight, Len(blocks)})
  BY DEF LastChecked
<1> HIDE DEF FirstChecked, CheckedHeight
<1>7. FirstChecked + CheckNum \in Int /\ CheckedHeight \in Int /\ Len(blocks) \in Int
  BY <1>1, <1>4
<1> DEFINE a == FirstChecked + CheckNum
           b == Len(blocks)
<1>8. a \in Int /\ b \in Int
  BY <1>7
<1>9. Min({a, CheckedHeight, b}) \in {a, CheckedHeight, b}
      /\ \A y \in {a, CheckedHeight, b} : Min({a, CheckedHeight, b}) =< y
  <2> HIDE DEF a, b
  <2> QED BY <1>7, <1>8, MinOfThree
<1>6. LastChecked \in {FirstChecked + CheckNum, CheckedHeight, Len(blocks)}
      /\ \A y \in {FirstChecked + CheckNum, CheckedHeight, Len(blocks)} : LastChecked =< y
  BY <1>5, <1>9
<1> QED BY <1>1, <1>2, <1>3, <1>4, <1>6

\* What block_check_last answers is a height it found in order, and the last one.
LEMMA GoodsMax ==
  ASSUME TypeOK, times \in Nat \ {0}, Goods # {}
  PROVE  Max(Goods) \in Goods /\ \A n \in Goods : Max(Goods) >= n /\ Max(Goods) \in Nat
<1>1. FirstChecked \in Nat \ {0} /\ LastChecked \in Int
  BY CheckedRange
<1>2. Goods \subseteq FirstChecked .. LastChecked - 1
  BY DEF Goods
<1>4. /\ FirstChecked .. LastChecked - 1 \subseteq Nat
      /\ \A n \in FirstChecked .. LastChecked - 1 : n <= LastChecked
  BY <1>1
<1>5. LastChecked \in Nat
  <2>1. PICK n : n \in Goods
    OBVIOUS
  <2>2. n \in FirstChecked .. LastChecked - 1
    BY <1>2, <2>1
  <2> HIDE DEF FirstChecked, LastChecked
  <2> QED BY <1>1, <2>2
<1>3. Goods \in SUBSET Nat /\ LastChecked \in Nat /\ \A n \in Goods : n <= LastChecked
  BY <1>2, <1>4, <1>5
<1> QED BY <1>3, MaxOfNats

\* So does every step of a start.
LEMMA StartTypes ==
  ASSUME LifeTypes,
         \/ CheckLast \/ CheckFails \/ BeginCut \/ (\E t \in Tx : CutTx(t)) \/ EndCut \/ CutDone
         \/ LoadIndex \/ LoadFails
  PROVE  LifeTypes'
<1>0. /\ MaxRecords \in Nat /\ Len(blocks) \in Nat /\ Len(blocks) <= MaxRecords + 1
      /\ TypeOK /\ AppsHaveName /\ Len(blocks) > 0 /\ blocks \in Seq(Seq(Tx))
      /\ pc \in {"idle", "remove", "check", "store"}
      /\ times \in Nat \ {0} /\ target \in Nat
  BY BoundAssumption DEF LifeTypes, TypeOK
<1>1. CASE CheckLast
  <2>1. Max(Goods) \in Nat
    BY <1>0, <1>1, GoodsMax DEF CheckLast
  <2>2. /\ target' = Max(Goods) /\ mode' = "cut" /\ mode = "down"
        /\ UNCHANGED <<vars, times, stops, short, torn>>
    BY <1>1 DEF CheckLast
  <2> QED BY <1>0, <2>1, <2>2
          DEF LifeTypes, Steps, vars, chainVars, stateVars, checkVars, TypeOK, Height,
              AppsHaveName
<1>2. CASE CheckFails \/ CutDone \/ LoadIndex \/ LoadFails
  <2>1. /\ mode' \in {"load", "up", "lost"} /\ mode # "up"
        /\ UNCHANGED <<vars, times, target, stops, short>>
        /\ torn' \in {torn, torn \cup {"files"}} /\ pc = "idle"
    BY <1>2 DEF CheckFails, CutDone, LoadIndex, LoadFails, LifeTypes
  <2> QED BY <1>0, <2>1
          DEF LifeTypes, Steps, vars, chainVars, stateVars, checkVars, TypeOK, Height,
              AppsHaveName, Below
<1>3. CASE BeginCut
  <2>1. /\ mode = "cut" /\ pc' = "remove" /\ cur' = blocks[Len(blocks)]
        /\ pending' = SeqRange(blocks[Len(blocks)])
        /\ UNCHANGED <<chainVars, stateVars, k, checkVars, failed, startVars>>
    BY <1>3 DEF BeginCut
  <2>2. Len(blocks) > 1
    BY <1>0, <1>3 DEF BeginCut, Behind
  <2>3. cur' \in Seq(Tx) /\ pending' \subseteq Tx
    BY <1>0, <2>1, <2>2 DEF SeqRange
  <2> QED BY <1>0, <2>1, <2>2, <2>3
          DEF LifeTypes, chainVars, stateVars, checkVars, startVars, TypeOK, Height, AppsHaveName
<1>4. ASSUME NEW t \in Tx, CutTx(t)
      PROVE  LifeTypes'
  <2>1. /\ mode = "cut" /\ pc = "remove" /\ pending' = pending \ {t} /\ txIndex' = txIndex \ {t}
        /\ utxo' = IF t \in txIndex THEN CutUtxo(t) ELSE utxo
        /\ UNCHANGED <<chainVars, apps, hasRoot, pc, cur, k, checkVars, failed, startVars>>
    BY <1>4 DEF CutTx
  <2>2. utxo' \subseteq OutRef
    BY <1>0, <2>1, PartTypes DEF CutUtxo, TypeOK
  <2> QED BY <1>0, <2>1, <2>2
          DEF LifeTypes, chainVars, checkVars, startVars, TypeOK, Height, AppsHaveName
<1>5. CASE EndCut
  <2>1. /\ mode = "cut" /\ pc' = "idle" /\ cur' = <<>> /\ CutFiles /\ pc = "remove"
        /\ pending = {}
        /\ supply' = supply - (IF cur = Hole THEN PosReward ELSE Reward(cur, Len(blocks) - 1))
        /\ short' = <<>>
        /\ UNCHANGED <<stateVars, k, checkVars, pending, failed, mode, target, stops, torn>>
    BY <1>5 DEF EndCut, CutFiles
  <2>2. Len(blocks) > 1
    BY <2>1 DEF LifeTypes
  <2>3. supply' \in Int
    <3>1. Len(blocks) - 1 \in 0 .. MaxHeight + MaxRecords + 1
      BY <1>0, <2>2, BoundAssumption DEF LifeTypes
    <3>2. Reward(cur, Len(blocks) - 1) \in Int /\ PosReward \in Int
      BY <3>1, RewardType, BoundAssumption
    <3> QED BY <1>0, <2>1, <3>2 DEF TypeOK
  <2>4. /\ blocks' \in Seq(Seq(Tx)) /\ Len(blocks') = Len(blocks) - 1 /\ index' \in Seq(Seq(Tx))
        /\ Height' \in 0 .. MaxHeight /\ Len(blocks') > 0 /\ times' \in Nat \ {0}
    BY <1>0, <2>1, <2>2, CutLengths
  <2>5. short' \in Seq(Seq(Tx)) /\ cur' \in Seq(Tx)
    BY <2>1, NoRecords
  <2>6. Len(blocks') <= MaxRecords + 1
    BY <1>0, <2>2, <2>4, BoundAssumption DEF LifeTypes, TypeOK
  <2>7. TypeOK' /\ AppsHaveName'
    BY <1>0, <2>1, <2>3, <2>4, <2>5 DEF TypeOK, AppsHaveName, stateVars, checkVars
  <2> QED BY <2>1, <2>4, <2>5, <2>6, <2>7 DEF LifeTypes
<1> QED BY <1>1, <1>2, <1>3, <1>4, <1>5

-----------------------------------------------------------------------------
(* The records and the index *)

\* How long the files are, in one place.
LEMMA Sizes ==
  ASSUME LifeTypes
  PROVE  /\ blocks \in Seq(Seq(Tx)) /\ Len(blocks) \in Nat \ {0}
         /\ index \in Seq(Seq(Tx)) /\ Len(index) \in Nat \ {0} /\ DOMAIN index = 1 .. Len(index)
         /\ times \in Nat \ {0} /\ target \in Nat /\ TypeOK
<1>1. /\ blocks \in Seq(Seq(Tx)) /\ index \in Seq(Seq(Tx)) /\ Height \in 0 .. MaxHeight
      /\ Len(blocks) > 0
      /\ times \in Nat \ {0} /\ target \in Nat /\ TypeOK
  BY DEF LifeTypes, TypeOK
<1>2. Len(index) \in Nat \ {0} /\ Len(blocks) \in Nat \ {0}
  BY <1>1 DEF Height
<1> QED BY <1>1, <1>2

\* The transactions of a chain of records, but for the last.
RecordTxs(s) == UNION {SeqRange(s[h]) : h \in DOMAIN s}

\* The transactions of a sequence of blocks are those of the last and of the others.
LEMMA LastAndBefore ==
  ASSUME NEW s \in Seq(Seq(Tx)), Len(s) > 0
  PROVE  RecordTxs(s) = Before(s) \cup SeqRange(s[Len(s)])
<1> DEFINE n == Len(s)
<1>2. n \in Nat /\ n > 0 /\ DOMAIN s = 1 .. n
  OBVIOUS
<1>1. DOMAIN s = (1 .. Len(s) - 1) \cup {Len(s)}
  <2> HIDE DEF n
  <2>1. 1 .. n = (1 .. n - 1) \cup {n}
    BY <1>2
  <2> QED BY <1>2, <2>1 DEF n
<1> QED BY <1>1 DEF RecordTxs, Before

\* Two sequences that agree up to some place have the same transactions there.
LEMMA SameBefore ==
  ASSUME NEW s \in Seq(Seq(Tx)), NEW u \in Seq(Seq(Tx)), Len(u) = Len(s) - 1,
         \A h \in 1 .. Len(u) : u[h] = s[h]
  PROVE  RecordTxs(u) = Before(s)
<1>1. DOMAIN u = 1 .. Len(u)
  OBVIOUS
<1>2. \A h \in 1 .. Len(s) - 1 : u[h] = s[h] /\ h \in 1 .. Len(u)
  OBVIOUS
<1>3. DOMAIN u = 1 .. Len(s) - 1
  BY <1>1
<1> QED BY <1>2, <1>3 DEF RecordTxs, Before

\* So have two of the same length that agree.
LEMMA AgreeBefore ==
  ASSUME NEW s \in Seq(Seq(Tx)), NEW u \in Seq(Seq(Tx)), Len(u) = Len(s),
         \A h \in 1 .. Len(u) : u[h] = s[h]
  PROVE  Before(u) = Before(s)
<1>1. \A h \in 1 .. Len(s) - 1 : u[h] = s[h]
  <2>1. \A h \in 1 .. Len(s) - 1 : h \in 1 .. Len(u)
    OBVIOUS
  <2> QED BY <2>1
<1> QED BY <1>1 DEF Before

\* What the records are to the chain.
LEMMA RecordsChain ==
  ASSUME LifeTypes, RecordsAre
  PROVE  /\ Len(index) \in Nat \ {0} /\ DOMAIN index = 1 .. Len(index) /\ ChainTxs \subseteq Tx
         /\ Len(blocks) = Len(index) + 1 => BeforeTxs = ChainTxs
         /\ Len(blocks) = Len(index) =>
                LastRecord = index[Len(index)] /\ ChainTxs = BeforeTxs \cup SeqRange(LastRecord)
         /\ Len(blocks) = Len(index) \/ Len(blocks) = Len(index) + 1
<1>1. blocks \in Seq(Seq(Tx)) /\ index \in Seq(Seq(Tx)) /\ Len(index) \in Nat \ {0}
      /\ Len(blocks) \in Nat
  BY BoundAssumption DEF LifeTypes, TypeOK, Height
<1>2. ChainTxs = RecordTxs(index)
  BY DEF ChainTxs, RecordTxs
<1>3. \A h \in 1 .. Len(index) : blocks[h] = index[h]
  BY DEF RecordsAre
<1>4. ASSUME Len(blocks) = Len(index) + 1
      PROVE  BeforeTxs = ChainTxs
  <2>1. Len(index) = Len(blocks) - 1 /\ \A h \in 1 .. Len(index) : index[h] = blocks[h]
    BY <1>1, <1>3, <1>4
  <2> QED BY <1>1, <1>2, <2>1, SameBefore DEF BeforeTxs
<1>5. ASSUME Len(blocks) = Len(index)
      PROVE  LastRecord = index[Len(index)] /\ ChainTxs = BeforeTxs \cup SeqRange(LastRecord)
  <2>1. LastRecord = index[Len(index)]
    BY <1>1, <1>3, <1>5 DEF LastRecord
  <2>2. Before(index) = BeforeTxs
    BY <1>1, <1>3, <1>5, AgreeBefore DEF BeforeTxs
  <2>3. ChainTxs = Before(index) \cup SeqRange(index[Len(index)])
    <3>1. Len(index) > 0
      BY <1>1
    <3> QED BY <1>1, <1>2, <3>1, LastAndBefore
  <2> QED BY <2>1, <2>2, <2>3
<1>6. Len(blocks) = Len(index) \/ Len(blocks) = Len(index) + 1
  BY <1>1 DEF RecordsAre
<1>7. ChainTxs \subseteq Tx
  BY InChain DEF LifeTypes
<1> QED BY <1>1, <1>4, <1>5, <1>6, <1>7

\* The same after a step.
LEMMA RecordsChainNext ==
  (LifeTypes /\ RecordsAre /\ Len(blocks) = Len(index) =>
      ChainTxs = BeforeTxs \cup SeqRange(LastRecord))'
<1>1. LifeTypes /\ RecordsAre /\ Len(blocks) = Len(index) =>
          ChainTxs = BeforeTxs \cup SeqRange(LastRecord)
  BY RecordsChain
<1> QED BY <1>1, PTL

\* A record of the chain is no other.
LEMMA LastApart ==
  ASSUME LifeTypes, RecordsAre
  PROVE  BeforeTxs \cap SeqRange(LastRecord) = {}
<1> DEFINE n == Len(index)
<1>1. /\ n \in Nat \ {0} /\ DOMAIN index = 1 .. n /\ ChainTxs \subseteq Tx
      /\ Len(blocks) = n + 1 => BeforeTxs = ChainTxs
      /\ Len(blocks) = n => LastRecord = index[n]
      /\ Len(blocks) = n \/ Len(blocks) = n + 1
  BY RecordsChain
<1>2. CASE Len(blocks) = n + 1
  <2>0. n \in Nat
    BY <1>1
  <2>1. Len(blocks) > n
    <3> HIDE DEF n
    <3> QED BY <1>2, <2>0
  <2> QED BY <1>1, <1>2, <2>1 DEF RecordsAre
<1>3. CASE Len(blocks) = n
  <2> SUFFICES ASSUME NEW h \in 1 .. n - 1, NEW t \in SeqRange(index[h]), t \in SeqRange(index[n])
               PROVE  FALSE
    <3>1. \A h \in 1 .. n - 1 : blocks[h] = index[h]
      BY <1>1 DEF RecordsAre
    <3> QED BY <1>1, <1>3, <3>1 DEF BeforeTxs, Before
  <2>1. h \in 1 .. n /\ n \in 1 .. n /\ h # n
    <3>1. n \in Nat \ {0}
      BY <1>1
    <3> HIDE DEF n
    <3> QED BY <3>1
  <2>2. InBlock(t, h) /\ InBlock(t, n) /\ t \in Tx
    BY <1>1, <2>1, InChain DEF InBlock, LifeTypes
  <2> QED BY <1>1, <2>1, <2>2 DEF RecordsAre, OneBlock
<1> QED BY <1>1, <1>2, <1>3

\* While the files agree, so do the records and the index of transactions.
LEMMA LevelIs ==
  ASSUME LifeTypes, RecordsInv
  PROVE  Level <=> Len(blocks) = Len(index) /\ SeqRange(LastRecord) \subseteq txIndex
BY RecordsChain DEF Level, RecordsInv

\* The records do not depend on what the start does with what is in memory.
LEMMA SameRecords ==
  ASSUME RecordsInv, UNCHANGED <<blocks, index, txIndex>>,
         Len(index) <= times', times' <= Len(blocks)
  PROVE  RecordsInv'
BY DEF RecordsInv, RecordsAre, OneBlock, InBlock, LastRecord, BeforeTxs, Before, ChainTxs


-----------------------------------------------------------------------------
(* The files while the node runs *)

\* The parts of the invariant that the steps of the main loop keep.
UpFiles ==
    /\ times = Len(index) /\ CurIsNew /\ Indexed /\ OneBlock /\ index[1] = Genesis
    /\ \A h \in 1 .. Len(index) : blocks[h] = index[h]
    /\ pc = "store" => Len(blocks) = Len(index) + 1 /\ cur = LastRecord
    /\ pc # "store" => Len(blocks) = Len(index)

\* They say of a running node what the invariant says of the files ...
LEMMA UpRecords == LifeTypes /\ mode = "up" /\ UpFiles => RecordsInv /\ StepInv
<1> SUFFICES ASSUME LifeTypes, mode = "up", UpFiles PROVE RecordsInv /\ StepInv
  OBVIOUS
<1>1. Len(index) \in Nat \ {0} /\ Len(blocks) \in Nat
      /\ pc \in {"idle", "check", "store", "remove"}
      /\ cur \in Seq(Tx) /\ k \in Nat
  BY DEF LifeTypes, TypeOK, Height
<1>2. /\ pc = "store" => SeqRange(LastRecord) \cap ChainTxs = {}
      /\ pc # "store" => ~(Len(blocks) > Len(index))
  BY <1>1 DEF UpFiles, CurIsNew, Busy
<1>3. RecordsAre /\ Len(index) <= times /\ times <= Len(blocks)
  BY <1>1, <1>2 DEF UpFiles, RecordsAre
<1>4. /\ Len(blocks) = Len(index) + 1 => BeforeTxs = ChainTxs
      /\ Len(blocks) = Len(index) =>
            LastRecord = index[Len(index)] /\ ChainTxs = BeforeTxs \cup SeqRange(LastRecord)
  BY <1>3, RecordsChain
<1>5. BeforeTxs \cap SeqRange(LastRecord) = {}
  BY <1>3, LastApart
<1>6. BeforeTxs \subseteq txIndex /\ txIndex \subseteq BeforeTxs \cup SeqRange(LastRecord)
  <2>1. CASE pc \in {"idle", "check"}
    BY <1>4, <2>1 DEF UpFiles, Indexed
  <2>2. CASE pc = "store"
    <3>1. {cur[i] : i \in 1 .. k - 1} \subseteq SeqRange(cur)
      BY <1>1, <2>2 DEF UpFiles, CurIsNew, Busy, SeqRange
    <3> QED BY <1>4, <2>2, <3>1 DEF UpFiles, Indexed
  <2>3. CASE pc = "remove"
    BY <1>4, <1>5, <2>3 DEF UpFiles, Indexed
  <2> QED BY <1>1, <2>1, <2>2, <2>3
<1> QED BY <1>3, <1>6 DEF RecordsInv, StepInv, UpFiles

\* ... also after a step ...
LEMMA UpRecordsNext == (LifeTypes /\ mode = "up" /\ UpFiles => RecordsInv /\ StepInv)'
BY UpRecords, PTL

\* ... and the other way round.
LEMMA UpFilesOf ==
  ASSUME RecordsInv, StepInv, mode = "up"
  PROVE  UpFiles
BY DEF RecordsInv, RecordsAre, StepInv, UpFiles

\* The last record goes, from the records and from the chain, and its transactions
\* have gone before.
LEMMA CutRecords ==
  ASSUME LifeTypes, LifeTypes', RecordsAre,
         txIndex = BeforeTxs, txIndex' = txIndex, Len(blocks) > 1,
         Len(blocks') = Len(blocks) - 1, Len(index') = Len(blocks) - 1,
         \A h \in 1 .. Len(blocks) - 1 : blocks'[h] = blocks[h],
         \A h \in 1 .. Len(index') : index'[h] = index[h]
  PROVE  RecordsAre' /\ txIndex' = ChainTxs' /\ Len(blocks') = Len(index')
<1> DEFINE m == Len(blocks) - 1
<1>1. /\ m \in Nat \ {0} /\ blocks \in Seq(Seq(Tx)) /\ index' \in Seq(Seq(Tx))
      /\ m <= Len(index)
      /\ DOMAIN index' = 1 .. m /\ DOMAIN index = 1 .. Len(index) /\ Len(index) \in Nat
  <2>1. blocks \in Seq(Seq(Tx)) /\ index \in Seq(Seq(Tx)) /\ index' \in Seq(Seq(Tx))
    BY DEF LifeTypes, TypeOK
  <2>2. Len(blocks) <= Len(index) + 1 /\ Len(index) \in Nat /\ Len(blocks) \in Nat
        /\ Len(index') = m
    BY Sizes DEF RecordsAre
  <2>3. m \in Nat \ {0} /\ m <= Len(index)
    BY <2>2
  <2>4. DOMAIN index' = 1 .. m
    BY <2>1, <2>2
  <2> HIDE DEF m
  <2> QED BY <2>1, <2>2, <2>3, <2>4, Sizes
<1>2. \A h \in 1 .. m : /\ h \in 1 .. Len(index) /\ index'[h] = index[h]
                       /\ blocks'[h] = blocks[h] /\ blocks[h] = index[h]
  BY <1>1 DEF RecordsAre
<1>3. ChainTxs' = BeforeTxs
  <2>1. \A h \in 1 .. m : index'[h] = blocks[h]
    BY <1>2
  <2> QED BY <1>1, <2>1 DEF ChainTxs, BeforeTxs, Before
<1>4. OneBlock'
  <2>1. \A t, h : InBlock(t, h)' => InBlock(t, h)
    BY <1>1, <1>2 DEF InBlock
  <2> QED BY <1>1, <1>2, <2>1 DEF RecordsAre, OneBlock
<1>5. index'[1] = Genesis
  BY <1>1, <1>2 DEF RecordsAre
<1>6. /\ Len(index') <= Len(blocks') /\ Len(blocks') <= Len(index') + 1
      /\ ~(Len(blocks') > Len(index'))
      /\ \A h \in 1 .. Len(index') : blocks'[h] = index'[h]
  <2>1. Len(index') = m /\ Len(blocks') = m
    OBVIOUS
  <2>2. m \in Nat
    BY <1>1
  <2>3. \A h \in 1 .. m : blocks'[h] = index'[h]
    BY <1>2
  <2> HIDE DEF m
  <2> QED BY <2>1, <2>2, <2>3
<1> QED BY <1>3, <1>4, <1>5, <1>6 DEF RecordsAre

\* The transactions of the last block are the only ones of which the index may lack some.
LEMMA RemovedBefore ==
  ASSUME LifeTypes, RecordsInv, StepInv, pc = "remove", pending = {}
  PROVE  txIndex = BeforeTxs /\ Len(blocks) > 1
<1>1. Len(index) \in Nat \ {0} /\ Len(blocks) \in Nat
  BY DEF LifeTypes, TypeOK, Height
<1>2. CASE mode = "up"
  <2>1. Len(blocks) = Len(index) /\ cur = index[Len(index)]
        /\ txIndex = ChainTxs \ SeqRange(cur)
        /\ Len(index) > 1
    BY <1>1, <1>2 DEF StepInv, Indexed, Height
  <2>2. LastRecord = index[Len(index)] /\ ChainTxs = BeforeTxs \cup SeqRange(LastRecord)
    BY <2>1, RecordsChain DEF RecordsInv
  <2>3. BeforeTxs \cap SeqRange(LastRecord) = {}
    BY LastApart DEF RecordsInv
  <2> QED BY <2>1, <2>2, <2>3
<1>3. CASE mode # "up"
  <2>1. mode = "cut"
    BY <1>3 DEF LifeTypes
  <2> QED BY <2>1 DEF StepInv, RecordsInv, LifeTypes
<1> QED BY <1>2, <1>3

\* So do node_remove_last_block and the cut of the start, wherever the files were.
LEMMA CutOne ==
  ASSUME LifeTypes, LifeTypes', RecordsInv,
         txIndex = BeforeTxs, txIndex' = txIndex, Len(blocks) > 1,
         CutFiles
  PROVE  /\ RecordsInv' /\ txIndex' = ChainTxs' /\ Len(blocks') = Len(index')
         /\ Len(blocks') = Len(blocks) - 1 /\ times' = Len(index')
<1>1. /\ TypeOK /\ times \in Nat \ {0} /\ Len(index) \in Nat /\ Len(blocks) \in Nat
      /\ Len(index) <= times /\ times <= Len(blocks) /\ Len(index) <= Len(blocks)
      /\ Len(blocks) <= Len(index) + 1
  BY Sizes DEF RecordsInv, RecordsAre
<1>2. /\ blocks' \in Seq(Seq(Tx)) /\ Len(blocks') = Len(blocks) - 1
      /\ \A h \in 1 .. Len(blocks) - 1 : blocks'[h] = blocks[h]
      /\ index' \in Seq(Seq(Tx))
      /\ Len(index') = (IF Len(index) <= Len(blocks) - 1 THEN Len(index) ELSE Len(blocks) - 1)
      /\ \A h \in 1 .. Len(index') : index'[h] = index[h]
      /\ times' = (IF times <= Len(blocks) - 1 THEN times ELSE Len(blocks) - 1)
  BY <1>1, CutLengths
<1>3. Len(index') = Len(blocks) - 1 /\ times' = Len(blocks) - 1
  BY <1>1, <1>2
<1>4. RecordsAre' /\ txIndex' = ChainTxs' /\ Len(blocks') = Len(index')
  BY <1>2, <1>3, CutRecords DEF RecordsInv
<1>5. ChainTxs' = (BeforeTxs \cup SeqRange(LastRecord))'
  BY <1>4, RecordsChainNext
<1>6. BeforeTxs' \subseteq txIndex' /\ txIndex' \subseteq BeforeTxs' \cup SeqRange(LastRecord')
  BY <1>4, <1>5
<1>7. Len(index') \in Nat
  BY <1>1, <1>3
<1> QED BY <1>1, <1>2, <1>3, <1>4, <1>6, <1>7 DEF RecordsInv

\* Every step of the main loop that does not stop half way keeps the files in order.
LEMMA RunFiles ==
  ASSUME LifeTypes, LifeTypes', RecordsInv, StepInv, Run, ~failed'
  PROVE  RecordsInv' /\ StepInv'
<1> DEFINE n == Len(index)
<1>1. mode = "up" /\ mode' = "up" /\ Next /\ times' = IF index' = index THEN times ELSE Len(index')
  BY DEF Run
<1>2. UpFiles
  BY <1>1, UpFilesOf
<1>3. SUFFICES UpFiles'
  BY <1>1, UpRecordsNext
<1>4. /\ n \in Nat \ {0} /\ Len(blocks) \in Nat /\ index \in Seq(Seq(Tx))
      /\ blocks \in Seq(Seq(Tx))
      /\ cur \in Seq(Tx) /\ k \in Nat \ {0} /\ DOMAIN index = 1 .. n /\ TypeOK
      /\ pc \in {"idle", "check", "store", "remove"} /\ txIndex \subseteq Tx
  <2>1. /\ index \in Seq(Seq(Tx)) /\ blocks \in Seq(Seq(Tx)) /\ TypeOK
        /\ Height \in 0 .. MaxHeight
        /\ cur \in Seq(Tx) /\ k \in Nat \ {0} /\ pc \in {"idle", "check", "store", "remove"}
        /\ txIndex \subseteq Tx
    BY DEF LifeTypes, TypeOK
  <2>2. n \in Nat \ {0} /\ DOMAIN index = 1 .. n /\ Len(blocks) \in Nat
    BY <2>1 DEF Height
  <2> QED BY <2>1, <2>2
<1>5. ASSUME UNCHANGED <<blocks, index>>, CurIsNew', Indexed', pc' = "store" <=> pc = "store",
             pc = "store" => cur' = cur
      PROVE  UpFiles'
  BY <1>1, <1>2, <1>5 DEF UpFiles, OneBlock, InBlock, LastRecord
<1>6. ASSUME NEW b \in Candidates, Receive(b)
      PROVE  UpFiles'
  <2>1. UNCHANGED <<blocks, index, txIndex>> /\ pc' = "check" /\ pc = "idle" /\ cur' = b
        /\ k' \in {1, 2}
        /\ SeqRange(b) \cap ChainTxs = {}
    BY <1>6 DEF Receive, chainVars, stateVars
  <2>2. Len(b) \in Nat \ {0}
    BY CandidateType
  <2>3. CurIsNew' /\ Indexed'
    BY <1>2, <2>1, <2>2 DEF UpFiles, CurIsNew, Indexed, Busy, ChainTxs
  <2> QED BY <1>5, <2>1, <2>3
<1>7. CASE CheckTx \/ CheckAppRoot
  <2>1. UNCHANGED <<blocks, index, txIndex, cur, pc>> /\ pc = "check" /\ k' = k + 1
        /\ k <= Len(cur)
    BY <1>7 DEF CheckTx, CheckAppRoot, chainVars, stateVars
  <2>2. CurIsNew' /\ Indexed'
    BY <1>2, <1>4, <2>1 DEF UpFiles, CurIsNew, Indexed, Busy, ChainTxs
  <2> QED BY <1>5, <2>1, <2>2
<1>8. CASE Reject
  <2>1. UNCHANGED <<blocks, index, txIndex>> /\ pc' = "idle" /\ pc = "check"
    BY <1>8 DEF Reject, chainVars, stateVars
  <2>2. CurIsNew' /\ Indexed'
    BY <1>2, <2>1 DEF UpFiles, CurIsNew, Indexed, Busy, ChainTxs
  <2> QED BY <1>5, <2>1, <2>2
<1>9. CASE Accept
  <2>1. /\ blocks' = Append(blocks, cur) /\ index' = index /\ txIndex' = txIndex /\ cur' = cur
        /\ pc = "check" /\ pc' = "store" /\ k' = 1
    BY <1>9 DEF Accept, AcceptList, stateVars
  <2>2. Len(cur) \in Nat /\ CurIsNew
    BY <1>2, <1>4 DEF UpFiles
  <2>3. CurIsNew' /\ Indexed'
    <3>1. {cur[i] : i \in 1 .. k' - 1} = {}
      BY <2>1
    <3>2. txIndex' = ChainTxs' \cup {cur[i] : i \in 1 .. k' - 1}
      BY <1>2, <2>1, <3>1 DEF UpFiles, Indexed, ChainTxs
    <3> QED BY <2>1, <2>2, <3>2 DEF CurIsNew, Indexed, Busy, ChainTxs
  <2>4. Len(blocks) = n
    BY <1>2, <2>1 DEF UpFiles
  <2>5. /\ Len(blocks') = n + 1 /\ blocks'[Len(blocks')] = cur
        /\ \A h \in 1 .. n : blocks'[h] = blocks[h]
    BY <1>4, <2>1, <2>4
  <2> QED BY <1>1, <1>2, <2>1, <2>3, <2>5 DEF UpFiles, OneBlock, InBlock, LastRecord
<1>10. CASE StoreTx \/ StoreNullTx
  <2>1. /\ UNCHANGED <<blocks, index, cur, pc>> /\ pc = "store" /\ k' = k + 1 /\ k <= Len(cur)
        /\ txIndex' = txIndex \cup {cur[k]}
    BY <1>10 DEF StoreTx, StoreNullTx, chainVars
  <2>2. 1 .. k' - 1 = (1 .. k - 1) \cup {k}
    BY <1>4, <2>1
  <2>3. txIndex' = ChainTxs' \cup {cur'[i] : i \in 1 .. k' - 1}
    BY <1>2, <2>1, <2>2 DEF UpFiles, Indexed, ChainTxs
  <2>4. CurIsNew'
    BY <1>2, <1>4, <2>1 DEF UpFiles, CurIsNew, Busy, ChainTxs
  <2>5. Indexed'
    BY <2>1, <2>3 DEF Indexed
  <2> QED BY <1>5, <2>1, <2>4, <2>5
<1>11. CASE StoreFails
  BY <1>11 DEF StoreFails
<1>12. CASE SetLastBlock
  <2>1. /\ blocks' = blocks /\ txIndex' = txIndex /\ index' = Append(index, cur)
        /\ pc = "store" /\ pc' = "idle" /\ k > Len(cur)
    BY <1>12 DEF SetLastBlock, SetLast, stateVars
  <2>2. /\ Len(index') = n + 1 /\ DOMAIN index' = 1 .. n + 1 /\ index'[n + 1] = cur
        /\ \A h \in 1 .. n : index'[h] = index[h]
    BY <1>4, <2>1
  <2>3. times' = Len(index')
    BY <1>1, <1>4, <2>2
  <2>4. Len(blocks) = n + 1 /\ cur = blocks[n + 1]
    BY <1>2, <2>1 DEF UpFiles, LastRecord
  <2>5. (1 .. n + 1) = (1 .. n) \cup {n + 1} /\ n + 1 \notin 1 .. n /\ k - 1 = Len(cur)
    BY <1>2, <1>4, <2>1 DEF UpFiles, CurIsNew, Busy
  <2>6. ChainTxs' = ChainTxs \cup SeqRange(cur)
    <3> HIDE DEF n
    <3> QED BY <1>4, <2>2, <2>5 DEF ChainTxs
  <2>7. txIndex' = ChainTxs'
    <3>1. {cur[i] : i \in 1 .. k - 1} = SeqRange(cur)
      <4>1. k - 1 = Len(cur) /\ DOMAIN cur = 1 .. Len(cur)
        BY <1>4, <2>5
      <4> QED BY <4>1 DEF SeqRange
    <3> QED BY <1>2, <2>1, <2>6, <3>1 DEF UpFiles, Indexed
  <2>8. \A t, h : InBlock(t, h)' <=> InBlock(t, h) \/ (h = n + 1 /\ t \in SeqRange(cur))
    <3> HIDE DEF n
    <3> QED BY <1>4, <2>2, <2>5 DEF InBlock
  <2>9. OneBlock'
    <3>1. SeqRange(cur) \cap ChainTxs = {} /\ OneBlock
      BY <1>2, <2>1 DEF UpFiles, CurIsNew, Busy
    <3>2. \A t, h : InBlock(t, h) => t \in ChainTxs /\ h \in DOMAIN index
      BY DEF InBlock, ChainTxs
    <3> SUFFICES ASSUME NEW g \in DOMAIN index', NEW h \in DOMAIN index', NEW t \in Tx,
                        InBlock(t, g)', InBlock(t, h)'
                 PROVE  g = h
      BY DEF OneBlock
    <3> HIDE DEF n
    <3> QED BY <2>8, <3>1, <3>2 DEF OneBlock
  <2>10. CurIsNew' /\ Indexed'
    BY <2>1, <2>7 DEF CurIsNew, Indexed, Busy
  <2>11. \A h \in 1 .. n + 1 : blocks'[h] = index'[h]
    BY <1>2, <1>4, <2>1, <2>2, <2>4, <2>5 DEF UpFiles
  <2>12. index'[1] = Genesis
    BY <1>2, <1>4, <2>2 DEF UpFiles
  <2> QED BY <2>1, <2>2, <2>3, <2>4, <2>9, <2>10, <2>11, <2>12 DEF UpFiles
<1>13. CASE BeginRemove
  <2>1. UNCHANGED <<blocks, index, txIndex>> /\ pc' = "remove" /\ pc = "idle" /\ cur' = index[n]
        /\ Height > 0 /\ pending' = SeqRange(index[n])
    BY <1>13 DEF BeginRemove, chainVars, stateVars
  <2>2. CurIsNew' /\ Indexed'
    BY <1>2, <2>1 DEF UpFiles, CurIsNew, Indexed, Busy, ChainTxs, Height
  <2> QED BY <1>5, <2>1, <2>2
<1>14. ASSUME NEW t \in Tx, RemoveTx(t) \/ RemoveAppRoot(t)
       PROVE  UpFiles'
  <2>1. UNCHANGED <<blocks, index, cur, pc>> /\ pc = "remove" /\ txIndex' = txIndex \ {t}
        /\ pending' = pending \ {t} /\ t \in pending
    BY <1>14 DEF RemoveTx, RemoveAppRoot, chainVars
  <2>2. CurIsNew' /\ Indexed'
    BY <1>2, <2>1 DEF UpFiles, CurIsNew, Indexed, Busy, ChainTxs, Height
  <2> QED BY <1>5, <2>1, <2>2
<1>15. CASE EndRemove
  <2>1. /\ blocks' = SubSeq(blocks, 1, Len(blocks) - 1)
        /\ index' = SubSeq(index, 1, Len(index) - 1)
        /\ pc = "remove" /\ pending = {} /\ pc' = "idle" /\ txIndex' = txIndex
    BY <1>15 DEF EndRemove, stateVars
  <2>2. txIndex = BeforeTxs /\ Len(blocks) > 1 /\ Len(blocks) = n
    BY <1>2, <2>1, RemovedBefore DEF UpFiles
  <2>3. n - 1 \in 0 .. n
    BY <1>4, <2>2
  <2>4. /\ Len(blocks') = n - 1 /\ \A h \in 1 .. n - 1 : blocks'[h] = blocks[h]
        /\ Len(index') = n - 1 /\ \A h \in 1 .. n - 1 : index'[h] = index[h]
    BY <1>4, <2>1, <2>2, <2>3, FrontOf
  <2>5. RecordsAre' /\ txIndex' = ChainTxs' /\ Len(blocks') = Len(index')
    BY <2>1, <2>2, <2>4, CutRecords DEF RecordsInv
  <2>6. times' = Len(index')
    BY <1>1, <1>4, <2>2, <2>4
  <2>7. CurIsNew' /\ Indexed'
    BY <2>1, <2>5 DEF CurIsNew, Indexed, Busy
  <2> QED BY <2>1, <2>5, <2>6, <2>7 DEF UpFiles, RecordsAre
<1> QED BY <1>1, <1>6, <1>7, <1>8, <1>9, <1>10, <1>11, <1>12, <1>13, <1>14, <1>15 DEF Next


-----------------------------------------------------------------------------
(* The files when the node stops and starts *)

\* A stop may leave the last record half written, or half removed.
LEMMA StopFiles ==
  ASSUME LifeTypes, LifeTypes', RecordsInv, StepInv, short = <<>>,
         \/ StopIdle \/ StopBeforeTx \/ StopInTx
         \/ StopBeforeIndex \/ StopInRemoval \/ StopBeforeSupply
  PROVE  RecordsInv' /\ StepInv'
<1>1. mode' = "down"
  BY
     DEF StopIdle, StopBeforeTx, StopInTx, StopBeforeIndex, StopInRemoval, StopBeforeSupply,
         ForgetAll
<1>2. StepInv'
  BY <1>1 DEF StepInv
<1>3. Len(index) \in Nat \ {0} /\ Len(blocks) \in Nat /\ times \in Nat /\ Len(index) <= times
      /\ times <= Len(blocks)
  BY Sizes DEF RecordsInv
<1>4. CASE StopIdle \/ StopBeforeTx \/ StopInRemoval
  <2>1. UNCHANGED <<blocks, index, txIndex, times>>
    BY <1>4 DEF StopIdle, StopBeforeTx, StopInRemoval, chainVars
  <2> QED BY <1>2, <1>3, <2>1, SameRecords
<1>5. CASE StopInTx
  <2>1. UNCHANGED <<blocks, index, times>> /\ txIndex' = txIndex \cup {cur[k]} /\ pc = "store"
        /\ k <= Len(cur)
    BY <1>5 DEF StopInTx, chainVars
  <2>2. cur = LastRecord /\ cur[k] \in SeqRange(cur)
    <3>1. mode = "up" /\ cur \in Seq(Tx) /\ k \in Nat \ {0}
      BY <2>1 DEF LifeTypes, TypeOK
    <3> QED BY <2>1, <3>1 DEF StepInv, SeqRange
  <2> QED BY <1>2, <1>3, <2>1, <2>2
          DEF RecordsInv, RecordsAre, OneBlock, InBlock, LastRecord, BeforeTxs, Before, ChainTxs
<1>6. CASE StopBeforeIndex
  <2>1. UNCHANGED <<blocks, index, txIndex>> /\ times' \in {times, times + 1} /\ pc = "store"
    BY <1>6 DEF StopBeforeIndex
  <2>2. mode = "up"
    BY <2>1 DEF LifeTypes
  <2>3. times = Len(index) /\ Len(blocks) = Len(index) + 1
    BY <2>1, <2>2 DEF StepInv
  <2>4. Len(index) <= times' /\ times' <= Len(blocks)
    BY <1>3, <2>1, <2>3
  <2> QED BY <1>2, <2>1, <2>4, SameRecords
<1>7. CASE StopBeforeSupply
  <2>1. CutFiles /\ txIndex' = txIndex /\ pc = "remove" /\ pending = {}
    BY <1>7 DEF StopBeforeSupply
  <2>2. txIndex = BeforeTxs /\ Len(blocks) > 1
    BY <2>1, RemovedBefore
  <2> QED BY <1>2, <2>1, <2>2, CutOne
<1> QED BY <1>4, <1>5, <1>6, <1>7

\* What the start answers when the files are in order but for the last record.
LEMMA CheckedFiles ==
  ASSUME LifeTypes, RecordsAre, Len(index) <= times, BeforeTxs \subseteq txIndex
  PROVE  /\ CheckedHeight = Len(index) /\ LastChecked = Len(index) /\ FirstChecked \in Nat \ {0}
         /\ \A n \in FirstChecked .. Len(index) - 2 : Good(n)
         /\ FirstChecked < LastChecked \/ Len(index) = 1
         /\ Good(Len(index) - 1) <=>
                Len(blocks) > Len(index) \/ SeqRange(LastRecord) \subseteq txIndex
<1> DEFINE c == Len(index)
<1>1. c \in Nat \ {0} /\ Len(blocks) \in Nat /\ times \in Nat \ {0} /\ TypeOK /\ c <= times
      /\ c <= Len(blocks)
  BY DEF LifeTypes, TypeOK, Height, RecordsAre
<1>2. /\ CheckedHeight = (IF c < times THEN c ELSE times)
      /\ FirstChecked \in Nat \ {0}
      /\ FirstChecked = (IF CheckNum < CheckedHeight THEN CheckedHeight - CheckNum ELSE 1)
      /\ Len(blocks) >= CheckedHeight => LastChecked = CheckedHeight
  BY <1>1, CheckedRange
<1>3. CheckedHeight = c /\ LastChecked = c
  <2> HIDE DEF c
  <2> QED BY <1>1, <1>2
<1>4. FirstChecked < LastChecked \/ c = 1
  <2>1. CheckNum \in Nat \ {0}
    BY RecoveryAssumption
  <2> HIDE DEF c
  <2> QED BY <1>1, <1>2, <1>3, <2>1
<1>5. \A h \in 1 .. c : blocks[h] = index[h]
  BY DEF RecordsAre
<1>6. ASSUME NEW n \in FirstChecked .. c - 2
      PROVE  Good(n)
  <2>1. n + 1 \in 1 .. c /\ n + 1 \in 1 .. Len(blocks) - 1 /\ n < Len(blocks)
    <3> HIDE DEF c
    <3> QED BY <1>1, <1>2, <1>6
  <2>2. SeqRange(blocks[n + 1]) \subseteq txIndex
    BY <2>1 DEF BeforeTxs, Before
  <2> QED BY <1>5, <2>1, <2>2 DEF Good
<1>7. Good(c - 1) <=> Len(blocks) > c \/ SeqRange(LastRecord) \subseteq txIndex
  <2>1. c - 1 < Len(blocks) /\ c \in 1 .. c /\ c - 1 + 1 = c
    <3> HIDE DEF c
    <3> QED BY <1>1
  <2>2. Good(c - 1) <=> SeqRange(blocks[c]) \subseteq txIndex
    BY <1>5, <2>1 DEF Good
  <2>3. CASE Len(blocks) > c
    <3>1. c \in 1 .. Len(blocks) - 1
      <4> HIDE DEF c
      <4> QED BY <1>1, <2>3
    <3>2. SeqRange(blocks[c]) \subseteq BeforeTxs
      BY <3>1 DEF BeforeTxs, Before
    <3> QED BY <2>2, <2>3, <3>2
  <2>4. CASE ~(Len(blocks) > c)
    <3>1. Len(blocks) = c
      BY <1>1, <2>4
    <3> QED BY <2>2, <2>4, <3>1 DEF LastRecord
  <2> QED BY <2>3, <2>4
<1> QED BY <1>2, <1>3, <1>4, <1>6, <1>7

\* When the last block of the index is good, that is what it answers.
LEMMA LastGood ==
  ASSUME LifeTypes, RecordsAre, Len(index) <= times, BeforeTxs \subseteq txIndex,
         Goods # {}, Good(Len(index) - 1)
  PROVE  Max(Goods) = Len(index) - 1 /\ Max(Goods) > 0
<1> DEFINE g == Max(Goods)
           f == FirstChecked
           n == Len(index)
<1>1. g \in Goods /\ \A m \in Goods : g >= m /\ g \in Nat
  BY GoodsMax, Sizes
<1>2. n \in Nat \ {0} /\ LastChecked = n /\ f \in Nat \ {0} /\ \A m \in f .. n - 2 : Good(m)
  BY CheckedFiles, Sizes
<1>3. g \in f .. n - 1
  BY <1>1, <1>2 DEF Goods
<1>4. n - 1 \in f .. n - 1 /\ \A m \in f .. n - 1 : m \in f .. n - 2 \/ m = n - 1
  <2> HIDE DEF f, g, n
  <2> QED BY <1>2, <1>3
<1>5. n - 1 \in Goods
  BY <1>2, <1>4 DEF Goods
<1>6. g >= n - 1
  BY <1>1, <1>5
<1> HIDE DEF f, g, n
<1>7. g = n - 1 /\ g > 0
  BY <1>2, <1>3, <1>6
<1> QED BY <1>7 DEF g, n

\* Every step of a start leaves at most the last record in doubt, and cuts it.
LEMMA StartFiles ==
  ASSUME LifeTypes, LifeTypes', RecordsInv, StepInv, "files" \notin torn',
         \/ CheckLast \/ CheckFails \/ BeginCut \/ (\E t \in Tx : CutTx(t)) \/ EndCut \/ CutDone
         \/ LoadIndex \/ LoadFails
  PROVE  RecordsInv' /\ StepInv'
<1> DEFINE n == Len(index)
<1>1. /\ n \in Nat \ {0} /\ Len(blocks) \in Nat \ {0} /\ times \in Nat \ {0} /\ target \in Nat
      /\ n <= times /\ times <= Len(blocks) /\ (Len(blocks) = n \/ Len(blocks) = n + 1)
  BY Sizes, RecordsChain DEF RecordsInv
<1>2. Level <=> Len(blocks) = n /\ SeqRange(LastRecord) \subseteq txIndex
  BY LevelIs
<1>3. CASE CheckLast
  <2>1. /\ mode = "down" /\ Goods # {} /\ target' = Max(Goods) /\ mode' = "cut"
        /\ UNCHANGED <<blocks, index, txIndex, times, pc>> /\ pc' = "idle"
    BY <1>3 DEF CheckLast, vars, chainVars, stateVars, LifeTypes
  <2>2. Max(Goods) \in Goods /\ \A m \in Goods : Max(Goods) >= m /\ Max(Goods) \in Nat
    BY <2>1, GoodsMax, Sizes
  <2>3. /\ LastChecked = n /\ FirstChecked \in Nat \ {0}
        /\ \A m \in FirstChecked .. n - 2 : Good(m)
        /\ Good(n - 1) <=> Len(blocks) > n \/ SeqRange(LastRecord) \subseteq txIndex
    BY CheckedFiles DEF RecordsInv
  <2> DEFINE g == Max(Goods)
             f == FirstChecked
  <2>4. g \in f .. n - 1 /\ \A m \in f .. g : Good(m)
    BY <2>2, <2>3 DEF Goods
  <2>5. CASE Good(n - 1)
    <3>4. g = n - 1 /\ g > 0
      BY <2>1, <2>5, LastGood DEF RecordsInv
    <3>5. Len(blocks) = n => g = Len(blocks) - 1 /\ Level
      BY <1>1, <1>2, <2>3, <2>5, <3>4
    <3>6. Len(blocks) = n + 1 => g = Len(blocks) - 2 /\ g > 0 /\ Len(blocks) # n
      <4> HIDE DEF f, g, n
      <4> QED BY <1>1, <3>4
    <3>7. (target' = Len(blocks') - 1 /\ Level') \/ ToCut'
      BY <1>1, <2>1, <3>5, <3>6 DEF Level, ToCut, LastRecord, ChainTxs
    <3> QED BY <1>1, <2>1, <3>7, SameRecords DEF StepInv
  <2>6. CASE ~Good(n - 1)
    <3>1. Len(blocks) = n /\ ~(SeqRange(LastRecord) \subseteq txIndex)
      <4>1. ~(Len(blocks) > n)
        BY <2>3, <2>6
      <4> HIDE DEF n
      <4> QED BY <1>1, <2>3, <2>6, <4>1 DEF n
    <3>2. g # n - 1 /\ f \in Nat \ {0}
      <4>1. g \in f .. g
        <5>1. n \in Nat /\ f \in Nat /\ g \in f .. n - 1
          BY <1>1, <2>3, <2>4
        <5> HIDE DEF f, g, n
        <5> QED BY <5>1
      <4> QED BY <2>3, <2>4, <2>6, <4>1
    <3>3. n - 2 \in f .. n - 1 /\ \A m \in f .. n - 2 : Good(m)
      <4>1. \A m \in f .. n - 2 : Good(m)
        BY <2>3
      <4> HIDE DEF f, g, n
      <4> QED BY <1>1, <2>4, <3>2, <4>1
    <3>4. n - 2 \in Goods
      BY <2>3, <3>3 DEF Goods
    <3>5. g = n - 2 /\ g > 0
      <4>1. g >= n - 2
        BY <2>2, <3>4
      <4> HIDE DEF f, g, n
      <4> QED BY <1>1, <2>4, <3>2, <4>1
    <3>6. ToCut'
      BY <1>1, <2>1, <3>1, <3>5 DEF ToCut, LastRecord
    <3> QED BY <1>1, <2>1, <3>6, SameRecords DEF StepInv
  <2> QED BY <2>5, <2>6
<1>4. CASE CheckFails
  <2>1. /\ mode' = "load" /\ Goods = {} /\ UNCHANGED <<blocks, index, txIndex, times>>
        /\ Len(blocks) = n /\ ~(FirstChecked < LastChecked)
    BY <1>4 DEF CheckFails, vars, chainVars, stateVars
  <2>2. n = 1
    BY <2>1, CheckedFiles DEF RecordsInv
  <2>3. index[1] = <<>> /\ LastRecord = index[1]
    BY <2>1, <2>2, RecordsChain DEF RecordsInv, RecordsAre, Genesis
  <2>4. SeqRange(LastRecord) = {}
    BY <2>3 DEF SeqRange
  <2>5. Level'
    BY <1>2, <2>1, <2>4 DEF Level, ChainTxs
  <2> QED BY <1>1, <2>1, <2>5, SameRecords DEF StepInv
<1>5. CASE BeginCut
  <2>1. /\ mode = "cut" /\ mode' = "cut" /\ pc = "idle" /\ Behind /\ pc' = "remove"
        /\ cur' = blocks[Len(blocks)] /\ pending' = SeqRange(blocks[Len(blocks)])
        /\ UNCHANGED <<blocks, index, txIndex, times, target>>
    BY <1>5 DEF BeginCut, chainVars, stateVars, startVars
  <2>2. target # Len(blocks) - 1
    BY <1>1, <2>1 DEF Behind
  <2>3. ToCut
    BY <2>1, <2>2 DEF StepInv
  <2>4. ToCut' /\ cur' = LastRecord' /\ pending' = SeqRange(cur') /\ BeforeTxs' = BeforeTxs
    BY <2>1, <2>3 DEF ToCut, LastRecord, BeforeTxs, Before
  <2>5. txIndex' \subseteq BeforeTxs' \cup pending'
    BY <2>1, <2>4 DEF RecordsInv, LastRecord
  <2> QED BY <1>1, <2>1, <2>4, <2>5, SameRecords DEF StepInv
<1>6. ASSUME NEW t \in Tx, CutTx(t)
      PROVE  RecordsInv' /\ StepInv'
  <2>1. /\ mode = "cut" /\ mode' = "cut" /\ pc = "remove" /\ pc' = "remove" /\ t \in pending
        /\ pending' = pending \ {t} /\ txIndex' = txIndex \ {t}
        /\ UNCHANGED <<blocks, index, times, target, cur>>
    BY <1>6 DEF CutTx, chainVars, startVars
  <2>2. /\ ToCut /\ cur = LastRecord /\ pending \subseteq SeqRange(cur)
        /\ txIndex \subseteq BeforeTxs \cup pending
    BY <2>1 DEF StepInv
  <2>3. BeforeTxs' = BeforeTxs /\ LastRecord' = LastRecord /\ ChainTxs' = ChainTxs
    BY <2>1 DEF BeforeTxs, Before, LastRecord, ChainTxs
  <2>4. t \notin BeforeTxs
    BY <2>1, <2>2, LastApart DEF RecordsInv
  <2>5. ToCut' /\ cur' = LastRecord' /\ pending' \subseteq SeqRange(cur')
    BY <2>1, <2>2, <2>3 DEF ToCut
  <2>6. txIndex' \subseteq BeforeTxs' \cup pending' /\ BeforeTxs' \subseteq txIndex'
        /\ txIndex' \subseteq BeforeTxs' \cup SeqRange(LastRecord')
    BY <2>1, <2>2, <2>3, <2>4 DEF RecordsInv
  <2>7. RecordsInv'
    BY <2>1, <2>3, <2>6 DEF RecordsInv, RecordsAre, OneBlock, InBlock
  <2> QED BY <2>1, <2>5, <2>6, <2>7 DEF StepInv
<1>7. CASE EndCut
  <2>1. /\ mode = "cut" /\ mode' = "cut" /\ pc = "remove" /\ pending = {} /\ CutFiles
        /\ pc' = "idle"
        /\ txIndex' = txIndex /\ target' = target
    BY <1>7 DEF EndCut, stateVars
  <2>2. txIndex = BeforeTxs /\ Len(blocks) > 1
    BY <2>1, RemovedBefore
  <2>3. /\ RecordsInv' /\ txIndex' = ChainTxs' /\ Len(blocks') = Len(index')
        /\ Len(blocks') = Len(blocks) - 1
    BY <2>1, <2>2, CutOne
  <2>4. target = Len(blocks) - 2
    BY <2>1 DEF StepInv, ToCut
  <2>5. target' = Len(blocks') - 1
    BY <1>1, <2>1, <2>3, <2>4
  <2> QED BY <2>1, <2>3, <2>5 DEF StepInv, Level
<1>8. CASE CutDone
  <2>1. /\ mode = "cut" /\ mode' = "load" /\ pc = "idle" /\ ~Behind
        /\ UNCHANGED <<blocks, index, txIndex, times>>
    BY <1>8 DEF CutDone, vars, chainVars, stateVars
  <2>2. ~ToCut
    BY <1>1, <2>1 DEF Behind, ToCut
  <2>3. Level
    BY <2>1, <2>2 DEF StepInv
  <2>4. Level'
    BY <2>1, <2>3 DEF Level, ChainTxs
  <2> QED BY <1>1, <2>1, <2>4, SameRecords DEF StepInv
<1>9. CASE LoadIndex
  <2>1. /\ mode = "load" /\ mode' = "up" /\ n = times /\ pc = "idle"
        /\ UNCHANGED <<blocks, index, txIndex, times, pc, cur, k>>
    BY <1>9 DEF LoadIndex, vars, chainVars, stateVars, LifeTypes
  <2>2. Level
    BY <2>1 DEF StepInv
  <2>3. CurIsNew' /\ Indexed'
    BY <2>1, <2>2 DEF CurIsNew, Busy, Indexed, Level, ChainTxs
  <2>4. times' = Len(index') /\ Len(blocks') = Len(index') /\ pc' = "idle"
    BY <2>1, <2>2 DEF Level
  <2> QED BY <1>1, <2>1, <2>3, <2>4, SameRecords DEF StepInv
<1>10. CASE LoadFails
  <2>1. /\ mode = "load" /\ mode' = "lost" /\ UNCHANGED <<blocks, index, txIndex, times, pc>>
    BY <1>10 DEF LoadFails, vars, chainVars, stateVars
  <2>2. Level /\ Level'
    BY <2>1 DEF StepInv, Level, ChainTxs
  <2> QED BY <1>1, <2>1, <2>2, SameRecords DEF StepInv
<1> QED BY <1>3, <1>4, <1>5, <1>6, <1>7, <1>8, <1>9, <1>10


-----------------------------------------------------------------------------
(* What the files hold of the coins *)

\* The blocks of the chain spend coins of the chain.
LEMMA ChainSources ==
  ASSUME TypeOK, SpendsEarlier
  PROVE  \A s \in ChainTxs : \A r \in Spends(s) : r.src \in ChainTxs
<1> SUFFICES ASSUME NEW s \in ChainTxs, NEW r \in Spends(s) PROVE r.src \in ChainTxs
  OBVIOUS
<1>1. PICK h \in DOMAIN index : InBlock(s, h) /\ s \in Tx
  BY InChain
<1>2. PICK g \in DOMAIN index : InBlock(r.src, g)
  BY <1>1 DEF SpendsEarlier
<1> QED BY <1>2, InChain

\* What the transactions of the last record spend was made and not spent before it.
LEMMA LastSpends ==
  ASSUME LifeTypes, RecordsAre, SpendsEarlier, ChainSpentOnce, NewSpends, ~failed,
         NEW t \in SeqRange(LastRecord), NEW r \in Spends(t)
  PROVE  r.src \in BeforeTxs /\ \A s \in BeforeTxs : r \notin Spends(s)
<1>1. /\ Len(index) \in Nat \ {0} /\ DOMAIN index = 1 .. Len(index) /\ ChainTxs \subseteq Tx
      /\ Len(blocks) = Len(index) + 1 => BeforeTxs = ChainTxs
      /\ Len(blocks) = Len(index) =>
             LastRecord = index[Len(index)] /\ ChainTxs = BeforeTxs \cup SeqRange(LastRecord)
      /\ Len(blocks) = Len(index) \/ Len(blocks) = Len(index) + 1
  BY RecordsChain
<1>2. CASE Len(blocks) = Len(index) + 1
  <2>1. Len(blocks) > Len(index)
    <3>1. Len(index) \in Nat
      BY <1>1
    <3> QED BY <1>2, <3>1
  <2> QED BY <1>1, <1>2, <2>1 DEF NewSpends
<1>3. CASE Len(blocks) = Len(index)
  <2>1. Len(index) \in DOMAIN index
    BY <1>1
  <2>2. InBlock(t, Len(index)) /\ t \in ChainTxs /\ t \in Tx
    BY <1>1, <1>3, <2>1 DEF InBlock
  <2>3. PICK g \in DOMAIN index : g < Len(index) /\ InBlock(r.src, g)
    BY <2>1, <2>2 DEF SpendsEarlier
  <2>4. g \in 1 .. Len(index) - 1 /\ g \in 1 .. Len(index)
    BY <1>1, <2>3
  <2>5. blocks[g] = index[g] /\ g \in 1 .. Len(blocks) - 1
    BY <1>3, <2>4 DEF RecordsAre
  <2>6. r.src \in BeforeTxs
    BY <2>3, <2>5 DEF InBlock, BeforeTxs, Before
  <2>7. BeforeTxs \subseteq ChainTxs /\ t \notin BeforeTxs
    BY <1>1, <1>3, LastApart
  <2> QED BY <2>2, <2>6, <2>7 DEF ChainSpentOnce
<1> QED BY <1>1, <1>2, <1>3

\* What is exact is exact but for the last record ...
LEMMA ExactIsPartly ==
  ASSUME CoinUtxoExact, ~failed, BeforeTxs \subseteq txIndex
  PROVE  PartlyExact
<1> SUFFICES ASSUME NEW r \in OutRef, Coin(r)
             PROVE  /\ r \in utxo => r.src \in txIndex /\ \A s \in BeforeTxs : r \notin Spends(s)
                    /\ r.src \in BeforeTxs /\ (\A s \in txIndex : r \notin Spends(s)) => r \in utxo
  BY DEF PartlyExact
<1> QED BY ExactOf DEF Unspent

\* The same after a step.
LEMMA ExactIsPartlyNext ==
  (CoinUtxoExact /\ ~failed /\ BeforeTxs \subseteq txIndex => PartlyExact)'
<1>1. CoinUtxoExact /\ ~failed /\ BeforeTxs \subseteq txIndex => PartlyExact
  BY ExactIsPartly
<1> QED BY <1>1, PTL

\* ... and the other way round when nothing is left of that record.
LEMMA PartlyIsExact ==
  ASSUME PartlyExact, txIndex = BeforeTxs
  PROVE  CoinUtxoExact
<1>1. \A r \in OutRef : Coin(r) =>
             (r \in utxo <=> r.src \in txIndex /\ \A s \in txIndex : r \notin Spends(s))
  BY DEF PartlyExact
<1> QED BY <1>1, ExactIf DEF CoinUtxoExact

\* While the node runs, the invariant of the block store says all of it.
LEMMA UpCoins ==
  LifeTypes /\ RecordsInv /\ StepInv /\ mode = "up" /\ LedgerInv /\ ~failed =>
      CoinsInv /\ PartlyExact /\ CoinUtxoExact
<1> SUFFICES ASSUME LifeTypes, RecordsInv, StepInv, mode = "up", LedgerInv, ~failed
             PROVE  CoinsInv /\ PartlyExact /\ CoinUtxoExact
  OBVIOUS
<1>1. /\ SpendsEarlier /\ ChainSpentOnce /\ CoinUtxoExact /\ SpentOnce /\ CurIsNew
      /\ Indexed /\ Promised
  BY DEF LedgerInv, CoinInv, Sound
<1>2. PartlyExact
  BY <1>1, ExactIsPartly DEF RecordsInv
<1>3. NewSpends
  <2> SUFFICES ASSUME Len(blocks) > Len(index), NEW t \in SeqRange(LastRecord), NEW r \in Spends(t)
               PROVE  r.src \in ChainTxs /\ \A s \in ChainTxs : r \notin Spends(s)
    BY DEF NewSpends
  <2>1. Len(index) \in Nat /\ cur \in Seq(Tx) /\ k \in Nat \ {0}
    BY Sizes DEF TypeOK
  <2>2. pc = "store" /\ cur = LastRecord /\ SeqRange(cur) \cap ChainTxs = {}
    BY <1>1, <2>1 DEF StepInv, CurIsNew, Busy
  <2>3. txIndex = ChainTxs \cup {cur[i] : i \in 1 .. k - 1}
    BY <1>1, <2>2 DEF Indexed
  <2>4. PICK i \in 1 .. Len(cur) : t = cur[i]
    BY <2>1, <2>2 DEF SeqRange
  <2>5. t \in Tx /\ r.src \in ChainTxs
    BY <1>1, <2>1, <2>2, <2>4 DEF Promised
  <2>6. CASE i >= k
    <3>1. i \in k .. Len(cur)
      BY <2>1, <2>4, <2>6
    <3>2. r \in utxo
      BY <1>1, <2>2, <2>4, <3>1 DEF Promised
    <3>3. Coin(r) /\ r \in OutRef
      BY <2>5, SpendsCoin
    <3>4. Unspent(r)
      BY <1>1, <3>2, <3>3, ExactOf
    <3> QED BY <2>3, <2>5, <3>4 DEF Unspent
  <2>7. CASE ~(i >= k)
    <3>1. i \in 1 .. k - 1
      BY <2>1, <2>4, <2>7
    <3>2. t \in txIndex /\ t \notin ChainTxs
      BY <2>2, <2>3, <2>4, <3>1
    <3> QED BY <1>1, <2>3, <2>5, <3>2 DEF SpentOnce
  <2> QED BY <2>6, <2>7
<1> QED BY <1>1, <1>2, <1>3 DEF CoinsInv

\* The same after a step.
LEMMA UpCoinsNext ==
  (LifeTypes /\ RecordsInv /\ StepInv /\ mode = "up" /\ LedgerInv /\ ~failed => CoinsInv)'
<1>1. LifeTypes /\ RecordsInv /\ StepInv /\ mode = "up" /\ LedgerInv /\ ~failed => CoinsInv
  BY UpCoins
<1> QED BY <1>1, PTL

\* What holds of the coins at every step of a stop or a start.
Held == SpendsEarlier /\ ChainSpentOnce /\ NewSpends /\ PartlyExact
Whole == Len(blocks) = Len(index) /\ SeqRange(LastRecord) \subseteq txIndex

\* The invariant says it, whatever the node is doing.
LEMMA HeldAlways ==
  ASSUME LifeTypes, RecordsInv, StepInv, CoinsInv, ~failed
  PROVE  /\ Held /\ (mode = "up" => LedgerInv /\ CoinUtxoExact)
         /\ pc = "idle" /\ Whole => CoinUtxoExact
BY UpCoins DEF CoinsInv, Held, Whole

\* A step that touches no file but those of the start keeps it.
LEMMA SameCoins ==
  ASSUME Held, UNCHANGED <<blocks, index, txIndex, utxo, failed>>, mode' # "up",
         pc' = "idle" /\ Whole => CoinUtxoExact
  PROVE  CoinsInv'
<1>1. ChainTxs' = ChainTxs /\ BeforeTxs' = BeforeTxs /\ LastRecord' = LastRecord
      /\ Whole' = Whole
  BY DEF ChainTxs, BeforeTxs, Before, LastRecord, Whole
<1>2. SpendsEarlier' /\ ChainSpentOnce' /\ NewSpends' /\ PartlyExact'
  BY <1>1 DEF Held, SpendsEarlier, InBlock, ChainSpentOnce, NewSpends, PartlyExact
<1>3. CoinUtxoExact => CoinUtxoExact'
  BY DEF CoinUtxoExact
<1> QED BY <1>1, <1>2, <1>3 DEF CoinsInv, Whole

\* A step that leaves the records and the chain changes the coins of the last record.
LEMMA PartCoins ==
  ASSUME Held, UNCHANGED <<blocks, index, failed>>, mode' # "up", PartlyExact',
         ~(pc' = "idle" /\ Whole')
  PROVE  CoinsInv'
<1>1. ChainTxs' = ChainTxs /\ LastRecord' = LastRecord
  BY DEF ChainTxs, LastRecord
<1>2. SpendsEarlier' /\ ChainSpentOnce' /\ NewSpends'
  BY <1>1 DEF Held, SpendsEarlier, InBlock, ChainSpentOnce, NewSpends
<1> QED BY <1>2 DEF CoinsInv, Whole

\* A stop while a transaction is written leaves its coins in part.
LEMMA StopInTxCoins ==
  ASSUME LifeTypes, RecordsInv, StepInv, CoinsInv, ~failed, StopInTx
  PROVE  CoinsInv'
<1>1. /\ UNCHANGED <<blocks, index, failed>> /\ pc = "store" /\ k <= Len(cur) /\ mode' = "down"
      /\ txIndex' = txIndex \cup {cur[k]}
  BY DEF StopInTx, ForgetAll, chainVars
<1> DEFINE t == cur[k]
<1>2. mode = "up" /\ cur \in Seq(Tx) /\ k \in Nat \ {0} /\ TypeOK /\ AppsHaveName
  BY <1>1 DEF LifeTypes, TypeOK
<1>3. Held /\ LedgerInv /\ CoinUtxoExact
  BY <1>2, HeldAlways
<1>4. /\ t \in Tx /\ t \in SeqRange(cur) /\ cur = LastRecord /\ Len(blocks) = Len(index) + 1
      /\ Len(index) \in Nat
  BY <1>1, <1>2, Sizes DEF StepInv, SeqRange
<1>5. /\ BeforeTxs = ChainTxs /\ BeforeTxs' = BeforeTxs /\ BeforeTxs \subseteq txIndex
      /\ t \notin BeforeTxs
  <2>1. RecordsAre /\ BeforeTxs \subseteq txIndex
    BY DEF RecordsInv
  <2> QED BY <1>1, <1>4, <2>1, RecordsChain, LastApart DEF BeforeTxs, Before
<1>6. PICK i \in 0 .. Len(Ins[t]), o \in 0 .. Len(Outs[t]) :
          /\ IsTxNull(t) => i = 0
          /\ utxo' = (utxo \ {Ins[t][j] : j \in {l \in Loaded(t) : l <= i}})
                         \cup {r \in StoredOuts(t) : r.idx <= o}
  BY DEF StopInTx
<1>7. \A s \in BeforeTxs : \A r \in Spends(s) : r.src \in BeforeTxs
  BY <1>2, <1>3, <1>5, ChainSources DEF Held
<1>8. ASSUME NEW r \in OutRef, Coin(r)
      PROVE  /\ r \in utxo' => r.src \in txIndex' /\ \A s \in BeforeTxs : r \notin Spends(s)
             /\ r.src \in BeforeTxs /\ (\A s \in txIndex' : r \notin Spends(s)) => r \in utxo'
  <2>1. r \in utxo <=> Unspent(r)
    BY <1>3, <1>8, ExactOf
  <2>2. ASSUME r \in StoredOuts(t)
        PROVE  r.src = t /\ \A s \in BeforeTxs : r \notin Spends(s)
    <3>1. r.src = t
      BY <1>4, <1>8, <2>2, StoredCoins, MakesCoin
    <3> QED BY <1>5, <1>7, <3>1
  <2>3. ASSUME r \in utxo
        PROVE  r.src \in txIndex' /\ \A s \in BeforeTxs : r \notin Spends(s)
    BY <1>1, <1>5, <2>1, <2>3 DEF Unspent
  <2>4. ASSUME r.src \in BeforeTxs, \A s \in txIndex' : r \notin Spends(s)
        PROVE  r \in utxo'
    <3>1. r.src \in txIndex /\ r \in utxo /\ r \notin Spends(t)
      BY <1>1, <1>5, <2>1, <2>4 DEF Unspent
    <3>2. r \notin {Ins[t][j] : j \in {l \in Loaded(t) : l <= i}}
      <4>1. CASE IsTxNull(t)
        <5>1. \A l \in Loaded(t) : l \in Nat \ {0}
          <6> DEFINE I == [src : Tx \cup Specials, idx : Nat]
          <6>1. Ins[t] \in Seq(I)
            BY <1>4, TxAssumption
          <6> HIDE DEF I
          <6>2. DOMAIN Ins[t] \subseteq Nat \ {0}
            BY <6>1
          <6> QED BY <6>2 DEF Loaded
        <5>2. {l \in Loaded(t) : l <= i} = {}
          BY <1>6, <4>1, <5>1
        <5> QED BY <5>2
      <4>2. CASE ~IsTxNull(t)
        <5>1. r \notin {Ins[t][j] : j \in Loaded(t)}
          BY <1>2, <1>4, <1>8, <3>1, <4>2, LoadedCoins, NoApps
        <5> QED BY <5>1
      <4> QED BY <4>1, <4>2
    <3> QED BY <1>6, <3>1, <3>2
  <2> QED BY <1>1, <1>6, <2>2, <2>3, <2>4
<1>9. PartlyExact'
  BY <1>5, <1>8 DEF PartlyExact
<1>10. ~Whole'
  BY <1>1, <1>4 DEF Whole
<1> QED BY <1>1, <1>3, <1>9, <1>10, PartCoins

\* So does a stop while one is removed.
LEMMA StopInRemovalCoins ==
  ASSUME LifeTypes, RecordsInv, StepInv, CoinsInv, ~failed, StopInRemoval, torn' = {}
  PROVE  CoinsInv'
<1>1. /\ UNCHANGED <<blocks, index, txIndex, failed>> /\ pending # {} /\ mode' = "down"
      /\ TypeOK /\ AppsHaveName /\ pc = "remove" /\ (mode # "up" => mode = "cut")
      /\ utxo' # utxo => ~Whole
  BY DEF StopInRemoval, ForgetAll, chainVars, LifeTypes, Whole, LastRecord
<1>2. PICK t \in pending \cap txIndex : \E o \in 0 .. Len(Outs[t]), i \in 0 .. Len(Ins[t]) :
          utxo' = (utxo \ {r \in Cancelled(t) : r.idx <= o})
                      \cup (Restored(t) \cap {Ins[t][j] : j \in 1 .. i})
  BY DEF StopInRemoval
<1>3. Held /\ (mode = "up" => LedgerInv /\ CoinUtxoExact)
  BY HeldAlways
<1>4. /\ t \in SeqRange(LastRecord) /\ t \in Tx /\ txIndex \subseteq Tx
      /\ Whole => mode = "up"
  <2>1. t \in Tx /\ txIndex \subseteq Tx
    BY <1>1, <1>2 DEF TypeOK
  <2>2. CASE mode = "up"
    <3>1. Len(blocks) = Len(index) /\ cur = index[Len(index)] /\ pending \subseteq SeqRange(cur)
      BY <1>1, <2>2 DEF StepInv, Indexed
    <3>2. cur = LastRecord
      BY <3>1, RecordsChain DEF RecordsInv
    <3> QED BY <1>2, <2>1, <2>2, <3>1, <3>2
  <2>3. CASE mode = "cut"
    BY <1>1, <1>2, <2>1, <2>3 DEF StepInv, ToCut, Whole
  <2> QED BY <1>1, <2>2, <2>3
<1>5. CASE utxo' = utxo
  BY <1>1, <1>3, <1>4, <1>5, SameCoins
<1>6. CASE utxo' # utxo
  <2>1. t \notin BeforeTxs /\ BeforeTxs' = BeforeTxs /\ Whole' = Whole
    BY <1>1, <1>4, LastApart DEF RecordsInv, BeforeTxs, Before, Whole, LastRecord
  <2>2. ASSUME NEW r \in OutRef, Coin(r)
        PROVE  /\ r \in utxo' => r.src \in txIndex /\ \A s \in BeforeTxs : r \notin Spends(s)
               /\ r.src \in BeforeTxs /\ (\A s \in txIndex : r \notin Spends(s)) => r \in utxo'
    <3>1. /\ r \in utxo => r.src \in txIndex /\ \A s \in BeforeTxs : r \notin Spends(s)
          /\ r.src \in BeforeTxs /\ (\A s \in txIndex : r \notin Spends(s)) => r \in utxo
      BY <1>3, <2>2 DEF Held, PartlyExact
    <3>2. r \in Restored(t) => r \in Spends(t) /\ r.src \in txIndex
      BY <1>1, <1>4, <2>2, RestoredCoins, NoApps
    <3>3. r \in Restored(t) => \A s \in BeforeTxs : r \notin Spends(s)
      BY <1>3, <1>4, <3>2, LastSpends DEF Held, RecordsInv
    <3>4. r \in Cancelled(t) => r.src = t
      BY <1>1, <1>4, <2>2, CancelledCoins, MakesCoin
    <3> QED BY <1>2, <2>1, <3>1, <3>2, <3>3, <3>4
  <2>3. PartlyExact'
    BY <1>1, <2>1, <2>2 DEF PartlyExact
  <2> QED BY <1>1, <1>3, <1>6, <2>1, <2>3, PartCoins
<1> QED BY <1>5, <1>6

\* The last record goes with its transactions: what is left is exact.
LEMMA CutCoins ==
  ASSUME LifeTypes, LifeTypes', RecordsInv, RecordsInv', StepInv, CoinsInv, ~failed,
         pc = "remove", pending = {}, CutFiles, UNCHANGED <<txIndex, utxo, failed>>, mode' # "up"
  PROVE  CoinsInv'
<1>1. Held /\ txIndex = BeforeTxs /\ Len(blocks) > 1
  BY HeldAlways, RemovedBefore
<1>2. CoinUtxoExact
  BY <1>1, PartlyIsExact DEF Held
<1>3. CoinUtxoExact'
  BY <1>2 DEF CoinUtxoExact
<1>4. PartlyExact'
  BY <1>3, ExactIsPartlyNext DEF RecordsInv
<1>5. /\ index' \in Seq(Seq(Tx)) /\ Len(index') <= Len(index)
      /\ \A h \in 1 .. Len(index') : index'[h] = index[h]
      /\ Len(blocks') = Len(index')
  <2>1. TypeOK /\ times \in Nat \ {0} /\ Len(index) \in Nat /\ Len(blocks) \in Nat
    BY Sizes
  <2>2. /\ index' \in Seq(Seq(Tx))
        /\ Len(index') = (IF Len(index) <= Len(blocks) - 1 THEN Len(index) ELSE Len(blocks) - 1)
        /\ \A h \in 1 .. Len(index') : index'[h] = index[h]
    BY <1>1, <2>1, CutLengths
  <2>3. Len(blocks') = Len(index')
    BY <1>1, CutOne
  <2> QED BY <2>1, <2>2, <2>3
<1>6. \A h \in DOMAIN index' : h \in DOMAIN index /\ index'[h] = index[h]
  <2>1. DOMAIN index = 1 .. Len(index) /\ DOMAIN index' = 1 .. Len(index') /\ Len(index) \in Nat
        /\ Len(index') \in Nat
    BY <1>5, Sizes
  <2> QED BY <1>5, <2>1
<1>7. \A t, h : InBlock(t, h)' => InBlock(t, h)
  BY <1>6 DEF InBlock
<1>8. SpendsEarlier'
  <2> SUFFICES ASSUME NEW h \in DOMAIN index', NEW t \in Tx, InBlock(t, h)', NEW r \in Spends(t)
               PROVE  \E g \in DOMAIN index' : g < h /\ InBlock(r.src, g)'
    BY DEF SpendsEarlier
  <2>1. PICK g \in DOMAIN index : g < h /\ InBlock(r.src, g)
    BY <1>1, <1>6, <1>7 DEF Held, SpendsEarlier
  <2>2. g \in DOMAIN index'
    <3>1. DOMAIN index = 1 .. Len(index) /\ DOMAIN index' = 1 .. Len(index')
          /\ Len(index) \in Nat
          /\ Len(index') \in Nat
      BY <1>5, Sizes
    <3> QED BY <2>1, <3>1
  <2> QED BY <1>6, <2>1, <2>2 DEF InBlock
<1>9. ChainSpentOnce'
  <2>1. ChainTxs' \subseteq ChainTxs
    BY <1>6 DEF ChainTxs
  <2> QED BY <1>1, <2>1 DEF Held, ChainSpentOnce
<1>10. NewSpends'
  <2>1. ~(Len(blocks') > Len(index'))
    <3>1. Len(index') \in Nat
      BY <1>5
    <3> QED BY <1>5, <3>1
  <2> QED BY <2>1 DEF NewSpends
<1> QED BY <1>3, <1>4, <1>8, <1>9, <1>10 DEF CoinsInv

\* What the cut takes back of one transaction.
LEMMA CutTxCoins ==
  ASSUME LifeTypes, RecordsInv, StepInv, CoinsInv, ~failed, NEW t \in Tx, CutTx(t)
  PROVE  CoinsInv'
<1>1. /\ UNCHANGED <<blocks, index, failed, pc, mode>> /\ pc = "remove" /\ mode = "cut"
      /\ t \in pending /\ txIndex' = txIndex \ {t}
      /\ utxo' = IF t \in txIndex THEN CutUtxo(t) ELSE utxo
      /\ TypeOK /\ AppsHaveName /\ txIndex \subseteq Tx
  BY DEF CutTx, chainVars, startVars, LifeTypes, TypeOK
<1>2. Held
  BY HeldAlways
<1>3. /\ t \in SeqRange(LastRecord) /\ t \notin BeforeTxs /\ BeforeTxs' = BeforeTxs
      /\ BeforeTxs \subseteq txIndex
  BY <1>1, LastApart DEF StepInv, RecordsInv, BeforeTxs, Before
<1>4. ASSUME NEW r \in OutRef, Coin(r)
      PROVE  /\ r \in utxo' => r.src \in txIndex' /\ \A s \in BeforeTxs : r \notin Spends(s)
             /\ r.src \in BeforeTxs /\ (\A s \in txIndex' : r \notin Spends(s)) => r \in utxo'
  <2>1. /\ r \in utxo => r.src \in txIndex /\ \A s \in BeforeTxs : r \notin Spends(s)
        /\ r.src \in BeforeTxs /\ (\A s \in txIndex : r \notin Spends(s)) => r \in utxo
    BY <1>2, <1>4 DEF Held, PartlyExact
  <2>2. r \in Restored(t) <=> r \in Spends(t) /\ r.src \in txIndex
    BY <1>1, <1>4, RestoredCoins, NoApps
  <2>3. r \in Spends(t) => r.src \in BeforeTxs /\ \A s \in BeforeTxs : r \notin Spends(s)
    BY <1>2, <1>3, LastSpends DEF Held, RecordsInv
  <2>4. r \in Cancelled(t) <=> r.src = t
    BY <1>1, <1>4, CancelledCoins, MakesCoin, MakesSource
  <2>5. CASE t \in txIndex
    <3>1. r \in utxo' <=> (r \in utxo /\ r \notin Cancelled(t)) \/ r \in Restored(t)
      BY <1>1, <2>5 DEF CutUtxo
    <3>2. ASSUME r \in utxo'
          PROVE  r.src \in txIndex' /\ \A s \in BeforeTxs : r \notin Spends(s)
      BY <1>1, <1>3, <2>1, <2>2, <2>3, <2>4, <3>1, <3>2
    <3>3. ASSUME r.src \in BeforeTxs, \A s \in txIndex' : r \notin Spends(s)
          PROVE  r \in utxo'
      BY <1>1, <1>3, <2>1, <2>2, <2>4, <3>1, <3>3
    <3> QED BY <3>2, <3>3
  <2>6. CASE t \notin txIndex
    <3>1. txIndex' = txIndex /\ utxo' = utxo
      BY <1>1, <2>6
    <3> QED BY <2>1, <3>1
  <2> QED BY <2>5, <2>6
<1>5. PartlyExact'
  BY <1>3, <1>4 DEF PartlyExact
<1> QED BY <1>1, <1>2, <1>5, PartCoins

\* The steps of a start that remove nothing.
LEMMA StartCoins ==
  ASSUME LifeTypes, RecordsInv, StepInv, CoinsInv, ~failed,
         CheckLast \/ CheckFails \/ BeginCut \/ CutDone \/ LoadFails
  PROVE  CoinsInv'
<1>1. Held /\ (pc = "idle" /\ Whole => CoinUtxoExact)
  BY HeldAlways
<1>2. /\ UNCHANGED <<blocks, index, txIndex, utxo, failed>> /\ mode # "up" /\ mode' # "up"
      /\ pc' = "idle" => pc = "idle"
  BY
     DEF CheckLast, CheckFails, BeginCut, CutDone, LoadFails, vars, chainVars, stateVars,
         startVars
<1> QED BY <1>1, <1>2, SameCoins

\* The stops that leave the coins as they were.
LEMMA StopCoins ==
  ASSUME LifeTypes, RecordsInv, StepInv, CoinsInv, ~failed, short = <<>>,
         StopIdle \/ StopBeforeTx \/ StopBeforeIndex
  PROVE  CoinsInv'
<1>1. Held /\ (mode = "up" => CoinUtxoExact) /\ (pc = "idle" /\ Whole => CoinUtxoExact)
  BY HeldAlways
<1>2. UNCHANGED <<blocks, index, txIndex, utxo, failed>> /\ mode' # "up"
  BY DEF StopIdle, StopBeforeTx, StopBeforeIndex, ForgetAll, chainVars
<1>3. CASE mode # "up" /\ pc = "remove"
  <2>1. mode = "cut"
    BY <1>3 DEF LifeTypes
  <2>2. ~Whole
    BY <1>3, <2>1 DEF StepInv, ToCut, Whole
  <2> QED BY <1>1, <1>2, <2>2, SameCoins
<1>4. CASE mode # "up" /\ pc # "remove"
  BY <1>1, <1>2, <1>4, SameCoins DEF LifeTypes
<1>5. CASE mode = "up"
  BY <1>1, <1>2, <1>5, SameCoins
<1> QED BY <1>3, <1>4, <1>5

\* What the start has found in order is what the main loop goes on with.
LEMMA LoadedLedger ==
  ASSUME LifeTypes, RecordsInv, StepInv, CoinsInv, ~failed, mode = "load"
  PROVE  LedgerInv
<1>1. pc = "idle" /\ Level /\ TypeOK /\ AppsHaveName
  BY DEF StepInv, LifeTypes
<1>2. /\ Len(blocks) = Len(index) /\ txIndex = ChainTxs
      /\ SeqRange(LastRecord) \subseteq txIndex
      /\ OneBlock
  BY <1>1, LevelIs DEF Level, RecordsInv, RecordsAre
<1>3. SpendsEarlier /\ ChainSpentOnce /\ CoinUtxoExact
  BY <1>1, <1>2 DEF CoinsInv
<1>4. Sound
  BY <1>1, <1>2, <1>3
     DEF Sound, CurIsNew, Busy, Indexed, Checked, Promised, SpentOnce, ChainSpentOnce
<1>5. TypeInv
  BY <1>1 DEF TypeInv, Below
<1> QED BY <1>1, <1>3, <1>4, <1>5 DEF LedgerInv, CoinInv

-----------------------------------------------------------------------------
(* The inductive invariant *)

\* What a stop has torn stays so.
LEMMA TornStays ==
  ASSUME LifeNext
  PROVE  /\ (Sane' => Sane) /\ (Safe' => Safe /\ Sane')
         /\ torn \subseteq torn' /\ (~failed' => ~failed)
<1>1. ASSUME Run
      PROVE  torn' = torn /\ (failed => failed')
  <2>1. [Next]_vars /\ torn' = torn
    BY <1>1 DEF Run
  <2> QED BY <2>1, QuietSteps, QuietChain DEF StoreFails, SetLastBlock, SetLast, EndRemove
<1>2. CASE Run
  BY <1>1, <1>2 DEF Sane, Safe
<1>3. CASE ~Run
  <2>1. torn \subseteq torn' /\ failed' = failed
    BY <1>3 DEF LifeNext, AcceptBehind, AcceptList, SetLastBehind, SetLast,
       StopIdle, StopBeforeTx, StopInTx, StopInStaking, StopBeforeIndex, StopInRemoval,
       StopBeforeSupply, ForgetAll, CheckLast, CheckFails, BeginCut, CutTx, EndCut, CutDone,
       LoadIndex, LoadFails, vars, startVars
  <2> QED BY <2>1 DEF Sane, Safe
<1> QED BY <1>2, <1>3

\* The empty store of a node that has just started satisfies the invariant.
LEMMA LifeTypesInit == LifeInit => LifeInv
<1> SUFFICES ASSUME LifeInit PROVE LifeInv
  OBVIOUS
<1>1. /\ Init /\ times = 1 /\ mode = "up" /\ target = 0 /\ stops = 0 /\ torn = {} /\ short = <<>>
      /\ blocks = <<Genesis>> /\ index = <<Genesis>> /\ pc = "idle" /\ apps = {} /\ pending = {}
      /\ ~failed
  BY DEF LifeInit, Init
<1>2. TypeInv /\ LedgerInv
  BY <1>1, TypeInit, LedgerInvInit
<1>3. LifeTypes
  BY <1>1, <1>2, BoundAssumption DEF LifeTypes, TypeInv, AppsHaveName, Steps, Below
<1>4. UpFiles
  <2>1. CurIsNew /\ Indexed /\ OneBlock
    BY <1>1, <1>2 DEF LedgerInv, CoinInv, Sound
  <2> QED BY <1>1, <2>1 DEF UpFiles
<1>5. RecordsInv /\ StepInv
  BY <1>1, <1>3, <1>4, UpRecords
<1>6. CoinsInv
  BY <1>1, <1>2, <1>3, <1>5, UpCoins
<1> QED BY <1>1, <1>3, <1>5, <1>6 DEF LifeInv, HalfStop

\* Every step keeps the types ...
LEMMA LifeTypesStep ==
  ASSUME LifeTypes, LifeNext
  PROVE  LifeTypes'
BY RunTypes, BehindTypes, StopTypes, StartTypes DEF LifeNext

\* ... the files in order, unless a start has taken them for what they are not ...
LEMMA LifeFilesStep ==
  ASSUME LifeInv, LifeNext, Sane'
  PROVE  RecordsInv' /\ StepInv'
<1>1. LifeTypes /\ RecordsInv /\ StepInv /\ LifeTypes'
  BY LifeTypesStep, TornStays DEF LifeInv
<1>2. ~failed' /\ "files" \notin torn' /\ "record" \notin torn' /\ "record" \notin torn
  BY TornStays DEF Sane
<1>3. short = <<>> /\ ~AcceptBehind /\ ~SetLastBehind /\ ~StopInStaking
  BY <1>1, <1>2 DEF LifeTypes, AcceptBehind, SetLastBehind, StopInStaking
<1> QED BY <1>1, <1>2, <1>3, RunFiles, StopFiles, StartFiles DEF LifeNext

\* ... and the coins, unless a stop was in the middle of what a start does not see.
LEMMA LifeCoinsStep ==
  ASSUME LifeInv, LifeNext, Safe'
  PROVE  CoinsInv'
<1>1. /\ LifeTypes /\ RecordsInv /\ StepInv /\ CoinsInv /\ ~failed /\ LifeTypes'
      /\ RecordsInv' /\ StepInv' /\ ~failed' /\ torn' = {} /\ torn = {}
  BY LifeTypesStep, LifeFilesStep, TornStays DEF LifeInv, Safe
<1>5. short = <<>> /\ ~AcceptBehind /\ ~SetLastBehind /\ ~StopInStaking
  BY <1>1 DEF LifeTypes, AcceptBehind, SetLastBehind, StopInStaking
<1>2. CASE Run \/ LoadIndex
  <2>1. [Next]_vars /\ mode' = "up" /\ (mode = "up" \/ mode = "load")
    BY <1>2 DEF Run, LoadIndex
  <2>2. LedgerInv
    BY <1>1, <2>1, LoadedLedger DEF CoinsInv
  <2>3. LedgerInv'
    BY <2>1, <2>2, LedgerInvStep
  <2> QED BY <1>1, <2>1, <2>3, UpCoinsNext
<1>3. CASE StopBeforeSupply
  <2>1. /\ pc = "remove" /\ pending = {} /\ CutFiles /\ UNCHANGED <<txIndex, utxo, failed>>
        /\ mode' # "up"
    BY <1>3 DEF StopBeforeSupply, ForgetAll
  <2> QED BY <1>1, <2>1, CutCoins
<1>4. CASE EndCut
  <2>1. /\ pc = "remove" /\ pending = {} /\ CutFiles /\ UNCHANGED <<txIndex, utxo, failed>>
        /\ mode' # "up"
    BY <1>4 DEF EndCut, stateVars
  <2> QED BY <1>1, <2>1, CutCoins
<1> QED BY <1>1, <1>2, <1>3, <1>4, <1>5, StopCoins, StopInTxCoins, StopInRemovalCoins, CutTxCoins,
           StartCoins DEF LifeNext

\* A stop in store_blk_staking takes the record from behind the chain, whose
\* transactions and coins it had written.
LEMMA ShortBegins ==
  ASSUME LifeInv, LifeTypes', StopInStaking, HalfStop'
  PROVE  ShortInv'
<1>1. /\ pc = "store" /\ k > Len(cur) /\ torn' = torn \cup {"record"} /\ ForgetAll
      /\ UNCHANGED <<index, txIndex, utxo, times>>
  BY DEF StopInStaking
<1>2. /\ mode' = "down" /\ pc' = "idle" /\ failed' = failed /\ "files" \notin torn /\ ~failed
      /\ LifeTypes
  BY <1>1 DEF ForgetAll, HalfStop, LifeInv
<1>3. "record" \notin torn
  BY <1>1, <1>2 DEF LifeInv, HalfStop, ShortInv
<1>4. Sane /\ RecordsInv /\ StepInv /\ mode = "up" /\ short = <<>>
  BY <1>1, <1>2, <1>3 DEF LifeInv, Sane, LifeTypes
<1>5. /\ times = Len(index) /\ Len(blocks) = Len(index) + 1 /\ cur = LastRecord /\ CurIsNew /\ Indexed
      /\ RecordsAre
  BY <1>1, <1>4 DEF StepInv, RecordsInv
<1>6. blocks' = SubSeq(blocks, 1, Len(blocks) - 1) /\ short' = <<cur>>
  BY <1>4, <1>5 DEF StopInStaking, LastRecord
<1>7. /\ blocks \in Seq(Seq(Tx)) /\ Len(blocks) \in Nat /\ Len(index) \in Nat /\ cur \in Seq(Tx)
      /\ k \in Nat \ {0}
  BY <1>2, Sizes DEF TypeOK
<1>8. Len(blocks') = Len(index) /\ \A h \in 1 .. Len(index) : blocks'[h] = blocks[h]
  <2>1. Len(blocks) - 1 \in 0 .. Len(blocks) /\ Len(blocks) - 1 = Len(index)
    BY <1>5, <1>7
  <2> QED BY <1>6, <1>7, <2>1, FrontOf
<1>9. txIndex = ChainTxs \cup SeqRange(cur)
  <2>1. k - 1 = Len(cur) /\ DOMAIN cur = 1 .. Len(cur)
    BY <1>1, <1>5, <1>7 DEF CurIsNew, Busy
  <2>2. {cur[i] : i \in 1 .. k - 1} = SeqRange(cur)
    BY <2>1 DEF SeqRange
  <2> QED BY <1>1, <1>5, <2>2 DEF Indexed
<1>10. ChainTxs' = ChainTxs /\ HalfStored' = SeqRange(cur)
  <2>1. ChainTxs' = ChainTxs
    BY <1>1 DEF ChainTxs
  <2>2. DOMAIN short' = {1} /\ short'[1] = cur
    BY <1>6
  <2> QED BY <2>1, <2>2 DEF HalfStored
<1>11. RecordsAre'
  <2>1. \A h \in 1 .. Len(index') : blocks'[h] = index'[h]
    BY <1>1, <1>5, <1>8 DEF RecordsAre
  <2>2. OneBlock' /\ index'[1] = Genesis
    BY <1>1, <1>5 DEF RecordsAre, OneBlock, InBlock
  <2> QED BY <1>1, <1>7, <1>8, <2>1, <2>2 DEF RecordsAre
<1>12. torn' = {"record"} => CoinUtxoExact'
  <2> SUFFICES ASSUME torn' = {"record"} PROVE CoinUtxoExact'
    OBVIOUS
  <2>1. torn = {}
    BY <1>1, <1>3
  <2>2. CoinUtxoExact
    BY <1>2, <1>4, <2>1, HeldAlways DEF LifeInv, Safe
  <2> QED BY <1>1, <1>2, <2>2 DEF CoinUtxoExact
<1> QED BY <1>1, <1>2, <1>5, <1>6, <1>8, <1>9, <1>10, <1>11, <1>12 DEF ShortInv

\* No start cuts a short record: what it belongs to stays on disk beside the chain.
LEMMA ShortStays ==
  ASSUME LifeInv, LifeTypes', LifeNext, ~StopInStaking, HalfStop'
  PROVE  ShortInv'
<1>1. "record" \in torn
  BY DEF LifeNext, Run, AcceptBehind, SetLastBehind, StopIdle, StopBeforeTx, StopInTx,
         StopBeforeIndex, StopInRemoval, StopBeforeSupply, CheckLast, CheckFails, BeginCut, CutTx,
         EndCut, CutDone, LoadIndex, LoadFails, startVars, HalfStop
<1>2. HalfStop /\ ShortInv /\ LifeTypes
  BY <1>1, TornStays DEF HalfStop, LifeInv
<1>3. Len(blocks) \in Nat \ {0} /\ Len(index) \in Nat \ {0} /\ pending = {}
  BY <1>2, Sizes DEF ShortInv, LifeTypes
<1>4. ~Behind \/ mode # "cut"
  BY <1>2, <1>3 DEF ShortInv, Behind
<1>5. StopIdle \/ CheckLast \/ CheckFails \/ CutDone
  <2>1. ~LoadIndex
    BY <1>2 DEF LoadIndex, ShortInv, HalfStop
  <2>2. /\ ~Run /\ ~AcceptBehind /\ ~SetLastBehind /\ ~StopBeforeTx /\ ~StopInTx
        /\ ~StopBeforeIndex /\ ~StopInRemoval /\ ~StopBeforeSupply /\ ~EndCut
        /\ ~LoadFails /\ ~BeginCut /\ \A t \in Tx : ~CutTx(t)
    BY <1>2, <1>3, <1>4
       DEF ShortInv, Run, AcceptBehind, SetLastBehind, StopBeforeTx, StopInTx, StopBeforeIndex,
           StopInRemoval, StopBeforeSupply, EndCut, LoadFails, BeginCut, CutTx
  <2> QED BY <2>1, <2>2 DEF LifeNext
<1>6. /\ UNCHANGED <<blocks, index, txIndex, utxo, failed, times, short>> /\ pc' = "idle"
      /\ mode' \in {"down", "cut", "load"} /\ torn' = torn
  BY <1>2, <1>5
     DEF StopIdle, ForgetAll, CheckLast, CheckFails, CutDone, vars, chainVars, stateVars, ShortInv,
         HalfStop
<1>7. /\ RecordsAre' /\ ChainTxs' = ChainTxs /\ HalfStored' = HalfStored
      /\ CoinUtxoExact => CoinUtxoExact'
  BY <1>2, <1>6
     DEF ShortInv, RecordsAre, OneBlock, InBlock, LastRecord, ChainTxs, HalfStored, CoinUtxoExact
<1>8. mode' = "cut" => target' = Len(blocks') - 1
  <2>1. CASE CheckLast
    <3>1. BeforeTxs \subseteq txIndex /\ SeqRange(LastRecord) \subseteq txIndex
      BY <1>2, RecordsChain DEF ShortInv
    <3>2. Len(index) <= times
      BY <1>2, <1>3 DEF ShortInv
    <3>3. Good(Len(index) - 1)
      BY <1>2, <3>1, <3>2, CheckedFiles DEF ShortInv
    <3>4. target' = Max(Goods) /\ Goods # {}
      BY <2>1 DEF CheckLast
    <3>5. Max(Goods) = Len(index) - 1
      BY <1>2, <3>1, <3>2, <3>3, <3>4, LastGood DEF ShortInv
    <3> QED BY <1>2, <1>6, <3>4, <3>5 DEF ShortInv
  <2>2. CASE StopIdle \/ CheckFails \/ CutDone
    BY <2>2 DEF StopIdle, ForgetAll, CheckFails, CutDone
  <2> QED BY <1>5, <2>1, <2>2
<1> QED BY <1>2, <1>6, <1>7, <1>8 DEF ShortInv

\* Nothing changes while the node does nothing, or is not there.
LEMMA LifeStutter ==
  ASSUME LifeInv, UNCHANGED lifeVars
  PROVE  LifeInv'
<1>1. /\ UNCHANGED vars /\ UNCHANGED <<times, mode, target, stops, short, torn>>
      /\ UNCHANGED <<blocks, index, supply, txIndex, utxo, apps, hasRoot, pc, cur, k,
                     root, objs, minter, pending, failed>>
  BY DEF lifeVars, startVars, vars, chainVars, stateVars, checkVars
<1>2. LifeTypes'
  BY <1>1 DEF LifeInv, LifeTypes, TypeOK, AppsHaveName, Below, Height, Stored
<1>3. ChainTxs' = ChainTxs /\ BeforeTxs' = BeforeTxs /\ LastRecord' = LastRecord
      /\ Height' = Height
  BY <1>1 DEF ChainTxs, BeforeTxs, Before, LastRecord, Height
<1>4. RecordsInv => RecordsInv'
  BY <1>1, <1>3 DEF RecordsInv, RecordsAre, OneBlock, InBlock
<1>5. StepInv => StepInv'
  BY <1>1, <1>3 DEF StepInv, CurIsNew, Busy, Indexed, ToCut, Level
<1>6. CoinsInv => CoinsInv'
  <2>1. LedgerInv => LedgerInv'
    BY <1>1, LedgerInvStep
  <2>2. (SpendsEarlier => SpendsEarlier') /\ (ChainSpentOnce => ChainSpentOnce')
    BY <1>1, <1>3 DEF SpendsEarlier, InBlock, ChainSpentOnce
  <2>3. (NewSpends => NewSpends') /\ (PartlyExact => PartlyExact')
    BY <1>1, <1>3 DEF NewSpends, PartlyExact
  <2>4. CoinUtxoExact => CoinUtxoExact'
    BY <1>1 DEF CoinUtxoExact
  <2> QED BY <1>1, <1>3, <2>1, <2>2, <2>3, <2>4 DEF CoinsInv
<1>7. Sane' = Sane /\ Safe' = Safe /\ HalfStop' = HalfStop
  BY <1>1 DEF Sane, Safe, HalfStop
<1>8. ShortInv => ShortInv'
  BY <1>1, <1>3
     DEF ShortInv, RecordsAre, OneBlock, InBlock, HalfStored, CoinUtxoExact
<1> QED BY <1>2, <1>4, <1>5, <1>6, <1>7, <1>8 DEF LifeInv

\* Every step preserves the invariant.
LEMMA LifeStep == LifeInv /\ [LifeNext]_lifeVars => LifeInv'
<1> SUFFICES ASSUME LifeInv, [LifeNext]_lifeVars PROVE LifeInv'
  OBVIOUS
<1>1. CASE LifeNext
  <2>1. LifeTypes' /\ (HalfStop' => ShortInv')
    BY <1>1, LifeTypesStep, ShortBegins, ShortStays DEF LifeInv
  <2> QED BY <1>1, <2>1, LifeFilesStep, LifeCoinsStep DEF LifeInv
<1> QED BY <1>1, LifeStutter

\* The records, the index and the coins on disk agree at every step of any number of
\* runs, stops and starts, as far as no stop has left what the start does not see.
THEOREM LifeInvariant == LifeSpec => []LifeInv
BY LifeTypesInit, LifeStep, PTL DEF LifeSpec

-----------------------------------------------------------------------------
(* The theorems *)

\* Every file and variable holds what its type says, also while the node is down.
THEOREM LifeTypeCorrect == LifeSpec => []TypeOK
<1>1. LifeInv => TypeOK
  BY DEF LifeInv, LifeTypes
<1> QED BY LifeInvariant, <1>1, PTL

\* Wherever store_block, add_new_block, remove_tx or truncate_chain was interrupted,
\* also where that leaves a short record, block_load_index loads blocks whose records
\* and transactions are on disk.
THEOREM StartLoadsStored == LifeSpec => []LoadedIsStored
<1>1. ASSUME LifeInv PROVE LoadedIsStored
  <2> SUFFICES ASSUME mode = "cut", pc = "idle", ~Behind, "files" \notin torn, ~failed,
                      NEW h \in 2 .. Len(index)
               PROVE  /\ h <= Len(blocks) /\ blocks[h] = index[h]
                      /\ SeqRange(index[h]) \subseteq txIndex
    BY DEF LoadedIsStored
  <2>1. LifeTypes
    BY <1>1 DEF LifeInv
  <2>2. Len(blocks) \in Nat /\ target \in Nat /\ Len(index) \in Nat
        /\ DOMAIN index = 1 .. Len(index) /\ h \in 1 .. Len(index)
    BY <2>1, Sizes
  <2>3. RecordsAre /\ Len(blocks) = Len(index) /\ ChainTxs \subseteq txIndex
    <3>1. CASE "record" \in torn
      BY <1>1, <3>1 DEF LifeInv, HalfStop, ShortInv
    <3>2. CASE "record" \notin torn
      <4>1. RecordsInv /\ StepInv
        BY <1>1, <3>2 DEF LifeInv, Sane
      <4>2. ~ToCut
        BY <2>2 DEF Behind, ToCut
      <4> QED BY <4>1, <4>2 DEF StepInv, Level, RecordsInv
    <3> QED BY <3>1, <3>2
  <2> QED BY <2>2, <2>3 DEF RecordsAre, ChainTxs
<1> QED BY LifeInvariant, <1>1, PTL

\* The unspent outputs on disk, when they are those of the transactions on disk.
LEMMA ExactCoins ==
  ASSUME TypeOK, CoinUtxoExact, ~failed
  PROVE  {r \in utxo : Coin(r)} = CoinsOf(txIndex)
<1>1. txIndex \subseteq Tx /\ utxo \subseteq OutRef
  BY DEF TypeOK
<1>2. ASSUME NEW r
      PROVE  r \in utxo /\ Coin(r) <=> r \in CoinsOf(txIndex)
  <2>1. \A t \in txIndex : r \in Makes(t) <=> r \in OutRef /\ Coin(r) /\ r.src = t
    BY <1>1, MakesCoin, MakesSource, OutRefsType
  <2>2. r \in CoinsOf(txIndex) <=> r \in OutRef /\ Coin(r) /\ Unspent(r)
    BY <2>1 DEF CoinsOf, Unspent
  <2> QED BY <1>1, <2>2, ExactOf
<1> QED BY <1>2

\* A start that finds the chain leaves the unspent outputs of that chain, and those of
\* a block whose record is short, whatever the number of blocks, of transactions and of
\* stops, and wherever they came.
THEOREM StartKeepsChain == LifeSpec => []StartLeavesChain
<1>1. ASSUME LifeInv, ~failed, mode = "up", pc = "idle", torn = {}
      PROVE  txIndex = ChainTxs /\ {r \in utxo : Coin(r)} = ChainCoins
  <2>1. CoinInv
    BY <1>1 DEF LifeInv, Safe, CoinsInv, LedgerInv
  <2>2. txIndex = ChainTxs
    BY <1>1, <2>1 DEF CoinInv, Sound, Indexed
  <2>3. {r \in utxo : Coin(r)} = ChainCoins
    BY <1>1, <2>1, LiveCoins DEF LedgerCoins
  <2> QED BY <2>2, <2>3
<1>2. ASSUME LifeInv, ~failed, mode = "load", torn \subseteq {"record"}
      PROVE  /\ txIndex = ChainTxs \cup HalfStored
             /\ {r \in utxo : Coin(r)} = CoinsOf(txIndex)
  <2>1. LifeTypes /\ TypeOK
    BY <1>2 DEF LifeInv, LifeTypes
  <2>2. CASE "record" \in torn
    <3>1. ShortInv /\ torn = {"record"}
      BY <1>2, <2>2 DEF LifeInv, HalfStop
    <3> QED BY <1>2, <2>1, <3>1, ExactCoins DEF ShortInv
  <2>3. CASE "record" \notin torn
    <3>1. torn = {} /\ RecordsInv /\ StepInv /\ CoinsInv
      BY <1>2, <2>3 DEF LifeInv, Sane, Safe
    <3>2. CoinUtxoExact /\ txIndex = ChainTxs
      BY <1>2, <2>1, <3>1, LoadedLedger DEF LedgerInv, CoinInv, Sound, StepInv, Level
    <3>3. HalfStored = {}
      BY <2>1, <2>3 DEF LifeTypes, HalfStored
    <3> QED BY <1>2, <2>1, <3>2, <3>3, ExactCoins
  <2> QED BY <2>2, <2>3
<1>3. LifeInv => StartLeavesChain
  BY <1>1, <1>2 DEF StartLeavesChain
<1> QED BY LifeInvariant, <1>3, PTL

-----------------------------------------------------------------------------
(* A node that stops and starts is the ledger of its coins *)

\* As long as the files agree, the coins of the ledger are those of the chain.
LEMMA LifeCoinsAre == LifeInv /\ Safe => LifeCoins = ChainCoins
<1> SUFFICES ASSUME LifeInv, Safe PROVE LifeCoins = ChainCoins
  OBVIOUS
<1>1. mode = "up" => CoinInv /\ ~failed
  BY DEF LifeInv, Safe, CoinsInv, LedgerInv
<1> QED BY <1>1, LiveCoins DEF LifeCoins

\* The same after a step.
LEMMA LifeCoinsNext == (LifeInv /\ Safe => LifeCoins = ChainCoins)'
BY LifeCoinsAre, PTL

\* When the last block leaves the chain, its coins go and what it spent comes back.
LEMMA CutChainCoins ==
  ASSUME LifeTypes, LifeTypes', RecordsInv, StepInv, CoinsInv, ~failed,
         pc = "remove", pending = {}, CutFiles, txIndex' = txIndex, Len(blocks) = Len(index)
  PROVE  /\ index' = SubSeq(index, 1, Len(index) - 1) /\ Len(index) > 1
         /\ ChainCoins' = (ChainCoins \ UNION {Makes(t) : t \in SeqRange(index[Len(index)])})
                              \cup UNION {Spends(t) : t \in SeqRange(index[Len(index)])}
<1> DEFINE last == index[Len(index)]
           made == UNION {Makes(t) : t \in SeqRange(last)}
           spent == UNION {Spends(t) : t \in SeqRange(last)}
<1>1. Held /\ RecordsAre /\ txIndex = BeforeTxs /\ Len(index) > 1 /\ TypeOK
  BY HeldAlways, RemovedBefore, Sizes DEF RecordsInv
<1>2. LastRecord = last /\ ChainTxs = BeforeTxs \cup SeqRange(last) /\ ChainTxs \subseteq Tx
  BY <1>1, RecordsChain
<1>3. BeforeTxs \cap SeqRange(last) = {}
  BY <1>1, <1>2, LastApart
<1>4. ChainTxs' = BeforeTxs
  BY <1>1, CutOne
<1>5. index' = SubSeq(index, 1, Len(index) - 1)
  <2>1. Len(index) \in Nat
    BY Sizes
  <2>2. Min({Len(index), Len(blocks) - 1}) = Len(index) - 1
    BY <2>1, MinOfTwo
  <2> QED BY <2>2 DEF CutFiles
<1>6. \A t \in SeqRange(last) : \A r \in Spends(t) :
          r.src \in BeforeTxs /\ \A s \in BeforeTxs : r \notin Spends(s)
  BY <1>1, <1>2, LastSpends DEF Held
<1>7. ChainCoins' = (ChainCoins \ made) \cup spent
  <2> SUFFICES ASSUME NEW r
               PROVE  r \in ChainCoins' <=> (r \in ChainCoins /\ r \notin made) \/ r \in spent
    OBVIOUS
  <2>1. r \in ChainCoins' <=> /\ r \in OutRef /\ Coin(r) /\ r.src \in ChainTxs'
                             /\ \A s \in ChainTxs' : r \notin Spends(s)
    <3>1. r \in UNION {Makes(t) : t \in ChainTxs'}
                <=> r \in OutRef /\ Coin(r) /\ r.src \in ChainTxs'
      BY <1>2, <1>4, MakesCoin, MakesSource, OutRefsType
    <3> QED BY <3>1 DEF ChainCoins
  <2>2. r \in ChainCoins <=> /\ r \in OutRef /\ Coin(r) /\ r.src \in ChainTxs
                            /\ \A s \in ChainTxs : r \notin Spends(s)
    BY <1>2, InChainCoins
  <2>3. r \in made <=> r \in OutRef /\ Coin(r) /\ r.src \in SeqRange(last)
    BY <1>2, MakesCoin, MakesSource, OutRefsType
  <2>4. r \in spent => r \in OutRef /\ Coin(r)
    BY <1>2, SpendsCoin
  <2>5. r \in spent => r.src \in BeforeTxs /\ \A s \in BeforeTxs : r \notin Spends(s)
    BY <1>6
  <2> HIDE DEF last, made
  <2> QED BY <1>2, <1>3, <1>4, <2>1, <2>2, <2>3, <2>4, <2>5
<1> QED BY <1>1, <1>5, <1>7

\* A last record that was not in the chain goes without it.
LEMMA CutNoChain ==
  ASSUME LifeTypes, RecordsAre, CutFiles, Len(blocks) # Len(index)
  PROVE  index' = index
<1>1. Len(index) \in Nat /\ Len(blocks) = Len(index) + 1 /\ index \in Seq(Seq(Tx))
  BY RecordsChain, Sizes
<1>2. Min({Len(index), Len(blocks) - 1}) = Len(index)
  BY <1>1, MinOfTwo
<1>3. index' = SubSeq(index, 1, Len(index))
  BY <1>2 DEF CutFiles
<1> QED BY <1>1, <1>3

\* Both ways to cut a record are a step of the ledger, or none.
LEMMA CutLedger ==
  ASSUME LifeInv, LifeInv', Safe, Safe',
         pc = "remove", pending = {}, CutFiles, txIndex' = txIndex
  PROVE  LifeLedger!Retract \/ (index' = index /\ LifeCoins' = LifeCoins)
<1>1. /\ LifeTypes /\ LifeTypes' /\ RecordsInv /\ StepInv /\ CoinsInv /\ ~failed
      /\ torn = {} /\ torn' = {} /\ ~failed'
  BY DEF LifeInv, Safe, Sane
<1>2. LifeCoins = ChainCoins /\ LifeCoins' = ChainCoins'
  BY LifeCoinsAre, LifeCoinsNext
<1>3. CASE Len(blocks) = Len(index)
  BY <1>1, <1>2, <1>3, CutChainCoins
     DEF LifeLedger!Retract, LifeLedger!Made, LifeLedger!Spent, LifeLedger!Txs, SeqRange
<1>4. CASE Len(blocks) # Len(index)
  <2>1. index' = index
    BY <1>1, <1>4, CutNoChain DEF RecordsInv
  <2> QED BY <1>2, <2>1 DEF ChainCoins, ChainTxs
<1> QED BY <1>3, <1>4

\* An empty store is an empty ledger.
LEMMA LifeLedgerInit == LifeInit => LifeLedger!Init
<1> SUFFICES ASSUME LifeInit PROVE LifeLedger!Init
  OBVIOUS
<1>1. Init /\ mode = "up" /\ torn = {} /\ index = <<Genesis>> /\ ~failed
  BY DEF LifeInit, Init
<1>2. LifeCoins = {}
  BY <1>1 DEF LifeCoins, LedgerCoins, Init
<1> QED BY <1>1, <1>2 DEF LifeLedger!Init

\* Every step, a stop or a step of a start as well, is a step of the ledger or none.
LEMMA LifeLedgerStep ==
  ASSUME LifeInv, LifeInv', [LifeNext]_lifeVars
  PROVE  [LifeLedger!Next]_(LifeLedger!ledgerVars)
<1>1. CASE UNCHANGED lifeVars
  BY <1>1 DEF LifeLedger!ledgerVars, lifeVars, startVars, vars, chainVars, stateVars,
     LifeCoins, LedgerCoins, ChainCoins, ChainTxs
<1>2. CASE ~Safe'
  BY <1>2 DEF Safe, LifeLedger!Next, LifeLedger!Break
<1>3. CASE LifeNext /\ Safe'
  <2>1. Safe /\ torn = {} /\ torn' = {} /\ ~failed /\ ~failed'
    BY <1>3, TornStays DEF Safe
  <2>2. LifeCoins = ChainCoins /\ LifeCoins' = ChainCoins'
    BY <1>3, <2>1, LifeCoinsAre, LifeCoinsNext
  <2>3. ASSUME index' = index
        PROVE  UNCHANGED LifeLedger!ledgerVars
    <3>1. ChainCoins' = ChainCoins
      BY <2>3 DEF ChainCoins, ChainTxs
    <3> QED BY <2>1, <2>2, <2>3, <3>1 DEF LifeLedger!ledgerVars
  <2>4. CASE Run
    <3>1. LedgerInv /\ LedgerInv' /\ [Next]_vars /\ mode = "up" /\ mode' = "up"
      BY <1>3, <2>1, <2>4 DEF Run, LifeInv, CoinsInv
    <3>2. [Ledger!Next]_(Ledger!ledgerVars)
      BY <3>1, LedgerStep
    <3>3. LifeCoins = LedgerCoins /\ LifeCoins' = LedgerCoins'
      BY <3>1 DEF LifeCoins
    <3> QED BY <2>1, <3>2, <3>3
            DEF Ledger!Next, Ledger!ledgerVars, Ledger!Extend, Ledger!Retract, Ledger!Break,
                Ledger!Made, Ledger!Spent, Ledger!Txs,
                LifeLedger!Next, LifeLedger!ledgerVars, LifeLedger!Extend, LifeLedger!Retract,
                LifeLedger!Made, LifeLedger!Spent, LifeLedger!Txs
  <2>5. CASE StopBeforeSupply
    <3>1. pc = "remove" /\ pending = {} /\ CutFiles /\ txIndex' = txIndex
      BY <2>5 DEF StopBeforeSupply
    <3> QED BY <1>3, <2>1, <2>3, <3>1, CutLedger DEF LifeLedger!Next
  <2>6. CASE EndCut
    <3>1. pc = "remove" /\ pending = {} /\ CutFiles /\ txIndex' = txIndex
      BY <2>6 DEF EndCut, stateVars
    <3> QED BY <1>3, <2>1, <2>3, <3>1, CutLedger DEF LifeLedger!Next
  <2>7. CASE ~Run /\ ~StopBeforeSupply /\ ~EndCut
    <3>0. ~AcceptBehind /\ ~SetLastBehind /\ ~StopInStaking
      <4>1. short = <<>>
        BY <2>1 DEF LifeInv, LifeTypes
      <4> QED BY <2>1, <4>1 DEF AcceptBehind, SetLastBehind, StopInStaking
    <3>1. index' = index
      BY <1>3, <2>7, <3>0 DEF LifeNext, StopIdle, StopBeforeTx, StopInTx, StopBeforeIndex,
         StopInRemoval, CheckLast, CheckFails, BeginCut, CutTx, CutDone, LoadIndex, LoadFails,
         vars, chainVars
    <3> QED BY <2>3, <3>1
  <2> QED BY <2>4, <2>5, <2>6, <2>7
<1> QED BY <1>1, <1>2, <1>3

\* A node that stops, wherever that leaves no short record and no coins of a block the
\* start finds in order, and starts again implements the ledger of coins: at most the
\* last block leaves the chain, with what it made and what it spent.
THEOREM StopsKeepLedger == LifeSpec => SurvivesStops
BY LifeTypesInit, LifeStep, LifeLedgerInit, LifeLedgerStep, PTL
   DEF LifeSpec, SurvivesStops, LifeLedger!Spec

=============================================================================
