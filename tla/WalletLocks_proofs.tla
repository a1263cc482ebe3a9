------------------------- MODULE WalletLocks_proofs -------------------------
(***************************************************************************)
(* The payments of WalletLocks, for any number of threads, coins and       *)
(* transactions: IInv holds in every state. A coin that a transaction uses *)
(* is locked until the mempool has the transaction, so that nobody else    *)
(* locks it, and from then on whoever looks the coin up finds it there.    *)
(*                                                                         *)
(* A lemma ...Main is about the steps of the main loop and the clock, a    *)
(* lemma ...Call about the steps of a call; each has a step per action.    *)
(***************************************************************************)
EXTENDS WalletLocks, FiniteSetTheorems, TLAPS

\* A thread makes a transaction, or sends or cancels one.
Making == {"pick", "enter", "look", "lock"}
Working == {"submit", "check", "send", "cancel"}
PcInv ==
    /\ pc[Main] \in {"idle", "added", "delete"}
    /\ \A t \in Rpc : pc[t] \notin {"added", "delete"}

\* Who is in the mempool has mempool_lck.
MutexInv ==
    "liststaking" \notin use.methods =>
        \A t \in Threads : pc[t] \in {"look", "check", "delete"} => mlock = t

\* A transaction is made by one thread, and before it is anywhere else.
MakeInv ==
    /\ \A n \in Txs : n > made => ins[n] = {}
    /\ \A t \in Rpc : pc[t] \in Making \cup Working => cur[t] \in 1 .. made
    /\ \A t \in Rpc : pc[t] \in Making =>
        /\ cur[t] \notin tmp \cup submitted \cup mempool /\ age[cur[t]] >= 0
        /\ pc[t] # "pick" => coin[t] \in Coins
        /\ \A u \in Rpc : u # t /\ pc[u] \in Making \cup Working => cur[u] # cur[t]

\* What is sent or canceled has its locks, and one call.
WorkInv ==
    /\ tmp \cap (submitted \cup mempool) = {} /\ submitted \cap mempool = {}
    /\ \A t \in Rpc : pc[t] \in Working =>
        /\ cur[t] \in tmp /\ age[cur[t]] >= 0
        /\ \A u \in Rpc : u # t /\ pc[u] \in Working => cur[u] # cur[t]

\* Transaction n is on its way.
OnWay(n) ==
    \/ n \in tmp /\ age[n] >= 0
    \/ n \in submitted \cup mempool
    \/ \E t \in Rpc : pc[t] \in Making /\ cur[t] = n

\* A coin whose lock still holds.
Locked(c) == c \in locks \ done /\ left[c] >= 0

\* Until the mempool has it, a transaction has locks on all of its coins, which
\* last as long as its age says.
LockedInv == \A n \in Txs : \A c \in ins[n] :
    OnWay(n) /\ n \notin mempool => Locked(c) /\ (n \notin submitted => left[c] >= age[n])

\* A thread that has found a coin in no transaction of the mempool will not lock
\* it if somebody uses it: it is locked, or spent.
LockingInv == \A t \in Rpc : \A n \in Txs :
    OnWay(n) /\ pc[t] = "lock" /\ n # cur[t] /\ coin[t] \in ins[n] /\ coin[t] \in utxo => Locked(coin[t])

DisjointInv == \A m, n \in Txs : OnWay(m) /\ OnWay(n) /\ m # n => ins[m] \cap ins[n] = {}

CoinInv == misused = {} => WorkInv /\ LockedInv /\ LockingInv /\ DisjointInv
IInv == TypeOK /\ PcInv /\ MutexInv /\ MakeInv /\ CoinInv

USE DEF txVars, poolVars, pickVars, Txs, Threads, Goto, Expired, ClearedDone, Unlocked

\* The types.
LEMMA TypeMain ==
    ASSUME TypeOK, PcInv, MainStep \/ Tick
    PROVE TypeOK'
<1> USE AmountAssumption, WalletBoundAssumption, WalletThreadAssumption DEF TypeOK, PcInv, StakingUnspent
<1>1. CASE ProcessSubmitted
    BY SMTT(30), <1>1 DEF ProcessSubmitted
<1>2. CASE AddBlock
    <2>1. utxo' \subseteq Coins
        BY <1>2 DEF AddBlock
    <2>2. \E k \in 0 .. made : cur' = [cur EXCEPT ![Main] = k]
        <3>1. CASE \E n \in mempool : ins[n] \subseteq utxo /\ utxo' = utxo \ ins[n] /\ cur' = [cur EXCEPT ![Main] = n]
            <4>1. PICK n \in mempool : cur' = [cur EXCEPT ![Main] = n]
                BY <3>1
            <4>2. n \in 0 .. made
                OBVIOUS
            <4> QED BY <4>1, <4>2
        <3>2. CASE \E c \in StakingUnspent : utxo' = utxo \ {c} /\ cur' = [cur EXCEPT ![Main] = 0]
            <4>1. 0 \in 0 .. made
                OBVIOUS
            <4> QED BY <3>2, <4>1
        <3> QED BY <1>2, <3>1, <3>2 DEF AddBlock
    <2>3. cur' \in [Threads -> 0 .. made]
        BY <2>2
    <2>4. pc' = [pc EXCEPT ![Main] = "added"]
        BY <1>2 DEF AddBlock
    <2>5. UNCHANGED <<use, locks, left, done, txVars, tmp, poolVars, mlock, pickVars, misused>>
        BY <1>2 DEF AddBlock
    <2> QED BY <2>1, <2>3, <2>4, <2>5
<1>3. CASE MempoolLock
    BY <1>3 DEF MempoolLock
<1>4. CASE DelFromMempool
    BY <1>4 DEF DelFromMempool
<1>5. CASE ClearLocks
    BY <1>5 DEF ClearLocks
<1>6. CASE Tick
    <2>1. left' \in [Coins -> -1 .. LockTime]
        <3>1. left' = [c \in Coins |-> IF left[c] >= 0 THEN left[c] - 1 ELSE left[c]]
            BY <1>6 DEF Tick
        <3>2. \A c \in Coins : left[c] \in -1 .. LockTime
            OBVIOUS
        <3>3. \A c \in Coins : (IF left[c] >= 0 THEN left[c] - 1 ELSE left[c]) \in -1 .. LockTime
            BY <3>2
        <3> QED BY <3>1, <3>3
    <2>2. age' \in [Txs -> -1 .. LockTime]
        <3>1. age' = [n \in Txs |-> IF n <= made /\ age[n] >= 0 THEN age[n] - 1 ELSE age[n]]
            BY <1>6 DEF Tick
        <3>2. \A n \in Txs : age[n] \in -1 .. LockTime
            OBVIOUS
        <3>3. \A n \in Txs : (IF n <= made /\ age[n] >= 0 THEN age[n] - 1 ELSE age[n]) \in -1 .. LockTime
            BY <3>2
        <3> QED BY <3>1, <3>3
    <2>3. UNCHANGED <<use, utxo, locks, done, made, ins, tmp, poolVars, mlock, pc, cur, pickVars, misused>>
        BY <1>6 DEF Tick
    <2> QED BY <2>1, <2>2, <2>3
<1> QED BY <1>1, <1>2, <1>3, <1>4, <1>5, <1>6 DEF MainStep

LEMMA TypeCall ==
    ASSUME TypeOK, PcInv, MakeInv, NEW t \in Rpc, Begin(t) \/ Proceed(t)
    PROVE TypeOK'
<1> USE AmountAssumption, WalletBoundAssumption, WalletThreadAssumption DEF TypeOK, PcInv
<1>1. CASE MakeTx(t)
    BY SMTT(30), <1>1 DEF MakeTx, Misuse
<1>2. CASE SubmitTx(t)
    BY SMTT(30), <1>2 DEF SubmitTx, Misuse
<1>3. CASE CancelTx(t)
    BY <1>3 DEF CancelTx, Misuse
<1>4. CASE ListStaking(t)
    BY <1>4 DEF ListStaking, Misuse
<1>5. CASE Pick(t)
    <2>1. UNCHANGED <<use, utxo, locks, left, done, txVars, tmp, poolVars, mlock, cur, need, misused>>
        BY <1>5 DEF Pick
    <2>2. files' \in [Rpc -> SUBSET Coins] /\ coin' \in [Rpc -> Coins \cup {NoCoin}]
        BY <1>5 DEF Pick
    <2>3. pc' = pc \/ pc' = [pc EXCEPT ![t] = "enter"]
        BY <1>5 DEF Pick
    <2> QED BY <2>1, <2>2, <2>3
<1>6. CASE EnterMempool(t)
    BY <1>6 DEF EnterMempool, Misuse
<1>7. CASE LookUp(t)
    BY <1>7 DEF LookUp, Misuse
<1>8. CASE LockUnspent(t)
    <2>1. coin' \in [Rpc -> Coins \cup {NoCoin}] /\ pc' = [pc EXCEPT ![t] = "pick"]
        BY <1>8 DEF LockUnspent
    <2>2. UNCHANGED <<use, utxo, done, made, age, tmp, poolVars, mlock, cur, need, files, misused>>
        BY <1>8 DEF LockUnspent
    <2>3. cur[t] \in Txs
        BY <1>8 DEF LockUnspent, MakeInv, Making
    <2>4. CASE Lockable(coin[t])
        <3>1. coin[t] \in Coins
            BY <2>4 DEF Lockable
        <3>2. /\ locks' = locks \cup {coin[t]} /\ left' = [left EXCEPT ![coin[t]] = LockTime]
              /\ ins' = [ins EXCEPT ![cur[t]] = ins[cur[t]] \cup {coin[t]}]
            BY <1>8, <2>4 DEF LockUnspent
        <3>3. left' \in [Coins -> -1 .. LockTime]
            BY <3>1, <3>2
        <3>4. ins' \in [Txs -> SUBSET Coins]
            BY <2>3, <3>1, <3>2
        <3> QED BY <2>1, <2>2, <3>1, <3>2, <3>3, <3>4
    <2>5. CASE ~Lockable(coin[t])
        <3>1. UNCHANGED <<locks, left, ins>>
            BY <1>8, <2>5 DEF LockUnspent
        <3> QED BY <2>1, <2>2, <3>1
    <2> QED BY <2>4, <2>5
<1>9. CASE KeepTx(t)
    <2>1. cur[t] \in 1 .. made
        BY <1>9 DEF KeepTx, MakeInv, Making
    <2> QED BY <1>9, <2>1 DEF KeepTx
<1>10. CASE DropTx(t)
    BY <1>10 DEF DropTx, Misuse
<1>11. CASE SubmitLock(t)
    BY <1>11 DEF SubmitLock, Misuse
<1>12. CASE SubmitCheck(t)
    BY <1>12 DEF SubmitCheck, Misuse
<1>13. CASE SendTx(t)
    <2>1. cur[t] \in 1 .. made
        BY <1>13 DEF SendTx, MakeInv, Working
    <2> QED BY <1>13, <2>1 DEF SendTx
<1>14. CASE CancelLocks(t)
    BY <1>14 DEF CancelLocks, Misuse
<1> QED BY <1>1, <1>2, <1>3, <1>4, <1>5, <1>6, <1>7, <1>8, <1>9, <1>10, <1>11, <1>12, <1>13, <1>14 DEF Begin, Proceed

\* Who is where, and who has mempool_lck.
LEMMA PcMain ==
    ASSUME TypeOK, PcInv, MainStep \/ Tick
    PROVE PcInv'
<1> USE AmountAssumption, WalletBoundAssumption, WalletThreadAssumption DEF TypeOK, PcInv
<1>1. CASE ProcessSubmitted \/ AddBlock \/ MempoolLock \/ DelFromMempool
    BY <1>1 DEF ProcessSubmitted, AddBlock, MempoolLock, DelFromMempool
<1>2. CASE ClearLocks \/ Tick
    BY <1>2 DEF ClearLocks, Tick
<1> QED BY <1>1, <1>2 DEF MainStep

LEMMA PcCall ==
    ASSUME TypeOK, PcInv, NEW t \in Rpc, Begin(t) \/ Proceed(t)
    PROVE PcInv'
<1> USE AmountAssumption, WalletBoundAssumption, WalletThreadAssumption DEF TypeOK, PcInv
<1>1. CASE MakeTx(t) \/ SubmitTx(t) \/ CancelTx(t) \/ ListStaking(t)
    BY <1>1 DEF MakeTx, SubmitTx, CancelTx, ListStaking
<1>2. CASE Pick(t) \/ EnterMempool(t) \/ LookUp(t) \/ LockUnspent(t)
    BY <1>2 DEF Pick, EnterMempool, LookUp, LockUnspent
<1>3. CASE KeepTx(t) \/ DropTx(t) \/ SubmitLock(t) \/ SubmitCheck(t)
    BY <1>3 DEF KeepTx, DropTx, SubmitLock, SubmitCheck
<1>4. CASE SendTx(t) \/ CancelLocks(t)
    BY <1>4 DEF SendTx, CancelLocks
<1> QED BY <1>1, <1>2, <1>3, <1>4 DEF Begin, Proceed

LEMMA MutexMain ==
    ASSUME TypeOK, PcInv, MutexInv, MainStep \/ Tick
    PROVE MutexInv'
<1> USE AmountAssumption, WalletBoundAssumption, WalletThreadAssumption DEF TypeOK, PcInv, MutexInv
<1>1. CASE ProcessSubmitted \/ AddBlock \/ MempoolLock \/ DelFromMempool
    BY <1>1 DEF ProcessSubmitted, AddBlock, MempoolLock, DelFromMempool
<1>2. CASE ClearLocks \/ Tick
    BY <1>2 DEF ClearLocks, Tick
<1> QED BY <1>1, <1>2 DEF MainStep

LEMMA MutexCall ==
    ASSUME TypeOK, PcInv, MutexInv, NEW t \in Rpc, Begin(t) \/ Proceed(t)
    PROVE MutexInv'
<1> USE AmountAssumption, WalletBoundAssumption, WalletThreadAssumption DEF TypeOK, PcInv, MutexInv, LockIsFree
<1>1. CASE EnterMempool(t)
    BY <1>1 DEF EnterMempool
<1>2. CASE SubmitLock(t)
    BY <1>2 DEF SubmitLock
<1>3. CASE MakeTx(t) \/ SubmitTx(t) \/ CancelTx(t) \/ ListStaking(t)
    BY <1>3 DEF MakeTx, SubmitTx, CancelTx, ListStaking
<1>4. CASE Pick(t) \/ LookUp(t) \/ LockUnspent(t) \/ KeepTx(t)
    <2>1. CASE Pick(t)
        BY <2>1 DEF Pick
    <2>2. CASE LookUp(t)
        BY <2>2 DEF LookUp
    <2>3. CASE LockUnspent(t)
        BY <2>3 DEF LockUnspent
    <2>4. CASE KeepTx(t)
        BY <2>4 DEF KeepTx
    <2> QED BY <1>4, <2>1, <2>2, <2>3, <2>4
<1>5. CASE DropTx(t) \/ SubmitCheck(t) \/ SendTx(t) \/ CancelLocks(t)
    BY <1>5 DEF DropTx, SubmitCheck, SendTx, CancelLocks
<1> QED BY <1>1, <1>2, <1>3, <1>4, <1>5 DEF Begin, Proceed

\* A transaction belongs to the thread that makes it.
LEMMA MakeMain ==
    ASSUME TypeOK, PcInv, MakeInv, MainStep \/ Tick
    PROVE MakeInv'
<1> USE AmountAssumption, WalletBoundAssumption, WalletThreadAssumption DEF TypeOK, PcInv, MakeInv, Making, Working
<1>1. CASE AddBlock
    BY <1>1 DEF AddBlock
<1>2. CASE Tick
    BY <1>2 DEF Tick
<1>3. CASE ProcessSubmitted \/ MempoolLock \/ DelFromMempool \/ ClearLocks
    <2>1. CASE ProcessSubmitted
        BY <2>1 DEF ProcessSubmitted
    <2>2. CASE MempoolLock
        BY <2>2 DEF MempoolLock
    <2>3. CASE DelFromMempool
        BY <2>3 DEF DelFromMempool
    <2>4. CASE ClearLocks
        BY <2>4 DEF ClearLocks
    <2> QED BY <1>3, <2>1, <2>2, <2>3, <2>4
<1> QED BY <1>1, <1>2, <1>3 DEF MainStep

LEMMA MakeCall ==
    ASSUME TypeOK, PcInv, MakeInv, NEW t \in Rpc, Begin(t) \/ Proceed(t)
    PROVE MakeInv'
<1> USE AmountAssumption, WalletBoundAssumption, WalletThreadAssumption DEF TypeOK, PcInv, MakeInv, Making, Working
<1>1. CASE MakeTx(t)
    BY SMTT(30), <1>1 DEF MakeTx, Misuse
<1>2. CASE SubmitTx(t)
    BY <1>2 DEF SubmitTx, Misuse
<1>3. CASE CancelTx(t)
    BY <1>3 DEF CancelTx, Misuse
<1>4. CASE ListStaking(t)
    BY <1>4 DEF ListStaking, Misuse
<1>5. CASE Pick(t)
    BY SMTT(30), <1>5 DEF Pick, Misuse
<1>6. CASE EnterMempool(t)
    BY <1>6 DEF EnterMempool, Misuse
<1>7. CASE LookUp(t)
    BY <1>7 DEF LookUp, Misuse
<1>8. CASE LockUnspent(t)
    <2>1. pc[t] = "lock" /\ pc' = [pc EXCEPT ![t] = "pick"] /\ coin' = [coin EXCEPT ![t] = NoCoin] /\ cur[t] \in 1 .. made
        BY <1>8 DEF LockUnspent
    <2>2. made' = made /\ age' = age /\ tmp' = tmp /\ submitted' = submitted /\ mempool' = mempool /\ cur' = cur
        BY <1>8 DEF LockUnspent
    <2>3. \A n \in Txs : n # cur[t] => ins'[n] = ins[n]
        BY <1>8, <2>1 DEF LockUnspent
    <2>4. \A n \in Txs : n > made => ins'[n] = {}
        BY SMTT(30), <2>1, <2>3
    <2>5. \A u \in Rpc : (pc'[u] \in Making => pc[u] \in Making) /\ (pc'[u] \in Working => pc[u] \in Working)
        BY <2>1
    <2>6. \A u \in Rpc : pc'[u] \in Making /\ pc'[u] # "pick" => coin'[u] \in Coins
        BY <2>1
    <2> HIDE DEF Making, Working, TypeOK, PcInv
    <2>7. \A u \in Rpc : pc'[u] \in Making \cup Working => cur'[u] \in 1 .. made'
        BY <2>2, <2>5
    <2>8. \A u \in Rpc : pc'[u] \in Making => cur'[u] \notin tmp' \cup submitted' \cup mempool' /\ age'[cur'[u]] >= 0
        BY <2>2, <2>5
    <2>9. \A u, v \in Rpc : pc'[u] \in Making /\ v # u /\ pc'[v] \in Making \cup Working => cur'[v] # cur'[u]
        BY <2>2, <2>5
    <2> QED BY <2>2, <2>4, <2>6, <2>7, <2>8, <2>9 DEF MakeInv
<1>9. CASE KeepTx(t)
    BY <1>9 DEF KeepTx, Misuse
<1>10. CASE DropTx(t)
    BY <1>10 DEF DropTx, Misuse
<1>11. CASE SubmitLock(t)
    BY <1>11 DEF SubmitLock, Misuse
<1>12. CASE SubmitCheck(t)
    BY SMTT(30), <1>12 DEF SubmitCheck, Misuse
<1>13. CASE SendTx(t)
    BY <1>13 DEF SendTx, Misuse
<1>14. CASE CancelLocks(t)
    BY <1>14 DEF CancelLocks, Misuse
<1> QED BY <1>1, <1>2, <1>3, <1>4, <1>5, <1>6, <1>7, <1>8, <1>9, <1>10, <1>11, <1>12, <1>13, <1>14 DEF Begin, Proceed

\* A step puts nothing on its way, except that maketxfrom starts with a transaction
\* that has no coin yet.
LEMMA WayMain ==
    ASSUME TypeOK, PcInv, MakeInv, NEW n \in Txs, OnWay(n)', MainStep \/ Tick
    PROVE OnWay(n) /\ ins'[n] = ins[n]
<1> USE AmountAssumption, WalletBoundAssumption, WalletThreadAssumption DEF TypeOK, PcInv, MakeInv, Making, Working, OnWay
<1>1. CASE AddBlock
    BY <1>1 DEF AddBlock
<1>2. CASE Tick
    BY <1>2 DEF Tick
<1>3. CASE ProcessSubmitted \/ MempoolLock \/ DelFromMempool \/ ClearLocks
    BY <1>3 DEF ProcessSubmitted, MempoolLock, DelFromMempool, ClearLocks
<1> QED BY <1>1, <1>2, <1>3 DEF MainStep

LEMMA WayCall ==
    ASSUME TypeOK, PcInv, MakeInv, WorkInv, NEW n \in Txs, OnWay(n)', NEW t \in Rpc, Begin(t) \/ Proceed(t)
    PROVE OnWay(n) \/ ins'[n] = {}
<1> USE AmountAssumption, WalletBoundAssumption, WalletThreadAssumption DEF TypeOK, PcInv, MakeInv, Making, Working, WorkInv, OnWay
<1>1. CASE MakeTx(t)
    BY <1>1 DEF MakeTx, Misuse
<1>2. CASE SubmitTx(t)
    BY <1>2 DEF SubmitTx, Misuse
<1>3. CASE CancelTx(t)
    BY <1>3 DEF CancelTx, Misuse
<1>4. CASE ListStaking(t)
    BY <1>4 DEF ListStaking, Misuse
<1>5. CASE Pick(t)
    BY <1>5 DEF Pick, Misuse
<1>6. CASE EnterMempool(t)
    BY <1>6 DEF EnterMempool, Misuse
<1>7. CASE LookUp(t)
    BY <1>7 DEF LookUp, Misuse
<1>8. CASE LockUnspent(t)
    BY <1>8 DEF LockUnspent, Misuse
<1>9. CASE KeepTx(t)
    BY <1>9 DEF KeepTx, Misuse
<1>10. CASE DropTx(t)
    BY <1>10 DEF DropTx, Misuse
<1>11. CASE SubmitLock(t)
    BY <1>11 DEF SubmitLock, Misuse
<1>12. CASE SubmitCheck(t)
    BY <1>12 DEF SubmitCheck, Misuse
<1>13. CASE SendTx(t)
    BY <1>13 DEF SendTx, Misuse
<1>14. CASE CancelLocks(t)
    BY <1>14 DEF CancelLocks, Misuse
<1> QED BY <1>1, <1>2, <1>3, <1>4, <1>5, <1>6, <1>7, <1>8, <1>9, <1>10, <1>11, <1>12, <1>13, <1>14 DEF Begin, Proceed

\* What is sent or canceled: one call, in time, because nothing was misused.
LEMMA WorkMain ==
    ASSUME TypeOK, PcInv, MakeInv, WorkInv, MainStep \/ Tick
    PROVE WorkInv'
<1> USE AmountAssumption, WalletBoundAssumption, WalletThreadAssumption DEF TypeOK, PcInv, MakeInv, Making, Working, WorkInv
<1>1. CASE AddBlock
    BY <1>1 DEF AddBlock
<1>2. CASE Tick
    BY <1>2 DEF Tick
<1>3. CASE ProcessSubmitted \/ MempoolLock \/ DelFromMempool \/ ClearLocks
    BY <1>3 DEF ProcessSubmitted, MempoolLock, DelFromMempool, ClearLocks
<1> QED BY <1>1, <1>2, <1>3 DEF MainStep

LEMMA WorkCall ==
    ASSUME TypeOK, PcInv, MakeInv, WorkInv, misused' = {}, NEW t \in Rpc, Begin(t) \/ Proceed(t)
    PROVE WorkInv'
<1> USE AmountAssumption, WalletBoundAssumption, WalletThreadAssumption DEF TypeOK, PcInv, MakeInv, Making, Working, WorkInv
<1>1. CASE MakeTx(t)
    BY <1>1 DEF MakeTx
<1>2. CASE SubmitTx(t)
    <2>1. PICK n \in tmp : cur' = [cur EXCEPT ![t] = n] /\ ~Misuse(t, n)
        BY <1>2 DEF SubmitTx
    <2>2. age[n] >= 0 /\ \A u \in Rpc : u # t /\ pc[u] \in Working => cur[u] # n
        BY <2>1 DEF Misuse
    <2>3. pc' = [pc EXCEPT ![t] = "submit"]
        BY <1>2 DEF SubmitTx
    <2>4. tmp' = tmp /\ submitted' = submitted /\ mempool' = mempool /\ age' = age
        BY <1>2 DEF SubmitTx
    <2> QED BY <2>1, <2>2, <2>3, <2>4
<1>3. CASE CancelTx(t)
    <2>1. PICK n \in tmp : cur' = [cur EXCEPT ![t] = n] /\ ~Misuse(t, n)
        BY <1>3 DEF CancelTx
    <2>2. age[n] >= 0 /\ \A u \in Rpc : u # t /\ pc[u] \in Working => cur[u] # n
        BY <2>1 DEF Misuse
    <2>3. pc' = [pc EXCEPT ![t] = "cancel"]
        BY <1>3 DEF CancelTx
    <2>4. tmp' = tmp /\ submitted' = submitted /\ mempool' = mempool /\ age' = age
        BY <1>3 DEF CancelTx
    <2> QED BY <2>1, <2>2, <2>3, <2>4
<1>4. CASE ListStaking(t)
    BY <1>4 DEF ListStaking
<1>5. CASE Pick(t)
    BY <1>5 DEF Pick
<1>6. CASE EnterMempool(t)
    BY <1>6 DEF EnterMempool
<1>7. CASE LookUp(t)
    BY <1>7 DEF LookUp
<1>8. CASE LockUnspent(t)
    BY <1>8 DEF LockUnspent
<1>9. CASE KeepTx(t)
    BY <1>9 DEF KeepTx
<1>10. CASE DropTx(t)
    BY <1>10 DEF DropTx
<1>11. CASE SubmitLock(t)
    BY <1>11 DEF SubmitLock
<1>12. CASE SubmitCheck(t)
    BY <1>12 DEF SubmitCheck
<1>13. CASE SendTx(t)
    BY <1>13 DEF SendTx
<1>14. CASE CancelLocks(t)
    BY <1>14 DEF CancelLocks
<1> QED BY <1>1, <1>2, <1>3, <1>4, <1>5, <1>6, <1>7, <1>8, <1>9, <1>10, <1>11, <1>12, <1>13, <1>14 DEF Begin, Proceed

\* Locks: what holds stays, for the coins of a transaction that stays on its way.
LEMMA LockedMain ==
    ASSUME TypeOK, PcInv, MakeInv, WorkInv, LockedInv,
           NEW n \in Txs, OnWay(n), OnWay(n)', n \notin mempool', NEW c \in ins[n], MainStep \/ Tick
    PROVE n \notin mempool /\ Locked(c)' /\ (n \notin submitted' => left'[c] >= age'[n])
<1> USE AmountAssumption, WalletBoundAssumption, WalletThreadAssumption DEF TypeOK, PcInv, MakeInv, Making, Working, WorkInv, OnWay, Locked, LockedInv
<1>1. CASE AddBlock
    BY <1>1 DEF AddBlock
<1>2. CASE DelFromMempool
    BY SMTT(30), <1>2 DEF DelFromMempool
<1>3. CASE Tick
    <2>1. n \in tmp /\ age'[n] >= 0 /\ n \notin mempool
        BY <1>3 DEF Tick
    <2>2. n \in 1 .. made /\ n \notin submitted /\ c \in Coins
        BY <2>1, <1>3 DEF Tick
    <2>3. age[n] >= 1 /\ age'[n] = age[n] - 1
        BY <1>3, <2>1, <2>2 DEF Tick
    <2>4. Locked(c) /\ left[c] >= age[n]
        BY <2>1, <2>2
    <2>5. left'[c] = left[c] - 1 /\ locks' = locks /\ done' = done
        BY <1>3, <2>2, <2>4 DEF Tick
    <2>6. left[c] \in Int /\ age[n] \in Int
        BY <2>2
    <2>7. left'[c] >= 0 /\ left'[c] >= age'[n]
        BY SMTT(30), <2>3, <2>4, <2>5, <2>6
    <2> QED BY <2>1, <2>4, <2>5, <2>7
<1>4. CASE ProcessSubmitted \/ MempoolLock \/ ClearLocks
    <2>1. CASE ProcessSubmitted
        BY <2>1 DEF ProcessSubmitted
    <2>2. CASE MempoolLock
        BY <2>2 DEF MempoolLock
    <2>3. CASE ClearLocks
        BY <2>3 DEF ClearLocks
    <2> QED BY <1>4, <2>1, <2>2, <2>3
<1> QED BY <1>1, <1>2, <1>3, <1>4 DEF MainStep

LEMMA LockStays ==
    ASSUME TypeOK, PcInv, MakeInv, WorkInv, DisjointInv,
           NEW n \in Txs, OnWay(n), OnWay(n)', NEW c \in ins[n], Locked(c), NEW t \in Rpc, Begin(t) \/ Proceed(t)
    PROVE Locked(c)' /\ left'[c] = left[c]
<1> USE AmountAssumption, WalletBoundAssumption, WalletThreadAssumption DEF TypeOK, PcInv, MakeInv, Making, Working, WorkInv, OnWay, Locked
<1>1. CASE MakeTx(t)
    BY <1>1 DEF MakeTx
<1>2. CASE SubmitTx(t)
    BY <1>2 DEF SubmitTx
<1>3. CASE CancelTx(t)
    BY <1>3 DEF CancelTx
<1>4. CASE ListStaking(t)
    BY <1>4 DEF ListStaking
<1>5. CASE Pick(t)
    BY <1>5 DEF Pick
<1>6. CASE EnterMempool(t)
    BY <1>6 DEF EnterMempool
<1>7. CASE LookUp(t)
    BY <1>7 DEF LookUp
<1>8. CASE LockUnspent(t)
    <2>1. c \in locks /\ done' = done
        BY <1>8 DEF LockUnspent
    <2>2. locks \subseteq locks' /\ left'[c] = left[c]
        BY <1>8, <2>1 DEF LockUnspent, Lockable
    <2> QED BY <2>1, <2>2
<1>9. CASE KeepTx(t)
    BY <1>9 DEF KeepTx
<1>10. CASE DropTx(t)
    <2>1. OnWay(cur[t]) /\ cur[t] \in 1 .. made /\ n # cur[t]
        BY <1>10 DEF DropTx
    <2>2. c \notin ins[cur[t]]
        <3>1. cur[t] \in Txs
            BY <2>1
        <3> HIDE DEF OnWay, TypeOK, PcInv, MakeInv, WorkInv
        <3> QED BY <2>1, <3>1 DEF DisjointInv
    <2>3. done' = done \cup (ins[cur[t]] \cap locks) /\ locks' = locks /\ left' = left /\ age' = age
        BY <1>10 DEF DropTx
    <2>4. submitted' = submitted /\ mempool' = mempool
        BY <1>10 DEF DropTx
    <2> QED BY <2>2, <2>3, <2>4
<1>11. CASE SubmitLock(t)
    BY <1>11 DEF SubmitLock
<1>12. CASE SubmitCheck(t)
    BY <1>12 DEF SubmitCheck
<1>13. CASE SendTx(t)
    BY <1>13 DEF SendTx
<1>14. CASE CancelLocks(t)
    <2>1. OnWay(cur[t]) /\ cur[t] \in 1 .. made /\ n # cur[t]
        BY SMTT(30), <1>14 DEF CancelLocks
    <2>2. c \notin ins[cur[t]]
        <3>1. cur[t] \in Txs
            BY <2>1
        <3> HIDE DEF OnWay, TypeOK, PcInv, MakeInv, WorkInv
        <3> QED BY <2>1, <3>1 DEF DisjointInv
    <2>3. done' = done \cup (ins[cur[t]] \cap locks) /\ locks' = locks /\ left' = left /\ age' = age
        BY <1>14 DEF CancelLocks
    <2>4. submitted' = submitted /\ mempool' = mempool
        BY <1>14 DEF CancelLocks
    <2> QED BY <2>2, <2>3, <2>4
<1> QED BY <1>1, <1>2, <1>3, <1>4, <1>5, <1>6, <1>7, <1>8, <1>9, <1>10, <1>11, <1>12, <1>13, <1>14 DEF Begin, Proceed

\* A coin is added to a transaction with its lock.
LEMMA AddedIsLocked ==
    ASSUME TypeOK, PcInv, MakeInv, NEW n \in Txs, NEW c \in ins'[n], c \notin ins[n], NEW t \in Rpc, Begin(t) \/ Proceed(t)
    PROVE /\ pc[t] = "lock" /\ n = cur[t] /\ c = coin[t] /\ c \in utxo \ locks
          /\ Locked(c)' /\ left'[c] >= age'[n]
<1> USE AmountAssumption, WalletBoundAssumption, WalletThreadAssumption DEF TypeOK, PcInv, MakeInv, Making, Working, Locked
<1>1. CASE MakeTx(t)
    BY <1>1 DEF MakeTx
<1>2. CASE SubmitTx(t)
    BY <1>2 DEF SubmitTx
<1>3. CASE CancelTx(t)
    BY <1>3 DEF CancelTx
<1>4. CASE ListStaking(t)
    BY <1>4 DEF ListStaking
<1>5. CASE Pick(t)
    BY <1>5 DEF Pick
<1>6. CASE EnterMempool(t)
    BY <1>6 DEF EnterMempool
<1>7. CASE LookUp(t)
    BY <1>7 DEF LookUp
<1>8. CASE LockUnspent(t)
    <2>1. cur[t] \in Txs
        BY <1>8 DEF LockUnspent
    <2>2. Lockable(coin[t]) /\ n = cur[t] /\ c = coin[t]
        BY SMTT(30), <1>8, <2>1 DEF LockUnspent
    <2>3. coin[t] \in Coins
        BY <2>2 DEF Lockable
    <2>4. locks' = locks \cup {c} /\ left' = [left EXCEPT ![c] = LockTime] /\ age' = age /\ done' = done
        BY <1>8, <2>2 DEF LockUnspent
    <2>5. c \notin done /\ left'[c] >= age'[n]
        BY <2>1, <2>2, <2>3, <2>4 DEF Lockable
    <2>6. left'[c] >= 0
        BY <2>3, <2>2, <2>4
    <2> QED BY <1>8, <2>2, <2>4, <2>5, <2>6 DEF Lockable, LockUnspent
<1>9. CASE KeepTx(t)
    BY <1>9 DEF KeepTx
<1>10. CASE DropTx(t)
    BY <1>10 DEF DropTx
<1>11. CASE SubmitLock(t)
    BY <1>11 DEF SubmitLock
<1>12. CASE SubmitCheck(t)
    BY <1>12 DEF SubmitCheck
<1>13. CASE SendTx(t)
    BY <1>13 DEF SendTx
<1>14. CASE CancelLocks(t)
    BY <1>14 DEF CancelLocks
<1> QED BY <1>1, <1>2, <1>3, <1>4, <1>5, <1>6, <1>7, <1>8, <1>9, <1>10, <1>11, <1>12, <1>13, <1>14 DEF Begin, Proceed

\* What a call leaves alone.
LEMMA CallKeeps ==
    ASSUME TypeOK, PcInv, MakeInv, NEW t \in Rpc, Begin(t) \/ Proceed(t)
    PROVE mempool' = mempool /\ submitted \subseteq submitted' /\ utxo' = utxo /\ \A n \in 1 .. made : age'[n] = age[n]
<1> USE AmountAssumption, WalletBoundAssumption, WalletThreadAssumption DEF TypeOK
<1>1. CASE MakeTx(t)
    BY <1>1 DEF MakeTx
<1>2. CASE SubmitTx(t) \/ CancelTx(t) \/ ListStaking(t) \/ Pick(t)
    BY <1>2 DEF SubmitTx, CancelTx, ListStaking, Pick
<1>3. CASE EnterMempool(t) \/ LookUp(t) \/ LockUnspent(t) \/ KeepTx(t)
    BY <1>3 DEF EnterMempool, LookUp, LockUnspent, KeepTx
<1>4. CASE DropTx(t) \/ SubmitLock(t) \/ SubmitCheck(t) \/ SendTx(t)
    BY <1>4 DEF DropTx, SubmitLock, SubmitCheck, SendTx
<1>5. CASE CancelLocks(t)
    BY <1>5 DEF CancelLocks
<1> QED BY <1>1, <1>2, <1>3, <1>4, <1>5 DEF Begin, Proceed

\* What the main loop leaves alone.
LEMMA MainFrame ==
    ASSUME TypeOK, MainStep \/ Tick
    PROVE ins' = ins /\ coin' = coin /\ utxo' \subseteq utxo /\ \A u \in Rpc : pc'[u] = pc[u] /\ cur'[u] = cur[u]
<1> USE AmountAssumption, WalletBoundAssumption, WalletThreadAssumption DEF TypeOK
<1>1. CASE AddBlock
    BY <1>1 DEF AddBlock
<1>2. CASE ProcessSubmitted \/ MempoolLock \/ DelFromMempool \/ ClearLocks
    BY <1>2 DEF ProcessSubmitted, MempoolLock, DelFromMempool, ClearLocks
<1>3. CASE Tick
    BY <1>3 DEF Tick
<1> QED BY <1>1, <1>2, <1>3 DEF MainStep

LEMMA MainKeepsLocks ==
    ASSUME TypeOK, ~Tick, NEW c \in Coins, Locked(c), MainStep \/ Tick
    PROVE Locked(c)'
<1> USE AmountAssumption, WalletBoundAssumption, WalletThreadAssumption DEF TypeOK, Locked
<1>1. CASE ClearLocks
    BY <1>1 DEF ClearLocks
<1>2. CASE ProcessSubmitted \/ AddBlock \/ MempoolLock \/ DelFromMempool
    BY <1>2 DEF ProcessSubmitted, AddBlock, MempoolLock, DelFromMempool
<1>3. CASE Tick
    BY <1>3 DEF Tick
<1> QED BY <1>1, <1>2, <1>3 DEF MainStep

\* A thread that is about to lock a coin of a transaction in the mempool was so before:
\* find_mempool_inputs would have found it.
LEMMA FoundFree ==
    ASSUME TypeOK, MakeInv, NEW u \in Rpc, pc'[u] = "lock", NEW n \in mempool, coin'[u] \in ins[n], NEW t \in Rpc, Begin(t) \/ Proceed(t)
    PROVE pc[u] = "lock" /\ cur'[u] = cur[u] /\ coin'[u] = coin[u]
<1> USE AmountAssumption, WalletBoundAssumption, WalletThreadAssumption DEF TypeOK
<1>1. CASE Pick(t)
    BY <1>1 DEF Pick
<1>2. CASE LookUp(t)
    <2>1. CASE u = t
        BY <1>2, <2>1 DEF LookUp, Spendable, InMempool
    <2>2. CASE u # t
        BY <1>2, <2>2 DEF LookUp
    <2> QED BY <2>1, <2>2
<1>3. CASE LockUnspent(t)
    BY <1>3 DEF LockUnspent
<1>4. CASE MakeTx(t) \/ SubmitTx(t) \/ CancelTx(t) \/ ListStaking(t)
    BY <1>4 DEF MakeTx, SubmitTx, CancelTx, ListStaking
<1>5. CASE EnterMempool(t) \/ KeepTx(t) \/ DropTx(t) \/ SubmitLock(t)
    BY <1>5 DEF EnterMempool, KeepTx, DropTx, SubmitLock
<1>6. CASE SubmitCheck(t) \/ SendTx(t) \/ CancelLocks(t)
    BY <1>6 DEF SubmitCheck, SendTx, CancelLocks
<1> QED BY <1>1, <1>2, <1>3, <1>4, <1>5, <1>6 DEF Begin, Proceed

\* From here the parts of CoinInv, for all transactions.
LEMMA LockedMainStep ==
    ASSUME TypeOK, PcInv, MakeInv, WorkInv, LockedInv, MainStep \/ Tick
    PROVE  LockedInv'
<1> SUFFICES ASSUME NEW n \in Txs, NEW c \in ins'[n], OnWay(n)', n \notin mempool'
             PROVE  Locked(c)' /\ (n \notin submitted' => left'[c] >= age'[n])
    BY DEF LockedInv
<1>1. OnWay(n) /\ ins'[n] = ins[n]
    BY WayMain
<1> QED BY <1>1, LockedMain

LEMMA LockingMainStep ==
    ASSUME TypeOK, PcInv, MakeInv, LockingInv, MainStep \/ Tick
    PROVE  LockingInv'
<1> SUFFICES ASSUME NEW u \in Rpc, NEW n \in Txs, OnWay(n)', pc'[u] = "lock", n # cur'[u],
                    coin'[u] \in ins'[n], coin'[u] \in utxo'
             PROVE  Locked(coin[u])'
    <2>1. coin' = coin
        BY MainFrame
    <2> QED BY <2>1 DEF LockingInv, Locked
<1>1. coin' = coin /\ utxo' \subseteq utxo /\ pc[u] = "lock" /\ cur'[u] = cur[u]
    BY MainFrame
<1>2. OnWay(n) /\ ins'[n] = ins[n]
    BY WayMain
<1>3. Locked(coin[u])
    BY <1>1, <1>2 DEF LockingInv
<1>4. ~Tick
    BY <1>1 DEF Tick
<1>5. coin[u] \in Coins
    BY <1>3 DEF Locked, TypeOK
<1>6. PICK c \in Coins : c = coin[u]
    BY <1>5
<1>7. Locked(c)'
    BY <1>3, <1>4, <1>6, MainKeepsLocks
<1> QED BY <1>1, <1>6, <1>7 DEF Locked

LEMMA DisjointMainStep ==
    ASSUME TypeOK, PcInv, MakeInv, DisjointInv, MainStep \/ Tick
    PROVE  DisjointInv'
<1> SUFFICES ASSUME NEW m \in Txs, NEW n \in Txs, OnWay(m)', OnWay(n)', m # n
             PROVE  ins'[m] \cap ins'[n] = {}
    BY DEF DisjointInv
<1>1. OnWay(m) /\ ins'[m] = ins[m] /\ OnWay(n) /\ ins'[n] = ins[n]
    BY WayMain
<1> QED BY <1>1 DEF DisjointInv

LEMMA LockedCallStep ==
    ASSUME TypeOK, PcInv, MakeInv, WorkInv, LockedInv, DisjointInv, NEW t \in Rpc, Begin(t) \/ Proceed(t)
    PROVE  LockedInv'
<1> SUFFICES ASSUME NEW n \in Txs, NEW c \in ins'[n], OnWay(n)', n \notin mempool'
             PROVE  Locked(c)' /\ (n \notin submitted' => left'[c] >= age'[n])
    BY DEF LockedInv
<1>1. CASE c \in ins[n]
    <2>1. OnWay(n)
        BY <1>1, WayCall
    <2>2. n \notin mempool /\ (n \notin submitted' => n \notin submitted)
        BY CallKeeps
    <2>3. Locked(c) /\ (n \notin submitted => left[c] >= age[n])
        BY <1>1, <2>1, <2>2 DEF LockedInv
    <2>4. Locked(c)' /\ left'[c] = left[c]
        BY <1>1, <2>1, <2>3, LockStays
    <2>5. n \in 1 .. made
        BY <1>1, WalletBoundAssumption DEF MakeInv, TypeOK
    <2>6. age'[n] = age[n]
        BY <2>5, CallKeeps
    <2> QED BY <2>2, <2>3, <2>4, <2>6
<1>2. CASE c \notin ins[n]
    BY <1>2, AddedIsLocked
<1> QED BY <1>1, <1>2

LEMMA LockingCallStep ==
    ASSUME TypeOK, PcInv, MakeInv, WorkInv, LockedInv, LockingInv, DisjointInv, NEW t \in Rpc, Begin(t) \/ Proceed(t)
    PROVE  LockingInv'
<1> SUFFICES ASSUME NEW u \in Rpc, NEW n \in Txs, OnWay(n)', pc'[u] = "lock", n # cur'[u], NEW c \in ins'[n],
                    c = coin'[u], c \in utxo'
             PROVE  Locked(c)'
    BY DEF LockingInv, Locked
<1>1. CASE c \in ins[n]
    <2>1. OnWay(n)
        BY <1>1, WayCall
    <2>2. utxo' = utxo
        BY CallKeeps
    <2>3. CASE n \notin mempool
        <3>1. Locked(c)
            BY <1>1, <2>1, <2>3 DEF LockedInv
        <3> QED BY <1>1, <2>1, <3>1, LockStays
    <2>4. CASE n \in mempool
        <3>1. pc[u] = "lock" /\ cur'[u] = cur[u] /\ coin'[u] = coin[u]
            BY <1>1, <2>4, FoundFree
        <3>2. Locked(c)
            BY <1>1, <2>1, <2>2, <3>1 DEF LockingInv
        <3> QED BY <1>1, <2>1, <3>2, LockStays
    <2> QED BY <2>3, <2>4
<1>2. CASE c \notin ins[n]
    BY <1>2, AddedIsLocked
<1> QED BY <1>1, <1>2

LEMMA DisjointCallStep ==
    ASSUME TypeOK, PcInv, MakeInv, WorkInv, LockingInv, DisjointInv, NEW t \in Rpc, Begin(t) \/ Proceed(t)
    PROVE  DisjointInv'
<1>1. ASSUME NEW m \in Txs, NEW n \in Txs, OnWay(m)', OnWay(n)', m # n, NEW c \in ins'[m], c \in ins'[n], c \notin ins[m]
      PROVE  FALSE
    <2>1. pc[t] = "lock" /\ m = cur[t] /\ c = coin[t] /\ c \in utxo \ locks
        BY <1>1, AddedIsLocked
    <2>2. c \in ins[n]
        BY <1>1, <2>1, AddedIsLocked
    <2>3. OnWay(n)
        BY <1>1, WayCall
    <2>4. Locked(c)
        BY <1>1, <2>1, <2>2, <2>3 DEF LockingInv
    <2> QED BY <2>1, <2>4 DEF Locked
<1>2. ASSUME NEW m \in Txs, NEW n \in Txs, OnWay(m)', OnWay(n)', m # n, NEW c \in ins[m], c \in ins[n], c \in ins'[m], c \in ins'[n]
      PROVE  FALSE
    <2>1. OnWay(m) /\ OnWay(n)
        BY <1>2, WayCall
    <2> QED BY <1>2, <2>1 DEF DisjointInv
<1>3. ASSUME NEW m \in Txs, NEW n \in Txs, OnWay(m)', OnWay(n)', m # n, NEW c \in ins'[m], c \in ins'[n]
      PROVE  FALSE
    <2>1. CASE c \notin ins[m]
        BY <1>1, <1>3, <2>1
    <2>2. CASE c \notin ins[n]
        BY <1>1, <1>3, <2>2
    <2>3. CASE c \in ins[m] /\ c \in ins[n]
        BY <1>2, <1>3, <2>3
    <2> QED BY <2>1, <2>2, <2>3
<1> QED BY <1>3 DEF DisjointInv

\* A misuse is not forgotten.
LEMMA MisusedGrows ==
    ASSUME misused' = {}, MainStep \/ Tick
    PROVE misused = {}
<1> USE DEF Misuse
<1>1. CASE ProcessSubmitted \/ AddBlock \/ MempoolLock \/ DelFromMempool
    BY <1>1 DEF ProcessSubmitted, AddBlock, MempoolLock, DelFromMempool
<1>2. CASE ClearLocks \/ Tick
    BY <1>2 DEF ClearLocks, Tick
<1> QED BY <1>1, <1>2 DEF MainStep

LEMMA MisusedStays ==
    ASSUME misused' = {}, NEW t \in Rpc, Begin(t) \/ Proceed(t)
    PROVE misused = {}
<1> USE DEF Misuse
<1>1. CASE SubmitTx(t)
    BY <1>1 DEF SubmitTx
<1>2. CASE CancelTx(t)
    BY <1>2 DEF CancelTx
<1>3. CASE MakeTx(t) \/ ListStaking(t) \/ Pick(t) \/ EnterMempool(t)
    BY <1>3 DEF MakeTx, ListStaking, Pick, EnterMempool
<1>4. CASE LookUp(t) \/ LockUnspent(t) \/ KeepTx(t) \/ DropTx(t)
    BY <1>4 DEF LookUp, LockUnspent, KeepTx, DropTx
<1>5. CASE SubmitLock(t) \/ SubmitCheck(t) \/ SendTx(t) \/ CancelLocks(t)
    BY <1>5 DEF SubmitLock, SubmitCheck, SendTx, CancelLocks
<1> QED BY <1>1, <1>2, <1>3, <1>4, <1>5 DEF Begin, Proceed

\* The invariant.
LEMMA InitInv == Init => IInv
<1> SUFFICES ASSUME Init PROVE IInv
    OBVIOUS
<1> USE AmountAssumption, WalletBoundAssumption, WalletThreadAssumption DEF Init
<1>1. TypeOK
    BY DEF TypeOK
<1>2. PcInv /\ MutexInv
    BY DEF PcInv, MutexInv
<1>3. MakeInv
    BY DEF MakeInv, Making, Working
<1>4. WorkInv /\ LockedInv /\ LockingInv /\ DisjointInv
    BY DEF WorkInv, LockedInv, LockingInv, DisjointInv, Working
<1> QED BY <1>1, <1>2, <1>3, <1>4 DEF IInv, CoinInv

LEMMA MainKeeps ==
    ASSUME IInv, MainStep \/ Tick
    PROVE  IInv'
<1>1. TypeOK' /\ PcInv' /\ MutexInv' /\ MakeInv'
    BY TypeMain, PcMain, MutexMain, MakeMain DEF IInv
<1>2. CoinInv'
    <2> SUFFICES ASSUME misused' = {} PROVE WorkInv' /\ LockedInv' /\ LockingInv' /\ DisjointInv'
        BY DEF CoinInv
    <2>1. misused = {}
        BY MisusedGrows
    <2>2. WorkInv /\ LockedInv /\ LockingInv /\ DisjointInv
        BY <2>1 DEF IInv, CoinInv
    <2> QED BY <2>2, WorkMain, LockedMainStep, LockingMainStep, DisjointMainStep DEF IInv
<1> QED BY <1>1, <1>2 DEF IInv

LEMMA CallKeepsInv ==
    ASSUME IInv, NEW t \in Rpc, Begin(t) \/ Proceed(t)
    PROVE  IInv'
<1>1. TypeOK' /\ PcInv' /\ MutexInv' /\ MakeInv'
    BY TypeCall, PcCall, MutexCall, MakeCall DEF IInv
<1>2. CoinInv'
    <2> SUFFICES ASSUME misused' = {} PROVE WorkInv' /\ LockedInv' /\ LockingInv' /\ DisjointInv'
        BY DEF CoinInv
    <2>1. misused = {}
        BY MisusedStays
    <2>2. WorkInv /\ LockedInv /\ LockingInv /\ DisjointInv
        BY <2>1 DEF IInv, CoinInv
    <2> QED BY <2>2, WorkCall, LockedCallStep, LockingCallStep, DisjointCallStep DEF IInv
<1> QED BY <1>1, <1>2 DEF IInv

\* A step that changes nothing.
LEMMA StutterKeeps == IInv /\ UNCHANGED vars => IInv'
<1> SUFFICES ASSUME IInv, UNCHANGED vars PROVE IInv'
    OBVIOUS
<1> USE DEF vars, IInv
<1>1. TypeOK' /\ PcInv' /\ MutexInv'
    BY DEF TypeOK, PcInv, MutexInv
<1>2. MakeInv'
    BY DEF MakeInv
<1>3. CoinInv'
    BY DEF CoinInv, WorkInv, LockedInv, LockingInv, DisjointInv, OnWay, Locked
<1> QED BY <1>1, <1>2, <1>3

\* The invariant holds in every state: the parts say who owns a transaction, which locks
\* its coins have, and what a thread that is about to lock a coin can rely on.
THEOREM PaymentInvariant == Spec => []IInv
<1>1. IInv /\ [Next]_vars => IInv'
    BY MainKeeps, CallKeepsInv, StutterKeeps DEF Next
<1> QED BY <1>1, InitInv, PTL DEF Spec

\* Every variable has its type: what is waiting, sent or in the mempool was made by
\* maketxfrom, and the entries that are done are entries.
THEOREM PaymentTypeCorrect == Spec => []TypeOK
<1>1. IInv => TypeOK
    BY DEF IInv
<1> QED BY <1>1, PaymentInvariant, PTL

\* What is on its way is a transaction, and OnWay says which.
LEMMA OnTheWayIsOnWay ==
    ASSUME TypeOK, MakeInv, NEW n \in OnTheWay
    PROVE  n \in Txs /\ OnWay(n)
    BY AmountAssumption, WalletBoundAssumption, WalletThreadAssumption DEF OnTheWay, OnWay, TypeOK, MakeInv, Making

\* Two payments on their way never share a coin, though maketxfrom of several threads
\* looks at the files, the mempool and the locks one after the other, without one lock
\* over all three (wallet.c, lock_unspent): unless a transaction is sent or canceled
\* after its locks ran out, or by two calls at once.
THEOREM CoinsAreUsedOnce == Spec => []CoinsUsedOnce
<1>1. IInv => CoinsUsedOnce
    <2> SUFFICES ASSUME IInv, misused = {}, NEW m \in OnTheWay, NEW n \in OnTheWay, m # n
                 PROVE  ins[m] \cap ins[n] = {}
        BY DEF CoinsUsedOnce
    <2>1. m \in Txs /\ OnWay(m) /\ n \in Txs /\ OnWay(n)
        BY OnTheWayIsOnWay DEF IInv
    <2> QED BY <2>1 DEF IInv, CoinInv, DisjointInv
<1> QED BY <1>1, PaymentInvariant, PTL

\* Who looks something up in the mempool or deletes from it is alone with it and has
\* mempool_lck, as long as nobody calls liststaking, which releases a lock it has not taken.
THEOREM MempoolHasOneUser == Spec => []MempoolIsAlone
<1>1. IInv => MempoolIsAlone
    <2> SUFFICES ASSUME IInv, "liststaking" \notin use.methods
                 PROVE  Cardinality(InMempoolSection) <= 1 /\ \A t \in InMempoolSection : mlock = t
        BY DEF MempoolIsAlone
    <2>1. \A t \in InMempoolSection : mlock = t
        BY DEF InMempoolSection, IInv, MutexInv
    <2>2. InMempoolSection = {} \/ InMempoolSection = {mlock}
        BY <2>1
    <2>3. Cardinality({}) = 0 /\ Cardinality({mlock}) = 1
        BY FS_EmptySet, FS_Singleton
    <2>4. Cardinality(InMempoolSection) <= 1
        <3>1. CASE InMempoolSection = {}
            BY <2>3, <3>1
        <3>2. CASE InMempoolSection = {mlock}
            BY <2>3, <3>2
        <3> QED BY <2>2, <3>1, <3>2
    <2> QED BY <2>1, <2>4
<1> QED BY <1>1, PaymentInvariant, PTL

=============================================================================
