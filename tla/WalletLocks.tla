------------------------------ MODULE WalletLocks ------------------------------
(***************************************************************************)
(* Payments of the wallet (rpc_wallet/rpc_methods.c, wallet/wallet.c): the *)
(* threads of the RPC service choose coins, lock them for two minutes, and *)
(* put the unsigned transaction into tmp_txs, where it waits to be signed  *)
(* and submitted or canceled. The main loop takes submitted transactions   *)
(* into the mempool, spends their coins when a block has them and clears   *)
(* the locks that have run out. The list of locks is guarded by nothing    *)
(* but its unique key, the mempool by mempool_lck.                         *)
(***************************************************************************)
EXTENDS Integers, FiniteSets, FiniteSetsExt

CONSTANTS
    Rpc, Main,  \* threads
    Coins,      \* coins of the address
    Amount,     \* Amount[c]
    Asked,      \* the sums a payment may need: amount and fee
    LockTime,   \* ticks a lock lasts: 120 seconds
    MaxTxs,     \* bound: transactions made
    Uses        \* the ways the wallet is used: records of rpc, the threads that
                \* call, and methods, what they call

ASSUME AmountAssumption == Amount \in [Coins -> Nat \ {0}] /\ Asked \subseteq Nat \ {0}
ASSUME WalletBoundAssumption == LockTime \in Nat /\ MaxTxs \in Nat
ASSUME WalletUseAssumption ==
    Uses \subseteq [rpc : SUBSET Rpc, methods : SUBSET {"maketxfrom", "submittx", "canceltx", "liststaking"}]

Txs == 1 .. MaxTxs
Free == "free"
NoCoin == "none"
Threads == Rpc \cup {Main}
ASSUME WalletThreadAssumption == Main \notin Rpc /\ Free \notin Threads /\ NoCoin \notin Coins

VARIABLES
    use,       \* how the wallet is used: never changes
    utxo,      \* the coins that are not spent on the chain
    locks,     \* locked_input: the coins that have an entry
    left,      \* left[c]: ticks until its lock runs out
    done,      \* the entries whose "done" is 1
    made,      \* transactions made so far: 1 .. made
    ins,       \* ins[n]: the coins transaction n spends
    age,       \* age[n]: ticks until the first of its locks runs out
    tmp,       \* tmp_txs
    submitted, \* "submitted txs"
    mempool,
    mlock,     \* who holds mempool_lck
    pc,        \* pc[t]: what thread t does
    cur,       \* cur[t]: its transaction
    need,      \* need[t]: min_amount
    files,     \* files[t]: the coins of the address it has still to look at
    coin,      \* coin[t]: the one it looks at
    misused    \* history: transactions sent or canceled after their locks ran
               \* out, or by two calls at once

txVars == <<made, ins, age>>
poolVars == <<submitted, mempool>>
pickVars == <<need, files, coin>>
vars == <<use, utxo, locks, left, done, txVars, tmp, poolVars, mlock, pc, cur, pickVars, misused>>

-----------------------------------------------------------------------------

Sum(C) == MapThenSumSet(LAMBDA c : Amount[c], C)
InMempool(c) == \E n \in mempool : c \in ins[n]
Goto(t, l) == pc' = [pc EXCEPT ![t] = l]
Misuse(t, n) == \/ age[n] < 0
                \/ \E u \in Rpc \ {t} : pc[u] \in {"submit", "check", "cancel", "send"} /\ cur[u] = n

\* cancel_tx_lock: unlock_unspent for every input.
Unlocked(n) == done \cup (ins[n] \cap locks)

-----------------------------------------------------------------------------
(* maketxfrom *)

MakeTx(t) ==
    /\ pc[t] = "idle" /\ t \in use.rpc /\ "maketxfrom" \in use.methods /\ made < MaxTxs
    /\ made' = made + 1
    /\ cur' = [cur EXCEPT ![t] = made + 1]
    /\ age' = [age EXCEPT ![made + 1] = LockTime]
    /\ \E a \in Asked : need' = [need EXCEPT ![t] = a]
    /\ files' = [files EXCEPT ![t] = utxo]
    /\ Goto(t, "pick")
    /\ UNCHANGED <<use, utxo, locks, left, done, ins, tmp, poolVars, mlock, coin, misused>>

More(t) == files[t] # {} /\ Sum(ins[cur[t]]) < need[t]

\* get_tx_inputs_from_addr takes the files as the directory lists them; a coin
\* with too few or too many confirmations is passed over. find_mempool_inputs
\* spins for mempool_lck.
Pick(t) ==
    /\ pc[t] = "pick" /\ More(t)
    /\ \E c \in files[t] :
        /\ files' = [files EXCEPT ![t] = @ \ {c}]
        /\ \/ coin' = [coin EXCEPT ![t] = c] /\ Goto(t, "enter")
           \/ UNCHANGED <<coin, pc>>
    /\ UNCHANGED <<use, utxo, locks, left, done, txVars, tmp, poolVars, mlock, cur, need, misused>>

\* Mutant: no wait.
NoWait == TRUE
LockIsFree == mlock = Free
EnterMempool(t) ==
    /\ pc[t] = "enter" /\ LockIsFree
    /\ mlock' = t
    /\ Goto(t, "look")
    /\ UNCHANGED <<use, utxo, locks, left, done, txVars, tmp, poolVars, cur, pickVars, misused>>

\* Mutant: the mempool is not looked at.
AnyCoin(c) == c \in utxo
Spendable(c) == ~InMempool(c) /\ c \in utxo
LookUp(t) ==
    /\ pc[t] = "look"
    /\ mlock' = Free
    /\ Goto(t, IF Spendable(coin[t]) THEN "lock" ELSE "pick")
    /\ UNCHANGED <<use, utxo, locks, left, done, txVars, tmp, poolVars, cur, pickVars, misused>>

\* lock_unspent: the coin is there and has no entry, done or not.
Lockable(c) == c \in utxo /\ c \notin locks
LockUnspent(t) ==
    /\ pc[t] = "lock"
    /\ IF Lockable(coin[t])
       THEN /\ locks' = locks \cup {coin[t]}
            /\ left' = [left EXCEPT ![coin[t]] = LockTime]
            /\ ins' = [ins EXCEPT ![cur[t]] = @ \cup {coin[t]}]
       ELSE UNCHANGED <<locks, left, ins>>
    /\ coin' = [coin EXCEPT ![t] = NoCoin]
    /\ Goto(t, "pick")
    /\ UNCHANGED <<use, utxo, done, made, age, tmp, poolVars, mlock, cur, need, files, misused>>

\* The sum is reached: the transaction waits in tmp_txs.
KeepTx(t) ==
    /\ pc[t] = "pick" /\ ~More(t) /\ Sum(ins[cur[t]]) >= need[t]
    /\ tmp' = tmp \cup {cur[t]}
    /\ files' = [files EXCEPT ![t] = {}]
    /\ Goto(t, "idle")
    /\ UNCHANGED <<use, utxo, locks, left, done, txVars, poolVars, mlock, cur, need, coin, misused>>

\* It is not: the coins are unlocked.
DropTx(t) ==
    /\ pc[t] = "pick" /\ ~More(t) /\ Sum(ins[cur[t]]) < need[t]
    /\ done' = Unlocked(cur[t])
    /\ Goto(t, "idle")
    /\ UNCHANGED <<use, utxo, locks, left, txVars, tmp, poolVars, mlock, cur, pickVars, misused>>

-----------------------------------------------------------------------------
(* submittx, canceltx, liststaking *)

\* submittx finds the transaction and waits for the mempool.
SubmitTx(t) ==
    /\ pc[t] = "idle" /\ t \in use.rpc /\ "submittx" \in use.methods
    /\ \E n \in tmp :
        /\ cur' = [cur EXCEPT ![t] = n]
        /\ misused' = IF Misuse(t, n) THEN misused \cup {n} ELSE misused
    /\ Goto(t, "submit")
    /\ UNCHANGED <<use, utxo, locks, left, done, txVars, tmp, poolVars, mlock, pickVars>>

SubmitLock(t) ==
    /\ pc[t] = "submit" /\ mlock = Free
    /\ mlock' = t
    /\ Goto(t, "check")
    /\ UNCHANGED <<use, utxo, locks, left, done, txVars, tmp, poolVars, cur, pickVars, misused>>

\* check_tx_inputs: signatures, and every input unspent here and in the
\* mempool. What fails stays in tmp_txs.
SubmitCheck(t) ==
    /\ pc[t] = "check"
    /\ mlock' = Free
    /\ \/ (\A c \in ins[cur[t]] : c \in utxo /\ ~InMempool(c)) /\ Goto(t, "send")
       \/ Goto(t, "idle")
    /\ UNCHANGED <<use, utxo, locks, left, done, txVars, tmp, poolVars, cur, pickVars, misused>>

SendTx(t) ==
    /\ pc[t] = "send"
    /\ submitted' = submitted \cup {cur[t]}
    /\ tmp' = tmp \ {cur[t]}
    /\ Goto(t, "idle")
    /\ UNCHANGED <<use, utxo, locks, left, done, txVars, mempool, mlock, cur, pickVars, misused>>

CancelTx(t) ==
    /\ pc[t] = "idle" /\ t \in use.rpc /\ "canceltx" \in use.methods
    /\ \E n \in tmp :
        /\ cur' = [cur EXCEPT ![t] = n]
        /\ misused' = IF Misuse(t, n) THEN misused \cup {n} ELSE misused
    /\ Goto(t, "cancel")
    /\ UNCHANGED <<use, utxo, locks, left, done, txVars, tmp, poolVars, mlock, pickVars>>

CancelLocks(t) ==
    /\ pc[t] = "cancel"
    /\ done' = Unlocked(cur[t])
    /\ tmp' = tmp \ {cur[t]}
    /\ Goto(t, "idle")
    /\ UNCHANGED <<use, utxo, locks, left, txVars, poolVars, mlock, cur, pickVars, misused>>

\* liststaking releases mempool_lck without having taken it. What it lists,
\* list_staking_unspent, is a reading.
ListStaking(t) ==
    /\ pc[t] = "idle" /\ t \in use.rpc /\ "liststaking" \in use.methods
    /\ mlock' = Free
    /\ UNCHANGED <<use, utxo, locks, left, done, txVars, tmp, poolVars, pc, cur, pickVars, misused>>
StakingUnspent == {c \in utxo \ locks : ~InMempool(c)}

-----------------------------------------------------------------------------
(* The main loop *)

\* process_submitted_txs: into the mempool, unless it is refused.
ProcessSubmitted ==
    /\ \E n \in submitted :
        /\ submitted' = submitted \ {n}
        /\ mempool' = mempool \cup {n} \/ mempool' = mempool
    /\ UNCHANGED <<use, utxo, locks, left, done, txVars, tmp, mlock, pc, cur, pickVars, misused>>

\* A block with transactions of the mempool, or with a coin spent elsewhere or
\* staked by this wallet; then add_new_block waits for the mempool.
AddBlock ==
    /\ pc[Main] = "idle"
    /\ \/ \E n \in mempool : ins[n] \subseteq utxo /\ utxo' = utxo \ ins[n] /\ cur' = [cur EXCEPT ![Main] = n]
       \/ \E c \in StakingUnspent : utxo' = utxo \ {c} /\ cur' = [cur EXCEPT ![Main] = 0]
    /\ Goto(Main, "added")
    /\ UNCHANGED <<use, locks, left, done, txVars, tmp, poolVars, mlock, pickVars, misused>>

MempoolLock ==
    /\ pc[Main] = "added" /\ mlock = Free
    /\ mlock' = Main
    /\ Goto(Main, "delete")
    /\ UNCHANGED <<use, utxo, locks, left, done, txVars, tmp, poolVars, cur, pickVars, misused>>

DelFromMempool ==
    /\ pc[Main] = "delete"
    /\ mempool' = mempool \ {cur[Main]}
    /\ mlock' = Free
    /\ Goto(Main, "idle")
    /\ UNCHANGED <<use, utxo, locks, left, done, txVars, tmp, submitted, cur, pickVars, misused>>

Expired == {c \in locks : left[c] < 0}
\* Mutant: the entries go and their marks stay.
KeptDone == done
ClearedDone == {}
\* wallet_clear_locked_inputs: what has run out is done; what is done goes.
ClearLocks ==
    /\ pc[Main] = "idle"
    /\ locks' = locks \ (done \cup Expired)
    /\ done' = ClearedDone
    /\ locks' # locks
    /\ UNCHANGED <<use, utxo, left, txVars, tmp, poolVars, mlock, pc, cur, pickVars, misused>>

\* Time passes. A tick is tens of seconds: the main loop takes what is submitted
\* and a call ends in less.
Tick ==
    /\ submitted = {} /\ \A t \in Rpc : pc[t] = "idle"
    /\ \/ \E c \in locks : left[c] >= 0
       \/ \E n \in 1 .. made : age[n] >= 0
    /\ left' = [c \in Coins |-> IF left[c] >= 0 THEN left[c] - 1 ELSE left[c]]
    /\ age' = [n \in Txs |-> IF n <= made /\ age[n] >= 0 THEN age[n] - 1 ELSE age[n]]
    /\ UNCHANGED <<use, utxo, locks, done, made, ins, tmp, poolVars, mlock, pc, cur, pickVars, misused>>

-----------------------------------------------------------------------------

Init ==
    /\ use \in Uses
    /\ utxo = Coins /\ locks = {} /\ left = [c \in Coins |-> -1] /\ done = {}
    /\ made = 0 /\ ins = [n \in Txs |-> {}] /\ age = [n \in Txs |-> -1]
    /\ tmp = {} /\ submitted = {} /\ mempool = {} /\ mlock = Free
    /\ pc = [t \in Threads |-> "idle"] /\ cur = [t \in Threads |-> 0]
    /\ need = [t \in Rpc |-> 0] /\ files = [t \in Rpc |-> {}] /\ coin = [t \in Rpc |-> NoCoin]
    /\ misused = {}

Proceed(t) == Pick(t) \/ EnterMempool(t) \/ LookUp(t) \/ LockUnspent(t) \/ KeepTx(t) \/ DropTx(t)
              \/ SubmitLock(t) \/ SubmitCheck(t) \/ SendTx(t) \/ CancelLocks(t)
Begin(t) == MakeTx(t) \/ SubmitTx(t) \/ CancelTx(t) \/ ListStaking(t)
MainStep == ProcessSubmitted \/ AddBlock \/ MempoolLock \/ DelFromMempool \/ ClearLocks
Next == MainStep \/ Tick \/ \E t \in Rpc : Begin(t) \/ Proceed(t)

Spec == Init /\ [][Next]_vars

-----------------------------------------------------------------------------
(* Properties *)

TypeOK ==
    /\ use \in Uses
    /\ utxo \subseteq Coins /\ locks \subseteq Coins /\ done \subseteq locks
    /\ left \in [Coins -> -1 .. LockTime] /\ age \in [Txs -> -1 .. LockTime]
    /\ made \in 0 .. MaxTxs /\ ins \in [Txs -> SUBSET Coins]
    /\ tmp \cup submitted \cup mempool \cup misused \subseteq 1 .. made
    /\ mlock \in Threads \cup {Free}
    /\ pc \in [Threads -> {"idle", "pick", "enter", "look", "lock", "submit", "check", "send",
                           "cancel", "added", "delete"}]
    /\ cur \in [Threads -> 0 .. made] /\ coin \in [Rpc -> Coins \cup {NoCoin}]
    /\ files \in [Rpc -> SUBSET Coins] /\ need \in [Rpc -> Asked \cup {0}]

\* The transactions on their way: being made, waiting with locks, sent.
OnTheWay == {n \in tmp : age[n] >= 0} \cup submitted \cup mempool
            \cup {cur[t] : t \in {t \in Rpc : pc[t] \in {"pick", "enter", "look", "lock"} /\ age[cur[t]] >= 0}}

\* No coin is in two transactions on their way: the lock is handed over to the
\* mempool and the mempool to the chain without a gap, as long as nobody sends
\* or cancels a transaction after its locks have run out, or twice at once.
CoinsUsedOnce ==
    misused = {} => \A m, n \in OnTheWay : m # n => ins[m] \cap ins[n] = {}

\* Who has mempool_lck is alone with the mempool, if nobody calls liststaking.
InMempoolSection == {t \in Rpc : pc[t] \in {"look", "check"}}
                    \cup {t \in {Main} : pc[t] = "delete"}
MempoolIsAlone ==
    "liststaking" \notin use.methods =>
        Cardinality(InMempoolSection) <= 1 /\ \A t \in InMempoolSection : mlock = t

=============================================================================
