------------------------------- MODULE NodeLoop -------------------------------
(***************************************************************************)
(* Submitted blocks (nodix/main.c, rpc_wallet/rpc_methods.c): the threads  *)
(* of the RPC service make blocks or take them from miners and wallets,    *)
(* put them into the list "submitted blocks" and wait until the main loop  *)
(* has set "done" in them. Most of that happens under the mining lock,     *)
(* which the main loop takes too when a peer sends a block.                *)
(*                                                                         *)
(* A block is a number; its hash is the number with the times its staking  *)
(* transaction was signed, since signstaketx gives the block a new hash.   *)
(***************************************************************************)
EXTENDS Integers, Sequences, FiniteSets

CONSTANTS
    Rpc,           \* the threads of the RPC service
    Main,          \* the thread of the main loop
    Uses,      \* the ways the node is used, each a record with the bounds it needs:
               \*   methods, the methods that are called
               \*   blocks, how many blocks are made by anybody
               \*   peers, how many messages "block" the peers send
               \*   calls, how many calls a thread makes
               \*   shared, may a thread sign a block another one made, or sign twice
    MaxBlocks, \* bound: the most blocks of any use
    MaxCalls   \* bound: the most calls of any use

Free == "free"   \* no thread
AllMethods == {"getwork", "getblocktemplate", "submitwork", "submitblock", "stake"}
ASSUME ThreadAssumption == Main \notin Rpc /\ Free \notin Rpc \cup {Main}
ASSUME BoundAssumption == MaxBlocks \in Nat /\ MaxCalls \in Nat
ASSUME UseAssumption ==
    Uses \subseteq [methods : SUBSET AllMethods, blocks : 0 .. MaxBlocks, peers : Nat,
                     calls : 0 .. MaxCalls, shared : BOOLEAN]

Blk == 1 .. MaxBlocks
None == 0
Genesis == <<0, 0>>
Hashes == (0 .. MaxBlocks) \X (0 .. MaxCalls)

VARIABLES
    use,     \* how the node is used: never changes
    chain,   \* the hashes of the chain after the genesis block
    height,  \* block_height
    away,    \* the hashes that were cut off the chain: peers have these blocks
    made,    \* blocks made so far: 1 .. made
    kind,    \* who made the block
    prev,    \* prev[b]: the hash it follows
    ver,     \* ver[b]: how often its staking transaction was signed
    ready,   \* the blocks whose "ready" is 1
    done,    \* the blocks whose "done" is 1
    list,    \* "submitted blocks": the order of its entries is left open
    next,    \* next_block, the candidate of the miners
    mining,  \* cur_mining_height
    lock,    \* who holds the mining lock
    mpc,     \* where the main loop is
    seen,    \* its walk over the list: the entries it has passed
    cur,     \* the hash of the block it processes: the copy it made
    peers,   \* messages peers have sent so far
    pc,      \* pc[t]: what thread t does
    mine,    \* mine[t]: the block it works on
    asked,   \* asked[t]: the hash it was given, or computed
    hgt,     \* hgt[t]: last_blk, the height it read
    calls,   \* calls[t]: calls so far
    ans,     \* ans[t]: its last answer
    tips,    \* history: tips[t], the last blocks seen since its call began
    late,    \* history: the threads that read the height before the chain was switched
    old      \* history: the candidates made before that, or by such a thread

treeVars == <<chain, height, away>>
chainVars == <<treeVars, made, kind, prev, ver>>
listVars == <<ready, done, list>>
workVars == <<next, mining>>
mainVars == <<mpc, seen, cur, peers>>
histVars == <<late, old>>
rpcVars == <<pc, mine, asked, hgt, calls, ans, tips, histVars>>
vars == <<use, chainVars, listVars, workVars, lock, mainVars, rpcVars>>

-----------------------------------------------------------------------------

Tip == IF chain = << >> THEN Genesis ELSE chain[Len(chain)]
\* Mutant: the hash the block had before its transaction was signed.
HashBefore(b) == <<b, ver[b] - 1>>
HashOf(b) == <<b, ver[b]>>
OnChain(h) == \E i \in 1 .. Len(chain) : chain[i] = h
\* What find_block_hash may answer when it looks at block_height hashes: after
\* the chain was switched that may be one less than there are.
Finds(h) == {f \in BOOLEAN : (f => OnChain(h)) /\ (OnChain(h) /\ height > Len(chain) => f)}
Listed(b) == b \in list

\* A thread that has begun a call can make one block more.
Busy == {t \in Rpc : pc[t] \notin {"idle", "client"}}
Room == made + Cardinality(Busy) < use.blocks

\* A new block follows the last one.
Make(k) ==
    /\ made < use.blocks
    /\ made' = made + 1
    /\ kind' = [kind EXCEPT ![made + 1] = k]
    /\ prev' = [prev EXCEPT ![made + 1] = Tip]

\* Mutant: a block may follow any block.
AnyIsNext(b) == TRUE
\* node_is_next_block.
IsNext(b) == prev[b] = Tip

\* Every thread that is to answer a candidate sees the new last block.
AnswersWork == {"work", "worklocked", "template", "templatelocked", "workwrite",
                "templatewrite"}
Seen(h) == tips' = [t \in Rpc |-> IF pc[t] \in AnswersWork THEN tips[t] \cup {h} ELSE tips[t]]
\* block_height is counted up, or the number of blocks with the genesis block.
Grow(h) ==
    /\ chain' = Append(chain, h)
    /\ height' \in {height + 1, Len(chain) + 2}
    /\ Seen(h)

-----------------------------------------------------------------------------
(* The main loop: app_loop *)

\* process_nodes: a message "block" waits in the queue of a peer. handle_block
\* takes the mining lock.
PeerBlock ==
    /\ mpc = "nodes" /\ peers < use.peers
    /\ peers' = peers + 1
    /\ mpc' = "handle"
    /\ UNCHANGED <<use, chainVars, listVars, workVars, lock, seen, cur, rpcVars>>

HandleLock ==
    /\ mpc = "handle" /\ lock = Free
    /\ lock' = Main
    /\ mpc' = "handling"
    /\ UNCHANGED <<use, chainVars, listVars, workVars, seen, cur, peers, rpcVars>>

\* handle_block: the peer sends a new block or one that was cut off. A block
\* that is not the next one, is not accepted or cannot be stored leaves the
\* chain as it is, as do the first blocks of a branch that is tested.
HandleBlock ==
    /\ mpc = "handling"
    /\ \/ Room /\ Make("peer") /\ Grow(<<made + 1, 0>>)
       \/ /\ \E h \in away : IsNext(h[1]) /\ Grow(h)
          /\ UNCHANGED <<made, kind, prev>>
       \/ UNCHANGED <<made, kind, prev, chain, height, tips>>
    /\ lock' = Free
    /\ mpc' = "nodes"
    /\ UNCHANGED <<use, ver, away, listVars, workVars, seen, cur, peers,
                   pc, mine, asked, hgt, calls, ans, histVars>>

\* The branch of a peer is long enough: truncate_chain cuts the chain down to the
\* block where it branches off, and sets block_height to that block's position,
\* which is one less than the number of blocks. The blocks of the branch
\* come with other messages.
SwitchChain ==
    /\ mpc = "handling"
    /\ \E n \in 1 .. Len(chain) - 1 :
        /\ chain' = SubSeq(chain, 1, n) /\ height' = n
        /\ away' = away \cup {chain[i] : i \in n + 1 .. Len(chain)}
        /\ Seen(chain[n])
    /\ late' = Rpc
    /\ old' = old \cup {b \in 1 .. made : kind[b] = "work"}
    /\ lock' = Free
    /\ mpc' = "nodes"
    /\ UNCHANGED <<use, made, kind, prev, ver, listVars, workVars, seen, cur, peers,
                   pc, mine, asked, hgt, calls, ans>>

NodesDone ==
    /\ mpc = "nodes"
    /\ mpc' = "staking"
    /\ UNCHANGED <<use, chainVars, listVars, workVars, lock, seen, cur, peers, rpcVars>>

\* do_staking: a block of the node's own wallet, signed and ready.
Stake ==
    /\ mpc = "staking" /\ "stake" \in use.methods /\ Room
    /\ Make("own")
    /\ ready' = ready \cup {made + 1}
    /\ list' = list \cup {made + 1}
    /\ mpc' = "walk" /\ seen' = {}
    /\ UNCHANGED <<use, treeVars, ver, done, workVars, lock, cur, peers, rpcVars>>

NoStake ==
    /\ mpc = "staking"
    /\ mpc' = "walk" /\ seen' = {}
    /\ UNCHANGED <<use, chainVars, listVars, workVars, lock, cur, peers, rpcVars>>

\* process_submitted_blocks walks the list without the mining lock.
Ahead == list \ seen

\* A block that is not ready is passed by, and stays.
Pass(b) ==
    /\ mpc = "walk" /\ b \in Ahead /\ b \notin ready
    /\ seen' = seen \cup {b}
    /\ UNCHANGED <<use, chainVars, listVars, workVars, lock, mpc, cur, peers, rpcVars>>

\* accept_block of a copy of the block. The other checks may refuse any block;
\* the staking transaction of a client is signed by signstaketx only.
AcceptBlock(b) ==
    /\ mpc = "walk" /\ b \in Ahead /\ b \in ready
    /\ IsNext(b)
    /\ kind[b] = "client" => ver[b] > 0
    /\ cur' = HashOf(b)
    /\ mpc' = "add"
    /\ UNCHANGED <<use, chainVars, listVars, workVars, lock, seen, peers, rpcVars>>

RefuseBlock(b) ==
    /\ mpc = "walk" /\ b \in Ahead /\ b \in ready
    /\ cur' = HashOf(b)
    /\ mpc' = "mark"
    /\ UNCHANGED <<use, chainVars, listVars, workVars, lock, seen, peers, rpcVars>>

AddNewBlock ==
    /\ mpc = "add"
    /\ Grow(cur)
    /\ mpc' = "mark"
    /\ UNCHANGED <<use, away, made, kind, prev, ver, listVars, workVars, lock, seen, cur, peers,
                   pc, mine, asked, hgt, calls, ans, histVars>>

\* add_new_block fails: the block cannot be stored.
AddFails ==
    /\ mpc = "add"
    /\ mpc' = "mark"
    /\ UNCHANGED <<use, chainVars, listVars, workVars, lock, seen, cur, peers, rpcVars>>

\* Mutant: "done" is only set in blocks that were added.
DoneIfAdded == IF Tip = cur THEN done \cup {cur[1]} ELSE done
Done == done \cup {cur[1]}

MarkDone ==
    /\ mpc = "mark"
    /\ done' = Done
    /\ seen' = seen \cup {cur[1]}
    /\ mpc' = "walk"
    /\ UNCHANGED <<use, chainVars, ready, list, workVars, lock, cur, peers, rpcVars>>

\* Mutant: the entries that are ready leave the list.
KeptUnready == list \ ready
\* Mutant: nothing leaves the list.
KeptAll == list
Kept == list \ done

\* The entries with done = 1 leave the list; the round is over.
Purge ==
    /\ mpc = "walk" /\ Ahead = {}
    /\ list' = Kept
    /\ mpc' = "nodes" /\ seen' = {} /\ cur' = Genesis
    /\ UNCHANGED <<use, chainVars, ready, done, workVars, lock, peers, rpcVars>>

-----------------------------------------------------------------------------
(* The threads of the RPC service *)

\* A call begins; most methods read block_height first.
Call(t, m, p) ==
    /\ pc[t] \in {"idle", "client"} /\ calls[t] < use.calls /\ Room
    /\ m \in use.methods
    /\ calls' = [calls EXCEPT ![t] = @ + 1]
    /\ hgt' = [hgt EXCEPT ![t] = height]
    /\ tips' = [tips EXCEPT ![t] = IF p \in AnswersWork THEN {Tip} ELSE {}]
    /\ ans' = [ans EXCEPT ![t] = "none"]
    /\ mine' = [mine EXCEPT ![t] = None]
    /\ late' = late \ {t}
    /\ pc' = [pc EXCEPT ![t] = p]

Acquire(t) == lock = Free /\ lock' = t
Goto(t, p) == pc' = [pc EXCEPT ![t] = p]
Answer(t, a) == ans' = [ans EXCEPT ![t] = a] /\ Goto(t, "idle")

\* Mutant: the candidate is kept although the chain has grown.
NeverStale(t) == FALSE
Stale(t) == mining # 0 /\ mining # hgt[t]

\* getwork without data: takes the lock, drops a candidate of another height,
\* makes one if there is none or it is older than 30 seconds, and answers it.
GetWork(t) ==
    /\ Call(t, "getwork", "work")
    /\ UNCHANGED <<use, chainVars, listVars, workVars, lock, mainVars, asked, old>>

GetWorkLock(t) ==
    /\ pc[t] = "work" /\ Acquire(t)
    /\ next' = IF Stale(t) THEN None ELSE next
    /\ Goto(t, "worklocked")
    /\ UNCHANGED <<use, chainVars, listVars, mining, mainVars, mine, asked, hgt, calls, ans,
                   tips, histVars>>

NewWork(t) ==
    /\ pc[t] = "worklocked"
    /\ Make("work")
    /\ next' = made + 1 /\ mining' = hgt[t]
    /\ old' = IF t \in late THEN old \cup {made + 1} ELSE old
    /\ Goto(t, "workwrite")
    /\ UNCHANGED <<use, treeVars, ver, listVars, lock, mainVars, mine, asked, hgt, calls, ans,
                   tips, late>>

OldWork(t) ==
    /\ pc[t] = "worklocked" /\ next # None
    /\ Goto(t, "workwrite")
    /\ UNCHANGED <<use, chainVars, listVars, workVars, lock, mainVars, mine, asked, hgt, calls,
                   ans, tips, histVars>>

\* getblocktemplate reads the height under the lock. The time of a candidate that
\* is not there is uninitialised, so it may be taken for a recent one.
GetTemplate(t) ==
    /\ Call(t, "getblocktemplate", "template")
    /\ UNCHANGED <<use, chainVars, listVars, workVars, lock, mainVars, asked, old>>

TemplateLock(t) ==
    /\ pc[t] = "template" /\ Acquire(t)
    /\ hgt' = [hgt EXCEPT ![t] = height]
    /\ late' = late \ {t}
    /\ Goto(t, "templatelocked")
    /\ UNCHANGED <<use, chainVars, listVars, workVars, mainVars, mine, asked, calls, ans,
                   tips, old>>

NewTemplate(t) ==
    /\ pc[t] = "templatelocked"
    /\ Make("work")
    /\ next' = made + 1 /\ mining' = hgt[t]
    /\ old' = IF t \in late THEN old \cup {made + 1} ELSE old
    /\ Goto(t, "templatewrite")
    /\ UNCHANGED <<use, treeVars, ver, listVars, lock, mainVars, mine, asked, hgt, calls, ans,
                   tips, late>>

OldTemplate(t) ==
    /\ pc[t] = "templatelocked" /\ ~Stale(t)
    /\ Goto(t, "templatewrite")
    /\ UNCHANGED <<use, chainVars, listVars, workVars, lock, mainVars, mine, asked, hgt, calls,
                   ans, tips, histVars>>

\* What is answered is what next_block names by now.
WriteWork(t) ==
    /\ pc[t] = "workwrite"
    /\ mine' = [mine EXCEPT ![t] = next]
    /\ Answer(t, "work")
    /\ lock' = Free
    /\ UNCHANGED <<use, chainVars, listVars, workVars, mainVars, asked, hgt, calls, tips, histVars>>

WriteTemplate(t) ==
    /\ pc[t] = "templatewrite"
    /\ mine' = [mine EXCEPT ![t] = next]
    /\ Answer(t, "work")
    /\ lock' = Free
    /\ UNCHANGED <<use, chainVars, listVars, workVars, mainVars, asked, hgt, calls, tips, histVars>>

\* getwork with data: the nonce makes next_block a submitted block.
SubmitWork(t) ==
    /\ Call(t, "submitwork", "nonce")
    /\ UNCHANGED <<use, chainVars, listVars, workVars, lock, mainVars, asked, old>>

SubmitWorkLock(t) ==
    /\ pc[t] = "nonce" /\ Acquire(t)
    /\ next' = IF Stale(t) THEN None ELSE next
    /\ Goto(t, "noncelocked")
    /\ UNCHANGED <<use, chainVars, listVars, mining, mainVars, mine, asked, hgt, calls, ans,
                   tips, histVars>>

NoWork(t) ==
    /\ pc[t] = "noncelocked" /\ next = None
    /\ Answer(t, "rejected")
    /\ lock' = Free
    /\ UNCHANGED <<use, chainVars, listVars, workVars, mainVars, mine, asked, hgt, calls, tips, histVars>>

\* Whoever submits a candidate has its own reference to it in the list.
QueueWork(t) ==
    /\ pc[t] = "noncelocked" /\ next # None
    /\ mine' = [mine EXCEPT ![t] = next]
    /\ asked' = [asked EXCEPT ![t] = HashOf(next)]
    /\ ready' = ready \cup {next} /\ done' = done \ {next}
    /\ list' = list \cup {next}
    /\ Goto(t, "workwait")
    /\ UNCHANGED <<use, chainVars, workVars, lock, mainVars, hgt, calls, ans, tips, histVars>>

\* The loop reads "done" through next_block: without one it ends too.
WorkDone(t) ==
    /\ pc[t] = "workwait"
    /\ next = None \/ next \in done
    /\ Goto(t, "workfind")
    /\ UNCHANGED <<use, chainVars, listVars, workVars, lock, mainVars, mine, asked, hgt, calls,
                   ans, tips, histVars>>

WorkAnswer(t) ==
    /\ pc[t] = "workfind"
    /\ \E found \in Finds(asked[t]) : Answer(t, IF found THEN "ok" ELSE "rejected")
    /\ next' = None
    /\ lock' = Free
    /\ UNCHANGED <<use, chainVars, listVars, mining, mainVars, mine, asked, hgt, calls,
                   tips, histVars>>

\* submitblock: prev is compared with the last block before the lock is taken.
\* A block that does not follow is answered "rejected", and next_block dropped.
SubmitBlock(t) ==
    /\ Call(t, "submitblock", "submit")
    /\ UNCHANGED <<use, chainVars, listVars, workVars, lock, mainVars, asked, old>>

SubmitOther(t) ==
    /\ pc[t] = "submit"
    /\ next' = None
    /\ Answer(t, "rejected")
    /\ UNCHANGED <<use, chainVars, listVars, mining, lock, mainVars, mine, asked, hgt, calls,
                   tips, histVars>>

SubmitNext(t) ==
    /\ pc[t] = "submit"
    /\ Make("miner")
    /\ mine' = [mine EXCEPT ![t] = made + 1]
    /\ Goto(t, "submitlock")
    /\ UNCHANGED <<use, treeVars, ver, listVars, workVars, lock, mainVars, asked, hgt, calls, ans,
                   tips, histVars>>

QueueBlock(t) ==
    /\ pc[t] = "submitlock" /\ Acquire(t)
    /\ asked' = [asked EXCEPT ![t] = HashOf(mine[t])]
    /\ ready' = ready \cup {mine[t]}
    /\ list' = list \cup {mine[t]}
    /\ Goto(t, "submitwait")
    /\ UNCHANGED <<use, chainVars, done, workVars, mainVars, mine, hgt, calls, ans, tips, histVars>>

BlockDone(t) ==
    /\ pc[t] = "submitwait" /\ mine[t] \in done
    /\ Goto(t, "submitfind")
    /\ UNCHANGED <<use, chainVars, listVars, workVars, lock, mainVars, mine, asked, hgt, calls,
                   ans, tips, histVars>>

BlockFound(t) ==
    /\ pc[t] = "submitfind"
    /\ Goto(t, IF OnChain(asked[t]) THEN "submitok" ELSE "submitbad")
    /\ lock' = Free
    /\ UNCHANGED <<use, chainVars, listVars, workVars, mainVars, mine, asked, hgt, calls, ans,
                   tips, histVars>>

\* next_block is dropped after the lock was left.
BlockAnswer(t) ==
    /\ pc[t] \in {"submitok", "submitbad"}
    /\ next' = None
    /\ Answer(t, IF pc[t] = "submitok" THEN "ok" ELSE "rejected")
    /\ UNCHANGED <<use, chainVars, listVars, mining, lock, mainVars, mine, asked, hgt, calls,
                   tips, histVars>>

\* getstaketx: a block with an unsigned staking transaction goes into the list.
GetStake(t) ==
    /\ Call(t, "stake", "stake")
    /\ UNCHANGED <<use, chainVars, listVars, workVars, lock, mainVars, asked, old>>

GetStakeTx(t) ==
    /\ pc[t] = "stake" /\ Acquire(t)
    /\ Make("client")
    /\ list' = list \cup {made + 1}
    /\ mine' = [mine EXCEPT ![t] = made + 1]
    /\ asked' = [asked EXCEPT ![t] = HashOf(made + 1)]
    /\ next' = None
    /\ Goto(t, "staked")
    /\ UNCHANGED <<use, treeVars, ver, ready, done, mining, mainVars, hgt, calls, ans, tips,
                   histVars>>

\* The output that is to be staked is not known, or its kernel is not good enough.
GetStakeNone(t) ==
    /\ pc[t] = "stake"
    /\ Answer(t, "rejected")
    /\ UNCHANGED <<use, chainVars, listVars, workVars, lock, mainVars, mine, asked, hgt, calls,
                   tips, histVars>>

GetStakeAnswer(t) ==
    /\ pc[t] = "staked"
    /\ lock' = Free
    /\ Goto(t, "client")
    /\ UNCHANGED <<use, chainVars, listVars, workVars, mainVars, mine, asked, hgt, calls, ans,
                   tips, histVars>>

\* A wallet that shares its blocks, or tries again, names a block of the list.
Resume(t, b) ==
    /\ use.shared /\ pc[t] \in {"idle", "client"} /\ calls[t] < use.calls
    /\ b <= made /\ kind[b] = "client"
    /\ calls' = [calls EXCEPT ![t] = @ + 1]
    /\ mine' = [mine EXCEPT ![t] = b]
    /\ asked' = [asked EXCEPT ![t] = HashOf(b)]
    /\ ans' = [ans EXCEPT ![t] = "none"]
    /\ Goto(t, "client")
    /\ UNCHANGED <<use, chainVars, listVars, workVars, lock, mainVars, hgt, tips, histVars>>

\* signstaketx: under the lock. A block that does not follow any more is taken
\* off the list.
SignTx(t) ==
    /\ pc[t] = "client" /\ lock = Free
    /\ Listed(mine[t]) /\ asked[t] = HashOf(mine[t])
    /\ IF IsNext(mine[t])
       THEN /\ ver[mine[t]] < use.calls
            /\ ver' = [ver EXCEPT ![mine[t]] = @ + 1]
            /\ asked' = [asked EXCEPT ![t] = <<mine[t], ver[mine[t]] + 1>>]
            /\ UNCHANGED list
       ELSE /\ list' = list \ {mine[t]}
            /\ UNCHANGED <<ver, asked>>
    /\ UNCHANGED <<use, treeVars, made, kind, prev, ready, done, workVars, lock, mainVars, pc,
                   mine, hgt, calls, ans, tips, histVars>>

\* signstakeblock looks the block up and tests it before it takes the lock.
SignLookup(t) ==
    /\ pc[t] = "client"
    /\ IF Listed(mine[t]) /\ asked[t] = HashOf(mine[t])
       THEN IF IsNext(mine[t])
            THEN /\ \/ Goto(t, "sign") /\ UNCHANGED ans
                    \/ Answer(t, "rejected")
                 /\ UNCHANGED list
            ELSE /\ list' = list \ {mine[t]}
                 /\ Answer(t, "rejected")
       ELSE Answer(t, "rejected") /\ UNCHANGED list
    /\ UNCHANGED <<use, chainVars, ready, done, workVars, lock, mainVars, mine, asked, hgt,
                   calls, tips, histVars>>

\* The signature, done = 0 and ready = 1 are written under the lock, which is
\* left before the wait.
SignBlock(t) ==
    /\ pc[t] = "sign" /\ lock = Free
    /\ done' = done \ {mine[t]} /\ ready' = ready \cup {mine[t]}
    /\ Goto(t, "signwait")
    /\ UNCHANGED <<use, chainVars, list, workVars, lock, mainVars, mine, asked, hgt, calls, ans,
                   tips, histVars>>

\* The answer is 1, also for a block that was refused.
SignDone(t) ==
    /\ pc[t] = "signwait" /\ mine[t] \in done
    /\ \E found \in Finds(asked[t]) : next' = IF found THEN None ELSE next
    /\ Answer(t, "ok")
    /\ UNCHANGED <<use, chainVars, listVars, mining, lock, mainVars, mine, asked, hgt, calls,
                   tips, histVars>>

-----------------------------------------------------------------------------

Init ==
    /\ use \in Uses
    /\ chain = << >> /\ height = 1 /\ away = {} /\ made = 0
    /\ kind = [b \in Blk |-> "none"] /\ prev = [b \in Blk |-> Genesis]
    /\ ver = [b \in Blk |-> 0]
    /\ ready = {} /\ done = {} /\ list = {}
    /\ next = None /\ mining = 0
    /\ lock = Free
    /\ mpc = "nodes" /\ seen = {} /\ cur = Genesis /\ peers = 0
    /\ pc = [t \in Rpc |-> "idle"] /\ mine = [t \in Rpc |-> None]
    /\ asked = [t \in Rpc |-> Genesis] /\ hgt = [t \in Rpc |-> 1]
    /\ calls = [t \in Rpc |-> 0] /\ ans = [t \in Rpc |-> "none"]
    /\ tips = [t \in Rpc |-> {}] /\ late = {} /\ old = {}

MainStep ==
    \/ PeerBlock \/ HandleLock \/ HandleBlock \/ SwitchChain \/ NodesDone \/ Stake
    \/ NoStake
    \/ \E b \in Blk : Pass(b) \/ AcceptBlock(b) \/ RefuseBlock(b)
    \/ AddNewBlock \/ AddFails \/ MarkDone \/ Purge

Begin(t) ==
    \/ GetWork(t) \/ GetTemplate(t) \/ SubmitWork(t) \/ SubmitBlock(t) \/ GetStake(t)
    \/ \E b \in Blk : Resume(t, b)

\* What a thread does on its own once a call has begun.
Proceed(t) ==
    \/ GetWorkLock(t) \/ NewWork(t) \/ OldWork(t) \/ TemplateLock(t) \/ NewTemplate(t)
    \/ OldTemplate(t) \/ WriteWork(t) \/ WriteTemplate(t)
    \/ SubmitWorkLock(t) \/ NoWork(t) \/ QueueWork(t) \/ WorkDone(t) \/ WorkAnswer(t)
    \/ SubmitOther(t) \/ SubmitNext(t) \/ QueueBlock(t) \/ BlockDone(t) \/ BlockFound(t)
    \/ BlockAnswer(t)
    \/ GetStakeTx(t) \/ GetStakeNone(t) \/ GetStakeAnswer(t) \/ SignBlock(t) \/ SignDone(t)

\* The wallet may sign the transaction and the block, or never come back.
Client(t) == SignTx(t) \/ SignLookup(t)

Next == MainStep \/ \E t \in Rpc : Begin(t) \/ Proceed(t) \/ Client(t)

Spec == Init /\ [][Next]_vars

\* The main loop runs forever and the threads are threads of the operating
\* system. Nobody has to call a method, and peers need not send anything.
FairSpec ==
    /\ Spec
    /\ WF_vars(MainStep)
    /\ \A t \in Rpc : WF_vars(Proceed(t))

-----------------------------------------------------------------------------
(* Correctness *)

MainPcs == {"nodes", "handle", "handling", "staking", "walk", "add", "mark"}
RpcPcs == AnswersWork \cup
    {"idle", "client", "nonce", "noncelocked", "workwait", "workfind", "submit", "submitlock",
     "submitwait", "submitfind", "submitok", "submitbad", "stake", "staked", "sign", "signwait"}
Kinds == {"none", "peer", "own", "work", "miner", "client"}

Answers == {"none", "ok", "rejected", "work"}

\* The parts of TypeOK.
ChainType ==
    /\ chain \in Seq(Hashes) /\ height \in Nat \ {0} /\ away \subseteq Hashes
    /\ made \in 0 .. MaxBlocks
    /\ kind \in [Blk -> Kinds] /\ prev \in [Blk -> Hashes]
    /\ ver \in [Blk -> 0 .. MaxCalls]
ListType ==
    /\ ready \subseteq Blk /\ done \subseteq Blk /\ list \subseteq Blk
    /\ next \in Blk \cup {None} /\ mining \in Nat
    /\ lock \in Rpc \cup {Main, Free}
LoopType == mpc \in MainPcs /\ seen \subseteq Blk /\ cur \in Hashes /\ peers \in 0 .. use.peers
CallType ==
    /\ pc \in [Rpc -> RpcPcs] /\ mine \in [Rpc -> Blk \cup {None}]
    /\ asked \in [Rpc -> Hashes] /\ hgt \in [Rpc -> Nat \ {0}] /\ calls \in [Rpc -> 0 .. use.calls]
    /\ ans \in [Rpc -> Answers] /\ tips \in [Rpc -> SUBSET Hashes]
    /\ late \subseteq Rpc /\ old \subseteq Blk

\* Blocks, lists and the locals of every thread hold what their types say.
TypeOK == use \in Uses /\ ChainType /\ ListType /\ LoopType /\ CallType

\* Whoever waits for a block is going to be answered: the block is done, or it
\* is ready and in the list the main loop empties. (Wallets that share a block
\* may set done back to 0 after the list has lost it.)
Awaited ==
    ~use.shared => \A t \in Rpc :
        (pc[t] \in {"workwait", "submitwait", "signwait"}) =>
            \/ mine[t] \in done
            \/ mine[t] \in ready /\ Listed(mine[t])

\* No block is added twice, not even under the two hashes signstaketx gives it,
\* though it stays in the list until the round is over (accept_block tests
\* node_is_next_block every time).
NoBlockTwice ==
    \A i, j \in 1 .. Len(chain) : i < j => chain[i][1] # chain[j][1]

\* The candidate getwork and getblocktemplate answer was to follow a block that
\* was the last one at some moment since the call began (cur_mining_height),
\* also on a branch the node has switched to. Only a candidate from before the
\* switch may be answered again, when the branch has come to the height it was
\* made for. Programs that only poll getwork get a candidate; other methods may
\* drop it while it is answered.
WorkIsFresh ==
    \A t \in Rpc :
        (ans[t] = "work") =>
            /\ mine[t] \notin old \cup {None} => prev[mine[t]] \in tips[t]
            /\ use.methods \subseteq {"getwork", "submitwork"} => mine[t] # None

\* "Function executed via JSON/RPC ... are always executed in a thread
\* parrallelized from the main node thread": who submits a block is answered.
SubmissionAnswered ==
    \A t \in Rpc : (pc[t] \in {"workwait", "submitwait", "signwait"}) ~> (pc[t] = "idle")

\* A ready block does not stay in the list: the main loop takes it off whether
\* it was added or not (process_submitted_blocks).
ListIsDrained == \A b \in Blk : (b \in ready /\ Listed(b)) ~> ~Listed(b)

=============================================================================
