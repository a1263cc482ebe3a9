---------------------------- MODULE NodeLoop_proofs ----------------------------
(***************************************************************************)
(* Proofs about the submitted blocks (NodeLoop), for any number of threads *)
(* and of blocks: the variables have their types, who waits for a block is *)
(* awaited, no block is added twice, and the candidate a miner is answered *)
(* is a fresh one.                                                         *)
(*                                                                         *)
(* The inductive invariant IInv says who holds the mining lock, which      *)
(* blocks are made and who made them, to whom a block under a signature    *)
(* belongs, how the blocks of the chain follow each other, and which last  *)
(* blocks a thread has seen. Every part of it is kept by the steps of the  *)
(* main loop (...Main) and by those of a thread (...Call).                 *)
(***************************************************************************)
EXTENDS NodeLoop, TLAPS

-----------------------------------------------------------------------------
(* The inductive invariant *)

\* Between taking the mining lock and leaving it.
Holding == {"worklocked", "workwrite", "templatelocked", "templatewrite", "noncelocked",
            "workwait", "workfind", "submitwait", "submitfind", "staked"}
LockInv ==
    /\ \A t \in Rpc : pc[t] \in Holding => lock = t
    /\ mpc = "handling" => lock = Main

\* Blocks are made before they are listed, marked or worked on.
MadeInv ==
    /\ list \cup ready \cup done \subseteq 1 .. made
    /\ next \in 0 .. made
    /\ \A t \in Rpc : mine[t] \in 0 .. made
    /\ mpc \in {"add", "mark"} => cur[1] \in ready

\* What a thread waits for or signs is a block of the kind its method makes.
ClientPcs == {"staked", "client", "sign", "signwait"}
KindOf(t) ==
    /\ pc[t] = "workwait" => mine[t] # None /\ kind[mine[t]] = "work"
    /\ pc[t] \in {"submitlock", "submitwait"} => mine[t] # None /\ kind[mine[t]] = "miner"
    /\ pc[t] \in ClientPcs => mine[t] # None /\ kind[mine[t]] = "client"
KindInv == (next # None => kind[next] = "work") /\ \A t \in Rpc : KindOf(t)

\* Only candidates are worked on by two threads, unless wallets share blocks; and
\* nobody has marked a block that is still to be signed.
Alone ==
    \A t, u \in Rpc : t # u /\ mine[t] = mine[u] /\ mine[t] # None => kind[mine[t]] = "work"
Unsigned == \A t \in Rpc :
    /\ pc[t] \in {"staked", "client", "sign"} => mine[t] \notin ready \cup done
    /\ pc[t] = "sign" => Listed(mine[t])
OwnInv == ~use.shared => Alone /\ Unsigned

\* Every block of the chain follows the one before it.
Before(i) == IF i = 1 THEN Genesis ELSE chain[i - 1]
ChainPlaced ==
    \A i \in 1 .. Len(chain) : chain[i][1] \in 1 .. made /\ prev[chain[i][1]] = Before(i)
ChainInv ==
    /\ ChainPlaced /\ NoBlockTwice
    /\ \A h \in away : h[1] \in 1 .. made
    /\ mpc = "add" => prev[cur[1]] = Tip

\* Since the last switch of the chain its height has only grown. A candidate made
\* since then was made for that height or one below; one for that height follows
\* the last block, which every thread that is to answer it has seen.
NextInv ==
    /\ height <= Len(chain) + 1
    /\ next # None => mining > 0
    /\ next \notin old \cup {None} => mining <= height /\ (mining = height => prev[next] = Tip)
SeenInv == \A t \in Rpc :
    /\ t \notin late => hgt[t] <= height
    /\ pc[t] \in AnswersWork => Tip \in tips[t]
CandidateInv == \A t \in Rpc :
    /\ pc[t] = "worklocked" /\ next # None => mining = hgt[t]
    /\ pc[t] \in AnswersWork /\ next \notin old \cup {None} /\ mining = hgt[t] =>
           prev[next] \in tips[t]
    /\ pc[t] \in {"workwrite", "templatewrite"} /\ next \notin old \cup {None} =>
           prev[next] \in tips[t]

\* Where the threads of programs that only poll getwork can be.
PollPcs == {"idle", "work", "worklocked", "workwrite", "nonce", "noncelocked", "workwait",
            "workfind"}
Polling == use.methods \subseteq {"getwork", "submitwork"}
PollInv == Polling =>
    /\ \A t \in Rpc : pc[t] \in PollPcs /\ (pc[t] = "workwrite" => next # None)
    /\ \A b \in Blk : kind[b] # "client"

AnswerInv == \A t \in Rpc : ans[t] = "work" => pc[t] = "idle"
FreshInv == NextInv /\ SeenInv /\ CandidateInv /\ PollInv /\ AnswerInv /\ WorkIsFresh

IInv ==
    /\ TypeOK /\ LockInv /\ MadeInv /\ KindInv /\ OwnInv /\ Awaited /\ ChainInv /\ FreshInv

USE DEF treeVars, chainVars, listVars, workVars, mainVars, histVars, rpcVars, Goto,
    Answer, Acquire, Make, Grow, Seen, Call, Ahead, Done, Kept, Listed, Stale, Blk, None, IsNext

-----------------------------------------------------------------------------
(* Facts about the parts *)

LEMMA UseTyped == ASSUME use \in Uses
    PROVE use.blocks \in 0 .. MaxBlocks /\ use.peers \in Nat /\ use.calls \in 0 .. MaxCalls
    BY UseAssumption

LEMMA HashTyped == Genesis \in Hashes /\ \A b \in Blk : <<b, 0>> \in Hashes
    BY BoundAssumption DEF Genesis, Hashes, Blk

LEMMA HashOfTyped == ASSUME TypeOK, NEW b \in Blk PROVE HashOf(b) \in Hashes
    BY BoundAssumption DEF TypeOK, ChainType, HashOf, Hashes, Blk

LEMMA TipTyped == ASSUME chain \in Seq(Hashes) PROVE Tip \in Hashes
    BY HashTyped DEF Tip

LEMMA MadeOne ==
    ASSUME TypeOK, NEW k \in Kinds, Make(k)
    PROVE /\ made' = made + 1 /\ made + 1 \in Blk
          /\ kind'[made + 1] = k /\ prev'[made + 1] = Tip
          /\ \A b \in 1 .. made : b \in Blk /\ kind'[b] = kind[b] /\ prev'[b] = prev[b]
    BY UseTyped, BoundAssumption DEF TypeOK, ChainType

LEMMA BegunKeeps ==
    ASSUME NEW t, GetWork(t) \/ GetTemplate(t) \/ SubmitWork(t) \/ SubmitBlock(t) \/ GetStake(t)
    PROVE UNCHANGED <<use, chainVars, listVars, workVars, lock, mainVars, old>>
    BY DEF GetWork, GetTemplate, SubmitWork, SubmitBlock, GetStake

LEMMA Begun ==
    ASSUME TypeOK, NEW t \in Rpc,
           GetWork(t) \/ GetTemplate(t) \/ SubmitWork(t) \/ SubmitBlock(t) \/ GetStake(t)
    PROVE /\ UNCHANGED <<use, chainVars, listVars, workVars, lock, mainVars>>
          /\ \A u \in Rpc : u # t => pc'[u] = pc[u] /\ mine'[u] = mine[u] /\ ans'[u] = ans[u]
          /\ pc[t] \in {"idle", "client"} /\ mine'[t] = None /\ ans'[t] = "none"
          /\ pc'[t] \in {"work", "template", "nonce", "submit", "stake"}
<1>1. PICK m, p : Call(t, m, p) /\ p \in {"work", "template", "nonce", "submit", "stake"}
    BY DEF GetWork, GetTemplate, SubmitWork, SubmitBlock, GetStake
<1>2. UNCHANGED <<use, chainVars, listVars, workVars, lock, mainVars>>
    BY BegunKeeps
<1> QED BY <1>1, <1>2 DEF TypeOK, CallType

LEMMA Grown ==
    ASSUME chain \in Seq(Hashes), NEW h \in Hashes, chain' = Append(chain, h)
    PROVE Tip' = h /\ Len(chain) \in Nat /\ Len(chain') = Len(chain) + 1
<1>1. Len(chain) \in Nat /\ Len(chain') = Len(chain) + 1 /\ chain'[Len(chain) + 1] = h
    OBVIOUS
<1>2. chain' # << >>
    BY <1>1
<1> QED BY <1>1, <1>2 DEF Tip

\* What the chain, its height and the last blocks seen are after a switch.
LEMMA Switched ==
    ASSUME TypeOK, SwitchChain
    PROVE /\ UNCHANGED <<use, made, kind, prev, ver, listVars, workVars, seen, cur, peers,
                        pc, mine, asked, hgt, calls, ans>>
          /\ mpc' = "nodes" /\ lock' = Free /\ late' = Rpc
          /\ old' = old \cup {b \in 1 .. made : kind[b] = "work"}
          /\ chain' \in Seq(Hashes) /\ height' = Len(chain') /\ height' \in Nat \ {0}
          /\ Len(chain') <= Len(chain)
          /\ \A i \in 1 .. Len(chain') : chain'[i] = chain[i] /\ i \in 1 .. Len(chain)
          /\ \A h \in away' : h \in away \/ \E i \in 1 .. Len(chain) : h = chain[i]
          /\ \A t \in Rpc : tips[t] \subseteq tips'[t] /\ (pc[t] \in AnswersWork => Tip' \in tips'[t])
          /\ tips' \in [Rpc -> SUBSET Hashes] /\ away' \subseteq Hashes
<1>1. PICK n \in 1 .. Len(chain) - 1 :
        /\ chain' = SubSeq(chain, 1, n) /\ height' = n
        /\ away' = away \cup {chain[i] : i \in n + 1 .. Len(chain)}
        /\ Seen(chain[n])
    BY DEF SwitchChain
<1>2. /\ chain' \in Seq(Hashes) /\ Len(chain') = n /\ n \in Nat \ {0} /\ n < Len(chain)
      /\ Tip' = chain[n] /\ chain[n] \in Hashes /\ Len(chain) \in Nat
      /\ \A i \in 1 .. n : chain'[i] = chain[i] /\ i \in 1 .. Len(chain)
  <2>1. chain \in Seq(Hashes) /\ Len(chain) \in Nat /\ n \in Nat \ {0} /\ n < Len(chain)
    BY DEF TypeOK, ChainType
  <2>2. /\ chain' \in Seq(Hashes) /\ Len(chain') = n
        /\ \A i \in 1 .. n : chain'[i] = chain[i] /\ i \in 1 .. Len(chain)
    BY <1>1, <2>1
  <2>3. chain' # << >> /\ chain'[Len(chain')] = chain[n] /\ chain[n] \in Hashes
    BY <2>1, <2>2
  <2> QED BY <2>1, <2>2, <2>3 DEF Tip
<1>3. \A i \in n + 1 .. Len(chain) : i \in 1 .. Len(chain) /\ chain[i] \in Hashes
    BY <1>2 DEF TypeOK, ChainType
<1>4. \A t \in Rpc : tips[t] \subseteq tips'[t] /\ (pc[t] \in AnswersWork => Tip' \in tips'[t])
    BY <1>1, <1>2 DEF TypeOK, CallType
<1>5. tips' \in [Rpc -> SUBSET Hashes]
    BY <1>1, <1>2 DEF TypeOK, CallType
<1>6. away' \subseteq Hashes
    BY <1>1, <1>3 DEF TypeOK, ChainType
<1>7. /\ UNCHANGED <<use, made, kind, prev, ver, listVars, workVars, seen, cur, peers,
                     pc, mine, asked, hgt, calls, ans>>
      /\ mpc' = "nodes" /\ lock' = Free /\ late' = Rpc
      /\ old' = old \cup {b \in 1 .. made : kind[b] = "work"}
    BY DEF SwitchChain
<1>8. \A h \in away' : h \in away \/ \E i \in 1 .. Len(chain) : h = chain[i]
    BY <1>1, <1>3
<1> QED BY <1>1, <1>2, <1>4, <1>5, <1>6, <1>7, <1>8

-----------------------------------------------------------------------------
(* Types *)

\* Every step keeps TypeOK, given that blocks in use are made and of the right kind.
LEMMA MainTyped == ASSUME TypeOK, MadeInv, MainStep PROVE TypeOK'
<1>0. use.blocks \in 0 .. MaxBlocks /\ use.peers \in Nat /\ Tip \in Hashes
    BY UseTyped, TipTyped DEF TypeOK, ChainType
<1>a. \A b \in Blk : HashOf(b) \in Hashes
    BY HashOfTyped
<1> USE <1>0, <1>a, HashTyped, BoundAssumption DEF TypeOK
<1>1. CASE PeerBlock
    <2>1. ChainType'
        BY <1>1 DEF PeerBlock, MainPcs, Kinds, MadeInv, ChainType, ListType, LoopType, CallType
    <2>2. ListType'
        BY <1>1 DEF PeerBlock, MainPcs, Kinds, MadeInv, ChainType, ListType, LoopType, CallType
    <2>3. LoopType'
        BY <1>1 DEF PeerBlock, MainPcs, Kinds, MadeInv, ChainType, ListType, LoopType, CallType
    <2>4. CallType'
        BY <1>1 DEF PeerBlock, MainPcs, Kinds, MadeInv, ChainType, ListType, LoopType, CallType
    <2>5. use' \in Uses
        BY <1>1 DEF PeerBlock
    <2> QED BY <2>1, <2>2, <2>3, <2>4, <2>5
<1>2. CASE HandleLock
    BY <1>2 DEF HandleLock, MainPcs, Kinds, MadeInv, ChainType, ListType, LoopType, CallType
<1>3. CASE HandleBlock
    <2>1. ChainType'
      <3>1. CASE Make("peer") /\ Grow(<<made + 1, 0>>) /\ UNCHANGED <<ver, away>>
        <4>1. <<made + 1, 0>> \in Hashes
            BY <3>1 DEF ChainType
        <4>2. chain' \in Seq(Hashes) /\ height' \in Nat \ {0}
            BY <3>1, <4>1 DEF ChainType
        <4> QED BY SMTT(30), <3>1, <4>2 DEF ChainType, Kinds
      <3>2. ASSUME NEW h \in away, Grow(h), UNCHANGED <<made, kind, prev, ver, away>>
            PROVE ChainType'
        BY <3>2 DEF ChainType
      <3>3. CASE UNCHANGED <<made, kind, prev, chain, height, ver, away>>
        BY <3>3 DEF ChainType
      <3> QED BY <1>3, <3>1, <3>2, <3>3 DEF HandleBlock
    <2>2. ListType'
        BY <1>3 DEF HandleBlock, MainPcs, Kinds, MadeInv, ChainType, ListType, LoopType,
           CallType
    <2>3. LoopType'
        BY <1>3 DEF HandleBlock, MainPcs, Kinds, MadeInv, ChainType, ListType, LoopType,
           CallType
    <2>4. CallType'
      <3>1. made < use.blocks => <<made + 1, 0>> \in Hashes
        BY DEF ChainType
      <3>2. ASSUME tips' = tips PROVE tips' \in [Rpc -> SUBSET Hashes]
        BY <3>2 DEF CallType
      <3>3. ASSUME made < use.blocks, Grow(<<made + 1, 0>>)
            PROVE tips' \in [Rpc -> SUBSET Hashes]
        BY <3>1, <3>3 DEF CallType
      <3>4. ASSUME NEW h \in away, Grow(h) PROVE tips' \in [Rpc -> SUBSET Hashes]
        BY <3>4 DEF CallType, ChainType
      <3>5. tips' \in [Rpc -> SUBSET Hashes]
        BY <1>3, <3>2, <3>3, <3>4 DEF HandleBlock, CallType
      <3> QED BY <1>3, <3>5 DEF HandleBlock, CallType
    <2>5. use' \in Uses
        BY <1>3 DEF HandleBlock
    <2> QED BY <2>1, <2>2, <2>3, <2>4, <2>5
<1>4. CASE NodesDone
    BY <1>4 DEF NodesDone, MainPcs, Kinds, MadeInv, ChainType, ListType, LoopType, CallType
<1>5. CASE Stake
    <2>1. ChainType'
        BY <1>5 DEF Stake, MainPcs, Kinds, MadeInv, ChainType, ListType, LoopType, CallType
    <2>2. ListType'
        BY SMTT(30), <1>5 DEF Stake, MainPcs, Kinds, MadeInv, ChainType, ListType, LoopType, CallType
    <2>3. LoopType'
        BY <1>5 DEF Stake, MainPcs, Kinds, MadeInv, ChainType, ListType, LoopType, CallType
    <2>4. CallType'
        BY <1>5 DEF Stake, MainPcs, Kinds, MadeInv, ChainType, ListType, LoopType, CallType
    <2>5. use' \in Uses
        BY <1>5 DEF Stake
    <2> QED BY <2>1, <2>2, <2>3, <2>4, <2>5
<1>6. CASE NoStake
    BY <1>6 DEF NoStake, MainPcs, Kinds, MadeInv, ChainType, ListType, LoopType, CallType
<1>7. ASSUME NEW b \in Blk, Pass(b) PROVE TypeOK'
    BY <1>7 DEF Pass, MainPcs, Kinds, MadeInv, ChainType, ListType, LoopType, CallType
<1>8. ASSUME NEW b \in Blk, AcceptBlock(b) PROVE TypeOK'
    BY <1>8 DEF AcceptBlock, MainPcs, Kinds, MadeInv, ChainType, ListType, LoopType, CallType
<1>9. ASSUME NEW b \in Blk, RefuseBlock(b) PROVE TypeOK'
    BY <1>9 DEF RefuseBlock, MainPcs, Kinds, MadeInv, ChainType, ListType, LoopType, CallType
<1>10. CASE AddNewBlock
    BY SMTT(30), <1>10 DEF AddNewBlock, MainPcs, Kinds, MadeInv, ChainType, ListType, LoopType, CallType
<1>11. CASE AddFails
    BY <1>11 DEF AddFails, MainPcs, Kinds, MadeInv, ChainType, ListType, LoopType, CallType
<1>12. CASE MarkDone
    BY <1>12 DEF MarkDone, MainPcs, Kinds, MadeInv, ChainType, ListType, LoopType, CallType
<1>13. CASE Purge
    BY <1>13 DEF Purge, MainPcs, Kinds, MadeInv, ChainType, ListType, LoopType, CallType
<1>14. CASE SwitchChain
    <2>1. ChainType'
        BY <1>14, Switched DEF ChainType
    <2>2. ListType'
        BY <1>14, Switched DEF ListType
    <2>3. LoopType' /\ use' \in Uses
        BY <1>14, Switched DEF LoopType, MainPcs
    <2>4. CallType'
      <3>1. \A b \in 1 .. made : b \in Blk
        BY DEF ChainType
      <3>2. old' = old \cup {b \in 1 .. made : kind[b] = "work"} /\ old \subseteq Blk
        BY <1>14, Switched DEF CallType
      <3>3. old' \subseteq Blk
        BY <3>1, <3>2
      <3> QED BY <1>14, <3>3, Switched DEF CallType
    <2> QED BY <2>1, <2>2, <2>3, <2>4
<1> QED BY <1>1, <1>2, <1>3, <1>4, <1>5, <1>6, <1>7, <1>8, <1>9, <1>10, <1>11, <1>12,
      <1>13, <1>14 DEF MainStep

LEMMA Called ==
    ASSUME TypeOK, NEW t \in Rpc, NEW m, NEW p \in RpcPcs, Call(t, m, p),
        UNCHANGED <<use, asked, old>>
    PROVE CallType'
<1>1. hgt' \in [Rpc -> Nat \ {0}] /\ tips' \in [Rpc -> SUBSET Hashes]
    BY TipTyped DEF TypeOK, ChainType, CallType
<1>2. calls' \in [Rpc -> 0 .. use'.calls]
    BY UseTyped, BoundAssumption DEF TypeOK, CallType
<1>3. pc' \in [Rpc -> RpcPcs] /\ mine' \in [Rpc -> Blk \cup {None}] /\ ans' \in [Rpc -> Answers]
    BY DEF TypeOK, CallType, Answers
<1> QED BY <1>1, <1>2, <1>3 DEF TypeOK, CallType

LEMMA CallTyped ==
    ASSUME TypeOK, MadeInv, KindInv, NEW t \in Rpc, Begin(t) \/ Proceed(t) \/ Client(t)
    PROVE TypeOK'
<1>0. /\ use.blocks \in 0 .. MaxBlocks
      /\ use.calls \in 0 .. MaxCalls
      /\ Tip \in Hashes
    BY UseTyped, TipTyped DEF TypeOK, ChainType
<1>a. \A b \in Blk : HashOf(b) \in Hashes
    BY HashOfTyped
<1> USE <1>0, <1>a, HashTyped, BoundAssumption DEF TypeOK
<1>1. CASE GetWork(t)
    <2>1. ChainType'
        BY <1>1 DEF GetWork, RpcPcs, Kinds, KindInv, KindOf, AnswersWork, Answers,
           ClientPcs, ChainType, ListType, LoopType, CallType
    <2>2. ListType'
        BY <1>1 DEF GetWork, RpcPcs, Kinds, KindInv, KindOf, AnswersWork, Answers,
           ClientPcs, ChainType, ListType, LoopType, CallType
    <2>3. LoopType'
        BY <1>1 DEF GetWork, RpcPcs, Kinds, KindInv, KindOf, AnswersWork, Answers,
           ClientPcs, ChainType, ListType, LoopType, CallType
    <2>4. CallType'
        BY <1>1, Called DEF GetWork, RpcPcs, AnswersWork
    <2>5. use' \in Uses
        BY <1>1 DEF GetWork
    <2> QED BY <2>1, <2>2, <2>3, <2>4, <2>5
<1>2. CASE GetTemplate(t)
    <2>1. ChainType'
        BY <1>2 DEF GetTemplate, RpcPcs, Kinds, KindInv, KindOf, AnswersWork, Answers,
           ClientPcs, ChainType, ListType, LoopType, CallType
    <2>2. ListType'
        BY <1>2 DEF GetTemplate, RpcPcs, Kinds, KindInv, KindOf, AnswersWork, Answers,
           ClientPcs, ChainType, ListType, LoopType, CallType
    <2>3. LoopType'
        BY <1>2 DEF GetTemplate, RpcPcs, Kinds, KindInv, KindOf, AnswersWork, Answers,
           ClientPcs, ChainType, ListType, LoopType, CallType
    <2>4. CallType'
        BY <1>2, Called DEF GetTemplate, RpcPcs, AnswersWork
    <2>5. use' \in Uses
        BY <1>2 DEF GetTemplate
    <2> QED BY <2>1, <2>2, <2>3, <2>4, <2>5
<1>3. CASE SubmitWork(t)
    <2>1. ChainType'
        BY <1>3 DEF SubmitWork, RpcPcs, Kinds, KindInv, KindOf, AnswersWork, Answers,
           ClientPcs, ChainType, ListType, LoopType, CallType
    <2>2. ListType'
        BY <1>3 DEF SubmitWork, RpcPcs, Kinds, KindInv, KindOf, AnswersWork, Answers,
           ClientPcs, ChainType, ListType, LoopType, CallType
    <2>3. LoopType'
        BY <1>3 DEF SubmitWork, RpcPcs, Kinds, KindInv, KindOf, AnswersWork, Answers,
           ClientPcs, ChainType, ListType, LoopType, CallType
    <2>4. CallType'
        BY <1>3, Called DEF SubmitWork, RpcPcs, AnswersWork
    <2>5. use' \in Uses
        BY <1>3 DEF SubmitWork
    <2> QED BY <2>1, <2>2, <2>3, <2>4, <2>5
<1>4. CASE SubmitBlock(t)
    <2>1. ChainType'
        BY <1>4 DEF SubmitBlock, RpcPcs, Kinds, KindInv, KindOf, AnswersWork, Answers,
           ClientPcs, ChainType, ListType, LoopType, CallType
    <2>2. ListType'
        BY <1>4 DEF SubmitBlock, RpcPcs, Kinds, KindInv, KindOf, AnswersWork, Answers,
           ClientPcs, ChainType, ListType, LoopType, CallType
    <2>3. LoopType'
        BY <1>4 DEF SubmitBlock, RpcPcs, Kinds, KindInv, KindOf, AnswersWork, Answers,
           ClientPcs, ChainType, ListType, LoopType, CallType
    <2>4. CallType'
        BY <1>4, Called DEF SubmitBlock, RpcPcs, AnswersWork
    <2>5. use' \in Uses
        BY <1>4 DEF SubmitBlock
    <2> QED BY <2>1, <2>2, <2>3, <2>4, <2>5
<1>5. CASE GetStake(t)
    <2>1. ChainType'
        BY <1>5 DEF GetStake, RpcPcs, Kinds, KindInv, KindOf, AnswersWork, Answers,
           ClientPcs, ChainType, ListType, LoopType, CallType
    <2>2. ListType'
        BY <1>5 DEF GetStake, RpcPcs, Kinds, KindInv, KindOf, AnswersWork, Answers,
           ClientPcs, ChainType, ListType, LoopType, CallType
    <2>3. LoopType'
        BY <1>5 DEF GetStake, RpcPcs, Kinds, KindInv, KindOf, AnswersWork, Answers,
           ClientPcs, ChainType, ListType, LoopType, CallType
    <2>4. CallType'
        BY <1>5, Called DEF GetStake, RpcPcs, AnswersWork
    <2>5. use' \in Uses
        BY <1>5 DEF GetStake
    <2> QED BY <2>1, <2>2, <2>3, <2>4, <2>5
<1>6. ASSUME NEW b \in Blk, Resume(t, b) PROVE TypeOK'
    <2>1. ChainType'
        BY <1>6 DEF Resume, RpcPcs, Kinds, KindInv, KindOf, AnswersWork, Answers, ClientPcs,
           ChainType, ListType, LoopType, CallType
    <2>2. ListType'
        BY <1>6 DEF Resume, RpcPcs, Kinds, KindInv, KindOf, AnswersWork, Answers, ClientPcs,
           ChainType, ListType, LoopType, CallType
    <2>3. LoopType'
        BY <1>6 DEF Resume, RpcPcs, Kinds, KindInv, KindOf, AnswersWork, Answers, ClientPcs,
           ChainType, ListType, LoopType, CallType
    <2>4. CallType'
      <3>1. calls' \in [Rpc -> 0 .. use'.calls]
        BY <1>6 DEF Resume, CallType
      <3>2. pc' \in [Rpc -> RpcPcs] /\ ans' \in [Rpc -> Answers]
        BY <1>6 DEF Resume, CallType, RpcPcs, Answers
      <3>3. mine' \in [Rpc -> Blk \cup {None}] /\ asked' \in [Rpc -> Hashes]
        BY <1>6 DEF Resume, CallType
      <3> QED BY <1>6, <3>1, <3>2, <3>3 DEF Resume, CallType
    <2>5. use' \in Uses
        BY <1>6 DEF Resume
    <2> QED BY <2>1, <2>2, <2>3, <2>4, <2>5
<1>7. CASE GetWorkLock(t)
    BY <1>7 DEF GetWorkLock, RpcPcs, Kinds, KindInv, KindOf, AnswersWork, Answers,
       ClientPcs, ChainType, ListType, LoopType, CallType
<1>8. CASE NewWork(t)
    <2>1. ChainType'
        BY SMTT(30), <1>8 DEF NewWork, RpcPcs, Kinds, KindInv, KindOf, AnswersWork, Answers,
           ClientPcs, ChainType, ListType, LoopType, CallType
    <2>2. ListType'
        BY SMTT(30), <1>8 DEF NewWork, RpcPcs, Kinds, KindInv, KindOf, AnswersWork, Answers,
           ClientPcs, ChainType, ListType, LoopType, CallType
    <2>3. LoopType'
        BY <1>8 DEF NewWork, RpcPcs, Kinds, KindInv, KindOf, AnswersWork, Answers,
           ClientPcs, ChainType, ListType, LoopType, CallType
    <2>4. CallType'
      <3>1. made + 1 \in Blk
        BY <1>8, MadeOne DEF NewWork, Kinds
      <3> QED BY <1>8, <3>1 DEF NewWork, RpcPcs, AnswersWork, CallType
    <2>5. use' \in Uses
        BY <1>8 DEF NewWork
    <2> QED BY <2>1, <2>2, <2>3, <2>4, <2>5
<1>9. CASE OldWork(t)
    BY <1>9 DEF OldWork, RpcPcs, Kinds, KindInv, KindOf, AnswersWork, Answers, ClientPcs,
       ChainType, ListType, LoopType, CallType
<1>10. CASE TemplateLock(t)
    BY <1>10 DEF TemplateLock, RpcPcs, Kinds, KindInv, KindOf, AnswersWork, Answers,
       ClientPcs, ChainType, ListType, LoopType, CallType
<1>11. CASE NewTemplate(t)
    <2>1. ChainType'
        BY SMTT(30), <1>11 DEF NewTemplate, RpcPcs, Kinds, KindInv, KindOf, AnswersWork, Answers,
           ClientPcs, ChainType, ListType, LoopType, CallType
    <2>2. ListType'
        BY SMTT(30), <1>11 DEF NewTemplate, RpcPcs, Kinds, KindInv, KindOf, AnswersWork, Answers,
           ClientPcs, ChainType, ListType, LoopType, CallType
    <2>3. LoopType'
        BY <1>11 DEF NewTemplate, RpcPcs, Kinds, KindInv, KindOf, AnswersWork, Answers,
           ClientPcs, ChainType, ListType, LoopType, CallType
    <2>4. CallType'
      <3>1. made + 1 \in Blk
        BY <1>11, MadeOne DEF NewTemplate, Kinds
      <3> QED BY <1>11, <3>1 DEF NewTemplate, RpcPcs, AnswersWork, CallType
    <2>5. use' \in Uses
        BY <1>11 DEF NewTemplate
    <2> QED BY <2>1, <2>2, <2>3, <2>4, <2>5
<1>12. CASE OldTemplate(t)
    BY <1>12 DEF OldTemplate, RpcPcs, Kinds, KindInv, KindOf, AnswersWork, Answers,
       ClientPcs, ChainType, ListType, LoopType, CallType
<1>13. CASE WriteWork(t)
    BY <1>13 DEF WriteWork, RpcPcs, Kinds, KindInv, KindOf, AnswersWork, Answers, ClientPcs,
       ChainType, ListType, LoopType, CallType
<1>14. CASE WriteTemplate(t)
    BY <1>14 DEF WriteTemplate, RpcPcs, Kinds, KindInv, KindOf, AnswersWork, Answers,
       ClientPcs, ChainType, ListType, LoopType, CallType
<1>15. CASE SubmitWorkLock(t)
    BY <1>15 DEF SubmitWorkLock, RpcPcs, Kinds, KindInv, KindOf, AnswersWork, Answers,
       ClientPcs, ChainType, ListType, LoopType, CallType
<1>16. CASE NoWork(t)
    BY <1>16 DEF NoWork, RpcPcs, Kinds, KindInv, KindOf, AnswersWork, Answers, ClientPcs,
       ChainType, ListType, LoopType, CallType
<1>17. CASE QueueWork(t)
    BY <1>17 DEF QueueWork, RpcPcs, Kinds, KindInv, KindOf, AnswersWork, Answers, ClientPcs,
       ChainType, ListType, LoopType, CallType
<1>18. CASE WorkDone(t)
    BY <1>18 DEF WorkDone, RpcPcs, Kinds, KindInv, KindOf, AnswersWork, Answers, ClientPcs,
       ChainType, ListType, LoopType, CallType
<1>19. CASE WorkAnswer(t)
    BY <1>19 DEF WorkAnswer, RpcPcs, Kinds, KindInv, KindOf, AnswersWork, Answers,
       ClientPcs, ChainType, ListType, LoopType, CallType
<1>20. CASE SubmitOther(t)
    BY <1>20 DEF SubmitOther, RpcPcs, Kinds, KindInv, KindOf, AnswersWork, Answers,
       ClientPcs, ChainType, ListType, LoopType, CallType
<1>21. CASE SubmitNext(t)
    <2>1. ChainType'
        BY <1>21 DEF SubmitNext, RpcPcs, Kinds, KindInv, KindOf, AnswersWork, Answers,
           ClientPcs, ChainType, ListType, LoopType, CallType
    <2>2. ListType'
        BY <1>21 DEF SubmitNext, RpcPcs, Kinds, KindInv, KindOf, AnswersWork, Answers,
           ClientPcs, ChainType, ListType, LoopType, CallType
    <2>3. LoopType'
        BY <1>21 DEF SubmitNext, RpcPcs, Kinds, KindInv, KindOf, AnswersWork, Answers,
           ClientPcs, ChainType, ListType, LoopType, CallType
    <2>4. CallType'
        BY SMTT(30), <1>21 DEF SubmitNext, RpcPcs, Kinds, KindInv, KindOf, AnswersWork, Answers,
           ClientPcs, ChainType, ListType, LoopType, CallType
    <2>5. use' \in Uses
        BY <1>21 DEF SubmitNext
    <2> QED BY <2>1, <2>2, <2>3, <2>4, <2>5
<1>22. CASE QueueBlock(t)
    BY <1>22 DEF QueueBlock, RpcPcs, Kinds, KindInv, KindOf, AnswersWork, Answers,
       ClientPcs, ChainType, ListType, LoopType, CallType
<1>23. CASE BlockDone(t)
    BY <1>23 DEF BlockDone, RpcPcs, Kinds, KindInv, KindOf, AnswersWork, Answers, ClientPcs,
       ChainType, ListType, LoopType, CallType
<1>24. CASE BlockFound(t)
    BY <1>24 DEF BlockFound, RpcPcs, Kinds, KindInv, KindOf, AnswersWork, Answers,
       ClientPcs, ChainType, ListType, LoopType, CallType
<1>25. CASE BlockAnswer(t)
    <2>1. ChainType' /\ ListType' /\ LoopType' /\ use' \in Uses
        BY <1>25 DEF BlockAnswer, ChainType, ListType, LoopType
    <2>2. CallType'
        BY <1>25 DEF BlockAnswer, RpcPcs, Answers, CallType
    <2> QED BY <2>1, <2>2
<1>26. CASE GetStakeTx(t)
    <2>1. ChainType'
        BY SMTT(30), <1>26 DEF GetStakeTx, RpcPcs, Kinds, KindInv, KindOf, AnswersWork, Answers,
           ClientPcs, ChainType, ListType, LoopType, CallType
    <2>2. ListType'
        BY SMTT(30), <1>26 DEF GetStakeTx, RpcPcs, Kinds, KindInv, KindOf, AnswersWork, Answers,
           ClientPcs, ChainType, ListType, LoopType, CallType
    <2>3. LoopType'
        BY <1>26 DEF GetStakeTx, RpcPcs, Kinds, KindInv, KindOf, AnswersWork, Answers,
           ClientPcs, ChainType, ListType, LoopType, CallType
    <2>4. CallType'
        BY SMTT(30), <1>26 DEF GetStakeTx, RpcPcs, Kinds, KindInv, KindOf, AnswersWork, Answers,
           ClientPcs, ChainType, ListType, LoopType, CallType
    <2>5. use' \in Uses
        BY <1>26 DEF GetStakeTx
    <2> QED BY <2>1, <2>2, <2>3, <2>4, <2>5
<1>27. CASE GetStakeNone(t)
    BY <1>27 DEF GetStakeNone, RpcPcs, Kinds, KindInv, KindOf, AnswersWork, Answers,
       ClientPcs, ChainType, ListType, LoopType, CallType
<1>28. CASE GetStakeAnswer(t)
    BY <1>28 DEF GetStakeAnswer, RpcPcs, Kinds, KindInv, KindOf, AnswersWork, Answers,
       ClientPcs, ChainType, ListType, LoopType, CallType
<1>29. CASE SignBlock(t)
    <2>1. ChainType'
        BY <1>29 DEF SignBlock, RpcPcs, Kinds, KindInv, KindOf, AnswersWork, Answers,
           ClientPcs, ChainType, ListType, LoopType, CallType
    <2>2. ListType'
        BY <1>29 DEF SignBlock, RpcPcs, Kinds, KindInv, KindOf, AnswersWork, Answers,
           ClientPcs, ChainType, ListType, LoopType, CallType
    <2>3. LoopType'
        BY <1>29 DEF SignBlock, RpcPcs, Kinds, KindInv, KindOf, AnswersWork, Answers,
           ClientPcs, ChainType, ListType, LoopType, CallType
    <2>4. CallType'
        BY <1>29 DEF SignBlock, RpcPcs, Kinds, KindInv, KindOf, AnswersWork, Answers,
           ClientPcs, ChainType, ListType, LoopType, CallType
    <2>5. use' \in Uses
        BY <1>29 DEF SignBlock
    <2> QED BY <2>1, <2>2, <2>3, <2>4, <2>5
<1>30. CASE SignDone(t)
    BY <1>30 DEF SignDone, RpcPcs, Kinds, KindInv, KindOf, AnswersWork, Answers, ClientPcs,
       ChainType, ListType, LoopType, CallType
<1>31. CASE SignTx(t)
    <2>1. ChainType'
      <3>1. IsNext(mine[t]) => ver[mine[t]] + 1 \in 0 .. MaxCalls
        BY <1>31 DEF SignTx, ChainType, CallType, KindInv, KindOf, ClientPcs
      <3> QED BY <1>31, <3>1 DEF SignTx, ChainType
    <2>2. ListType'
        BY <1>31 DEF SignTx, RpcPcs, Kinds, KindInv, KindOf, AnswersWork, Answers,
           ClientPcs, ChainType, ListType, LoopType, CallType
    <2>3. LoopType'
        BY <1>31 DEF SignTx, RpcPcs, Kinds, KindInv, KindOf, AnswersWork, Answers,
           ClientPcs, ChainType, ListType, LoopType, CallType
    <2>4. CallType'
      <3>1. IsNext(mine[t]) => ver[mine[t]] + 1 \in 0 .. MaxCalls
        BY <1>31 DEF SignTx, ChainType, CallType, KindInv, KindOf, ClientPcs
      <3>2. IsNext(mine[t]) => <<mine[t], ver[mine[t]] + 1>> \in Hashes
        BY <1>31, <3>1 DEF SignTx, CallType, Hashes
      <3> QED BY <1>31, <3>2 DEF SignTx, CallType
    <2>5. use' \in Uses
        BY <1>31 DEF SignTx
    <2> QED BY <2>1, <2>2, <2>3, <2>4, <2>5
<1>32. CASE SignLookup(t)
    <2>1. ans' = ans \/ ans' = [ans EXCEPT ![t] = "rejected"]
        BY <1>32 DEF SignLookup
    <2>2. pc' = [pc EXCEPT ![t] = "sign"] \/ pc' = [pc EXCEPT ![t] = "idle"]
        BY <1>32 DEF SignLookup
    <2>3. list' = list \/ list' = list \ {mine[t]}
        BY <1>32 DEF SignLookup
    <2>4. UNCHANGED <<use, chainVars, ready, done, workVars, lock, mainVars, mine, asked,
                    hgt, calls, tips, histVars>>
        BY <1>32 DEF SignLookup
    <2>5. pc' \in [Rpc -> RpcPcs] /\ ans' \in [Rpc -> Answers]
        BY <2>1, <2>2 DEF RpcPcs, Answers, CallType
    <2> QED BY <2>3, <2>4, <2>5 DEF ChainType, ListType, LoopType, CallType
<1> QED BY <1>1, <1>2, <1>3, <1>4, <1>5, <1>6, <1>7, <1>8, <1>9, <1>10, <1>11, <1>12, <1>13,
      <1>14, <1>15, <1>16, <1>17, <1>18, <1>19, <1>20, <1>21, <1>22, <1>23, <1>24, <1>25,
      <1>26, <1>27, <1>28, <1>29, <1>30, <1>31, <1>32 DEF Begin, Proceed, Client

-----------------------------------------------------------------------------
(* Blocks, their makers, and the lock *)

\* Blocks are made before they are named; their makers stay what they are; and
\* only the holder of the lock is between taking and leaving it.
LEMMA MadeMain == ASSUME TypeOK, MadeInv, KindInv, MainStep PROVE MadeInv'
<1> USE BoundAssumption DEF TypeOK, ChainType, ListType, LoopType, CallType, MadeInv, HashOf
<1>1. CASE HandleBlock
    BY <1>1 DEF HandleBlock
<1>2. CASE Stake
    BY <1>2 DEF Stake
<1>3. CASE MarkDone
    BY <1>3 DEF MarkDone
<1>4. ASSUME NEW b \in Blk, Pass(b) PROVE MadeInv'
    BY <1>4 DEF Pass
<1>5. ASSUME NEW b \in Blk, AcceptBlock(b) PROVE MadeInv'
    BY <1>5 DEF AcceptBlock
<1>6. ASSUME NEW b \in Blk, RefuseBlock(b) PROVE MadeInv'
    BY <1>6 DEF RefuseBlock
<1>7. CASE PeerBlock \/ HandleLock \/ NodesDone \/ NoStake
    BY <1>7 DEF PeerBlock, HandleLock, NodesDone, NoStake
<1>8. CASE AddNewBlock \/ AddFails \/ Purge
    BY <1>8 DEF AddNewBlock, AddFails, Purge
<1>9. CASE SwitchChain
    BY <1>9, Switched
<1> QED BY <1>1, <1>2, <1>3, <1>4, <1>5, <1>6, <1>7, <1>8, <1>9 DEF MainStep

LEMMA MadeCall ==
    ASSUME TypeOK, MadeInv, KindInv, NEW t \in Rpc, Begin(t) \/ Proceed(t) \/ Client(t)
    PROVE MadeInv'
<1> USE BoundAssumption DEF TypeOK, ChainType, ListType, LoopType, CallType, MadeInv,
      KindInv, KindOf, ClientPcs
<1>1. CASE NewWork(t)
    BY <1>1 DEF NewWork
<1>2. CASE NewTemplate(t)
    BY <1>2 DEF NewTemplate
<1>3. CASE QueueWork(t)
    BY SMTT(30), <1>3 DEF QueueWork
<1>4. CASE SubmitNext(t)
    BY <1>4 DEF SubmitNext
<1>5. CASE QueueBlock(t)
    <2>1. mine[t] \in 1 .. made
        BY <1>5 DEF QueueBlock
    <2> QED BY <1>5, <2>1 DEF QueueBlock
<1>6. CASE GetStakeTx(t)
    BY <1>6 DEF GetStakeTx
<1>7. CASE SignBlock(t)
    <2>1. mine[t] \in 1 .. made
        BY <1>7 DEF SignBlock
    <2> QED BY <1>7, <2>1 DEF SignBlock
<1>8. ASSUME NEW b \in Blk, Resume(t, b) PROVE MadeInv'
    BY <1>8 DEF Resume
<1>9. CASE GetWork(t) \/ GetTemplate(t) \/ SubmitWork(t) \/ SubmitBlock(t) \/ GetStake(t)
    <2>1. UNCHANGED <<made, ready, done, list, next, mpc, cur>>
        BY <1>9, BegunKeeps
    <2>2. mine'[t] = None /\ \A u \in Rpc : u # t => mine'[u] = mine[u]
        BY SMTT(30), <1>9, Begun
    <2>3. mine[t] \in 0 .. made /\ 0 \in 0 .. made
        OBVIOUS
    <2>4. \A u \in Rpc : mine'[u] \in 0 .. made
        BY <2>2, <2>3
    <2> QED BY <2>1, <2>4
<1>10. CASE GetWorkLock(t) \/ OldWork(t) \/ TemplateLock(t) \/ OldTemplate(t)
    <2>1. /\ UNCHANGED <<made, ready, done, mpc, cur>>
          /\ list' \subseteq list /\ (next' = next \/ next' = None)
        BY <1>10 DEF GetWorkLock, OldWork, TemplateLock, OldTemplate
    <2>2. \A u \in Rpc : mine'[u] = mine[u] \/ mine'[u] \in 0 .. made
        BY <1>10 DEF GetWorkLock, OldWork, TemplateLock, OldTemplate
    <2>3. (list \cup ready \cup done)' \subseteq 1 .. made
        BY <2>1
    <2>4. next' \in 0 .. made /\ \A u \in Rpc : mine'[u] \in 0 .. made
        BY SMTT(30), <2>1, <2>2
    <2> QED BY <2>1, <2>3, <2>4
<1>11. CASE WriteWork(t) \/ WriteTemplate(t) \/ SubmitWorkLock(t) \/ NoWork(t)
    <2>1. /\ UNCHANGED <<made, ready, done, mpc, cur>>
          /\ list' \subseteq list /\ (next' = next \/ next' = None)
        BY <1>11 DEF WriteWork, WriteTemplate, SubmitWorkLock, NoWork
    <2>2. \A u \in Rpc : mine'[u] = mine[u] \/ mine'[u] \in 0 .. made
        BY <1>11 DEF WriteWork, WriteTemplate, SubmitWorkLock, NoWork
    <2>3. (list \cup ready \cup done)' \subseteq 1 .. made
        BY <2>1
    <2>4. next' \in 0 .. made /\ \A u \in Rpc : mine'[u] \in 0 .. made
        BY SMTT(30), <2>1, <2>2
    <2> QED BY <2>1, <2>3, <2>4
<1>12. CASE WorkDone(t) \/ WorkAnswer(t) \/ SubmitOther(t) \/ BlockDone(t)
    <2>1. /\ UNCHANGED <<made, ready, done, mpc, cur>>
          /\ list' \subseteq list /\ (next' = next \/ next' = None)
        BY <1>12 DEF WorkDone, WorkAnswer, SubmitOther, BlockDone
    <2>2. \A u \in Rpc : mine'[u] = mine[u] \/ mine'[u] \in 0 .. made
        BY <1>12 DEF WorkDone, WorkAnswer, SubmitOther, BlockDone
    <2>3. (list \cup ready \cup done)' \subseteq 1 .. made
        BY <2>1
    <2>4. next' \in 0 .. made /\ \A u \in Rpc : mine'[u] \in 0 .. made
        BY SMTT(30), <2>1, <2>2
    <2> QED BY <2>1, <2>3, <2>4
<1>13. CASE BlockFound(t) \/ BlockAnswer(t) \/ GetStakeNone(t) \/ GetStakeAnswer(t)
    <2>1. /\ UNCHANGED <<made, ready, done, mpc, cur>>
          /\ list' \subseteq list /\ (next' = next \/ next' = None)
        BY <1>13 DEF BlockFound, BlockAnswer, GetStakeNone, GetStakeAnswer
    <2>2. \A u \in Rpc : mine'[u] = mine[u] \/ mine'[u] \in 0 .. made
        BY <1>13 DEF BlockFound, BlockAnswer, GetStakeNone, GetStakeAnswer
    <2>3. (list \cup ready \cup done)' \subseteq 1 .. made
        BY <2>1
    <2>4. next' \in 0 .. made /\ \A u \in Rpc : mine'[u] \in 0 .. made
        BY SMTT(30), <2>1, <2>2
    <2> QED BY <2>1, <2>3, <2>4
<1>14. CASE SignDone(t) \/ SignTx(t) \/ SignLookup(t)
    <2>1. /\ UNCHANGED <<made, ready, done, mpc, cur>>
          /\ list' \subseteq list /\ (next' = next \/ next' = None)
        BY <1>14 DEF SignDone, SignTx, SignLookup
    <2>2. \A u \in Rpc : mine'[u] = mine[u] \/ mine'[u] \in 0 .. made
        BY <1>14 DEF SignDone, SignTx, SignLookup
    <2>3. (list \cup ready \cup done)' \subseteq 1 .. made
        BY <2>1
    <2>4. next' \in 0 .. made /\ \A u \in Rpc : mine'[u] \in 0 .. made
        BY SMTT(30), <2>1, <2>2
    <2> QED BY <2>1, <2>3, <2>4
<1> QED BY <1>1, <1>2, <1>3, <1>4, <1>5, <1>6, <1>7, <1>8, <1>9, <1>10, <1>11, <1>12, <1>13,
      <1>14 DEF Begin, Proceed, Client

LEMMA KindMain == ASSUME TypeOK, MadeInv, KindInv, MainStep PROVE KindInv'
<1> USE BoundAssumption DEF TypeOK, ChainType, ListType, LoopType, CallType, MadeInv,
      KindInv, KindOf, ClientPcs
<1>1. CASE HandleBlock
    BY SMTT(30), <1>1 DEF HandleBlock
<1>2. CASE Stake
    BY <1>2 DEF Stake
<1>3. ASSUME NEW b \in Blk, Pass(b) PROVE KindInv'
    BY <1>3 DEF Pass
<1>4. ASSUME NEW b \in Blk, AcceptBlock(b) PROVE KindInv'
    BY <1>4 DEF AcceptBlock
<1>5. ASSUME NEW b \in Blk, RefuseBlock(b) PROVE KindInv'
    BY <1>5 DEF RefuseBlock
<1>6. CASE PeerBlock \/ HandleLock \/ NodesDone \/ NoStake
    BY <1>6 DEF PeerBlock, HandleLock, NodesDone, NoStake
<1>7. CASE AddNewBlock \/ AddFails \/ MarkDone \/ Purge
    BY <1>7 DEF AddNewBlock, AddFails, MarkDone, Purge
<1>8. CASE SwitchChain
    BY <1>8, Switched
<1> QED BY <1>1, <1>2, <1>3, <1>4, <1>5, <1>6, <1>7, <1>8 DEF MainStep

\* A thread goes on with its block, or takes one of the kind its method makes.
LEMMA KindRest ==
    ASSUME TypeOK, KindInv, NEW t \in Rpc, UNCHANGED kind, next' \in {next, None},
           \A u \in Rpc : u # t => pc'[u] = pc[u] /\ mine'[u] = mine[u],
           KindOf(t)'
    PROVE KindInv'
<1>1. ASSUME NEW u \in Rpc, u # t PROVE KindOf(u)'
  <2>1. KindOf(u) /\ pc'[u] = pc[u] /\ mine'[u] = mine[u] /\ kind' = kind
    BY <1>1 DEF KindInv
  <2> QED BY <2>1 DEF KindOf
<1>2. next' # None => kind'[next'] = "work"
  BY DEF KindInv
<1> QED BY <1>1, <1>2 DEF KindInv

LEMMA KindCall ==
    ASSUME TypeOK, MadeInv, KindInv, NEW t \in Rpc, Begin(t) \/ Proceed(t) \/ Client(t)
    PROVE KindInv'
<1> USE BoundAssumption DEF TypeOK, ChainType, ListType, LoopType, CallType, MadeInv,
      KindInv, KindOf, ClientPcs
<1>1. ASSUME NEW b \in Blk, Resume(t, b) PROVE KindInv'
    BY <1>1 DEF Resume
<1>2. CASE NewWork(t)
    <2>1. Make("work")
        BY <1>2 DEF NewWork
    <2>2. /\ made + 1 \in Blk /\ kind'[made + 1] = "work"
          /\ \A b \in 1 .. made : kind'[b] = kind[b]
        BY <2>1, MadeOne DEF Kinds
    <2> QED BY SMTT(30), <1>2, <2>2 DEF NewWork
<1>3. CASE NewTemplate(t)
    <2>1. Make("work")
        BY <1>3 DEF NewTemplate
    <2>2. /\ made + 1 \in Blk /\ kind'[made + 1] = "work"
          /\ \A b \in 1 .. made : kind'[b] = kind[b]
        BY <2>1, MadeOne DEF Kinds
    <2> QED BY SMTT(30), <1>3, <2>2 DEF NewTemplate
<1>4. CASE SubmitNext(t)
    <2>1. Make("miner")
        BY <1>4 DEF SubmitNext
    <2>2. /\ made + 1 \in Blk /\ kind'[made + 1] = "miner"
          /\ \A b \in 1 .. made : kind'[b] = kind[b]
        BY <2>1, MadeOne DEF Kinds
    <2> QED BY SMTT(30), <1>4, <2>2 DEF SubmitNext
<1>5. CASE GetStakeTx(t)
    <2>1. Make("client")
        BY <1>5 DEF GetStakeTx
    <2>2. /\ made + 1 \in Blk /\ kind'[made + 1] = "client"
          /\ \A b \in 1 .. made : kind'[b] = kind[b]
        BY <2>1, MadeOne DEF Kinds
    <2> QED BY SMTT(30), <1>5, <2>2 DEF GetStakeTx
<1>6. CASE GetWork(t) \/ GetTemplate(t) \/ SubmitWork(t) \/ SubmitBlock(t) \/ GetStake(t)
    <2>1. /\ UNCHANGED <<kind, next>>
          /\ \A u \in Rpc : u # t => pc'[u] = pc[u] /\ mine'[u] = mine[u]
          /\ pc'[t] \in {"work", "template", "nonce", "submit", "stake"}
        BY SMTT(30), <1>6, Begun
    <2> QED BY <2>1
<1>7. CASE GetWorkLock(t) \/ OldWork(t) \/ TemplateLock(t) \/ OldTemplate(t)
    <2>1. /\ UNCHANGED kind /\ next' \in {next, None}
          /\ \A u \in Rpc : u # t => pc'[u] = pc[u] /\ mine'[u] = mine[u]
        BY <1>7 DEF GetWorkLock, OldWork, TemplateLock, OldTemplate
    <2>2. KindOf(t)'
        BY <1>7 DEF GetWorkLock, OldWork, TemplateLock, OldTemplate
    <2> HIDE DEF TypeOK, KindInv, KindOf
    <2> QED BY <2>1, <2>2, KindRest
<1>8. CASE WriteWork(t) \/ WriteTemplate(t) \/ SubmitWorkLock(t) \/ NoWork(t)
    <2>1. /\ UNCHANGED kind /\ next' \in {next, None}
          /\ \A u \in Rpc : u # t => pc'[u] = pc[u] /\ mine'[u] = mine[u]
        BY <1>8 DEF WriteWork, WriteTemplate, SubmitWorkLock, NoWork
    <2>2. KindOf(t)'
        BY SMTT(30), <1>8 DEF WriteWork, WriteTemplate, SubmitWorkLock, NoWork
    <2> HIDE DEF TypeOK, KindInv, KindOf
    <2> QED BY <2>1, <2>2, KindRest
<1>9. CASE QueueWork(t) \/ WorkDone(t) \/ WorkAnswer(t) \/ SubmitOther(t)
    <2>1. /\ UNCHANGED kind /\ next' \in {next, None}
          /\ \A u \in Rpc : u # t => pc'[u] = pc[u] /\ mine'[u] = mine[u]
        BY <1>9 DEF QueueWork, WorkDone, WorkAnswer, SubmitOther
    <2>2. KindOf(t)'
        BY SMTT(30), <1>9 DEF QueueWork, WorkDone, WorkAnswer, SubmitOther
    <2> HIDE DEF TypeOK, KindInv, KindOf
    <2> QED BY <2>1, <2>2, KindRest
<1>10. CASE QueueBlock(t) \/ BlockDone(t) \/ BlockFound(t) \/ BlockAnswer(t)
    <2>1. /\ UNCHANGED kind /\ next' \in {next, None}
          /\ \A u \in Rpc : u # t => pc'[u] = pc[u] /\ mine'[u] = mine[u]
        BY <1>10 DEF QueueBlock, BlockDone, BlockFound, BlockAnswer
    <2>2. KindOf(t)'
        BY <1>10 DEF QueueBlock, BlockDone, BlockFound, BlockAnswer
    <2> HIDE DEF TypeOK, KindInv, KindOf
    <2> QED BY <2>1, <2>2, KindRest
<1>11. CASE GetStakeNone(t) \/ GetStakeAnswer(t) \/ SignBlock(t) \/ SignDone(t)
    <2>1. /\ UNCHANGED kind /\ next' \in {next, None}
          /\ \A u \in Rpc : u # t => pc'[u] = pc[u] /\ mine'[u] = mine[u]
        BY <1>11 DEF GetStakeNone, GetStakeAnswer, SignBlock, SignDone
    <2>2. KindOf(t)'
        BY <1>11 DEF GetStakeNone, GetStakeAnswer, SignBlock, SignDone
    <2> HIDE DEF TypeOK, KindInv, KindOf
    <2> QED BY <2>1, <2>2, KindRest
<1>12. CASE SignTx(t) \/ SignLookup(t)
    <2>1. /\ UNCHANGED kind /\ next' \in {next, None}
          /\ \A u \in Rpc : u # t => pc'[u] = pc[u] /\ mine'[u] = mine[u]
        BY <1>12 DEF SignTx, SignLookup
    <2>2. KindOf(t)'
        BY <1>12 DEF SignTx, SignLookup
    <2> HIDE DEF TypeOK, KindInv, KindOf
    <2> QED BY <2>1, <2>2, KindRest
<1> QED BY <1>1, <1>2, <1>3, <1>4, <1>5, <1>6, <1>7, <1>8, <1>9, <1>10, <1>11,
      <1>12 DEF Begin, Proceed, Client

LEMMA LockMain == ASSUME TypeOK, LockInv, MainStep PROVE LockInv'
<1> USE ThreadAssumption DEF TypeOK, ChainType, ListType, LoopType, CallType, LockInv,
      Holding, RpcPcs
<1>1. ASSUME NEW b \in Blk, Pass(b) PROVE LockInv'
    BY <1>1 DEF Pass
<1>2. ASSUME NEW b \in Blk, AcceptBlock(b) PROVE LockInv'
    BY <1>2 DEF AcceptBlock
<1>3. ASSUME NEW b \in Blk, RefuseBlock(b) PROVE LockInv'
    BY <1>3 DEF RefuseBlock
<1>4. CASE PeerBlock \/ HandleLock \/ HandleBlock \/ NodesDone
    BY <1>4 DEF PeerBlock, HandleLock, HandleBlock, NodesDone
<1>5. CASE Stake \/ NoStake \/ AddNewBlock \/ AddFails
    BY <1>5 DEF Stake, NoStake, AddNewBlock, AddFails
<1>6. CASE MarkDone \/ Purge
    BY <1>6 DEF MarkDone, Purge
<1>7. CASE SwitchChain
    BY <1>7, Switched DEF SwitchChain
<1> QED BY <1>1, <1>2, <1>3, <1>4, <1>5, <1>6, <1>7 DEF MainStep

LEMMA LockCall ==
    ASSUME TypeOK, LockInv, NEW t \in Rpc, Begin(t) \/ Proceed(t) \/ Client(t)
    PROVE LockInv'
<1> USE ThreadAssumption DEF TypeOK, ChainType, ListType, LoopType, CallType, LockInv,
      Holding, RpcPcs
<1>1. ASSUME NEW b \in Blk, Resume(t, b) PROVE LockInv'
    BY <1>1 DEF Resume
<1>2. CASE GetWork(t) \/ GetTemplate(t) \/ SubmitWork(t) \/ SubmitBlock(t) \/ GetStake(t)
    BY <1>2, Begun
<1>3. CASE GetWorkLock(t) \/ NewWork(t) \/ OldWork(t) \/ TemplateLock(t)
    BY <1>3 DEF GetWorkLock, NewWork, OldWork, TemplateLock
<1>4. CASE NewTemplate(t) \/ OldTemplate(t) \/ WriteWork(t) \/ WriteTemplate(t)
    BY <1>4 DEF NewTemplate, OldTemplate, WriteWork, WriteTemplate
<1>5. CASE SubmitWorkLock(t) \/ NoWork(t) \/ QueueWork(t) \/ WorkDone(t)
    BY <1>5 DEF SubmitWorkLock, NoWork, QueueWork, WorkDone
<1>6. CASE WorkAnswer(t) \/ SubmitOther(t) \/ SubmitNext(t) \/ QueueBlock(t)
    <2>1. CASE WorkAnswer(t)
        BY <2>1 DEF WorkAnswer
    <2>2. CASE SubmitOther(t)
        BY <2>2 DEF SubmitOther
    <2>3. CASE SubmitNext(t)
        BY <2>3 DEF SubmitNext
    <2>4. CASE QueueBlock(t)
        BY <2>4 DEF QueueBlock
    <2> QED BY <1>6, <2>1, <2>2, <2>3, <2>4
<1>7. CASE BlockDone(t) \/ BlockFound(t) \/ BlockAnswer(t) \/ GetStakeTx(t)
    BY <1>7 DEF BlockDone, BlockFound, BlockAnswer, GetStakeTx
<1>8. CASE GetStakeNone(t) \/ GetStakeAnswer(t) \/ SignBlock(t) \/ SignDone(t)
    <2>1. CASE GetStakeNone(t)
        BY <2>1 DEF GetStakeNone
    <2>2. CASE GetStakeAnswer(t)
        BY <2>2 DEF GetStakeAnswer
    <2>3. CASE SignBlock(t)
        BY <2>3 DEF SignBlock
    <2>4. CASE SignDone(t)
        BY <2>4 DEF SignDone
    <2> QED BY <1>8, <2>1, <2>2, <2>3, <2>4
<1>9. CASE SignTx(t) \/ SignLookup(t)
    BY <1>9 DEF SignTx, SignLookup
<1> QED BY <1>1, <1>2, <1>3, <1>4, <1>5, <1>6, <1>7, <1>8, <1>9 DEF Begin, Proceed, Client

-----------------------------------------------------------------------------
(* Who waits *)

\* A block under a signature belongs to one thread, so nobody else can mark it or
\* take it off the list.
LEMMA OwnMain ==
    ASSUME TypeOK, MadeInv, KindInv, LockInv, OwnInv, Awaited, MainStep
    PROVE OwnInv'
<1> USE BoundAssumption DEF TypeOK, ChainType, ListType, LoopType, CallType, MadeInv,
      KindInv, KindOf, OwnInv, Alone, Unsigned, ClientPcs
<1>1. CASE HandleBlock
    BY SMTT(30), <1>1 DEF HandleBlock, HashOf
<1>2. CASE Stake
    BY <1>2 DEF Stake, HashOf
<1>3. CASE MarkDone
    BY <1>3 DEF MarkDone, HashOf
<1>4. CASE Purge
    BY <1>4 DEF Purge, HashOf
<1>5. ASSUME NEW b \in Blk, Pass(b) PROVE OwnInv'
    BY <1>5 DEF Pass, HashOf
<1>6. ASSUME NEW b \in Blk, AcceptBlock(b) PROVE OwnInv'
    BY <1>6 DEF AcceptBlock, HashOf
<1>7. ASSUME NEW b \in Blk, RefuseBlock(b) PROVE OwnInv'
    BY <1>7 DEF RefuseBlock, HashOf
<1>8. CASE PeerBlock \/ HandleLock \/ NodesDone \/ NoStake
    BY <1>8 DEF PeerBlock, HandleLock, NodesDone, NoStake, HashOf
<1>9. CASE AddNewBlock \/ AddFails
    BY <1>9 DEF AddNewBlock, AddFails, HashOf
<1>10. CASE SwitchChain
    <2>1. UNCHANGED <<use, made, kind, listVars, pc, mine>>
        BY <1>10, Switched
    <2> QED BY <2>1
<1> QED BY <1>1, <1>2, <1>3, <1>4, <1>5, <1>6, <1>7, <1>8, <1>9, <1>10 DEF MainStep

LEMMA OwnCall ==
    ASSUME TypeOK, MadeInv, KindInv, LockInv, OwnInv, Awaited, NEW t \in Rpc,
        Begin(t) \/ Proceed(t) \/ Client(t)
    PROVE OwnInv'
<1> USE BoundAssumption DEF TypeOK, ChainType, ListType, LoopType, CallType, MadeInv,
      KindInv, KindOf, OwnInv, Alone, Unsigned, ClientPcs
<1>1. CASE NewWork(t)
    BY <1>1 DEF NewWork, HashOf
<1>2. CASE NewTemplate(t)
    BY <1>2 DEF NewTemplate, HashOf
<1>3. CASE WriteWork(t)
    BY <1>3 DEF WriteWork, HashOf
<1>4. CASE WriteTemplate(t)
    BY <1>4 DEF WriteTemplate, HashOf
<1>5. CASE QueueWork(t)
    BY <1>5 DEF QueueWork, HashOf
<1>6. CASE SubmitNext(t)
    <2>1. /\ Make("miner")
          /\ mine' = [mine EXCEPT ![t] = made + 1]
          /\ pc' = [pc EXCEPT ![t] = "submitlock"]
        BY <1>6 DEF SubmitNext
    <2>2. /\ made + 1 \in Blk
          /\ \A b \in 1 .. made : kind'[b] = kind[b]
        BY <2>1, MadeOne DEF Kinds
    <2>3. UNCHANGED <<use, listVars>>
        BY <1>6 DEF SubmitNext
    <2>4. \A u \in Rpc : u # t => mine'[u] \in 0 .. made /\ mine'[u] = mine[u] /\ pc'[u] = pc[u]
        BY <2>1
    <2>5. mine'[t] = made + 1 /\ pc'[t] = "submitlock" /\ made \in Nat
        BY <2>1
    <2>6. ~use.shared => Alone'
      <3>1. SUFFICES ASSUME ~use.shared, NEW u \in Rpc, NEW v \in Rpc, u # v,
            mine'[u] = mine'[v], mine'[u] # None
                     PROVE kind'[mine'[u]] = "work"
        BY <2>3
      <3>2. ASSUME NEW w \in Rpc, mine'[t] = mine'[w], w # t PROVE FALSE
        BY <2>4, <2>5, <3>2
      <3>3. u # t /\ v # t
        BY <3>1, <3>2
      <3>4. mine[u] \in 1 .. made /\ mine'[u] = mine[u] /\ mine[u] = mine[v]
        BY SMTT(30), <2>4, <2>5, <3>1, <3>3
      <3>5. kind[mine[u]] = "work"
        BY <3>1, <3>4
      <3> QED BY <2>2, <3>4, <3>5
    <2>7. ~use.shared => Unsigned'
        BY <2>3, <2>4, <2>5
    <2> QED BY <2>3, <2>6, <2>7
<1>7. CASE QueueBlock(t)
    BY <1>7 DEF QueueBlock, HashOf
<1>8. CASE GetStakeTx(t)
    BY SMTT(30), <1>8 DEF GetStakeTx, HashOf
<1>9. CASE GetStakeAnswer(t)
    BY <1>9 DEF GetStakeAnswer, HashOf
<1>10. CASE SignBlock(t)
    BY <1>10 DEF SignBlock, HashOf
<1>11. CASE SignDone(t)
    BY <1>11 DEF SignDone, HashOf
<1>12. CASE SignTx(t)
    <2>1. UNCHANGED <<use, kind, ready, done, mine, pc>> /\ pc[t] = "client"
        BY <1>12 DEF SignTx
    <2>2. list' = list \/ list' = list \ {mine[t]}
        BY <1>12 DEF SignTx
    <2>3. ASSUME ~use.shared, NEW u \in Rpc, pc[u] = "sign" PROVE mine[u] # mine[t]
        BY <2>1, <2>3
    <2>4. ~use.shared => Alone' /\ Unsigned'
        BY <2>1, <2>2, <2>3
    <2> QED BY <2>1, <2>4
<1>13. CASE SignLookup(t)
    <2>1. /\ UNCHANGED <<use, kind, ready, done, mine>>
          /\ \A u \in Rpc : u # t => pc'[u] = pc[u]
        BY <1>13 DEF SignLookup
    <2>2. pc'[t] \in {"idle", "sign"} /\ (pc'[t] = "sign" => Listed(mine[t])')
        BY <1>13 DEF SignLookup
    <2>3. list' = list \/ list' = list \ {mine[t]}
        BY <1>13 DEF SignLookup
    <2> QED BY SMTT(30), <1>13, <2>1, <2>2, <2>3 DEF SignLookup
<1>14. ASSUME NEW b \in Blk, Resume(t, b) PROVE OwnInv'
    BY <1>14 DEF Resume, HashOf
<1>15. CASE GetWork(t) \/ GetTemplate(t) \/ SubmitWork(t) \/ SubmitBlock(t) \/ GetStake(t)
    <2>1. /\ UNCHANGED <<use, made, kind, listVars>>
          /\ \A u \in Rpc :
                /\ mine'[u] = mine[u] \/ mine'[u] = None
                /\ pc'[u] \in {"staked", "client", "sign"} =>
                       pc'[u] = pc[u] /\ mine'[u] = mine[u]
        BY <1>15, Begun
    <2> QED BY SMTT(30), <2>1
<1>16. CASE GetWorkLock(t) \/ OldWork(t) \/ TemplateLock(t) \/ OldTemplate(t)
    <2>1. /\ UNCHANGED <<use, made, kind, listVars>>
          /\ \A u \in Rpc :
                /\ mine'[u] = mine[u] \/ mine'[u] = None
                /\ pc'[u] \in {"staked", "client", "sign"} =>
                       pc'[u] = pc[u] /\ mine'[u] = mine[u]
        BY <1>16 DEF GetWorkLock, OldWork, TemplateLock, OldTemplate
    <2> QED BY SMTT(30), <2>1
<1>17. CASE SubmitWorkLock(t) \/ NoWork(t) \/ WorkDone(t) \/ WorkAnswer(t)
    <2>1. /\ UNCHANGED <<use, made, kind, listVars>>
          /\ \A u \in Rpc :
                /\ mine'[u] = mine[u] \/ mine'[u] = None
                /\ pc'[u] \in {"staked", "client", "sign"} =>
                       pc'[u] = pc[u] /\ mine'[u] = mine[u]
        BY <1>17 DEF SubmitWorkLock, NoWork, WorkDone, WorkAnswer
    <2> QED BY SMTT(30), <2>1
<1>18. CASE SubmitOther(t) \/ BlockDone(t) \/ BlockFound(t) \/ BlockAnswer(t)
    <2>1. /\ UNCHANGED <<use, made, kind, listVars>>
          /\ \A u \in Rpc :
                /\ mine'[u] = mine[u] \/ mine'[u] = None
                /\ pc'[u] \in {"staked", "client", "sign"} =>
                       pc'[u] = pc[u] /\ mine'[u] = mine[u]
        BY <1>18 DEF SubmitOther, BlockDone, BlockFound, BlockAnswer
    <2> QED BY SMTT(30), <2>1
<1>19. CASE GetStakeNone(t)
    BY <1>19 DEF GetStakeNone, HashOf
<1> QED BY <1>1, <1>2, <1>3, <1>4, <1>5, <1>6, <1>7, <1>8, <1>9, <1>10, <1>11, <1>12, <1>13,
      <1>14, <1>15, <1>16, <1>17, <1>18, <1>19 DEF Begin, Proceed, Client

LEMMA WaitMain ==
    ASSUME TypeOK, MadeInv, KindInv, LockInv, OwnInv, Awaited, MainStep
    PROVE Awaited'
<1> USE BoundAssumption, ThreadAssumption DEF TypeOK, ChainType, ListType, LoopType,
      CallType, MadeInv, KindInv, KindOf, LockInv, OwnInv, Alone, Unsigned, Awaited,
      ClientPcs, Holding
<1>1. CASE HandleBlock
    BY <1>1 DEF HandleBlock, HashOf
<1>2. CASE Stake
    BY <1>2 DEF Stake, HashOf
<1>3. CASE MarkDone
    BY <1>3 DEF MarkDone, HashOf
<1>4. CASE Purge
    BY <1>4 DEF Purge, HashOf
<1>5. ASSUME NEW b \in Blk, Pass(b) PROVE Awaited'
    BY <1>5 DEF Pass, HashOf
<1>6. ASSUME NEW b \in Blk, AcceptBlock(b) PROVE Awaited'
    BY <1>6 DEF AcceptBlock, HashOf
<1>7. ASSUME NEW b \in Blk, RefuseBlock(b) PROVE Awaited'
    BY <1>7 DEF RefuseBlock, HashOf
<1>8. CASE PeerBlock \/ HandleLock \/ NodesDone \/ NoStake
    BY <1>8 DEF PeerBlock, HandleLock, NodesDone, NoStake, HashOf
<1>9. CASE AddNewBlock \/ AddFails
    BY <1>9 DEF AddNewBlock, AddFails, HashOf
<1>10. CASE SwitchChain
    BY <1>10, Switched
<1> QED BY <1>1, <1>2, <1>3, <1>4, <1>5, <1>6, <1>7, <1>8, <1>9, <1>10 DEF MainStep

LEMMA WaitCall ==
    ASSUME TypeOK, MadeInv, KindInv, LockInv, OwnInv, Awaited, NEW t \in Rpc,
        Begin(t) \/ Proceed(t) \/ Client(t)
    PROVE Awaited'
<1> USE BoundAssumption, ThreadAssumption DEF TypeOK, ChainType, ListType, LoopType,
      CallType, MadeInv, KindInv, KindOf, LockInv, OwnInv, Alone, Unsigned, Awaited,
      ClientPcs, Holding
<1>1. CASE NewWork(t)
    BY <1>1 DEF NewWork, HashOf
<1>2. CASE NewTemplate(t)
    BY <1>2 DEF NewTemplate, HashOf
<1>3. CASE WriteWork(t)
    BY <1>3 DEF WriteWork, HashOf
<1>4. CASE WriteTemplate(t)
    BY <1>4 DEF WriteTemplate, HashOf
<1>5. CASE QueueWork(t)
    BY <1>5 DEF QueueWork, HashOf
<1>6. CASE SubmitNext(t)
    BY <1>6 DEF SubmitNext, HashOf
<1>7. CASE QueueBlock(t)
    BY <1>7 DEF QueueBlock, HashOf
<1>8. CASE GetStakeTx(t)
    BY <1>8 DEF GetStakeTx, HashOf
<1>9. CASE SignBlock(t)
    BY <1>9 DEF SignBlock, HashOf
<1>10. CASE SignTx(t)
    BY <1>10 DEF SignTx, HashOf
<1>11. CASE SignLookup(t)
    BY SMTT(30), <1>11 DEF SignLookup, HashOf
<1>12. ASSUME NEW b \in Blk, Resume(t, b) PROVE Awaited'
    BY <1>12 DEF Resume, HashOf
<1>13. CASE GetWork(t) \/ GetTemplate(t) \/ SubmitWork(t) \/ SubmitBlock(t) \/ GetStake(t)
    <2>1. /\ UNCHANGED <<use, listVars>>
          /\ \A u \in Rpc :
                pc'[u] \in {"workwait", "submitwait", "signwait"} => pc'[u] = pc[u] /\
                    mine'[u] = mine[u]
        BY <1>13, Begun
    <2> QED BY <2>1
<1>14. CASE GetWorkLock(t) \/ OldWork(t) \/ TemplateLock(t) \/ OldTemplate(t)
    <2>1. CASE GetWorkLock(t)
        BY <2>1 DEF GetWorkLock, HashOf
    <2>2. CASE OldWork(t)
        BY <2>2 DEF OldWork, HashOf
    <2>3. CASE TemplateLock(t)
        BY <2>3 DEF TemplateLock, HashOf
    <2>4. CASE OldTemplate(t)
        BY <2>4 DEF OldTemplate, HashOf
    <2> QED BY <1>14, <2>1, <2>2, <2>3, <2>4
<1>15. CASE SubmitWorkLock(t) \/ NoWork(t) \/ WorkDone(t) \/ WorkAnswer(t)
    <2>1. CASE SubmitWorkLock(t)
        BY <2>1 DEF SubmitWorkLock, HashOf
    <2>2. CASE NoWork(t)
        BY <2>2 DEF NoWork, HashOf
    <2>3. CASE WorkDone(t)
        BY <2>3 DEF WorkDone, HashOf
    <2>4. CASE WorkAnswer(t)
        BY <2>4 DEF WorkAnswer, HashOf
    <2> QED BY <1>15, <2>1, <2>2, <2>3, <2>4
<1>16. CASE SubmitOther(t) \/ BlockDone(t) \/ BlockFound(t) \/ BlockAnswer(t)
    <2>1. CASE SubmitOther(t)
        BY <2>1 DEF SubmitOther, HashOf
    <2>2. CASE BlockDone(t)
        BY <2>2 DEF BlockDone, HashOf
    <2>3. CASE BlockFound(t)
        BY <2>3 DEF BlockFound, HashOf
    <2>4. CASE BlockAnswer(t)
        BY <2>4 DEF BlockAnswer, HashOf
    <2> QED BY <1>16, <2>1, <2>2, <2>3, <2>4
<1>17. CASE GetStakeNone(t) \/ GetStakeAnswer(t) \/ SignDone(t)
    <2>1. CASE GetStakeNone(t)
        BY <2>1 DEF GetStakeNone, HashOf
    <2>2. CASE GetStakeAnswer(t)
        BY <2>2 DEF GetStakeAnswer, HashOf
    <2>3. CASE SignDone(t)
        BY <2>3 DEF SignDone, HashOf
    <2> QED BY <1>17, <2>1, <2>2, <2>3
<1> QED BY <1>1, <1>2, <1>3, <1>4, <1>5, <1>6, <1>7, <1>8, <1>9, <1>10, <1>11, <1>12, <1>13,
      <1>14, <1>15, <1>16, <1>17 DEF Begin, Proceed, Client

-----------------------------------------------------------------------------
(* The chain *)

\* A block follows the last block when it is added: it cannot be there already.
LEMMA Longer ==
    ASSUME TypeOK, MadeInv, ChainInv, Len(chain') = Len(chain) + 1,
           \A i \in 1 .. Len(chain) : chain'[i] = chain[i],
           chain'[Len(chain) + 1][1] \in 1 .. made', made' \in Nat, made <= made',
           prev'[chain'[Len(chain) + 1][1]] = Tip,
           \A b \in 1 .. made : prev'[b] = prev[b],
           \A i \in 1 .. Len(chain) : chain[i][1] # chain'[Len(chain) + 1][1]
    PROVE ChainPlaced' /\ NoBlockTwice'
<1>1. chain \in Seq(Hashes) /\ Len(chain) \in Nat /\ made \in Nat
    BY DEF TypeOK, ChainType
<1>2. Tip = Before(Len(chain) + 1)
    BY <1>1 DEF Tip, Before
<1>3. ASSUME NEW i \in 1 .. Len(chain) + 1 PROVE Before(i)' = Before(i)
    BY <1>1 DEF Before
<1>4. NoBlockTwice'
  <2>1. SUFFICES ASSUME NEW i \in 1 .. Len(chain'), NEW j \in 1 .. Len(chain'), i < j
                 PROVE chain'[i][1] # chain'[j][1]
    BY DEF NoBlockTwice
  <2>2. i \in 1 .. Len(chain) /\ (j \in 1 .. Len(chain) \/ j = Len(chain) + 1)
    BY SMTT(30), <1>1, <2>1
  <2> QED BY <1>1, <2>1, <2>2 DEF NoBlockTwice, ChainInv
<1>5. ASSUME NEW i \in 1 .. Len(chain')
      PROVE chain'[i][1] \in 1 .. made' /\ prev'[chain'[i][1]] = Before(i)'
  <2>1. CASE i = Len(chain) + 1
    BY <1>1, <1>2, <1>3, <2>1
  <2>2. CASE i \in 1 .. Len(chain)
    BY <1>1, <1>3, <2>2 DEF ChainInv, ChainPlaced
  <2> QED BY <1>1, <2>1, <2>2
<1> QED BY <1>4, <1>5 DEF ChainPlaced

LEMMA NotYet ==
    ASSUME TypeOK, ChainInv, NEW b, prev[b] = Tip, NEW i \in 1 .. Len(chain)
    PROVE chain[i][1] # b
<1>1. SUFFICES ASSUME chain[i][1] = b PROVE FALSE
    OBVIOUS
<1>2. Len(chain) \in Nat /\ Len(chain) >= 1 /\ made \in Nat /\ Tip = chain[Len(chain)]
    BY DEF TypeOK, ChainType, Tip
<1>3. Tip = Before(i)
    BY <1>1 DEF ChainInv, ChainPlaced
<1>4. chain[Len(chain)][1] \in 1 .. made
    BY <1>2 DEF ChainInv, ChainPlaced
<1>5. CASE i = 1
  <2>1. chain[Len(chain)] = <<0, 0>>
    BY <1>2, <1>3, <1>5 DEF Before, Genesis
  <2> QED BY <1>2, <1>4, <2>1
<1>6. CASE i # 1
  <2>1. i - 1 \in 1 .. Len(chain) /\ Len(chain) \in 1 .. Len(chain) /\ i - 1 < Len(chain)
    BY <1>2, <1>6
  <2>2. chain[i - 1] = chain[Len(chain)]
    BY <1>2, <1>3, <1>6 DEF Before
  <2> QED BY <2>1, <2>2 DEF ChainInv, NoBlockTwice
<1> QED BY <1>5, <1>6

\* A block that is made already and follows the last one is added.
LEMMA ChainOnto ==
    ASSUME TypeOK, MadeInv, ChainInv, UNCHANGED <<made, prev, away>>, mpc' # "add",
        NEW h \in Hashes, h[1] \in 1 .. made, prev[h[1]] = Tip, chain' = Append(chain, h)
    PROVE ChainInv'
<1>1. made \in Nat
    BY DEF TypeOK, ChainType
<1>2. \A i \in 1 .. Len(chain) : chain[i][1] # h[1]
    BY NotYet
<1>3. Len(chain') = Len(chain) + 1 /\ chain'[Len(chain) + 1] = h
      /\ \A i \in 1 .. Len(chain) : chain'[i] = chain[i]
    BY DEF TypeOK, ChainType
<1>4. ChainPlaced' /\ NoBlockTwice'
    BY <1>1, <1>2, <1>3, Longer
<1> QED BY <1>4 DEF ChainInv

LEMMA ChainPeer == ASSUME TypeOK, MadeInv, ChainInv, HandleBlock PROVE ChainInv'
<1>1. mpc' = "nodes" /\ made \in Nat /\ UNCHANGED away
    BY DEF HandleBlock, TypeOK, ChainType
<1>2. CASE UNCHANGED <<made, prev, chain>>
    BY <1>1, <1>2 DEF ChainInv, ChainPlaced, Before, NoBlockTwice
<1>3. CASE Make("peer") /\ Grow(<<made + 1, 0>>)
  <2>1. /\ made + 1 \in Blk /\ made' = made + 1 /\ prev'[made + 1] = Tip
        /\ \A b \in 1 .. made : prev'[b] = prev[b]
    BY <1>3, MadeOne DEF Kinds
  <2> DEFINE h == <<made + 1, 0>>
  <2>2. h \in Hashes /\ chain' = Append(chain, h) /\ h[1] = made + 1
    BY <1>3, <2>1, HashTyped
  <2>3. \A i \in 1 .. Len(chain) : chain[i][1] # h[1]
    BY <1>1, <2>2 DEF ChainInv, ChainPlaced
  <2>4. h[1] \in 1 .. made' /\ made' \in Nat /\ made <= made' /\ prev'[h[1]] = Tip
    BY <1>1, <2>1, <2>2
  <2>5. Len(chain') = Len(chain) + 1 /\ chain'[Len(chain) + 1] = h
        /\ \A i \in 1 .. Len(chain) : chain'[i] = chain[i]
    BY <2>2 DEF TypeOK, ChainType
  <2> HIDE DEF h
  <2>6. ChainPlaced' /\ NoBlockTwice'
    BY <1>1, <2>1, <2>2, <2>3, <2>4, <2>5, Longer
  <2> QED BY <1>1, <2>1, <2>6 DEF ChainInv
<1>4. ASSUME NEW h \in away, IsNext(h[1]), Grow(h), UNCHANGED <<made, prev>> PROVE ChainInv'
  <2>1. h \in Hashes /\ h[1] \in 1 .. made
    BY DEF TypeOK, ChainType, ChainInv
  <2> QED BY <1>1, <1>4, <2>1, ChainOnto
<1> QED BY <1>2, <1>3, <1>4 DEF HandleBlock

\* What is left of the chain after a switch is placed as before.
LEMMA ChainSwitch == ASSUME TypeOK, MadeInv, ChainInv, SwitchChain PROVE ChainInv'
<1>1. /\ UNCHANGED <<made, prev>> /\ mpc' = "nodes" /\ chain' \in Seq(Hashes)
      /\ \A i \in 1 .. Len(chain') : chain'[i] = chain[i] /\ i \in 1 .. Len(chain)
      /\ \A h \in away' : h \in away \/ \E i \in 1 .. Len(chain) : h = chain[i]
    BY Switched
<1>2. \A i \in 1 .. Len(chain') : Before(i)' = Before(i)
    BY <1>1 DEF Before
<1>3. ChainPlaced' /\ NoBlockTwice'
    BY <1>1, <1>2 DEF ChainInv, ChainPlaced, NoBlockTwice
<1>4. \A h \in away' : h[1] \in 1 .. made'
    BY <1>1 DEF ChainInv, ChainPlaced
<1> QED BY <1>1, <1>3, <1>4 DEF ChainInv

LEMMA ChainAdd == ASSUME TypeOK, MadeInv, ChainInv, AddNewBlock PROVE ChainInv'
<1>1. /\ UNCHANGED <<made, prev, away>> /\ chain' = Append(chain, cur) /\ mpc = "add"
      /\ mpc' = "mark" /\ cur \in Hashes
    BY DEF AddNewBlock, TypeOK, LoopType
<1>2. cur[1] \in 1 .. made /\ prev[cur[1]] = Tip
    BY <1>1 DEF MadeInv, ChainInv
<1> QED BY <1>1, <1>2, ChainOnto

LEMMA ChainMain == ASSUME TypeOK, MadeInv, KindInv, ChainInv, MainStep PROVE ChainInv'
<1> USE BoundAssumption DEF TypeOK, ChainType, ListType, LoopType, CallType, MadeInv, ChainInv
<1>1. CASE HandleBlock
    BY <1>1, ChainPeer
<1>2. CASE Stake
    <2>1. UNCHANGED <<chain, away, cur>> /\ Make("own") /\ mpc' = "walk"
        BY <1>2 DEF Stake
    <2>2. made' = made + 1 /\ \A b \in 1 .. made : prev'[b] = prev[b]
        BY <2>1, MadeOne DEF Kinds
    <2>3. ChainPlaced /\ NoBlockTwice /\ made \in Nat
        OBVIOUS
    <2>4. \A i \in 1 .. Len(chain) : Before(i)' = Before(i)
        BY <2>1 DEF Before
    <2>5. ChainPlaced' /\ NoBlockTwice'
        BY <2>1, <2>2, <2>3, <2>4 DEF NoBlockTwice, ChainPlaced
    <2>6. \A h \in away' : h[1] \in 1 .. made'
        BY <2>1, <2>2, <2>3
    <2> QED BY <2>1, <2>5, <2>6
<1>3. CASE AddNewBlock
    BY <1>3, ChainAdd
<1>4. ASSUME NEW b \in Blk, Pass(b) PROVE ChainInv'
    BY <1>4 DEF Pass, HashOf, Before, NoBlockTwice, ChainPlaced, Tip
<1>5. ASSUME NEW b \in Blk, AcceptBlock(b) PROVE ChainInv'
    BY <1>5 DEF AcceptBlock, HashOf, Before, NoBlockTwice, ChainPlaced, Tip
<1>6. ASSUME NEW b \in Blk, RefuseBlock(b) PROVE ChainInv'
    BY <1>6 DEF RefuseBlock, HashOf, Before, NoBlockTwice, ChainPlaced, Tip
<1>7. CASE PeerBlock \/ HandleLock \/ NodesDone \/ NoStake
    BY <1>7 DEF PeerBlock, HandleLock, NodesDone, NoStake, HashOf, Before, NoBlockTwice,
       ChainPlaced, Tip
<1>8. CASE AddFails \/ MarkDone \/ Purge
    BY <1>8 DEF AddFails, MarkDone, Purge, HashOf, Before, NoBlockTwice, ChainPlaced, Tip
<1>9. CASE SwitchChain
    BY <1>9, ChainSwitch
<1> QED BY <1>1, <1>2, <1>3, <1>4, <1>5, <1>6, <1>7, <1>8, <1>9 DEF MainStep

LEMMA ChainCall ==
    ASSUME TypeOK, MadeInv, KindInv, ChainInv, NEW t \in Rpc,
        Begin(t) \/ Proceed(t) \/ Client(t)
    PROVE ChainInv'
<1> USE BoundAssumption DEF TypeOK, ChainType, ListType, LoopType, CallType, MadeInv,
      ChainInv, ChainPlaced, Before, NoBlockTwice, Tip
<1>1. CASE NewWork(t)
    BY SMTT(30), <1>1 DEF NewWork
<1>2. CASE NewTemplate(t)
    BY SMTT(30), <1>2 DEF NewTemplate
<1>3. CASE SubmitNext(t)
    BY SMTT(30), <1>3 DEF SubmitNext
<1>4. CASE GetStakeTx(t)
    <2>1. UNCHANGED <<chain, away, mpc, cur>> /\ Make("client")
        BY <1>4 DEF GetStakeTx
    <2>2. made' = made + 1 /\ \A b \in 1 .. made : prev'[b] = prev[b]
        BY <2>1, MadeOne DEF Kinds
    <2> QED BY SMTT(30), <2>1, <2>2
<1>5. ASSUME NEW b \in Blk, Resume(t, b) PROVE ChainInv'
    BY <1>5 DEF Resume
<1>6. CASE GetWork(t) \/ GetTemplate(t) \/ SubmitWork(t) \/ SubmitBlock(t) \/ GetStake(t)
    <2>1. UNCHANGED <<made, prev, chain, away, mpc, cur>>
        BY <1>6, Begun
    <2> QED BY <2>1
<1>7. CASE GetWorkLock(t) \/ OldWork(t) \/ TemplateLock(t) \/ OldTemplate(t)
    <2>1. CASE GetWorkLock(t)
        BY <2>1 DEF GetWorkLock
    <2>2. CASE OldWork(t)
        BY <2>2 DEF OldWork
    <2>3. CASE TemplateLock(t)
        BY <2>3 DEF TemplateLock
    <2>4. CASE OldTemplate(t)
        BY <2>4 DEF OldTemplate
    <2> QED BY <1>7, <2>1, <2>2, <2>3, <2>4
<1>8. CASE WriteWork(t) \/ WriteTemplate(t) \/ SubmitWorkLock(t) \/ NoWork(t)
    BY <1>8 DEF WriteWork, WriteTemplate, SubmitWorkLock, NoWork
<1>9. CASE QueueWork(t) \/ WorkDone(t) \/ WorkAnswer(t) \/ SubmitOther(t)
    <2>1. CASE QueueWork(t)
        BY <2>1 DEF QueueWork
    <2>2. CASE WorkDone(t)
        BY <2>2 DEF WorkDone
    <2>3. CASE WorkAnswer(t)
        BY <2>3 DEF WorkAnswer
    <2>4. CASE SubmitOther(t)
        BY <2>4 DEF SubmitOther
    <2> QED BY <1>9, <2>1, <2>2, <2>3, <2>4
<1>10. CASE QueueBlock(t) \/ BlockDone(t) \/ BlockFound(t) \/ BlockAnswer(t)
    <2>1. CASE QueueBlock(t)
        BY <2>1 DEF QueueBlock
    <2>2. CASE BlockDone(t)
        BY <2>2 DEF BlockDone
    <2>3. CASE BlockFound(t)
        BY <2>3 DEF BlockFound
    <2>4. CASE BlockAnswer(t)
        BY <2>4 DEF BlockAnswer
    <2> QED BY <1>10, <2>1, <2>2, <2>3, <2>4
<1>11. CASE GetStakeNone(t) \/ GetStakeAnswer(t) \/ SignBlock(t) \/ SignDone(t)
    BY <1>11 DEF GetStakeNone, GetStakeAnswer, SignBlock, SignDone
<1>12. CASE SignTx(t) \/ SignLookup(t)
    BY <1>12 DEF SignTx, SignLookup
<1> QED BY <1>1, <1>2, <1>3, <1>4, <1>5, <1>6, <1>7, <1>8, <1>9, <1>10, <1>11,
      <1>12 DEF Begin, Proceed, Client

-----------------------------------------------------------------------------
(* Candidates *)

\* However the chain changes, it has grown since the height was last read, or
\* every candidate is an old one.
LEMMA ChainMoves ==
    ASSUME TypeOK, MadeInv, KindInv, FreshInv, HandleBlock \/ SwitchChain \/ AddNewBlock
    PROVE /\ UNCHANGED <<use, next, mining, pc, mine, hgt, ans>>
          /\ \A b \in 1 .. made : prev'[b] = prev[b]
          /\ old \subseteq old'
          /\ height' \in Nat /\ height' <= Len(chain') + 1
          /\ \/ UNCHANGED <<height, Tip, late>>
             \/ height < height' /\ late' = late
             \/ late' = Rpc /\ (next # None => next \in old')
          /\ \A t \in Rpc :
                tips[t] \subseteq tips'[t] /\ (pc[t] \in AnswersWork => Tip' \in tips'[t])
<1>1. CASE SwitchChain
  <2>1. next # None => next \in old'
    BY <1>1, Switched DEF MadeInv, KindInv
  <2> QED BY <1>1, <2>1, Switched
<1>2. CASE UNCHANGED <<made, prev, chain, height, tips>> /\ HandleBlock
  <2>1. UNCHANGED <<use, next, mining, pc, mine, hgt, ans, late, old>>
    BY <1>2 DEF HandleBlock
  <2>2. Tip' = Tip
    BY <1>2 DEF Tip
  <2> QED BY <1>2, <2>1, <2>2 DEF FreshInv, NextInv, SeenInv, TypeOK, ChainType
<1>3. ASSUME NEW h \in Hashes, Grow(h), \A b \in 1 .. made : prev'[b] = prev[b],
             HandleBlock \/ AddNewBlock
      PROVE /\ UNCHANGED <<use, next, mining, pc, mine, hgt, ans, late, old>>
            /\ \A b \in 1 .. made : prev'[b] = prev[b]
            /\ height' \in Nat /\ height' <= Len(chain') + 1 /\ height < height'
            /\ \A t \in Rpc :
                tips[t] \subseteq tips'[t] /\ (pc[t] \in AnswersWork => Tip' \in tips'[t])
  <2>1. UNCHANGED <<use, next, mining, pc, mine, hgt, ans, late, old>>
    BY <1>3 DEF HandleBlock, AddNewBlock
  <2>2. Tip' = h /\ Len(chain) \in Nat /\ Len(chain') = Len(chain) + 1
    BY <1>3, Grown DEF TypeOK, ChainType
  <2>3. height' \in Nat /\ height' <= Len(chain') + 1 /\ height < height'
    BY <1>3, <2>2 DEF FreshInv, NextInv, TypeOK, ChainType
  <2>4. \A t \in Rpc : tips[t] \subseteq tips'[t] /\ (pc[t] \in AnswersWork => h \in tips'[t])
    BY <1>3 DEF TypeOK, CallType
  <2> QED BY <1>3, <2>1, <2>2, <2>3, <2>4
<1>4. CASE AddNewBlock
  <2>1. cur \in Hashes /\ Grow(cur) /\ \A b \in 1 .. made : prev'[b] = prev[b]
    BY <1>4 DEF AddNewBlock, TypeOK, LoopType
  <2> QED BY <1>3, <1>4, <2>1
<1>5. CASE Make("peer") /\ Grow(<<made + 1, 0>>) /\ HandleBlock
  <2>1. made + 1 \in Blk /\ \A b \in 1 .. made : prev'[b] = prev[b]
    BY <1>5, MadeOne DEF Kinds
  <2> QED BY <1>3, <1>5, <2>1, HashTyped
<1>6. CASE HandleBlock /\ prev' = prev /\ \E h \in away : Grow(h)
  <2>1. PICK h \in away : Grow(h)
    BY <1>6
  <2>2. h \in Hashes
    BY DEF TypeOK, ChainType
  <2> QED BY <1>3, <1>6, <2>1, <2>2
<1> QED BY <1>1, <1>2, <1>4, <1>5, <1>6 DEF HandleBlock

LEMMA NewFollows ==
    ASSUME TypeOK, SeenInv, NEW t \in Rpc, NewWork(t) \/ NewTemplate(t)
    PROVE /\ next' = made + 1 /\ mining' = hgt[t]
          /\ UNCHANGED <<treeVars, Tip, hgt, tips, lock, ans, mine, late>>
          /\ old' = (IF t \in late THEN old \cup {made + 1} ELSE old)
          /\ prev'[made + 1] = Tip /\ \A b \in 1 .. made : prev'[b] = prev[b]
          /\ hgt[t] \in Nat /\ hgt[t] > 0 /\ (t \notin late => hgt[t] <= height)
          /\ made + 1 \in Blk
          /\ \A u \in Rpc : pc[u] \in AnswersWork => Tip \in tips[u]
          /\ pc[t] \in AnswersWork
          /\ pc' = [pc EXCEPT ![t] = IF NewWork(t) THEN "workwrite" ELSE "templatewrite"]
<1>1. /\ Make("work") /\ next' = made + 1 /\ mining' = hgt[t]
      /\ UNCHANGED <<treeVars, hgt, tips, lock, ans, mine, late>> /\ pc[t] \in AnswersWork
      /\ old' = (IF t \in late THEN old \cup {made + 1} ELSE old)
    BY DEF NewWork, NewTemplate, AnswersWork
<1>2. /\ prev'[made + 1] = Tip /\ \A b \in 1 .. made : prev'[b] = prev[b]
      /\ made + 1 \in Blk
    BY <1>1, MadeOne DEF Kinds
<1>3. hgt[t] \in Nat \ {0} /\ (t \notin late => hgt[t] <= height)
    BY DEF SeenInv, TypeOK, CallType
<1>4. pc' = [pc EXCEPT ![t] = IF NewWork(t) THEN "workwrite" ELSE "templatewrite"]
    BY DEF NewWork, NewTemplate, TypeOK, CallType
<1>5. Tip' = Tip /\ \A u \in Rpc : pc[u] \in AnswersWork => Tip \in tips[u]
    BY <1>1 DEF SeenInv, Tip
<1> QED BY <1>1, <1>2, <1>3, <1>4, <1>5

LEMMA FreshMoves ==
    ASSUME TypeOK, MadeInv, KindInv, FreshInv, HandleBlock \/ SwitchChain \/ AddNewBlock
    PROVE NextInv' /\ SeenInv' /\ CandidateInv' /\ AnswerInv' /\ WorkIsFresh'
<1>1. next \in 0 .. made /\ \A t \in Rpc : mine[t] \in 0 .. made
    BY DEF MadeInv
<1>2. height \in Nat /\ mining \in Nat /\ \A t \in Rpc : hgt[t] \in Nat
    BY DEF TypeOK, ChainType, ListType, CallType
<1>3. NextInv'
  <2>1. next \in 1 .. made => prev'[next] = prev[next]
    BY ChainMoves
  <2> QED BY <1>1, <1>2, <2>1, ChainMoves DEF FreshInv, NextInv
<1>4. SeenInv'
    BY <1>2, ChainMoves DEF FreshInv, SeenInv
<1>5. CandidateInv'
    BY <1>1, ChainMoves DEF FreshInv, CandidateInv
<1>6. WorkIsFresh'
    BY <1>1, ChainMoves DEF FreshInv, WorkIsFresh
<1>7. AnswerInv'
    BY ChainMoves DEF FreshInv, AnswerInv
<1> QED BY <1>3, <1>4, <1>5, <1>6, <1>7

LEMMA NextMain == ASSUME TypeOK, MadeInv, KindInv, LockInv, FreshInv, MainStep PROVE NextInv'
<1> USE BoundAssumption DEF TypeOK, ChainType, ListType, LoopType, CallType, MadeInv,
      FreshInv, NextInv
<1>1. CASE HandleBlock
    BY <1>1, FreshMoves
<1>2. CASE Stake
    BY <1>2 DEF Stake, Tip
<1>3. CASE AddNewBlock
    BY <1>3, FreshMoves
<1>4. ASSUME NEW b \in Blk, Pass(b) PROVE NextInv'
    BY <1>4 DEF Pass, Tip
<1>5. ASSUME NEW b \in Blk, AcceptBlock(b) PROVE NextInv'
    BY <1>5 DEF AcceptBlock, Tip
<1>6. ASSUME NEW b \in Blk, RefuseBlock(b) PROVE NextInv'
    BY <1>6 DEF RefuseBlock, Tip
<1>7. CASE PeerBlock \/ HandleLock \/ NodesDone \/ NoStake
    BY <1>7 DEF PeerBlock, HandleLock, NodesDone, NoStake, Tip
<1>8. CASE AddFails \/ MarkDone \/ Purge
    BY <1>8 DEF AddFails, MarkDone, Purge, Tip
<1>9. CASE SwitchChain
    BY <1>9, FreshMoves
<1> QED BY <1>1, <1>2, <1>3, <1>4, <1>5, <1>6, <1>7, <1>8, <1>9 DEF MainStep

LEMMA NextCall ==
    ASSUME TypeOK, MadeInv, KindInv, LockInv, FreshInv, NEW t \in Rpc,
        Begin(t) \/ Proceed(t) \/ Client(t)
    PROVE NextInv'
<1> USE BoundAssumption DEF TypeOK, ChainType, ListType, LoopType, CallType, MadeInv,
      FreshInv, NextInv
<1>1. CASE NewWork(t)
    <2>1. /\ next' = made + 1 /\ mining' = hgt[t] /\ hgt[t] \in Nat /\ hgt[t] > 0
          /\ t \notin late => hgt[t] <= height
          /\ prev'[made + 1] = Tip /\ UNCHANGED <<Tip, chain, height>>
          /\ old' = (IF t \in late THEN old \cup {made + 1} ELSE old)
        BY <1>1, NewFollows
    <2> QED BY <2>1
<1>2. CASE NewTemplate(t)
    <2>1. /\ next' = made + 1 /\ mining' = hgt[t] /\ hgt[t] \in Nat /\ hgt[t] > 0
          /\ t \notin late => hgt[t] <= height
          /\ prev'[made + 1] = Tip /\ UNCHANGED <<Tip, chain, height>>
          /\ old' = (IF t \in late THEN old \cup {made + 1} ELSE old)
        BY <1>2, NewFollows
    <2> QED BY <2>1
<1>3. CASE WriteWork(t)
    BY <1>3 DEF WriteWork, Tip
<1>4. CASE WriteTemplate(t)
    BY <1>4 DEF WriteTemplate, Tip
<1>5. CASE SubmitNext(t)
    BY <1>5 DEF SubmitNext, Tip
<1>6. CASE GetStakeTx(t)
    BY <1>6 DEF GetStakeTx, Tip
<1>7. ASSUME NEW b \in Blk, Resume(t, b) PROVE NextInv'
    BY <1>7 DEF Resume, Tip
<1>8. CASE GetWork(t) \/ GetTemplate(t) \/ SubmitWork(t) \/ SubmitBlock(t) \/ GetStake(t)
    <2>1. UNCHANGED <<chain, height, prev, next, mining, old>>
        BY <1>8, BegunKeeps
    <2> QED BY <2>1 DEF Tip
<1>9. CASE GetWorkLock(t) \/ OldWork(t) \/ TemplateLock(t) \/ OldTemplate(t)
    BY <1>9 DEF GetWorkLock, OldWork, TemplateLock, OldTemplate, Tip
<1>10. CASE SubmitWorkLock(t) \/ NoWork(t) \/ QueueWork(t) \/ WorkDone(t)
    BY <1>10 DEF SubmitWorkLock, NoWork, QueueWork, WorkDone, Tip
<1>11. CASE WorkAnswer(t) \/ SubmitOther(t) \/ QueueBlock(t) \/ BlockDone(t)
    BY <1>11 DEF WorkAnswer, SubmitOther, QueueBlock, BlockDone, Tip
<1>12. CASE BlockFound(t) \/ BlockAnswer(t) \/ GetStakeNone(t) \/ GetStakeAnswer(t)
    BY <1>12 DEF BlockFound, BlockAnswer, GetStakeNone, GetStakeAnswer, Tip
<1>13. CASE SignBlock(t) \/ SignDone(t) \/ SignTx(t) \/ SignLookup(t)
    BY <1>13 DEF SignBlock, SignDone, SignTx, SignLookup, Tip
<1> QED BY <1>1, <1>2, <1>3, <1>4, <1>5, <1>6, <1>7, <1>8, <1>9, <1>10, <1>11, <1>12,
      <1>13 DEF Begin, Proceed, Client

LEMMA SeenMain == ASSUME TypeOK, MadeInv, KindInv, LockInv, FreshInv, MainStep PROVE SeenInv'
<1> USE BoundAssumption DEF TypeOK, ChainType, ListType, LoopType, CallType, MadeInv,
      FreshInv, SeenInv
<1>1. CASE HandleBlock
    BY <1>1, FreshMoves
<1>2. CASE Stake
    BY <1>2 DEF Stake, Tip, AnswersWork
<1>3. CASE AddNewBlock
    BY <1>3, FreshMoves
<1>4. ASSUME NEW b \in Blk, Pass(b) PROVE SeenInv'
    BY <1>4 DEF Pass, Tip, AnswersWork
<1>5. ASSUME NEW b \in Blk, AcceptBlock(b) PROVE SeenInv'
    BY <1>5 DEF AcceptBlock, Tip, AnswersWork
<1>6. ASSUME NEW b \in Blk, RefuseBlock(b) PROVE SeenInv'
    BY <1>6 DEF RefuseBlock, Tip, AnswersWork
<1>7. CASE PeerBlock \/ HandleLock \/ NodesDone \/ NoStake
    BY <1>7 DEF PeerBlock, HandleLock, NodesDone, NoStake, Tip, AnswersWork
<1>8. CASE AddFails \/ MarkDone \/ Purge
    BY <1>8 DEF AddFails, MarkDone, Purge, Tip, AnswersWork
<1>9. CASE SwitchChain
    BY <1>9, FreshMoves
<1> QED BY <1>1, <1>2, <1>3, <1>4, <1>5, <1>6, <1>7, <1>8, <1>9 DEF MainStep

LEMMA SeenCall ==
    ASSUME TypeOK, MadeInv, KindInv, LockInv, FreshInv, NEW t \in Rpc,
        Begin(t) \/ Proceed(t) \/ Client(t)
    PROVE SeenInv'
<1> USE BoundAssumption DEF TypeOK, ChainType, ListType, LoopType, CallType, MadeInv,
      FreshInv, SeenInv, Tip, AnswersWork
<1>1. CASE GetWork(t)
    BY SMTT(30), <1>1 DEF GetWork
<1>2. CASE GetTemplate(t)
    BY <1>2 DEF GetTemplate
<1>3. CASE SubmitWork(t)
    BY SMTT(30), <1>3 DEF SubmitWork
<1>4. CASE SubmitBlock(t)
    BY SMTT(30), <1>4 DEF SubmitBlock
<1>5. CASE GetStake(t)
    BY <1>5 DEF GetStake
<1>6. ASSUME NEW b \in Blk, Resume(t, b) PROVE SeenInv'
    BY <1>6 DEF Resume
<1>7. CASE GetWorkLock(t) \/ NewWork(t) \/ OldWork(t) \/ TemplateLock(t)
    <2>1. CASE GetWorkLock(t)
        BY <2>1 DEF GetWorkLock
    <2>2. CASE NewWork(t)
        BY <2>2 DEF NewWork
    <2>3. CASE OldWork(t)
        BY <2>3 DEF OldWork
    <2>4. CASE TemplateLock(t)
        BY <2>4 DEF TemplateLock
    <2> QED BY <1>7, <2>1, <2>2, <2>3, <2>4
<1>8. CASE NewTemplate(t) \/ OldTemplate(t) \/ WriteWork(t) \/ WriteTemplate(t)
    <2>1. CASE NewTemplate(t)
        BY <2>1 DEF NewTemplate
    <2>2. CASE OldTemplate(t)
        BY <2>2 DEF OldTemplate
    <2>3. CASE WriteWork(t)
        BY <2>3 DEF WriteWork
    <2>4. CASE WriteTemplate(t)
        BY <2>4 DEF WriteTemplate
    <2> QED BY <1>8, <2>1, <2>2, <2>3, <2>4
<1>9. CASE SubmitWorkLock(t) \/ NoWork(t) \/ QueueWork(t) \/ WorkDone(t)
    BY <1>9 DEF SubmitWorkLock, NoWork, QueueWork, WorkDone
<1>10. CASE WorkAnswer(t) \/ SubmitOther(t) \/ SubmitNext(t) \/ QueueBlock(t)
    <2>1. CASE WorkAnswer(t)
        BY <2>1 DEF WorkAnswer
    <2>2. CASE SubmitOther(t)
        BY <2>2 DEF SubmitOther
    <2>3. CASE SubmitNext(t)
        BY <2>3 DEF SubmitNext
    <2>4. CASE QueueBlock(t)
        BY <2>4 DEF QueueBlock
    <2> QED BY <1>10, <2>1, <2>2, <2>3, <2>4
<1>11. CASE BlockDone(t) \/ BlockFound(t) \/ BlockAnswer(t) \/ GetStakeTx(t)
    <2>1. CASE BlockDone(t)
        BY <2>1 DEF BlockDone
    <2>2. CASE BlockFound(t)
        BY <2>2 DEF BlockFound
    <2>3. CASE BlockAnswer(t)
        BY <2>3 DEF BlockAnswer
    <2>4. CASE GetStakeTx(t)
        BY <2>4 DEF GetStakeTx
    <2> QED BY <1>11, <2>1, <2>2, <2>3, <2>4
<1>12. CASE GetStakeNone(t) \/ GetStakeAnswer(t) \/ SignBlock(t) \/ SignDone(t)
    <2>1. CASE GetStakeNone(t)
        BY <2>1 DEF GetStakeNone
    <2>2. CASE GetStakeAnswer(t)
        BY <2>2 DEF GetStakeAnswer
    <2>3. CASE SignBlock(t)
        BY <2>3 DEF SignBlock
    <2>4. CASE SignDone(t)
        BY <2>4 DEF SignDone
    <2> QED BY <1>12, <2>1, <2>2, <2>3, <2>4
<1>13. CASE SignTx(t) \/ SignLookup(t)
    <2>1. CASE SignTx(t)
        BY <2>1 DEF SignTx
    <2>2. CASE SignLookup(t)
        BY <2>2 DEF SignLookup
    <2> QED BY <1>13, <2>1, <2>2
<1> QED BY <1>1, <1>2, <1>3, <1>4, <1>5, <1>6, <1>7, <1>8, <1>9, <1>10, <1>11, <1>12,
      <1>13 DEF Begin, Proceed, Client

LEMMA CandidateMain ==
    ASSUME TypeOK, MadeInv, KindInv, LockInv, FreshInv, MainStep
    PROVE CandidateInv'
<1> USE BoundAssumption, ThreadAssumption DEF TypeOK, ChainType, ListType, LoopType,
      CallType, MadeInv, FreshInv, LockInv, Holding, CandidateInv
<1>1. CASE HandleBlock
    BY <1>1, FreshMoves
<1>2. CASE Stake
    BY <1>2 DEF Stake
<1>3. CASE AddNewBlock
    BY <1>3, FreshMoves
<1>4. ASSUME NEW b \in Blk, Pass(b) PROVE CandidateInv'
    BY <1>4 DEF Pass
<1>5. ASSUME NEW b \in Blk, AcceptBlock(b) PROVE CandidateInv'
    BY <1>5 DEF AcceptBlock
<1>6. ASSUME NEW b \in Blk, RefuseBlock(b) PROVE CandidateInv'
    BY <1>6 DEF RefuseBlock
<1>7. CASE PeerBlock \/ HandleLock \/ NodesDone \/ NoStake
    BY <1>7 DEF PeerBlock, HandleLock, NodesDone, NoStake
<1>8. CASE AddFails \/ MarkDone \/ Purge
    BY <1>8 DEF AddFails, MarkDone, Purge
<1>9. CASE SwitchChain
    BY <1>9, FreshMoves
<1> QED BY <1>1, <1>2, <1>3, <1>4, <1>5, <1>6, <1>7, <1>8, <1>9 DEF MainStep

LEMMA CandidateCall ==
    ASSUME TypeOK, MadeInv, KindInv, LockInv, FreshInv, NEW t \in Rpc,
        Begin(t) \/ Proceed(t) \/ Client(t)
    PROVE CandidateInv'
<1> USE BoundAssumption, ThreadAssumption DEF TypeOK, ChainType, ListType, LoopType,
      CallType, MadeInv, FreshInv, LockInv, Holding, CandidateInv
<1>1. CASE GetWork(t)
    BY <1>1 DEF GetWork, NextInv, SeenInv, AnswersWork, Tip
<1>2. CASE GetTemplate(t)
    BY <1>2 DEF GetTemplate, NextInv, SeenInv, AnswersWork, Tip
<1>3. CASE SubmitWork(t)
    BY <1>3 DEF SubmitWork, NextInv, SeenInv, AnswersWork, Tip
<1>4. CASE SubmitBlock(t)
    BY <1>4 DEF SubmitBlock, NextInv, SeenInv, AnswersWork, Tip
<1>5. CASE GetStake(t)
    BY <1>5 DEF GetStake, NextInv, SeenInv, AnswersWork, Tip
<1>6. CASE GetWorkLock(t)
    BY SMTT(30), <1>6 DEF GetWorkLock, NextInv, SeenInv, AnswersWork, Tip
<1>7. CASE NewWork(t)
    <2>1. /\ next' = made + 1 /\ hgt' = hgt /\ tips' = tips /\ lock = t
          /\ prev'[made + 1] = Tip /\ \A u \in Rpc : pc[u] \in AnswersWork => Tip \in tips[u]
        BY <1>7, NewFollows DEF NewWork
    <2>2. /\ pc'[t] # "worklocked" /\ pc[t] \in AnswersWork
          /\ \A u \in Rpc : u # t => pc'[u] = pc[u] /\ pc[u] \notin Holding
        BY <1>7, <2>1, NewFollows DEF NewWork
    <2> QED BY <2>1, <2>2
<1>8. CASE OldWork(t)
    BY <1>8 DEF OldWork, NextInv, SeenInv, AnswersWork, Tip
<1>9. CASE TemplateLock(t)
    BY <1>9 DEF TemplateLock, NextInv, SeenInv, AnswersWork, Tip
<1>10. CASE NewTemplate(t)
    <2>1. /\ next' = made + 1 /\ hgt' = hgt /\ tips' = tips /\ lock = t
          /\ prev'[made + 1] = Tip /\ \A u \in Rpc : pc[u] \in AnswersWork => Tip \in tips[u]
        BY <1>10, NewFollows DEF NewTemplate
    <2>2. /\ pc'[t] # "worklocked" /\ pc[t] \in AnswersWork
          /\ \A u \in Rpc : u # t => pc'[u] = pc[u] /\ pc[u] \notin Holding
        BY <1>10, <2>1, NewFollows DEF NewTemplate
    <2> QED BY <2>1, <2>2
<1>11. CASE OldTemplate(t)
    BY SMTT(30), <1>11 DEF OldTemplate, NextInv, SeenInv, AnswersWork, Tip
<1>12. CASE WriteWork(t)
    BY <1>12 DEF WriteWork, NextInv, SeenInv, AnswersWork, Tip
<1>13. CASE WriteTemplate(t)
    BY <1>13 DEF WriteTemplate, NextInv, SeenInv, AnswersWork, Tip
<1>14. CASE SubmitNext(t)
    <2>1. UNCHANGED <<next, mining, hgt, tips, old>> /\ Make("miner")
        BY <1>14 DEF SubmitNext
    <2>2. \A b \in 1 .. made : prev'[b] = prev[b]
        BY <2>1, MadeOne DEF Kinds
    <2>3. \A u \in Rpc : pc'[u] \in Holding \cup AnswersWork => pc'[u] = pc[u]
        BY <1>14 DEF SubmitNext, AnswersWork
    <2>4. next # None => next \in 1 .. made
        OBVIOUS
    <2> QED BY <2>1, <2>2, <2>3, <2>4
<1>15. CASE GetStakeTx(t)
    BY <1>15 DEF GetStakeTx, NextInv, SeenInv, AnswersWork, Tip
<1>16. ASSUME NEW b \in Blk, Resume(t, b) PROVE CandidateInv'
    BY <1>16 DEF Resume, NextInv, SeenInv, AnswersWork, Tip
<1>17. CASE SubmitWorkLock(t) \/ NoWork(t) \/ QueueWork(t) \/ WorkDone(t)
    <2>1. CASE SubmitWorkLock(t)
        BY <2>1 DEF SubmitWorkLock, NextInv, SeenInv, AnswersWork, Tip
    <2>2. CASE NoWork(t)
        BY <2>2 DEF NoWork, NextInv, SeenInv, AnswersWork, Tip
    <2>3. CASE QueueWork(t)
        BY <2>3 DEF QueueWork, NextInv, SeenInv, AnswersWork, Tip
    <2>4. CASE WorkDone(t)
        BY <2>4 DEF WorkDone, NextInv, SeenInv, AnswersWork, Tip
    <2> QED BY <1>17, <2>1, <2>2, <2>3, <2>4
<1>18. CASE WorkAnswer(t) \/ SubmitOther(t) \/ QueueBlock(t) \/ BlockDone(t)
    <2>1. CASE WorkAnswer(t)
        BY <2>1 DEF WorkAnswer, NextInv, SeenInv, AnswersWork, Tip
    <2>2. CASE SubmitOther(t)
        BY <2>2 DEF SubmitOther, NextInv, SeenInv, AnswersWork, Tip
    <2>3. CASE QueueBlock(t)
        BY <2>3 DEF QueueBlock, NextInv, SeenInv, AnswersWork, Tip
    <2>4. CASE BlockDone(t)
        BY <2>4 DEF BlockDone, NextInv, SeenInv, AnswersWork, Tip
    <2> QED BY <1>18, <2>1, <2>2, <2>3, <2>4
<1>19. CASE BlockFound(t) \/ BlockAnswer(t) \/ GetStakeNone(t) \/ GetStakeAnswer(t)
    <2>1. CASE BlockFound(t)
        BY <2>1 DEF BlockFound, NextInv, SeenInv, AnswersWork, Tip
    <2>2. CASE BlockAnswer(t)
        BY <2>2 DEF BlockAnswer, NextInv, SeenInv, AnswersWork, Tip
    <2>3. CASE GetStakeNone(t)
        BY <2>3 DEF GetStakeNone, NextInv, SeenInv, AnswersWork, Tip
    <2>4. CASE GetStakeAnswer(t)
        BY <2>4 DEF GetStakeAnswer, NextInv, SeenInv, AnswersWork, Tip
    <2> QED BY <1>19, <2>1, <2>2, <2>3, <2>4
<1>20. CASE SignBlock(t) \/ SignDone(t) \/ SignTx(t) \/ SignLookup(t)
    <2>1. CASE SignBlock(t)
        BY <2>1 DEF SignBlock, NextInv, SeenInv, AnswersWork, Tip
    <2>2. CASE SignDone(t)
        BY <2>2 DEF SignDone, NextInv, SeenInv, AnswersWork, Tip
    <2>3. CASE SignTx(t)
        BY <2>3 DEF SignTx, NextInv, SeenInv, AnswersWork, Tip
    <2>4. CASE SignLookup(t)
      <3>1. UNCHANGED <<next, mining, hgt, tips, old, prev>>
        BY <2>4 DEF SignLookup
      <3>2. \A u \in Rpc : pc'[u] \in Holding \cup AnswersWork => pc'[u] = pc[u]
        BY <2>4 DEF SignLookup, AnswersWork
      <3> QED BY <3>1, <3>2
    <2> QED BY <1>20, <2>1, <2>2, <2>3, <2>4
<1> QED BY <1>1, <1>2, <1>3, <1>4, <1>5, <1>6, <1>7, <1>8, <1>9, <1>10, <1>11, <1>12, <1>13,
      <1>14, <1>15, <1>16, <1>17, <1>18, <1>19, <1>20 DEF Begin, Proceed, Client

LEMMA PollMain == ASSUME TypeOK, MadeInv, KindInv, LockInv, FreshInv, MainStep PROVE PollInv'
<1> USE BoundAssumption, ThreadAssumption DEF TypeOK, ChainType, ListType, LoopType,
      CallType, MadeInv, FreshInv, LockInv, Holding, PollInv, PollPcs, Polling
<1>1. CASE HandleBlock
    BY <1>1 DEF HandleBlock
<1>2. CASE Stake
    BY <1>2 DEF Stake
<1>3. ASSUME NEW b \in Blk, Pass(b) PROVE PollInv'
    BY <1>3 DEF Pass
<1>4. ASSUME NEW b \in Blk, AcceptBlock(b) PROVE PollInv'
    BY <1>4 DEF AcceptBlock
<1>5. ASSUME NEW b \in Blk, RefuseBlock(b) PROVE PollInv'
    BY <1>5 DEF RefuseBlock
<1>6. CASE PeerBlock \/ HandleLock \/ NodesDone \/ NoStake
    BY <1>6 DEF PeerBlock, HandleLock, NodesDone, NoStake
<1>7. CASE AddNewBlock \/ AddFails \/ MarkDone \/ Purge
    BY <1>7 DEF AddNewBlock, AddFails, MarkDone, Purge
<1>8. CASE SwitchChain
    BY <1>8, Switched
<1> QED BY <1>1, <1>2, <1>3, <1>4, <1>5, <1>6, <1>7, <1>8 DEF MainStep

LEMMA PollCall ==
    ASSUME TypeOK, MadeInv, KindInv, LockInv, FreshInv, NEW t \in Rpc,
        Begin(t) \/ Proceed(t) \/ Client(t)
    PROVE PollInv'
<1> USE BoundAssumption, ThreadAssumption DEF TypeOK, ChainType, ListType, LoopType,
      CallType, MadeInv, FreshInv, LockInv, Holding, PollInv, PollPcs, Polling
<1>1. CASE GetWork(t)
    BY <1>1 DEF GetWork
<1>2. CASE GetTemplate(t)
    BY <1>2 DEF GetTemplate
<1>3. CASE SubmitWork(t)
    BY <1>3 DEF SubmitWork
<1>4. CASE SubmitBlock(t)
    BY <1>4 DEF SubmitBlock
<1>5. CASE GetStake(t)
    BY <1>5 DEF GetStake
<1>6. CASE GetWorkLock(t)
    BY <1>6 DEF GetWorkLock
<1>7. CASE NewWork(t)
    BY <1>7 DEF NewWork
<1>8. CASE OldWork(t)
    BY <1>8 DEF OldWork
<1>9. CASE NewTemplate(t)
    BY <1>9 DEF NewTemplate
<1>10. CASE SubmitNext(t)
    BY <1>10 DEF SubmitNext
<1>11. CASE GetStakeTx(t)
    BY <1>11 DEF GetStakeTx
<1>12. CASE SignTx(t)
    BY <1>12 DEF SignTx
<1>13. CASE SignLookup(t)
    BY <1>13 DEF SignLookup
<1>14. ASSUME NEW b \in Blk, Resume(t, b) PROVE PollInv'
    BY <1>14 DEF Resume
<1>15. CASE TemplateLock(t) \/ OldTemplate(t) \/ WriteWork(t) \/ WriteTemplate(t)
    BY <1>15 DEF TemplateLock, OldTemplate, WriteWork, WriteTemplate
<1>16. CASE SubmitWorkLock(t) \/ NoWork(t) \/ QueueWork(t) \/ WorkDone(t)
    <2>1. CASE SubmitWorkLock(t)
        BY <2>1 DEF SubmitWorkLock
    <2>2. CASE NoWork(t)
        BY <2>2 DEF NoWork
    <2>3. CASE QueueWork(t)
        BY <2>3 DEF QueueWork
    <2>4. CASE WorkDone(t)
        BY <2>4 DEF WorkDone
    <2> QED BY <1>16, <2>1, <2>2, <2>3, <2>4
<1>17. CASE WorkAnswer(t) \/ SubmitOther(t) \/ QueueBlock(t) \/ BlockDone(t)
    BY <1>17 DEF WorkAnswer, SubmitOther, QueueBlock, BlockDone
<1>18. CASE BlockFound(t) \/ BlockAnswer(t) \/ GetStakeNone(t) \/ GetStakeAnswer(t)
    BY <1>18 DEF BlockFound, BlockAnswer, GetStakeNone, GetStakeAnswer
<1>19. CASE SignBlock(t) \/ SignDone(t)
    BY <1>19 DEF SignBlock, SignDone
<1> QED BY <1>1, <1>2, <1>3, <1>4, <1>5, <1>6, <1>7, <1>8, <1>9, <1>10, <1>11, <1>12, <1>13,
      <1>14, <1>15, <1>16, <1>17, <1>18, <1>19 DEF Begin, Proceed, Client

LEMMA FreshMain ==
    ASSUME TypeOK, MadeInv, KindInv, LockInv, FreshInv, MainStep
    PROVE AnswerInv' /\ WorkIsFresh'
<1> USE BoundAssumption DEF TypeOK, ChainType, ListType, LoopType, CallType, MadeInv,
      FreshInv, AnswerInv, WorkIsFresh, CandidateInv, PollInv, Polling, PollPcs
<1>1. CASE HandleBlock
    BY <1>1, FreshMoves
<1>2. CASE Stake
    BY SMTT(30), <1>2 DEF Stake
<1>3. CASE AddNewBlock
    BY <1>3, FreshMoves
<1>4. ASSUME NEW b \in Blk, Pass(b) PROVE AnswerInv' /\ WorkIsFresh'
    BY <1>4 DEF Pass
<1>5. ASSUME NEW b \in Blk, AcceptBlock(b) PROVE AnswerInv' /\ WorkIsFresh'
    BY <1>5 DEF AcceptBlock
<1>6. ASSUME NEW b \in Blk, RefuseBlock(b) PROVE AnswerInv' /\ WorkIsFresh'
    BY <1>6 DEF RefuseBlock
<1>7. CASE PeerBlock \/ HandleLock \/ NodesDone \/ NoStake
    BY <1>7 DEF PeerBlock, HandleLock, NodesDone, NoStake
<1>8. CASE AddFails \/ MarkDone \/ Purge
    BY <1>8 DEF AddFails, MarkDone, Purge
<1>9. CASE SwitchChain
    BY <1>9, FreshMoves
<1> QED BY <1>1, <1>2, <1>3, <1>4, <1>5, <1>6, <1>7, <1>8, <1>9 DEF MainStep

LEMMA FreshCall ==
    ASSUME TypeOK, MadeInv, KindInv, LockInv, FreshInv, NEW t \in Rpc,
        Begin(t) \/ Proceed(t) \/ Client(t)
    PROVE AnswerInv' /\ WorkIsFresh'
<1> USE BoundAssumption DEF TypeOK, ChainType, ListType, LoopType, CallType, MadeInv,
      FreshInv, AnswerInv, WorkIsFresh, CandidateInv, PollInv, Polling, PollPcs
<1>1. CASE GetWork(t)
    BY <1>1 DEF GetWork
<1>2. CASE GetTemplate(t)
    BY <1>2 DEF GetTemplate
<1>3. CASE SubmitWork(t)
    BY <1>3 DEF SubmitWork
<1>4. CASE SubmitBlock(t)
    BY <1>4 DEF SubmitBlock
<1>5. CASE GetStake(t)
    BY <1>5 DEF GetStake
<1>6. CASE NewWork(t)
    BY SMTT(30), <1>6 DEF NewWork
<1>7. CASE NewTemplate(t)
    BY <1>7 DEF NewTemplate
<1>8. CASE WriteWork(t)
    BY <1>8 DEF WriteWork
<1>9. CASE WriteTemplate(t)
    BY <1>9 DEF WriteTemplate
<1>10. CASE QueueWork(t)
    BY <1>10 DEF QueueWork
<1>11. CASE SubmitNext(t)
    BY SMTT(30), <1>11 DEF SubmitNext
<1>12. CASE GetStakeTx(t)
    BY <1>12 DEF GetStakeTx
<1>13. CASE SignLookup(t)
    BY <1>13 DEF SignLookup
<1>14. ASSUME NEW b \in Blk, Resume(t, b) PROVE AnswerInv' /\ WorkIsFresh'
    BY <1>14 DEF Resume
<1>15. CASE GetWorkLock(t) \/ OldWork(t) \/ TemplateLock(t) \/ OldTemplate(t)
    BY <1>15 DEF GetWorkLock, OldWork, TemplateLock, OldTemplate
<1>16. CASE SubmitWorkLock(t) \/ NoWork(t) \/ WorkDone(t) \/ WorkAnswer(t)
    BY <1>16 DEF SubmitWorkLock, NoWork, WorkDone, WorkAnswer
<1>17. CASE SubmitOther(t) \/ QueueBlock(t) \/ BlockDone(t) \/ BlockFound(t)
    BY <1>17 DEF SubmitOther, QueueBlock, BlockDone, BlockFound
<1>18. CASE BlockAnswer(t) \/ GetStakeNone(t) \/ GetStakeAnswer(t) \/ SignBlock(t)
    BY <1>18 DEF BlockAnswer, GetStakeNone, GetStakeAnswer, SignBlock
<1>19. CASE SignDone(t) \/ SignTx(t)
    BY <1>19 DEF SignDone, SignTx
<1> QED BY <1>1, <1>2, <1>3, <1>4, <1>5, <1>6, <1>7, <1>8, <1>9, <1>10, <1>11, <1>12, <1>13,
      <1>14, <1>15, <1>16, <1>17, <1>18, <1>19 DEF Begin, Proceed, Client

-----------------------------------------------------------------------------
(* The theorems *)

LEMMA InitInv == Init => IInv
<1> SUFFICES ASSUME Init PROVE IInv
    OBVIOUS
<1>1. TypeOK
    BY UseTyped, BoundAssumption, HashTyped DEF Init, TypeOK, ChainType, ListType, LoopType,
       CallType, MainPcs, RpcPcs, Kinds, Answers
<1>2. LockInv /\ MadeInv /\ KindInv /\ OwnInv /\ Awaited
    BY DEF Init, LockInv, Holding, MadeInv, KindInv, KindOf, ClientPcs, OwnInv, Alone, Unsigned,
       Awaited
<1>3. ChainInv
    BY DEF Init, ChainInv, ChainPlaced, NoBlockTwice
<1>4. NextInv /\ CandidateInv /\ PollInv /\ AnswerInv /\ WorkIsFresh
    BY DEF Init, NextInv, CandidateInv, PollInv, PollPcs, AnswerInv, WorkIsFresh
<1>5. SeenInv
    BY DEF Init, SeenInv, AnswersWork
<1> QED BY <1>1, <1>2, <1>3, <1>4, <1>5 DEF IInv, FreshInv

LEMMA StepInv == IInv /\ [Next]_vars => IInv'
<1> SUFFICES ASSUME IInv, [Next]_vars PROVE IInv'
    OBVIOUS
<1>0. TypeOK /\ LockInv /\ MadeInv /\ KindInv /\ OwnInv /\ Awaited /\ ChainInv /\ FreshInv
    BY DEF IInv
<1>1. CASE MainStep
  <2>1. TypeOK' /\ LockInv' /\ MadeInv' /\ KindInv'
    BY <1>0, <1>1, MainTyped, LockMain, MadeMain, KindMain
  <2>2. OwnInv' /\ Awaited' /\ ChainInv'
    BY <1>0, <1>1, OwnMain, WaitMain, ChainMain
  <2>3. FreshInv'
    BY <1>0, <1>1, NextMain, SeenMain, CandidateMain, PollMain, FreshMain DEF FreshInv
  <2> QED BY <2>1, <2>2, <2>3 DEF IInv
<1>2. ASSUME NEW t \in Rpc, Begin(t) \/ Proceed(t) \/ Client(t) PROVE IInv'
  <2>1. TypeOK' /\ LockInv' /\ MadeInv' /\ KindInv'
    BY <1>0, <1>2, CallTyped, LockCall, MadeCall, KindCall
  <2>2. OwnInv' /\ Awaited' /\ ChainInv'
    BY <1>0, <1>2, OwnCall, WaitCall, ChainCall
  <2>3. FreshInv'
    BY <1>0, <1>2, NextCall, SeenCall, CandidateCall, PollCall, FreshCall DEF FreshInv
  <2> QED BY <2>1, <2>2, <2>3 DEF IInv
<1>3. CASE UNCHANGED vars
  <2>1. TypeOK' /\ LockInv' /\ MadeInv' /\ KindInv'
    BY <1>0, <1>3 DEF vars, TypeOK, ChainType, ListType, LoopType, CallType, LockInv, MadeInv,
       KindInv, KindOf
  <2>2. OwnInv' /\ Awaited'
    BY <1>0, <1>3 DEF vars, OwnInv, Alone, Unsigned, Awaited
  <2>3. ChainInv'
    BY <1>0, <1>3 DEF vars, ChainInv, ChainPlaced, NoBlockTwice, Before, Tip
  <2>4. NextInv' /\ SeenInv'
    BY <1>0, <1>3 DEF vars, FreshInv, NextInv, SeenInv, Tip
  <2>5. CandidateInv' /\ PollInv' /\ AnswerInv' /\ WorkIsFresh'
    BY <1>0, <1>3 DEF vars, FreshInv, CandidateInv, PollInv, Polling, AnswerInv, WorkIsFresh
  <2> QED BY <2>1, <2>2, <2>3, <2>4, <2>5 DEF IInv, FreshInv
<1> QED BY <1>1, <1>2, <1>3 DEF Next

\* The invariant holds in every state of the loop and of the threads.
THEOREM LoopInvariant == Spec => []IInv
<1> QED BY InitInv, StepInv, PTL DEF Spec

\* The blocks, the list, the candidate and the locals of every thread hold what
\* their types say.
THEOREM LoopTypeCorrect == Spec => []TypeOK
<1>1. IInv => TypeOK
    BY DEF IInv
<1> QED BY <1>1, LoopInvariant, PTL

\* A thread that waits in submitblock, getwork or signstakeblock waits for a block
\* that is done, or ready and still in the list the main loop works off, unless
\* wallets share blocks.
THEOREM WaitersAwaited == Spec => []Awaited
<1>1. IInv => Awaited
    BY DEF IInv
<1> QED BY <1>1, LoopInvariant, PTL

\* However often a block is signed, submitted again or left in the list, it is
\* added to the chain once.
THEOREM BlocksOnce == Spec => []NoBlockTwice
<1>1. IInv => NoBlockTwice
    BY DEF IInv, ChainInv
<1> QED BY <1>1, LoopInvariant, PTL

\* The candidate that getwork and getblocktemplate answer follows a block that was
\* the last one at some moment of the call, unless it was made before the node
\* switched to another branch, or by a thread that had read the height before.
THEOREM CandidatesFresh == Spec => []WorkIsFresh
<1>1. IInv => WorkIsFresh
    BY DEF IInv, FreshInv
<1> QED BY <1>1, LoopInvariant, PTL

=============================================================================
