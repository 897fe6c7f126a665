------------------------------- MODULE Mempool -------------------------------
(***************************************************************************)
(* The memory pool (txmempool.cpp) and the chain that moves under it       *)
(* (ActivateBestChainStep, InvalidateBlock and UpdateMempoolForReorg in    *)
(* validation.cpp).                                                        *)
(*                                                                         *)
(* Every entry carries totals over its ancestors and its descendants in    *)
(* the pool, which are never computed afresh: each addition, removal and   *)
(* prioritisation adds to them or subtracts from them along mapLinks.      *)
(* During a reorganisation the links are incomplete on purpose, and the    *)
(* thread that loads the saved pool prioritises transactions with no more  *)
(* than mempool.cs, so between any two of its steps.                       *)
(*                                                                         *)
(* A transaction spends coins; a coin is made by a transaction or by a     *)
(* block below the ones modelled.  All have size 1, so a size is a count   *)
(* and a fee is a fee rate, and the use of memory is the number of         *)
(* entries.  Sums wrap around at 2^63; no supply of coins reaches that.    *)
(***************************************************************************)
EXTENDS Integers, Sequences, FiniteSets, FiniteSetsExt, SequencesExt

CONSTANTS
  Txs, Coins, NoTx,
  Spends,           \* the coins a transaction spends
  Maker,            \* the transaction that makes a coin, or NoTx
  Fee,              \* nFee
  Coinstakes,       \* transactions that are valid only in a block
  Replaceable,      \* transactions that signal BIP 125
  Candidates,       \* blocks, as sequences of transactions
  LimitAncestors, LimitDescendants,   \* -limitancestorcount, -limitdescendantcount
  MaxMempool,       \* -maxmempool
  MaxDisconnected,  \* MAX_DISCONNECTED_TX_POOL_SIZE
  Deltas,           \* amounts a transaction is prioritised by
  MaxHeight,        \* bound on the chain
  MaxPriorities     \* bound on calls of PrioritiseTransaction

ASSUME MempoolAssumption ==
  /\ NoTx \notin Txs /\ Coinstakes \subseteq Txs /\ Replaceable \subseteq Txs
  /\ Spends \in [Txs -> SUBSET Coins] /\ Maker \in [Coins -> Txs \cup {NoTx}]
  /\ Fee \in [Txs -> Int] /\ Candidates \subseteq Seq(Txs) /\ Deltas \subseteq Int
  /\ {LimitAncestors, LimitDescendants, MaxMempool, MaxDisconnected, MaxHeight,
      MaxPriorities} \subseteq Nat

VARIABLES
  chain,       \* the blocks of chainActive, as sequences of transactions
  pool,        \* the CTxMemPool
  pc,          \* where the thread that holds cs_main is; "idle": nobody does
  queuedTx,    \* disconnectpool
  fAdd,        \* fAddToMempool
  vHashUpdate, \* transactions that UpdateMempoolForReorg has added back
  priorities

vars == <<chain, pool, pc, queuedTx, fAdd, vHashUpdate, priorities>>

InBlocks(blocks) == UNION {Range(blocks[i]) : i \in DOMAIN blocks}
InChain == InBlocks(chain)

\* The coins of a chain of blocks: pcoinsTip
Utxo(blocks) ==
  {c \in Coins : /\ Maker[c] \in InBlocks(blocks) \cup {NoTx}
                 /\ \A t \in InBlocks(blocks) : c \notin Spends[t]}

\* A block that connects: every transaction finds its coins
Connects(b) ==
  \A i \in DOMAIN b :
    Spends[b[i]] \subseteq Utxo(Append(chain, SubSeq(b, 1, i - 1)))

NoEntry == [delta |-> 0, desc |-> [count |-> 0, fees |-> 0],
            anc |-> [count |-> 0, fees |-> 0]]

Init ==
  /\ chain = <<>>
  /\ pool = [mapTx |-> {}, entry |-> [t \in Txs |-> NoEntry],
             parents |-> [t \in Txs |-> {}], children |-> [t \in Txs |-> {}],
             mapNextTx |-> [c \in Coins |-> NoTx], mapDeltas |-> [t \in Txs |-> 0]]
  /\ pc = "idle" /\ queuedTx = <<>> /\ fAdd = FALSE /\ vHashUpdate = <<>>
  /\ priorities = 0

-----------------------------------------------------------------------------
(***************************************************************************)
(* Walks along mapLinks.                                                   *)
(***************************************************************************)

\* What is reached from the entries of start
Closure(links, start) ==
  LET reach[n \in 0..Cardinality(Txs)] ==
        IF n = 0 THEN start
        ELSE reach[n - 1] \cup UNION {links[t] : t \in reach[n - 1]}
  IN reach[Cardinality(Txs)]

CalculateDescendants(m, stage) == Closure(m.children, stage)

\* CalculateMemPoolAncestors of an entry of the pool
LinkedAncestors(m, t) == Closure(m.parents, m.parents[t])

\* ... and with fSearchForParents, of a transaction that may be none
PoolParents(m, t) == {Maker[c] : c \in Spends[t]} \cap m.mapTx
SearchedAncestors(m, t) == Closure(m.parents, PoolParents(m, t))

WithinLimits(m, t) ==
  LET a == SearchedAncestors(m, t)
  IN /\ Cardinality(a) + 1 <= LimitAncestors
     /\ \A u \in a : m.entry[u].desc.count + 1 <= LimitDescendants

GetModifiedFee(m, t) == Fee[t] + m.entry[t].delta
SumFees(m, S) == MapThenSumSet(LAMBDA t : GetModifiedFee(m, t), S)

\* UpdateDescendantState and UpdateAncestorState: k times what the set S[t] adds
UpdateDescendants(m, k, S) ==
  [m EXCEPT !.entry = [t \in Txs |-> [@[t] EXCEPT
     !.desc.count = @ + k * Cardinality(S[t]), !.desc.fees = @ + k * SumFees(m, S[t])]]]
UpdateAncestors(m, k, S) ==
  [m EXCEPT !.entry = [t \in Txs |-> [@[t] EXCEPT
     !.anc.count = @ + k * Cardinality(S[t]), !.anc.fees = @ + k * SumFees(m, S[t])]]]

-----------------------------------------------------------------------------
(***************************************************************************)
(* Additions and removals.                                                 *)
(***************************************************************************)

\* CTxMemPoolEntry's constructor, ApplyDelta and UpdateFeeDelta
NewEntry(m, t) ==
  [delta |-> m.mapDeltas[t],
   desc |-> [count |-> 1, fees |-> Fee[t] + m.mapDeltas[t]],
   anc |-> [count |-> 1, fees |-> Fee[t] + m.mapDeltas[t]]]

\* UpdateAncestorsOf and UpdateEntryForAncestors are the last two lines
AddUnchecked(m, t, ancestors) ==
  LET linked == [m EXCEPT
        !.mapTx = @ \cup {t},
        !.entry[t] = NewEntry(m, t),
        !.mapNextTx = [c \in Coins |-> IF c \in Spends[t] /\ @[c] = NoTx THEN t ELSE @[c]],
        !.parents[t] = PoolParents(m, t),
        !.children = [p \in Txs |-> @[p] \cup (IF p \in PoolParents(m, t) THEN {t} ELSE {})]]
  IN UpdateAncestors(
       UpdateDescendants(linked, 1, [a \in Txs |-> IF a \in ancestors THEN {t} ELSE {}]),
       1, [u \in Txs |-> IF u = t THEN ancestors ELSE {}])

\* The totals first, then the links
UpdateForRemoveFromMempool(m, stage, updateDescendants) ==
  LET less == IF ~updateDescendants THEN m
              ELSE UpdateAncestors(m, -1, [d \in Txs |->
                     {r \in stage \ {d} : d \in CalculateDescendants(m, {r})}])
      fewer == UpdateDescendants(less, -1, [a \in Txs |->
                 {r \in stage : a \in LinkedAncestors(m, r)}])
  IN [fewer EXCEPT !.children = [p \in Txs |-> @[p] \ {r \in stage : p \in m.parents[r]}],
                   !.parents = [c \in Txs |-> @[c] \ {r \in stage : c \in m.children[r]}]]

\* RemoveStaged, with removeUnchecked
RemoveStaged(m, stage, updateDescendants) ==
  [UpdateForRemoveFromMempool(m, stage, updateDescendants) EXCEPT
     !.mapTx = @ \ stage,
     !.entry = [t \in Txs |-> IF t \in stage THEN NoEntry ELSE @[t]],
     !.parents = [t \in Txs |-> IF t \in stage THEN {} ELSE @[t]],
     !.children = [t \in Txs |-> IF t \in stage THEN {} ELSE @[t]],
     !.mapNextTx = [c \in Coins |->
       IF \E t \in stage : c \in Spends[t] THEN NoTx ELSE @[c]]]

\* The entries that spend a coin of t
Spenders(m, t) == {m.mapNextTx[c] : c \in {d \in Coins : Maker[d] = t}} \ {NoTx}

\* Mutant of RemoveRecursive: a transaction that is no entry has nothing to remove
RemoveRecursiveEntry(m, t) ==
  RemoveStaged(m, CalculateDescendants(m, {t} \cap m.mapTx), FALSE)

RemoveRecursive(m, t) ==
  LET first == IF t \in m.mapTx THEN {t} ELSE Spenders(m, t)
  IN RemoveStaged(m, CalculateDescendants(m, first), FALSE)

ClearPrioritisation(m, t) == [m EXCEPT !.mapDeltas[t] = 0]

RemoveConflicts(m, t) ==
  LET conflicts == {m.mapNextTx[c] : c \in Spends[t]} \ {NoTx, t}
  IN FoldSet(LAMBDA u, n : IF u \in n.mapTx
                            THEN RemoveRecursive(ClearPrioritisation(n, u), u) ELSE n,
             m, conflicts)

RemoveForBlock(m, vtx) ==
  FoldLeft(LAMBDA n, t :
             LET stage == {t} \cap n.mapTx
             IN ClearPrioritisation(RemoveConflicts(RemoveStaged(n, stage, TRUE), t), t),
           m, vtx)

-----------------------------------------------------------------------------
(***************************************************************************)
(* What a reorganisation repairs.  acc is the pool and cachedDescendants.  *)
(***************************************************************************)

\* The walk does not enter what is cached, whose own entry counts already
UpdateForDescendants(acc, t, exclude) ==
  LET m == acc.pool
      cached == DOMAIN acc.cache
      walked == Closure([u \in Txs |-> m.children[u] \ cached], m.children[t])
      known == UNION {acc.cache[c] : c \in UNION {m.children[u] : u \in walked} \cap cached}
      new == (walked \cup known) \ exclude
  IN [pool |-> UpdateDescendants(
                 UpdateAncestors(m, 1, [d \in Txs |-> IF d \in new THEN {t} ELSE {}]),
                 1, [u \in Txs |-> IF u = t THEN new ELSE {}]),
      cache |-> IF new = {} THEN acc.cache
                ELSE [u \in cached \cup {t} |-> IF u = t THEN new ELSE acc.cache[u]]]

\* Mutant of UpdateTransactionsFromBlock: what is added back counts twice
UpdateTransactionsFromBlockTwice(m, vHashes) ==
  FoldRight(LAMBDA t, acc :
      LET outside == Spenders(acc.pool, t) \ Range(vHashes)
          linked == [acc.pool EXCEPT
            !.children[t] = @ \cup outside,
            !.parents = [c \in Txs |-> @[c] \cup (IF c \in outside THEN {t} ELSE {})]]
      IN IF t \notin acc.pool.mapTx THEN acc
         ELSE UpdateForDescendants([acc EXCEPT !.pool = linked], t, {}),
    vHashes, [pool |-> m, cache |-> <<>>]).pool

\* Mutant of UpdateTransactionsFromBlock: the parents of the children are left
UpdateTransactionsFromBlockOneWay(m, vHashes) ==
  FoldRight(LAMBDA t, acc :
      LET outside == Spenders(acc.pool, t) \ Range(vHashes)
          linked == [acc.pool EXCEPT !.children[t] = @ \cup outside]
      IN IF t \notin acc.pool.mapTx THEN acc
         ELSE UpdateForDescendants([acc EXCEPT !.pool = linked], t, Range(vHashes)),
    vHashes, [pool |-> m, cache |-> <<>>]).pool

\* The last transaction first, so that children are linked before their parents
UpdateTransactionsFromBlock(m, vHashes) ==
  FoldRight(LAMBDA t, acc :
      LET outside == Spenders(acc.pool, t) \ Range(vHashes)
          linked == [acc.pool EXCEPT
            !.children[t] = @ \cup outside,
            !.parents = [c \in Txs |-> @[c] \cup (IF c \in outside THEN {t} ELSE {})]]
      IN IF t \notin acc.pool.mapTx THEN acc
         ELSE UpdateForDescendants([acc EXCEPT !.pool = linked], t, Range(vHashes)),
    vHashes, [pool |-> m, cache |-> <<>>]).pool

\* removeForReorg and Expire: entries that are not final or mature any more, or
\* too old.  Time decides which; one of them at most in a step.
Dropped(m) ==
  {m} \cup {RemoveStaged(m, CalculateDescendants(m, {t}), FALSE) : t \in m.mapTx}

\* CompareTxMemPoolEntryByDescendantScore: the better of two fee rates
Score(m, t) ==
  LET d == m.entry[t].desc
  IN IF d.fees > GetModifiedFee(m, t) * d.count THEN d
     ELSE [count |-> 1, fees |-> GetModifiedFee(m, t)]
WorstScore(m) ==
  {t \in m.mapTx : \A u \in m.mapTx :
     Score(m, t).fees * Score(m, u).count <= Score(m, u).fees * Score(m, t).count}

\* TrimToSize: what may be left, since entry times break a tie
TrimToSize(m) ==
  FoldLeft(LAMBDA ms, i :
      UNION {IF Cardinality(n.mapTx) <= MaxMempool THEN {n}
             ELSE {RemoveStaged(n, CalculateDescendants(n, {t}), FALSE) : t \in WorstScore(n)}
             : n \in ms},
    {m}, [i \in 1..Cardinality(Txs) |-> i])

LimitMempoolSize(m) == UNION {TrimToSize(n) : n \in Dropped(m)}

-----------------------------------------------------------------------------
(***************************************************************************)
(* AcceptToMemoryPoolWorker.  It holds mempool.cs from its start to its    *)
(* end.  It may refuse for other reasons, such as scripts, at any time.    *)
(***************************************************************************)

Conflicts(m, t) == {m.mapNextTx[c] : c \in Spends[t]} \ {NoTx}

\* The rules of a replacement, with an increment of 1
Replaces(m, t) ==
  LET direct == Conflicts(m, t)
      fee == Fee[t] + m.mapDeltas[t]
  IN /\ direct \subseteq Replaceable
     /\ direct \cap SearchedAncestors(m, t) = {}
     /\ \A u \in direct : fee > GetModifiedFee(m, u)
     /\ PoolParents(m, t) \subseteq UNION {{Maker[c] : c \in Spends[u]} : u \in direct}
     /\ fee > SumFees(m, CalculateDescendants(m, direct))

Acceptable(m, t) ==
  /\ t \notin Coinstakes /\ t \notin m.mapTx /\ t \notin InChain
  /\ \A c \in Spends[t] : c \in Utxo(chain) \/ Maker[c] \in m.mapTx
  /\ WithinLimits(m, t)
  /\ Conflicts(m, t) # {} => Replaces(m, t)

Accepted(m, t) ==
  AddUnchecked(RemoveStaged(m, CalculateDescendants(m, Conflicts(m, t)), FALSE),
               t, SearchedAncestors(m, t))

\* From a peer, an RPC or the saved pool
AcceptToMemoryPool(t) ==
  /\ pc = "idle" /\ Acceptable(pool, t)
  /\ pool' \in LimitMempoolSize(Accepted(pool, t))
  /\ UNCHANGED <<chain, pc, queuedTx, fAdd, vHashUpdate, priorities>>

\* PrioritiseTransaction, also by LoadMempool, which does not hold cs_main
PrioritiseTransaction(t, nFeeDelta) ==
  LET m == [pool EXCEPT !.mapDeltas[t] = @ + nFeeDelta]
      above == LinkedAncestors(m, t)
      below == CalculateDescendants(m, {t})
  IN /\ priorities < MaxPriorities /\ priorities' = priorities + 1
     /\ pool' = IF t \notin m.mapTx THEN m
                ELSE [m EXCEPT !.entry = [u \in Txs |->
                       [@[u] EXCEPT !.delta = IF u = t THEN m.mapDeltas[t] ELSE @,
                                    !.desc.fees = IF u \in above \cup {t} THEN @ + nFeeDelta ELSE @,
                                    !.anc.fees = IF u \in below THEN @ + nFeeDelta ELSE @]]]
     /\ UNCHANGED <<chain, pc, queuedTx, fAdd, vHashUpdate>>

-----------------------------------------------------------------------------
(***************************************************************************)
(* The thread that moves the chain.  It holds cs_main from the first block *)
(* it disconnects to the end of UpdateMempoolForReorg, and mempool.cs in   *)
(* each step.                                                              *)
(***************************************************************************)

\* ConnectTip: without a reorganisation nothing else happens to the pool
ConnectTip(b) ==
  /\ pc \in {"idle", "disconnected", "connected"}
  /\ Len(chain) < MaxHeight /\ Connects(b)
  /\ pool' = RemoveForBlock(pool, b)
  /\ queuedTx' = SelectSeq(queuedTx, LAMBDA t : t \notin Range(b))
  /\ chain' = Append(chain, b)
  /\ pc' = IF pc = "idle" THEN "idle" ELSE "connected"
  /\ UNCHANGED <<fAdd, vHashUpdate, priorities>>

\* DisconnectTip: past the limit, the oldest go, and what depends on them
DisconnectTip ==
  LET queue == queuedTx \o Reverse(Last(chain))
      over == IF Len(queue) > MaxDisconnected THEN Len(queue) - MaxDisconnected ELSE 0
  IN /\ pc \in {"idle", "disconnected"} /\ chain # <<>>
     /\ chain' = Front(chain)
     /\ pool' = FoldLeft(RemoveRecursive, pool, SubSeq(queue, 1, over))
     /\ queuedTx' = SubSeq(queue, over + 1, Len(queue))
     /\ pc' = "disconnected"
     /\ UNCHANGED <<fAdd, vHashUpdate, priorities>>

\* The new tip is reached, or a block is invalid; after an error, or when many
\* blocks are invalidated, nothing is added back.  Idle: the first DisconnectTip
\* has failed.
StartUpdate ==
  /\ pc \in {"idle", "disconnected", "connected"}
  /\ fAdd' \in BOOLEAN
  /\ pc' = "readd" /\ vHashUpdate' = <<>>
  /\ UNCHANGED <<chain, pool, queuedTx, priorities>>

\* One transaction of disconnectpool, the earliest of the chain first
AddBack ==
  LET t == Last(queuedTx)
  IN /\ pc = "readd" /\ queuedTx # <<>>
     /\ fAdd /\ Acceptable(pool, t)
     /\ pool' = Accepted(pool, t)
     /\ vHashUpdate' = Append(vHashUpdate, t)
     /\ queuedTx' = Front(queuedTx)
     /\ UNCHANGED <<chain, pc, fAdd, priorities>>

\* ... that is not accepted, be it by policy
GiveUp ==
  /\ pc = "readd" /\ queuedTx # <<>>
  /\ pool' = RemoveRecursive(pool, Last(queuedTx))
  /\ queuedTx' = Front(queuedTx)
  /\ UNCHANGED <<chain, pc, fAdd, vHashUpdate, priorities>>

UpdateFromBlock ==
  /\ pc = "readd" /\ queuedTx = <<>>
  /\ pool' = UpdateTransactionsFromBlock(pool, vHashUpdate)
  /\ pc' = "updated" /\ vHashUpdate' = <<>>
  /\ UNCHANGED <<chain, queuedTx, fAdd, priorities>>

RemoveForReorg ==
  /\ pc = "updated"
  /\ pool' \in Dropped(pool)
  /\ pc' = "limit"
  /\ UNCHANGED <<chain, queuedTx, fAdd, vHashUpdate, priorities>>

EndUpdate ==
  /\ pc = "limit"
  /\ pool' \in LimitMempoolSize(pool)
  /\ pc' = "idle" /\ fAdd' = FALSE
  /\ UNCHANGED <<chain, queuedTx, vHashUpdate, priorities>>

Next ==
  \/ \E t \in Txs : AcceptToMemoryPool(t) \/ \E d \in Deltas : PrioritiseTransaction(t, d)
  \/ \E b \in Candidates : ConnectTip(b)
  \/ DisconnectTip \/ StartUpdate \/ AddBack \/ GiveUp
  \/ UpdateFromBlock \/ RemoveForReorg \/ EndUpdate

Spec == Init /\ [][Next]_vars

-----------------------------------------------------------------------------
(***************************************************************************)
(* Properties.  Where they speak of a free cs_main they are what           *)
(* CTxMemPool::check asserts.                                              *)
(***************************************************************************)

\* The variables have their types; no count of an entry falls to zero, which
\* UpdateDescendantState and UpdateAncestorState assert at every step of a
\* reorganisation too, and what is no entry has left nothing behind.
TypeOK ==
  /\ chain \in Seq(Candidates) /\ pool.mapTx \subseteq Txs \ Coinstakes
  /\ pc \in {"idle", "disconnected", "connected", "readd", "updated", "limit"}
  /\ \A t \in pool.mapTx : pool.entry[t].desc.count > 0 /\ pool.entry[t].anc.count > 0
  /\ \A t \in Txs \ pool.mapTx :
       pool.entry[t] = NoEntry /\ pool.parents[t] = {} /\ pool.children[t] = {}

\* Whenever cs_main is free, every entry finds its coins in the chain or is the
\* child of an entry: nothing in the pool waits for a transaction that a
\* reorganisation has lost.
InputsAvailable ==
  pc = "idle" => \A t \in pool.mapTx : \A c \in Spends[t] :
                   c \in Utxo(chain) \/ Maker[c] \in pool.mapTx

TrueParents(t) == {Maker[c] : c \in Spends[t]} \cap pool.mapTx
TrueAncestors(t) == Closure([u \in Txs |-> TrueParents(u)], TrueParents(t))
TrueTotal(S) ==
  [count |-> Cardinality(S),
   fees |-> MapThenSumSet(LAMBDA t : Fee[t] + pool.mapDeltas[t], S)]

\* mapNextTx knows exactly the coins that entries spend, even while the chain is
\* being reorganised, and no two entries spend the same one; whenever cs_main is
\* free, mapLinks holds the parents and the children that the inputs define,
\* although it was incomplete during reorganisations.
LinksExact ==
  /\ \A c \in Coins :
       {t \in pool.mapTx : c \in Spends[t]} =
         IF pool.mapNextTx[c] = NoTx THEN {} ELSE {pool.mapNextTx[c]}
  /\ pc = "idle" => \A t \in pool.mapTx :
       /\ pool.parents[t] = TrueParents(t)
       /\ pool.children[t] = {u \in pool.mapTx : t \in TrueParents(u)}

\* Whenever cs_main is free, the totals over ancestors and over descendants (of
\* which check only asserts a bound) are the ones computed afresh from the fees
\* and mapDeltas, whatever was added, replaced, evicted, mined, reorganised and
\* prioritised in between, also in the middle of a reorganisation.
TotalsExact ==
  pc = "idle" => \A t \in pool.mapTx :
    /\ pool.entry[t].anc = TrueTotal(TrueAncestors(t) \cup {t})
    /\ pool.entry[t].desc = TrueTotal({u \in pool.mapTx : t \in TrueAncestors(u)} \cup {t})
==============================================================================
