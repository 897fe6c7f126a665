---------------------------- MODULE ChainstateDB ----------------------------
(***************************************************************************)
(* The durable state of a node and how it survives a crash: block and undo *)
(* files, the block index database, and the coin database (txdb.cpp),      *)
(* which FlushStateToDisk (validation.cpp) writes in that order.           *)
(*                                                                         *)
(* The coin database is written in several batches, any of which may be    *)
(* the last before a crash.  DB_HEAD_BLOCKS marks a database that is       *)
(* between two blocks, and ReplayBlocks repairs it at the next start.      *)
(*                                                                         *)
(* A coin is its outpoint here, so a set of coins is a set of outpoints;   *)
(* CoinsCache shows that the caches above the database are invisible.      *)
(***************************************************************************)
EXTENDS BlockTree, Sequences

CONSTANTS
  Txs,        \* Txs[b]: the transactions of b, records of spent inputs and outputs
  Outpoints,
  MaxFile,    \* the highest block file number
  MaxCrashes  \* how often the node may crash

ASSUME TxsAssumption ==
  Txs \in [Blocks -> Seq([in : SUBSET Outpoints, out : SUBSET Outpoints])]

VARIABLES
  phase,            \* what the node is doing
  full,             \* whether the flush under way reaches the coins (fDoFullFlush)
  nFile, lastFile,  \* CBlockIndex::nFile, nLastBlockFile
  synced,           \* what of the block and undo files has been through FileCommit
  index, dirty,     \* mapBlockIndex: BLOCK_HAVE_DATA, BLOCK_HAVE_UNDO; setDirtyBlockIndex
  diskIndex,        \* CBlockTreeDB: the entries of the index, DB_LAST_BLOCK
  diskLast,
  tip, coins,       \* chainActive.Tip(), what pcoinsTip represents
  db, best, heads,  \* CCoinsViewDB: coins, DB_BEST_BLOCK, DB_HEAD_BLOCKS
  crashes

fileVars == <<nFile, lastFile, synced>>
indexVars == <<index, dirty>>
diskIndexVars == <<diskIndex, diskLast>>
dbVars == <<db, best, heads>>
vars == <<phase, full, fileVars, indexVars, diskIndexVars, tip, coins, dbVars, crashes>>

HAVE_DATA == "data"
HAVE_UNDO == "undo"
Status == SUBSET {HAVE_DATA, HAVE_UNDO}

Phases == {"down", "running", "flushfiles", "flushindex", "flushcoins", "aborted"}

\* Every variable has the type its declaration in the code gives it.
TypeOK ==
  /\ phase \in Phases
  /\ full \in BOOLEAN
  /\ nFile \in [Blocks -> 0..MaxFile]
  /\ lastFile \in 0..MaxFile
  /\ synced \subseteq Blocks \X {HAVE_DATA, HAVE_UNDO}
  /\ index \in [Blocks -> Status]
  /\ dirty \subseteq Blocks
  /\ diskIndex \in [Blocks -> Status]
  /\ diskLast \in 0..MaxFile
  /\ tip \in Blocks \cup {NoBlock}
  /\ coins \subseteq Outpoints
  /\ db \subseteq Outpoints
  /\ best \in Blocks \cup {NoBlock}
  /\ heads \in {<<>>} \cup (Blocks \X (Blocks \cup {NoBlock}))
  /\ crashes \in 0..MaxCrashes

-----------------------------------------------------------------------------
\* The blocks from Genesis to b
ChainOf(b) == IF b = NoBlock THEN {} ELSE Ancestors[b]

\* What the first n transactions of b make and spend, and what all of them do
CreatedUpTo(b, n) == UNION {Txs[b][i].out : i \in 1..n}
SpentUpTo(b, n) == UNION {Txs[b][i].in : i \in 1..n}
CreatedBy(b) == CreatedUpTo(b, Len(Txs[b]))
SpentBy(b) == SpentUpTo(b, Len(Txs[b]))

\* The same for the chain that ends with b.  The transactions of the genesis
\* block are never connected.
CreatedAt(b) == UNION {CreatedBy(a) : a \in ChainOf(b) \ {Genesis}}
SpentAt(b) == UNION {SpentBy(a) : a \in ChainOf(b) \ {Genesis}}

\* The unspent outputs after b, by definition
UtxoAt(b) == CreatedAt(b) \ SpentAt(b)

\* What ConnectBlock has checked of the blocks it lets in: a transaction spends
\* what was made before it and not spent (HaveInputs), and makes what nothing
\* before it on the chain made (BIP30; an outpoint is a hash of the inputs).
ASSUME ValidAssumption ==
  \A b \in Blocks \ {Genesis} : \A i \in 1..Len(Txs[b]) :
    LET made == CreatedAt(Parent[b]) \cup CreatedUpTo(b, i - 1)
        spent == SpentAt(Parent[b]) \cup SpentUpTo(b, i - 1)
    IN  Txs[b][i].in \subseteq made \ spent /\ Txs[b][i].out \cap made = {}

\* UpdateCoins over the block in ConnectBlock, and RollforwardBlock: the coins
\* after each transaction
ApplyBlock(set, b) ==
  LET after[i \in 0..Len(Txs[b])] ==
        IF i = 0 THEN set ELSE (after[i - 1] \ Txs[b][i].in) \cup Txs[b][i].out
  IN  IF b = Genesis THEN set ELSE after[Len(Txs[b])]

\* DisconnectBlock: the transactions undone in reverse order
UndoBlock(set, b) ==
  LET n == Len(Txs[b])
      after[k \in 0..n] ==
        IF k = 0 THEN set
        ELSE (after[k - 1] \ Txs[b][n + 1 - k].out) \cup Txs[b][n + 1 - k].in
  IN  after[n]

\* The roll-forward loop of ReplayBlocks, from above the fork up to new
RollForward(set, fork, new) ==
  LET rolled[b \in Blocks] ==
        IF b = Genesis \/ b = fork THEN set ELSE ApplyBlock(rolled[Parent[b]], b)
  IN  rolled[new]

\* FlushBlockFile: only the block and undo file numbered nLastBlockFile
FlushBlockFile ==
  synced \cup {e \in Blocks \X {HAVE_DATA, HAVE_UNDO} :
                 nFile[e[1]] = lastFile /\ e[2] \in index[e[1]]}

-----------------------------------------------------------------------------
\* A data directory that does not exist yet
Init ==
  /\ phase = "down"
  /\ full = FALSE
  /\ nFile = [b \in Blocks |-> 0]
  /\ lastFile = 0
  /\ synced = {}
  /\ index = [b \in Blocks |-> {}]
  /\ dirty = {}
  /\ diskIndex = [b \in Blocks |-> {}]
  /\ diskLast = 0
  /\ tip = NoBlock
  /\ coins = {}
  /\ db = {}
  /\ best = NoBlock
  /\ heads = <<>>
  /\ crashes = 0

\* Mutant of AcceptBlock: the next block file is begun without flushing the full one
AcceptBlockNoFlush(b) ==
  /\ phase = "running"
  /\ index[b] = {}
  /\ index[Parent[b]] # {}
  /\ \E f \in {lastFile, lastFile + 1} \cap 0..MaxFile :
       /\ nFile' = [nFile EXCEPT ![b] = f]
       /\ lastFile' = f
  /\ synced' = synced \ {<<b, HAVE_DATA>>, <<b, HAVE_UNDO>>}
  /\ index' = [index EXCEPT ![b] = {HAVE_DATA}]
  /\ dirty' = dirty \cup {b}
  /\ UNCHANGED <<phase, full, diskIndexVars, tip, coins, dbVars, crashes>>

\* AcceptBlock: FindBlockPos takes the current file or, when that is full,
\* flushes it and moves to the next; ReceivedBlockTransactions marks the data.
AcceptBlock(b) ==
  /\ phase = "running"
  /\ index[b] = {}
  /\ index[Parent[b]] # {}
  /\ \/ /\ nFile' = [nFile EXCEPT ![b] = lastFile]
        /\ synced' = synced \ {<<b, HAVE_DATA>>, <<b, HAVE_UNDO>>}
        /\ UNCHANGED lastFile
     \/ /\ lastFile < MaxFile
        /\ lastFile' = lastFile + 1
        /\ nFile' = [nFile EXCEPT ![b] = lastFile + 1]
        /\ synced' = FlushBlockFile \ {<<b, HAVE_DATA>>, <<b, HAVE_UNDO>>}
  /\ index' = [index EXCEPT ![b] = {HAVE_DATA}]
  /\ dirty' = dirty \cup {b}
  /\ UNCHANGED <<phase, full, diskIndexVars, tip, coins, dbVars, crashes>>

\* FlushStateToDisk in mode IF_NEEDED, as ConnectTip and DisconnectTip end:
\* nothing, or (fCacheCritical) a full flush under the same cs_main.
FlushIfNeeded ==
  \/ UNCHANGED <<phase, full>>
  \/ phase' = "flushfiles" /\ full' = TRUE

\* Mutant of ConnectTip: the entry with the new undo position is not made dirty
ConnectTipNotDirty(b) ==
  /\ phase = "running"
  /\ Parent[b] = tip
  /\ HAVE_DATA \in index[b]
  /\ coins' = ApplyBlock(coins, b)
  /\ tip' = b
  /\ IF b = Genesis \/ HAVE_UNDO \in index[b]
     THEN UNCHANGED <<index, synced>>
     ELSE /\ index' = [index EXCEPT ![b] = @ \cup {HAVE_UNDO}]
          /\ synced' = synced \ {<<b, HAVE_UNDO>>}
  /\ FlushIfNeeded
  /\ UNCHANGED <<nFile, lastFile, dirty, diskIndexVars, dbVars, crashes>>

\* ConnectTip.  WriteUndoDataForBlock writes undo data the first time a block
\* is connected; the genesis block has none.
ConnectTip(b) ==
  /\ phase = "running"
  /\ Parent[b] = tip
  /\ HAVE_DATA \in index[b]
  /\ coins' = ApplyBlock(coins, b)
  /\ tip' = b
  /\ IF b = Genesis \/ HAVE_UNDO \in index[b]
     THEN UNCHANGED <<indexVars, synced>>
     ELSE /\ index' = [index EXCEPT ![b] = @ \cup {HAVE_UNDO}]
          /\ dirty' = dirty \cup {b}
          /\ synced' = synced \ {<<b, HAVE_UNDO>>}
  /\ FlushIfNeeded
  /\ UNCHANGED <<nFile, lastFile, diskIndexVars, dbVars, crashes>>

DisconnectTip ==
  /\ phase = "running"
  /\ tip \notin {NoBlock, Genesis}
  /\ {HAVE_DATA, HAVE_UNDO} \subseteq index[tip]
  /\ coins' = UndoBlock(coins, tip)
  /\ tip' = Parent[tip]
  /\ FlushIfNeeded
  /\ UNCHANGED <<fileVars, indexVars, diskIndexVars, dbVars, crashes>>

\* FlushStateToDisk in mode PERIODIC or ALWAYS, when it decides to write
FlushStateToDisk(doFullFlush) ==
  /\ phase = "running"
  /\ phase' = "flushfiles"
  /\ full' = doFullFlush
  /\ UNCHANGED <<fileVars, indexVars, diskIndexVars, tip, coins, dbVars, crashes>>

\* Mutant of FlushFiles: the coins are written before the index they refer to
FlushFilesThenCoins ==
  /\ phase = "flushfiles"
  /\ phase' = IF full /\ tip # NoBlock THEN "flushcoins" ELSE "flushindex"
  /\ synced' = FlushBlockFile
  /\ UNCHANGED <<full, nFile, lastFile, indexVars, diskIndexVars, tip, coins, dbVars, crashes>>

\* Its first step
FlushFiles ==
  /\ phase = "flushfiles"
  /\ phase' = "flushindex"
  /\ synced' = FlushBlockFile
  /\ UNCHANGED <<full, nFile, lastFile, indexVars, diskIndexVars, tip, coins, dbVars, crashes>>

\* Its second: WriteBatchSync of the dirty file information and index entries.
\* The coins follow when this is a full flush and pcoinsTip has a best block.
WriteBatchSync ==
  /\ phase = "flushindex"
  /\ phase' = IF full /\ tip # NoBlock THEN "flushcoins" ELSE "running"
  /\ diskIndex' = [b \in Blocks |-> IF b \in dirty THEN index[b] ELSE diskIndex[b]]
  /\ diskLast' = lastFile
  /\ dirty' = {}
  /\ full' = FALSE
  /\ UNCHANGED <<fileVars, index, tip, coins, dbVars, crashes>>

\* Mutant of OldTip: a replay forgets where the interrupted flush began
OldTipForgotten == best

\* Its third, pcoinsTip->Flush(): CCoinsViewDB::BatchWrite visits the cache in
\* no particular order.  Each batch is atomic.  All but the last leave the
\* markers of a database in transition; old_tip survives a replay.
OldTip == IF best = NoBlock /\ Len(heads) = 2 THEN heads[2] ELSE best

Changed == (coins \ db) \cup (db \ coins)

WriteBatch(entries) == (db \ entries) \cup (coins \cap entries)

WritePartialBatch(entries) ==
  /\ phase = "flushcoins"
  /\ db' = WriteBatch(entries)
  /\ best' = NoBlock
  /\ heads' = <<tip, OldTip>>
  /\ UNCHANGED <<phase, full, fileVars, indexVars, diskIndexVars, tip, coins, crashes>>

WriteFinalBatch ==
  /\ phase = "flushcoins"
  /\ phase' = "running"
  /\ db' = WriteBatch(Changed)
  /\ best' = tip
  /\ heads' = <<>>
  /\ UNCHANGED <<full, fileVars, indexVars, diskIndexVars, tip, coins, crashes>>

\* The process dies; what it wrote stays written.
Crash ==
  /\ phase \notin {"down", "aborted"}
  /\ crashes < MaxCrashes
  /\ crashes' = crashes + 1
  /\ phase' = "down"
  /\ full' = FALSE
  /\ index' = [b \in Blocks |-> {}]
  /\ dirty' = {}
  /\ nFile' = [b \in Blocks |-> IF diskIndex[b] = {} THEN 0 ELSE nFile[b]]
  /\ tip' = NoBlock
  /\ coins' = {}
  /\ UNCHANGED <<lastFile, synced, diskIndexVars, dbVars>>

-----------------------------------------------------------------------------
\* The start of the node (init.cpp): LoadBlockIndex, then LoadGenesisBlock
LoadedIndex == [diskIndex EXCEPT ![Genesis] = @ \cup {HAVE_DATA}]

LoadBlockIndex ==
  /\ phase = "down"
  /\ index' = LoadedIndex
  /\ dirty' = IF diskIndex[Genesis] = {} THEN {Genesis} ELSE {}
  /\ lastFile' = diskLast
  /\ UNCHANGED <<full, nFile, synced, diskIndexVars, dbVars, crashes>>

\* ReplayBlocks has nothing to do and LoadChainTip finds the best block
StartConsistent ==
  /\ LoadBlockIndex
  /\ heads = <<>>
  /\ best # NoBlock => LoadedIndex[best] # {}
  /\ phase' = "running"
  /\ tip' = best
  /\ coins' = db

\* ReplayBlocks' conditions on the blocks of an interrupted flush
HeadsKnown ==
  /\ LoadedIndex[heads[1]] # {}
  /\ heads[2] # NoBlock => LoadedIndex[heads[2]] # {}

NeedsRollback == heads[2] # NoBlock /\ heads[2] \notin ChainOf(heads[1])

CanRollForward ==
  \A b \in ChainOf(heads[1]) \ (ChainOf(heads[2]) \cup {Genesis}) : HAVE_DATA \in LoadedIndex[b]

\* Mutant of StartReplay: the cache is rolled forward and never flushed
StartReplayNoFlush ==
  /\ LoadBlockIndex
  /\ heads # <<>>
  /\ HeadsKnown /\ ~NeedsRollback /\ CanRollForward
  /\ UNCHANGED <<phase, tip, coins>>

\* The flush only moved forward: ReplayBlocks rolls its cache forward to the
\* new tip and flushes it, and a crash on the way finds the markers again.
StartReplay ==
  /\ LoadBlockIndex
  /\ heads # <<>>
  /\ HeadsKnown /\ ~NeedsRollback /\ CanRollForward
  /\ phase' = "flushcoins"
  /\ tip' = heads[1]
  /\ coins' = RollForward(db, heads[2], heads[1])

\* The flush spanned a reorganisation: the rollback calls DisconnectBlock,
\* which first asserts that the best block of the cache, which is that of the
\* database, is the block to disconnect.
StartAborts ==
  /\ LoadBlockIndex
  /\ heads # <<>>
  /\ HeadsKnown /\ NeedsRollback
  /\ best # heads[2]
  /\ phase' = "aborted"
  /\ UNCHANGED <<tip, coins>>

\* "Unable to replay blocks", "Error initializing block database": when this
\* holds, no start gets past loading.
CannotLoad ==
  \/ heads = <<>> /\ best # NoBlock /\ LoadedIndex[best] = {}
  \/ heads # <<>> /\ (~HeadsKnown \/ (~NeedsRollback /\ ~CanRollForward))

\* The operator restarts with -reindex-chainstate, which wipes the coins
ReindexChainstate ==
  /\ phase = "aborted"
  /\ phase' = "running"
  /\ db' = {}
  /\ best' = NoBlock
  /\ heads' = <<>>
  /\ UNCHANGED <<full, fileVars, indexVars, diskIndexVars, tip, coins, crashes>>

Next ==
  \/ \E b \in Blocks \ {Genesis} : AcceptBlock(b)
  \/ \E b \in Blocks : ConnectTip(b)
  \/ DisconnectTip
  \/ \E doFullFlush \in BOOLEAN : FlushStateToDisk(doFullFlush)
  \/ FlushFiles
  \/ WriteBatchSync
  \/ \E entries \in SUBSET Changed : WritePartialBatch(entries)
  \/ WriteFinalBatch
  \/ Crash
  \/ StartConsistent
  \/ StartReplay
  \/ StartAborts
  \/ ReindexChainstate

Spec == Init /\ [][Next]_vars

\* The flush and the start run to their end under cs_main, waiting for nobody;
\* the node is restarted after a crash.
Fairness ==
  /\ WF_vars(FlushFiles) /\ WF_vars(WriteBatchSync) /\ WF_vars(WriteFinalBatch)
  /\ WF_vars(StartConsistent) /\ WF_vars(StartReplay) /\ WF_vars(StartAborts)

FairSpec == Spec /\ Fairness

-----------------------------------------------------------------------------
(***************************************************************************)
(* Properties                                                              *)
(***************************************************************************)

\* While the node runs, pcoinsTip is the set of unspent outputs of the tip's
\* chain, however blocks were connected and disconnected: DisconnectBlock
\* undoes ConnectBlock exactly, also for outputs spent in their own block.
MemoryMatchesTip == phase \notin {"down", "aborted"} => coins = UtxoAt(tip)

\* The coin database is what its markers say, whenever the process died: without
\* DB_HEAD_BLOCKS exactly the unspent outputs of its best block's chain, with it,
\* for every outpoint, the old tip's or the new tip's answer, after any number of
\* interrupted flushes and replays (CCoinsViewDB::BatchWrite, ReplayBlocks).
MarkersTellTheTruth ==
  IF heads = <<>> THEN db = UtxoAt(best)
  ELSE /\ UtxoAt(heads[1]) \cap UtxoAt(heads[2]) \subseteq db
       /\ db \subseteq UtxoAt(heads[1]) \cup UtxoAt(heads[2])

\* FlushStateToDisk writes the index before the coins that refer to it, so no
\* start ever ends with an unknown or unreadable block.
AlwaysLoadable == phase = "down" => ~CannotLoad

\* A running node can disconnect any block of its chain: after a crash, the
\* index it reloads has the undo data of everything the coins include.
UndoForWholeChain ==
  phase = "running" =>
    \A b \in ChainOf(tip) \ {Genesis} : {HAVE_DATA, HAVE_UNDO} \subseteq index[b]

\* The index database never points at block data that is not fsynced
\* (FlushBlockFile before WriteBatchSync, and when leaving a block file).
IndexedBlocksAreSynced ==
  \A b \in Blocks \ {Genesis} : HAVE_DATA \in diskIndex[b] => <<b, HAVE_DATA>> \in synced

\* "First make sure all block and undo data is flushed to disk."
\* (validation.cpp:3536): the same for undo data.
IndexedUndoIsSynced ==
  \A b \in Blocks : HAVE_UNDO \in diskIndex[b] => <<b, HAVE_UNDO>> \in synced

\* "the result is still a version of the UTXO set with the effects of that
\* block undone" (validation.cpp:6002): a replay gets past its rollback.
ReplaySurvivesRollback == phase # "aborted"

\* After a crash the node is running again (or has hit the assertion), also
\* when it crashes once more in the middle of replaying.
Recovers == phase = "down" ~> phase \in {"running", "aborted"}
=============================================================================
