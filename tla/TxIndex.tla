------------------------------- MODULE TxIndex -------------------------------
(***************************************************************************)
(* The transaction index (index/base.cpp, index/txindex.cpp): the thread   *)
(* that catches up with the chain, the callbacks that take over from it,   *)
(* the locator that says how far the database got, and the migration of    *)
(* an index kept by an older version.                                      *)
(*                                                                         *)
(* The chain is moved by ActivateBestChain and InvalidateBlock, whose      *)
(* choices ChainState explains; here they are what they do to the tip, to  *)
(* the chainstate on disk and to the queue of callbacks, which runs in     *)
(* order (CallbackQueue).  The entries of a block's transactions stand and *)
(* fall together; the genesis block has none.  A locator is its first      *)
(* block: the others are its ancestors.                                    *)
(***************************************************************************)
EXTENDS BlockTree, Sequences

CONSTANTS
  StartTips,     \* tips with which a node is first started with -txindex
  MaxMoves,      \* bound on what happens to the chain
  MaxQueue,      \* bound on the callbacks that wait
  MaxRestarts    \* bound on stops and crashes

ASSUME IndexAssumption ==
  /\ StartTips \subseteq Blocks \cup {NoBlock}
  /\ MaxMoves \in Nat /\ MaxQueue \in Nat /\ MaxRestarts \in Nat

VARIABLES
  tip,       \* chainActive.Tip()
  flushed,   \* the best block of the chainstate on disk
  queue,     \* callbacks: [kind, block]
  moves, restarts,
  synced,    \* m_synced
  best,      \* m_best_block_index
  spc,       \* where Init or ThreadSync is
  pindex,    \* ThreadSync's local
  batch,     \* MigrateData's batches
  lost,      \* history: what Init took to be indexed and was not
  stopping,  \* StartShutdown was called, so m_interrupt is set
  mem, disk, \* the index database: as read by the node, and after a power failure
  old,       \* the entries in the block tree database of an older version
  marker,    \* DB_TXINDEX_BLOCK: no element, or one, perhaps the null locator
  legacy     \* the flag "txindex" of the older version

chainVars == <<tip, flushed, queue, moves>>
oldVars == <<old, marker, legacy>>
syncVars == <<synced, best, spc, pindex, batch, lost>>
vars == <<chainVars, restarts, syncVars, stopping, mem, disk, oldVars>>

\* The chain that ends with b, CChain::Height() of it, and what it has in the index
Anc(b) == IF b = NoBlock THEN {} ELSE Ancestors[b]
HeightOf(b) == IF b = NoBlock THEN -1 ELSE Height[b]
Entries(b) == Anc(b) \ {Genesis}

\* CChain::FindFork; also FindForkInGlobalIndex: a block of the locator above
\* the tip stands for the tip, and blocks lost from mapBlockIndex are skipped
FindFork(b) ==
  LET common == Anc(b) \cap Anc(tip)
  IN IF common = {} THEN NoBlock ELSE CHOOSE c \in common : common \subseteq Anc(c)

\* Mutant of NextSyncBlock: only a block of the chain has a next one
NextSyncBlockUnforked(b) ==
  LET after == {c \in Anc(tip) : Parent[c] = b}
  IN IF after = {} THEN NoBlock ELSE CHOOSE c \in after : TRUE

\* NextSyncBlock: the block of the chain after the fork with the last one
NextSyncBlock(b) ==
  LET after == {c \in Anc(tip) : Parent[c] = FindFork(b)}
  IN IF after = {} THEN NoBlock ELSE CHOOSE c \in after : TRUE

Init ==
  /\ tip \in StartTips
  /\ legacy \in BOOLEAN
  /\ flushed = tip
  /\ queue = <<>> /\ moves = 0 /\ restarts = 0
  /\ synced = FALSE /\ best = NoBlock /\ spc = "start" /\ pindex = NoBlock
  /\ batch = [blocks |-> {}, last |-> FALSE] /\ lost = {}
  /\ stopping = FALSE
  /\ mem = [indexed |-> {}, locator |-> NoBlock, claimed |-> {}]
  /\ disk = mem
  /\ old = IF legacy THEN Entries(tip) ELSE {}
  /\ marker = {}

-----------------------------------------------------------------------------
(***************************************************************************)
(* Writes to the index database.  claimed is history: the blocks that      *)
(* ThreadSync has put under the locator without having indexed them.       *)
(***************************************************************************)

WriteBlock(b) ==
  mem' = [mem EXCEPT !.indexed = @ \cup ({b} \ {Genesis}), !.claimed = @ \ {b}]

\* chainActive.GetLocator(nullptr) is the locator of the tip
LocatorOf(b) == IF b = NoBlock THEN tip ELSE b

WriteBestBlock(b) ==
  mem' = [mem EXCEPT !.locator = LocatorOf(b),
                     !.claimed = @ \cup (Entries(LocatorOf(b)) \ mem.indexed)]

\* LevelDB's log reaches the disk, some time; a power failure keeps a prefix.
\* What reaches it matters only while one can still happen.
Writeback ==
  /\ disk # mem /\ restarts < MaxRestarts
  /\ disk' = mem
  /\ UNCHANGED <<chainVars, restarts, syncVars, stopping, mem, oldVars>>

-----------------------------------------------------------------------------
(***************************************************************************)
(* The chain.  cs_main is held by Init from its start to its end.          *)
(***************************************************************************)

Initialising == spc \in {"start", "erase"}
Flushes(b) == <<[kind |-> "flushed", block |-> b]>>
Connects(path) == [i \in 1..Len(path) |-> [kind |-> "connected", block |-> path[i]]]

\* The blocks of n's chain that are not in the chain, in order
Path(n) ==
  LET fork == HeightOf(FindFork(n))
  IN [i \in 1..(Height[n] - fork) |-> CHOOSE b \in Anc(n) : Height[b] = fork + i]

ChainMoves(newTip, callbacks) ==
  /\ ~Initialising /\ moves < MaxMoves
  /\ moves' = moves + 1
  /\ tip' = newTip
  /\ Len(queue) + Len(callbacks) <= MaxQueue
  /\ queue' = queue \o callbacks
  /\ UNCHANGED <<restarts, syncVars, stopping, mem, disk, oldVars>>

\* ActivateBestChainStep, to the first block with more work; BlockConnected is
\* called for all blocks at its end
ActivateBestChainStep(n) ==
  /\ HeightOf(n) = HeightOf(tip) + 1
  /\ ChainMoves(n, Connects(Path(n)))
  /\ UNCHANGED flushed

\* The cache is full in ConnectTip: the coins are those of block c already, the
\* tip is still its parent, and no BlockConnected of this step was called
FlushInConnectTip(n, c) ==
  /\ HeightOf(n) = HeightOf(tip) + 1
  /\ c \in Anc(n) \ Anc(tip) /\ c # Genesis
  /\ ChainMoves(n, Flushes(Parent[c]) \o Connects(Path(n)))
  /\ flushed' = c

\* InvalidateBlock: DisconnectTip, which may flush before the tip moves
DisconnectTip ==
  /\ tip \notin {Genesis, NoBlock}
  /\ \/ ChainMoves(Parent[tip], <<>>) /\ UNCHANGED flushed
     \/ ChainMoves(Parent[tip], Flushes(tip)) /\ flushed' = Parent[tip]

\* FlushStateToDisk between two blocks
FlushStateToDisk ==
  /\ tip # NoBlock
  /\ ChainMoves(tip, Flushes(tip))
  /\ flushed' = tip

-----------------------------------------------------------------------------
(***************************************************************************)
(* Start                                                                   *)
(***************************************************************************)

\* MigrateData: the old index is in step with the tip; remember where it ends
MigrateMarker ==
  /\ spc = "start" /\ legacy /\ marker # {tip}
  /\ marker' = {tip}
  /\ UNCHANGED <<chainVars, restarts, syncVars, stopping, mem, disk, old, legacy>>

\* ... and unset the flag
MigrateFlag ==
  /\ spc = "start" /\ legacy /\ marker = {tip}
  /\ legacy' = FALSE
  /\ UNCHANGED <<chainVars, restarts, syncVars, stopping, mem, disk, old, marker>>

\* WriteTxIndexMigrationBatches: the new database first, and synced.  The last
\* batch carries the locator.  A batch is also written before giving up.
MigrateNew(S, last) ==
  /\ spc = "start" /\ ~legacy /\ marker # {}
  /\ S \subseteq old
  /\ last => S = old /\ ~stopping
  /\ ~last => S # {} \/ stopping
  /\ mem' = [mem EXCEPT !.indexed = @ \cup S,
                        !.locator = IF last THEN CHOOSE b \in marker : TRUE ELSE @,
                        !.claimed = @ \ S]
  /\ disk' = mem'
  /\ batch' = [blocks |-> S, last |-> last]
  /\ spc' = "erase"
  /\ UNCHANGED <<chainVars, restarts, synced, best, pindex, lost, stopping, oldVars>>

\* Mutant of MigrateOld: the marker goes with the first batch
MigrateOldDropsMarker ==
  /\ spc = "erase"
  /\ old' = old \ batch.blocks
  /\ marker' = {}
  /\ spc' = IF stopping /\ ~batch.last THEN "off" ELSE "start"
  /\ UNCHANGED <<chainVars, restarts, synced, best, pindex, batch, lost, stopping, mem, disk, legacy>>

\* Then the same entries are erased from the old one
MigrateOld ==
  /\ spc = "erase"
  /\ old' = old \ batch.blocks
  /\ marker' = IF batch.last THEN {} ELSE marker
  /\ spc' = IF stopping /\ ~batch.last THEN "off" ELSE "start"
  /\ UNCHANGED <<chainVars, restarts, synced, best, pindex, batch, lost, stopping, mem, disk, legacy>>

\* BaseIndex::Init, and ThreadSync's first test.  Without a tip both are null.
InitIndex ==
  /\ spc = "start" /\ ~legacy /\ marker = {}
  /\ best' = FindFork(mem.locator)
  /\ synced' = (best' = tip)
  /\ pindex' = best'
  /\ lost' = Entries(best') \ mem.indexed
  /\ spc' = IF synced' THEN "off" ELSE "loop"
  /\ UNCHANGED <<chainVars, restarts, batch, stopping, mem, disk, oldVars>>

-----------------------------------------------------------------------------
(***************************************************************************)
(* ThreadSync                                                              *)
(***************************************************************************)

SyncInterrupted ==
  /\ spc = "loop" /\ stopping
  /\ WriteBestBlock(pindex)
  /\ spc' = "off"
  /\ UNCHANGED <<chainVars, restarts, synced, best, pindex, batch, lost, stopping, disk, oldVars>>

\* Caught up: the callbacks take over, from inside cs_main
SyncDone ==
  /\ spc = "loop" /\ ~stopping
  /\ NextSyncBlock(pindex) = NoBlock
  /\ WriteBestBlock(pindex)
  /\ best' = pindex
  /\ synced' = TRUE
  /\ spc' = "off"
  /\ UNCHANGED <<chainVars, restarts, pindex, batch, lost, stopping, disk, oldVars>>

\* The next block; every SYNC_LOCATOR_WRITE_INTERVAL seconds, and always the
\* first time, the locator is written before the block is
SyncNext ==
  /\ spc = "loop" /\ ~stopping
  /\ NextSyncBlock(pindex) # NoBlock
  /\ pindex' = NextSyncBlock(pindex)
  /\ WriteBestBlock(pindex') \/ UNCHANGED mem
  /\ spc' = "indexing"
  /\ UNCHANGED <<chainVars, restarts, synced, best, batch, lost, stopping, disk, oldVars>>

SyncIndex ==
  /\ spc = "indexing"
  /\ WriteBlock(pindex)
  /\ spc' = "loop"
  /\ UNCHANGED <<chainVars, restarts, synced, best, pindex, batch, lost, stopping, disk, oldVars>>

\* The block cannot be read or written: FatalError
SyncFails ==
  /\ spc = "indexing"
  /\ stopping' = TRUE
  /\ spc' = "off"
  /\ UNCHANGED <<chainVars, restarts, synced, best, pindex, batch, lost, mem, disk, oldVars>>

-----------------------------------------------------------------------------
(***************************************************************************)
(* Callbacks                                                               *)
(***************************************************************************)

\* The first block after an empty chain is the genesis block; any other one
\* connects to an ancestor of the best block, which may be a step back
ConnectsToBest(b) ==
  IF best = NoBlock THEN b = Genesis ELSE Parent[b] \in Anc(best) \cup {NoBlock}

BlockConnected ==
  /\ queue # <<>> /\ Head(queue).kind = "connected" /\ ~Initialising
  /\ queue' = Tail(queue)
  /\ LET b == Head(queue).block IN
     \/ /\ ~synced \/ ~ConnectsToBest(b)
        /\ stopping' = (stopping \/ (synced /\ best = NoBlock))  \* FatalError
        /\ UNCHANGED <<best, mem>>
     \/ /\ synced /\ ConnectsToBest(b)
        /\ WriteBlock(b)
        /\ best' = b
        /\ UNCHANGED stopping
     \/ /\ synced /\ ConnectsToBest(b)
        /\ stopping' = TRUE                                      \* FatalError
        /\ UNCHANGED <<best, mem>>
  /\ UNCHANGED <<tip, flushed, moves, restarts, synced, spc, pindex, batch, lost, disk, oldVars>>

\* Mutant of ChainStateFlushed: the locator is written whatever the best block is
ChainStateFlushedUnchecked ==
  /\ queue # <<>> /\ Head(queue).kind = "flushed" /\ ~Initialising
  /\ queue' = Tail(queue)
  /\ mem' = IF synced THEN [mem EXCEPT !.locator = Head(queue).block] ELSE mem
  /\ UNCHANGED <<tip, flushed, moves, restarts, syncVars, stopping, disk, oldVars>>

ChainStateFlushed ==
  /\ queue # <<>> /\ Head(queue).kind = "flushed" /\ ~Initialising
  /\ queue' = Tail(queue)
  /\ mem' = IF synced /\ Head(queue).block \in Anc(best)
            THEN [mem EXCEPT !.locator = Head(queue).block] ELSE mem
  /\ UNCHANGED <<tip, flushed, moves, restarts, syncVars, stopping, disk, oldVars>>

-----------------------------------------------------------------------------
(***************************************************************************)
(* Stops and crashes                                                       *)
(***************************************************************************)

RequestShutdown ==
  /\ ~stopping /\ restarts < MaxRestarts
  /\ stopping' = TRUE
  /\ UNCHANGED <<chainVars, restarts, syncVars, mem, disk, oldVars>>

\* A new process, on the chainstate of the disk or, with -reindex-chainstate,
\* on none
Restart(coins, db) ==
  /\ restarts < MaxRestarts
  /\ restarts' = restarts + 1
  /\ tip' \in {coins, NoBlock} /\ flushed' = tip'
  /\ queue' = <<>>
  /\ synced' = FALSE /\ best' = NoBlock /\ spc' = "start" /\ pindex' = NoBlock
  /\ batch' = [blocks |-> {}, last |-> FALSE] /\ lost' = {}
  /\ stopping' = FALSE
  /\ mem' = db /\ disk' = db
  /\ UNCHANGED <<moves, oldVars>>

\* Shutdown joins ThreadSync and flushes the chainstate
Stop == stopping /\ spc = "off" /\ Restart(tip, mem)

Crash == Restart(flushed, disk)

-----------------------------------------------------------------------------
ThreadSync == SyncInterrupted \/ SyncDone \/ SyncNext \/ SyncIndex \/ SyncFails
Start == MigrateMarker \/ MigrateFlag \/ MigrateOld \/ InitIndex
         \/ \E S \in SUBSET old, last \in BOOLEAN : MigrateNew(S, last)
Callback == BlockConnected \/ ChainStateFlushed

Next ==
  \/ \E n \in Blocks : ActivateBestChainStep(n) \/ \E c \in Blocks : FlushInConnectTip(n, c)
  \/ DisconnectTip \/ FlushStateToDisk
  \/ Start \/ ThreadSync \/ Callback
  \/ Writeback \/ RequestShutdown \/ Stop \/ Crash

Spec == Init /\ [][Next]_vars

\* Init returns, the sync thread and the scheduler thread run
Fairness == WF_vars(Start) /\ WF_vars(ThreadSync) /\ WF_vars(Callback)
FairSpec == Spec /\ Fairness

-----------------------------------------------------------------------------
(***************************************************************************)
(* Properties                                                              *)
(***************************************************************************)

Database == [indexed : SUBSET (Blocks \ {Genesis}),
             locator : Blocks \cup {NoBlock},
             claimed : SUBSET (Blocks \ {Genesis})]

\* Types of the members of BaseIndex and of its database; whoever is in step
\* with the chain runs no ThreadSync.
TypeOK ==
  /\ {tip, flushed, best, pindex} \cup marker \subseteq Blocks \cup {NoBlock}
  /\ synced \in BOOLEAN /\ stopping \in BOOLEAN /\ legacy \in BOOLEAN
  /\ spc \in {"start", "erase", "loop", "indexing", "off"}
  /\ synced => spc = "off"
  /\ mem \in Database /\ disk \in Database
  /\ old \subseteq Blocks \ {Genesis}

\* The database that a power failure would leave, like the one in use, holds
\* all blocks under its locator, except what ThreadSync itself claimed ahead of
\* its work: callbacks that arrive late, after a reorganisation or before the
\* BlockConnected of the same blocks never move the locator past a gap.
LocatorBacked ==
  \A db \in {mem, disk} : Entries(db.locator) \subseteq db.indexed \cup db.claimed

\* BlockUntilSyncedToCurrentChain: when the callbacks have run, a synced index
\* has the chain up to the tip, however the tip moved while ThreadSync caught up.
\* What it may miss is what the locator promised falsely when this process
\* started: nothing that a process finds missing, or that it claims itself ahead
\* of its work, is missing once it is in step.
DrainedIndexHasChain ==
  synced /\ ~stopping /\ queue = <<>> =>
    /\ Anc(tip) \subseteq Anc(best)
    /\ Entries(tip) \subseteq mem.indexed \cup lost

\* A crash at any point of MigrateData leaves each entry of the old index in
\* one of the two databases, and the next start finds those left behind.
MigrationLosesNothing ==
  /\ \A b \in marker : Entries(b) \subseteq old \cup disk.indexed
  /\ old # {} => legacy \/ marker # {}

\* Once the chain rests, the index catches up with it for good, or the node
\* is stopping.
CatchesUp == <>[](stopping \/ (synced /\ Anc(tip) \subseteq Anc(best)))

\* base.h: "Write block locator of the chain that the txindex is in sync with."
LocatorIsInSync == Entries(disk.locator) \subseteq disk.indexed
==============================================================================
