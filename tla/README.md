# Kunpeng chain: a TLA+ model of the node

Kunpeng chain is a proof-of-stake chain with Ethereum contracts, a fork of Qtum
and so of Bitcoin Core 0.17. This directory models the part of its node
(`kpgd`, sources under `src/src/`) that decides *which chain is active*, *what
follows from it* (coins, contract state, receipts, memory pool, transaction
index), *how it gets the blocks* and *how all of it survives a crash*. TLC
checks the models on small instances. TLAPS proves theorems about eight of
them for every instance.

## The system

| Part | Module | What makes it hard |
|---|---|---|
| Coin view caches (`coins.cpp`) | CoinsCache, UtxoStack | nested caches; a flag that is wrong is noticed several operations later, in another layer |
| Chainstate on disk (`validation.cpp`, `txdb.cpp`, `init.cpp`) | ChainstateDB | a crash between any two writes, and during the repair of an earlier crash |
| Block tree (`CChainState`), cleaning of the index | BlockTree, ChainState | three operations give up cs_main half way and go on with what they read before |
| Script check queue (`checkqueue.h`) | CheckQueue | condition variables, lost notifications, shutdown by exception |
| Callbacks (`scheduler.cpp`, `validationinterface.cpp`) and Shutdown | CallbackQueue, SerialCallbacks | order on several threads; waiting for a thread that has been stopped |
| Transaction index (`index/`) | TxIndex | callbacks that are late, a crash between two databases |
| Contract roots, receipts, stake index (`validation.cpp`, `qtum/`, `pos.cpp`) | ContractState | must follow chainActive through every failure path, and are not written with it |
| Memory pool (`txmempool.cpp`) | Mempool | totals kept incrementally, links incomplete during a reorganisation |
| Block download (`net_processing.cpp`) | BlockDownload | slow, lying and leaving peers; pointers into an index that is cleaned |

How they meet: a peer, the staker or an RPC hands a block to `ProcessNewBlock`,
which stores it in the block tree and calls `ActivateBestChain`. That walks the
active chain to the best candidate one `DisconnectTip` or `ConnectTip` at a
time. `ConnectBlock` works on a coin view on top of `pcoinsTip`, has its scripts
checked by the check queue, and runs contracts in `globalState`. The view is
flushed into `pcoinsTip`, and `FlushStateToDisk` writes that to the coin
database from time to time. The memory pool is updated in the same critical
section; the transaction index hears of it through the callback queue. All of
it holds `cs_main`, except in the gaps that the modules are about.

The modules share the tree of blocks as constants and divide the work: where one
of them needs a decision that is another's subject, it takes every outcome
the other allows. TxIndex relies on the callbacks' order (CallbackQueue),
ContractState and Mempool take any child of the tip (ChainState), ChainstateDB
keeps coins without caches (CoinsCache). BlockDownload is composed of peers,
the block tree in short, and CleanBlockIndex.

`PROJECT.json` lists every part with its status, the lines each definition
models, and the hazards with the lines where they bite.

## Modules

**CoinsCache** models a view on `pcoinsTip` on the coin database. `viewCache`
and `tipCache` are maps from outpoints to an entry (coin and flags) or
`NoEntry`; `db` is the database. There is one action per method a caller uses:
reads fetch entries into the caches on the way, `FlushView` is `BatchWrite` into
the parent, and `DropView` is the view of a block that failed. `logicError` is
set where the code throws `std::logic_error`. Callers follow the contract of
`coins.h`: `possible_overwrite` is false only if the coin is known to be absent.

**UtxoStack** is what that stack promises, with no caches and no flags: two sets
of coins, the tip's and the view's, and what is durable. `CoinsCache` implements
it under the mapping `TipCoins`, `ViewCoins`, `TipBest`, `ViewBest`.

**ChainstateDB** models the durable state. `FlushStateToDisk` is taken apart into
its writes: files, then index, then coins in any number of partial batches and a
final one. `Crash` can happen between any two and forgets the memory. The start
is `StartConsistent`, `StartReplay` (with `OldTip` and the roll-forward) or
`StartAborts` (the node stops on an assertion). `ReindexChainstate` is what the
operator does then.

**BlockTree** is the part of `CBlockIndex` that never changes: parents, ancestors,
heights; ChainState, ContractState, ChainstateDB and TxIndex extend it.
**ChainState** is the choice of the tip. The locals that `ActivateBestChain`,
`InvalidateBlock` and `CleanBlockIndex` carry across a release of `cs_main` are
the variables `abc`, `inv` and `doomed`. A failed assertion ends in
`abc.pc = "aborted"`, the deletion of an entry that is still pointed to in
`"undefined"`. `forgotten` is history: blocks that `reconsiderblock` has cleared and not
made candidates. Whether a block's content is valid is a constant.

**CheckQueue** has one action per critical section of `CCheckQueue::Loop`, the
control object's construction, Add, Wait and destruction, spurious wakeups, and
`InterruptAll`, after which a wait of a thread of `threadGroup` throws.

**SerialCallbacks** is what the callback queue promises: callbacks run once, one
at a time, in the order in which they were added. **CallbackQueue** implements it
with `SingleThreadedSchedulerClient` on any number of `CScheduler` threads. Its
users are threads that call into the node: `ActivateBestChain` under
`m_cs_chainstate` (`LimitValidationInterfaceQueue`, signals added under `cs_main`), or
another critical section that fires signals. They differ in how `Shutdown` stops
them. The message handler and the RPC threads (`Activators`) are joined before the
scheduler is interrupted, `ThreadImport` and `CleanBlockIndex`, which waits for a
callback of its own, belong to the thread group of the scheduler, and a staking
thread is interrupted and joined by nobody (`miner.cpp:1023`). `Shutdown` is modelled
step by step up to its second flush.

**TxIndex** has `Init` with `MigrateData` (old and new database written one after
the other), `ThreadSync` with its periodic locator, the two callbacks, and
below them a chain that is extended, reorganised, invalidated and flushed.
`mem` is the database as the node reads it, `disk` what a power failure leaves;
`claimed` and `lost` are history: what ThreadSync's locator covered before it was
indexed, and what was missing under the locator when the index was last started.

**ContractState** models what a block changes beside the coins: the roots of
`globalState`, receipts and their cache, events by height, the stake index and
the cache of scripts. A root is the sequence of blocks executed on the way to
it. There is an action for each path through `ConnectTip`, `DisconnectTip`,
`TestBlockValidity` and `VerifyDB`, those that fail at a read, a write or a flush
included. `skewed`, `tainted` and `stale` are history: they name what a failure or
a crash has left behind, so that the properties can say that nothing else is
ever wrong.

**Mempool** has the additions, removals and updates of `CTxMemPool` as operators on
the pool, and `AcceptToMemoryPool`, `ConnectTip`, `DisconnectTip` and the steps of
`UpdateMempoolForReorg` as actions. `PrioritiseTransaction` can come between any
two of them, as the thread that loads the saved pool calls it without `cs_main`.

**BlockDownload**, on the tree of BlockTree, models `mapBlocksInFlight`, the queues and
counters of each peer, what each peer is known to have, and the handlers of inv,
headers, cmpctblock, blocktxn and block messages; `SendMessages` asks for blocks
(`FindNextBlocksToDownload`) and disconnects slow peers, `FinalizeNode` removes a
peer, `CleanErase` is `RemoveNetBlockIndex`. `msg` is the handler of a message that has
given up `cs_main` with a pointer in a local variable. Where CleanBlockIndex has
deleted what that pointer, the tip or a `pprev` points to, the program would read
freed memory: the model stops there (`Defined`).

The `*Proofs` modules hold the theorems. `MC*` modules give constants values.

## Runs

States are distinct states of the whole run.

| Run | States | Shows |
|---|---|---|
| coins_cache | 88,037 | `FlagContract`: a FRESH entry has no coin below it, a clean one agrees with what is below. `NoLogicError`: no throw is reached. `ImplementsUtxoStack`. |
| chainstate_db | 170,388 | The coin database is exact, or its head markers name two tips between whose coins it lies (`MarkersTellTheTruth`). The index covers the coins (`AlwaysLoadable`, `UndoForWholeChain`) and names no block of an unsynced file (`IndexedBlocksAreSynced`). A node that is down comes up or stops on the assertion of replay_rollback (`Recovers`). |
| replay_rollback | violation | See below. |
| chain_activation | 66,696 | The assertions of `CheckBlockIndex` whenever cs_main is free (`CandidatesExact`, `AncestryExact`); no critical section of ActivateBestChain ends on a worse tip (`ForwardProgress`); the node settles (`Settles`), and on the best valid chain (`SettledOnBest`). |
| chain_operator | 2,122,385 | With invalidateblock, reconsiderblock, preciousblock and the deletion of side branches interleaved, a node at rest has no candidate left that it would prefer (`NoCandidateLeft`), and misses no better chain but what reconsiderblock forgot (`SettledUnlessForgotten`). |
| chain_clean | violation | See below. |
| check_queue | 82,995 | The verdict is exact (`VerdictExact`), nothing is left for the next block (`NothingLeftBehind`), every wait ends (`BlockEnds`), workers can be joined (`WorkersJoin`). |
| callback_queue | 160,011 | `ImplementsSerialCallbacks`; every callback added before the queue is flushed runs (`EveryCallbackRuns`), and has when FlushBackgroundCallbacks returns, whatever a staking thread adds (`FlushedCompletely`); calls that Shutdown waits for return (`ActivatorsReturn`); `Shutdown` ends unless the group that it joins is stranded (`ShutdownEnds`). |
| tx_index | 255,434 | The locator never passes a gap that ThreadSync did not make itself (`LocatorBacked`); once callbacks have run the index has all of the chain that was not missing at its start (`DrainedIndexHasChain`); the migration loses no entry (`MigrationLosesNothing`); the index catches up (`CatchesUp`). |
| contract_state | 159,690 | Roots, receipts, events, stakers and scripts are those of the active chain (`RootsFollowTip`, `ReceiptsFollowChain`, `StakersFollowChain`) except what a named failure left behind; assertions fail only after a failure of the disk (`AssertionsHold`); a valid block is not marked invalid for nothing (`OnlyBadBlocksFail`). |
| mempool | 14,103 | Whenever cs_main is free no entry lacks a coin (`InputsAvailable`), and links and totals are those computed afresh (`LinksExact`, `TotalsExact`). |
| block_download | 38,520 | Blocks in flight are listed once and counted exactly (`DownloadsExact`), no peer's state points to a deleted block (`PeersPointToIndex`), and what a peer that answers has announced is fetched (`Fetches`). |

Each property of a passing run has a mutant in `PROJECT.json`: a plausible mistake in one
definition, under which TLC finds the property violated. The type invariants
(`TypeOK`) are not in the configurations; those of the coin caches and of the
check queue are proved.

### Where the code disagrees with its comments

*replay_rollback.* A crash inside a coin flush that spans a reorganisation makes
`ReplayBlocks` call `DisconnectBlock`, whose assertion compares the block with a
best block that the interrupted flush erased (`validation.cpp:1818`). The node
then needs `-reindex-chainstate`.

*chain_clean.* `CleanBlockIndex` selects entries in one critical section and deletes
them in another (`net_processing.cpp:4252`), after it has waited for the callback
queue. A header that is accepted on top of a selected entry in between stays in the
index with a `pprev` to freed memory; `CheckBlockIndex` would no longer reach it
(`validation.cpp:6575`: "Check that we actually traversed the entire map."). In the
trace b3 arrives on b2 after b1 and b2 have been selected.

Lesser ones have no run of their own. Where a definition is named, TLC refutes
it once it is added to the configuration given:

* `IndexedUndoIsSynced` (ChainstateDB.cfg). Only the last block file is synced
  before the index refers to it, while undo data may be in an earlier one
  (`validation.cpp:3536`: "First make sure all block and undo data is flushed to
  disk.").
* `PruneAssertion` (ChainOperator.cfg). `InvalidateBlock` does not exclude
  `ActivateBestChain`, which then connects a block that is no candidate any more
  (`validation.cpp:4246`); the assertion at 3931 fails then or at the next start.
* `OneFailedValidPerBranch` (ChainOperator.cfg). The test that should demote all
  but the last disconnected block to `BLOCK_FAILED_CHILD` never holds
  (`validation.cpp:4233`).
* `SettledOnBest` (ChainOperator.cfg). `reconsiderblock` clears the flags of ancestors
  without making them candidates (`validation.cpp:4306`), while `rpc/blockchain.cpp:2877`
  says of "a block, its ancestors and its descendants" that it will "reconsider them for
  activation". `SettledUnlessForgotten` shows that no other linked block is missed.
* `AncestryExact` (ChainOperator.cfg). A block that arrives while its parent is marked
  is in no list (`validation.cpp:4400`); when the parent is reconsidered before its
  own data comes, the block is never linked.
* `CandidatesExact` (ChainOperator.cfg). A block arrives while InvalidateBlock has let
  go of cs_main. `PreciousBlock` breaks it too: its counter starts again at -1 when the
  tip has more work (`validation.cpp:4169`), which reorders candidates that pruning has
  compared before. `PruneAssertion` can then fail with no block marked invalid.
* `LocatorIsInSync` (TxIndex.cfg). ThreadSync writes its locator before the block it
  names is indexed (`index/base.cpp:122`), which a crash makes permanent, and that of
  the tip if it is interrupted before it has indexed any (line 98). `index/base.h:34`:
  "Write block locator of the chain that the txindex is in sync with."; `claimed` and
  `lost` record the difference.
* `init.cpp:263` flushes the callbacks "After there are no more peers/RPC left to give us
  new data which may generate CValidationInterface callbacks". A staking thread may be
  left: `StopStake` interrupts it, and nobody joins it. What it adds until
  FlushBackgroundCallbacks returns still runs (`FlushedCompletely`). Later callbacks are
  dropped, as the next comment says, and a thread that takes `cs_main` after
  `pcoinsTip.reset()` (`init.cpp:278`) goes on with what is gone; it is not followed.

These shape the passing runs. `CandidatesExact`, `AncestryExact` and `SettledOnBest` are
checked without operator requests; with them `SettledUnlessForgotten` and
`NoCandidateLeft` are about a node that has not stopped on the assertion of
`PruneAssertion`. They count a block that is marked, not one that ought to be:
`InvalidateBlock` that meets `ActivateBestChain` leaves `BLOCK_FAILED_CHILD` on a block
whose ancestors are valid (`validation.cpp:4231`). `Settles` too is checked only without
requests: an operator who keeps invalidating and reconsidering keeps the node busy for
ever.

What the exceptions in the properties stand for:

* ContractState. `EraseStakeIndex` compares with the wrong key prefix
  (`txdb.cpp:425`) and erases nothing; the index is right because it is
  overwritten. A crash after a reorganisation that was not flushed leaves the
  stakers of the other branch at some heights (`tainted`), and a script cached
  from such an entry outlives its correction until the node restarts (`stale`). A
  VerifyDB that is cut short leaves the roots behind, a flush that fails leaves
  the coins behind (`skewed`), and level 4 with a full cache meets an assertion.
* CallbackQueue. `Stranded`: CleanBlockIndex (`net_processing.cpp:4250`) or ThreadImport
  in `ActivateBestChain` (`validation.cpp:4084`) waits for a callback when Shutdown
  interrupts the thread group to which the scheduler belongs too. The wait is no
  interruption point and nobody is left to run the callback, so the join does not
  return. ThreadImport can also wait for `m_cs_chainstate` while a staking thread that
  holds it waits so. TLC reaches all of these.
* TxIndex. `lost`: a crash between ThreadSync's locator and the block that it names. The
  next start resumes behind it, so the block stays missing.
* BlockDownload. Blocks that a fork lacks at or below the synchronized checkpoint
  are asked for and refused again and again, as `AcceptBlock` refuses them without
  marking them (`validation.cpp:5245`).

### Bounds

* *coins_cache*: two outpoints (an operation on one must leave the other alone),
  two spendable coins (an overwrite is visible) and an unspendable one, two
  blocks. Sequences of operations are not bounded.
* *chainstate_db*: a fork g-a1-a2 / g-b1 whose branches share a transaction and
  spend an output inside a block; two block files; `MaxCrashes` = 2, so that a
  crash can hit the repair of a crash. For more, see the theorems.
* *chain_activation*: eight blocks in three branches. `BadConnect` fails in the
  middle of the heavier branch, so a reorganisation fails half way and has to
  return; `BadBody` fails before it is stored. Equal proofs make ties happen.
* *chain_operator*: a1 against b1-b2, all of them targets, so that one target is below
  another. `MaxPrecious` = 1 bounds the calls of preciousblock at one tip work, and
  `MaxSequence` = 5 the sequence numbers: an entry that was deleted and comes again gets a
  new one, so nothing is cleaned beyond it. With `BadConnect` = {b2} (487 thousand
  states), with restarts and the targets b1, b2 (10.8 million), and with a fifth block
  and no cleaning (10.5 million) it passes as well.
* *chain_clean*: two branches of three. `CheckpointSpan` = 1 lets a header be accepted on
  a branch that is already selected.
* *check_queue*: two masters, two workers, `MaxChecks` = 4, `BatchSize` = 2. Four
  is the least number of checks of which a thread takes a batch of two.
* *callback_queue*: two scheduler threads (the node starts one, the class is written for
  any number), one thread of each other kind. `MaxCalls` = 2 calls, each of which may add a
  callback and wait for it, `MaxCallbacks` = 1 signal beside them, and the two flushes
  of Shutdown. Two calls are what it takes for one thread to wait for another's lock.
  `QueueLimit` = 0, so that ActivateBestChain does wait.
* *tx_index*: g-a1 / g-b1-b2, so that a reorganisation connects two blocks;
  `MaxMoves` = 3 moves of the chain, `MaxQueue` = 4, `MaxRestarts` = 1.
* *contract_state*: a fork whose branches hold the same transaction, a block
  refused after its contracts ran and one with wrong roots; the reward of height
  2 depends on height 1. `MaxFaults` = 1, `MaxRestarts` = 1.
* *mempool*: seven transactions, among them an ancestor by two ways, a
  conflict, and a child of a transaction valid only in a block. The pool holds
  four and the disconnect pool three, and both overflow. With `MaxHeight` = 2 a
  reorganisation can disconnect two blocks.
* *block_download*: g-a1-a2-a3-a4 with b2-b3 on a1, b3 invalid. The honest peer
  announces a4, the other one b3 and anything on the way. `MaxInTransit` = 1 and
  `Window` = 2 make every limit bite; with `CheckpointSpan` = 1 the branch of b2 is
  deleted while the other peer still points to it. `MinBlocksToKeep` = 2 makes an
  unrequested block too far ahead. `MaxInTransit` = 2 with
  `Window` = 1 passes as well (92,408 states).

`CHECK_DEADLOCK FALSE` stands where the system may really stop: a node that has
received every block and request, a callback queue after Shutdown, an index
whose chain rests, and the stops at freed memory of BlockDownload.

### Fairness

* ChainState: weak fairness of the steps of ActivateBestChain. The thread that
  runs it waits only for holders of `cs_main` and `m_cs_chainstate`, who all let
  go. Nothing is assumed of blocks, headers, requests or restarts.
* ChainstateDB: weak fairness of the writes of a flush and of the start. They run
  under cs_main and wait for nobody; an operator restarts a node that is down.
* CheckQueue: weak fairness of each thread's loop and of a master's Wait and
  destructor. Nothing is assumed of new blocks, spurious wakeups or shutdown.
* CallbackQueue: weak fairness of every thread and of what Shutdown has begun. Nothing
  forces a client to begin or the operator to stop the node. As `MaxCalls` bounds the
  calls, a lock is let go of for good in the end, and whoever waits for it need not be
  favoured over those who take it again.
* TxIndex: weak fairness of Init, ThreadSync and the callbacks, which run on
  threads of their own. Moves of the chain are bounded, so it comes to rest.
* BlockDownload: weak fairness of what a handler has begun, of ActivateBestChain
  and of FinalizeNode. Every peer gets its turn in `SendMessages`, but only while
  no message is being handled, hence strong fairness of SendGetData and of
  Timeout, and of the answers of an honest peer. Nothing is assumed of the others.
* ContractState and Mempool state safety only.

## Proofs

For every value of the constants, from the named assumptions of the modules (the
tree is a tree, special values are none of the others, sizes are natural
numbers). `WellFoundedAssumption` (BlockTree) says that `pprev` does not lead round in
circles, as a header names the hash of an earlier one. BlockTreeProofs derives from
it, by way of a least counterexample, what the recursive `Ancestors` and `Height`
compute, that ancestors are a chain, and that two branches have a last common block.
`ContractsAssumption` (ContractState) says beside types that a transaction comes once
in a chain, as it spends coins. `ValidAssumption` (ChainstateDB) is what
`ConnectBlock` has checked of the blocks it lets in: a transaction spends what was
made before it and not spent, and makes what nothing before it on the chain made.
TLC evaluates the assumptions on the instances.

| Theorem | Statement |
|---|---|
| TypeCorrect, FlagContractHolds, NeverThrows | `Spec =>` `[]TypeOK`, `[]FlagContract`, `[]NoLogicError` of CoinsCache |
| CacheRefinesUtxoStack | `Spec => ImplementsUtxoStack` |
| QueueIsSerial, QueueIsFlushed | `QueueSpec =>` `ImplementsSerialCallbacks`, `FlushedCompletely` of CallbackQueue |
| LocatorIsBacked, MigrationIsSafe, DrainedIndexIsComplete | `Spec =>` `[]LocatorBacked`, `[]MigrationLosesNothing`, `[]DrainedIndexHasChain` of TxIndex |
| IndexedBlocksStaySynced, StartsAlwaysLoad, UndoIsNeverMissing | `Spec =>` `[]IndexedBlocksAreSynced`, `[]AlwaysLoadable`, `[]UndoForWholeChain` of ChainstateDB |
| MarkersAreTrue | `Spec => [](MarkersTellTheTruth /\ MemoryMatchesTip)` of ChainstateDB |
| VerdictIsExact, QueueIsLeftUnused, CountersNeverWrap | `Spec =>` `[]VerdictExact`, `[]NothingLeftBehind`, `[]TypeOK` of CheckQueue |
| TypeCorrect, AncestryIsExact, CandidatesAreExact, PruneNeverAsserts, SettlesOnBest, ProgressBeforeUnlock | from `Undisturbed`, `Spec =>` `[]TypeOK`, `[]AncestryExact`, `[]CandidatesExact`, `[]PruneAssertion`, `[]SettledOnBest`, `ForwardProgress` of ChainState |
| DownloadsAreExact, PeersNeverDangle | `Spec =>` `[]DownloadsExact`, `[]PeersPointToIndex` of BlockDownload |
| RootsAlwaysFollowTip, ReceiptsAlwaysFollowChain, StakersAlwaysFollowChain, OnlyBadBlocksAreMarked, AssertionsNeverFail | `Spec =>` `[]RootsFollowTip`, `[]ReceiptsFollowChain`, `[]StakersFollowChain`, `OnlyBadBlocksFail`, `[]AssertionsHold` of ContractState |

* *Coins*: `Inductive == TypeOK /\ FlagContract /\ NoLogicError /\
  ClosedViewIsEmpty`. Without the last conjunct a new view could open over the
  leftovers of a closed one. One lemma per method says that a layer keeps the
  flag contract with the layer below and what the method does to the coins the
  layer *represents*; `StepCorrect` concludes at once that the invariant is kept
  and that the step is one of UtxoStack or a stutter.
* *Callbacks*: `SerialInv` (the callbacks that wait are the last ones added, in
  order; who is in ProcessQueue has set the flag and is alone; all callbacks
  begun but the running one have ended). Steps fall into four kinds, with a lemma
  each. `Joined` says who may still run ProcessQueue once join_all has returned: nobody
  but the main thread. Then nothing is running when EmptyQueue finds the queue empty, and
  by SerialInv all callbacks added, by whichever thread, have ended. No assumption on
  the staking threads is used.
* *Transaction index*: `IndexInv` adds that the disk is never ahead of the memory,
  that a batch is synced in the new database before it leaves the old one, and
  that the best block of a synced index is backed like its locator. It says nothing of
  the tip: DisconnectTip calls no callback, and ThreadSync may finish while callbacks
  from before still wait, so the best block may be on another branch. `Follows` adds
  that the best block, and each block in the queue, has the chain already or is followed
  in the queue by one that BlockConnected will not ignore. `PathLeads` shows that the
  blocks of one ActivateBestChainStep are such a sequence, and `NoNextSyncBlock` that
  ThreadSync ends only on a block that has the chain. `InStep` says that ThreadSync leaves
  no gap behind it: up to the block it is at, and up to the best block once synced, the
  index has everything but what was lost before the start. TLC checked `Follows` and
  `InStep` first.
* *Chainstate*: `DiskInv` (the chains of what memory, index and coins name are
  complete, entries that differ from the disk are dirty, what is not synced is
  in the last block file, IndexedBlocksAreSynced) carries the first three theorems.
  `CoinsInv` adds that markers exist only during a flush to the tip they name.
  The rest is about the loops over the transactions of a block and over the blocks of a
  replay. `UtxoAt` defines the coins of a tip as what its chain made and did not spend.
  `ApplyBlockIs` gives what `RollforwardBlock` computes from any coins, also of a block
  that spends what it makes; `ApplyBlockFits` and `UndoBlockIs` say that `ConnectBlock`
  and `DisconnectBlock` lead from the coins of the parent to those of the block and back;
  `RollForwardIs` says that rolling forward ends at the coins of the new tip, from any
  mixture with the coins of an old one on the same chain. A loop is a recursive function
  over the steps, and its result is proved by a least wrong step.
* *Chain*: `Undisturbed`, the hypothesis, is a node without requests of the operator
  and with `-cleanblockindex=0` (`init.cpp:578`; it is on by default); with them the
  properties fail, as described above. Any tree, any arrival of headers and blocks,
  failing blocks and restarts remain. `ChainInv` needs, beside the properties:
  `EntriesSound` (only a block whose content is bad is marked, descendants never
  alone); `WaitingSound` (a block that waits in no list waits for a marked one whose
  data is missing); `ActivationSound` (tip and starting tip were connected, hence
  not bad; pindexMostWork is valid, above the tip, and no worse than the starting
  tip). `CandidatesExact` holds only while cs_main is free. In between the candidates
  are complete relative to `Best`, the better of the tip and the one with which the
  critical section began: a block that turns out invalid half way leaves a tip that is
  worse than what pruning has compared with. `BestUnlessPending` says the same of work.
  One lemma per action; TLC checked the invariant on the instance of chain_activation
  first. That candidates have a best element, and that blocks can be counted, comes
  from the library's theorems on finite sets.
* *Check queue*: `QueueInv`: `Owner` (one master at a time), `Counted` (a check
  is queued or in the hands of one thread, nTodo counts both, nIdle and nTotal are
  never too small), `Judged` (as long as fAllOk is set, what is no longer
  outstanding has passed; it is cleared only if a check fails), with the two
  properties.
* *Contract state*: `StoreSound` is RootsFollowTip, ReceiptsFollowChain and
  StakersFollowChain with two additions. The stake index must be right for the
  chain of the tip as well as for that of the coins: scripts are made for the one and
  a start goes on with the other, and after a failed flush they differ. And no script
  that is not stale may be cached at a height that is wrong in the index, or a correct
  script could be replaced by a wrong one without being recorded. `StepSound` lists what
  a step has to do for this to be kept; the lemmas before say what each operation does
  to each field of the store. The two loops (`GetMPoSOutputScripts`, and `VerifyDB`
  connecting blocks again) are treated by a least wrong step, which the library's
  theorem on well-founded orders provides: `RewardScripts` shows that cleaning the cache
  never removes a script that the same block needs, `ReconnectedVerified` that
  `VerifyDB` leaves the store as right as it was, whichever block fails.
  OnlyBadBlocksAreMarked then needs that on right roots only a script can make
  `ConnectBlock` refuse a good block (`RefusedForScript`). TLC checked StoreSound first.
  AssertionsNeverFail rests on `CoinsFollow`: the coins are the tip's unless a failure
  has been counted; every action does one of the things that `Follows` lists.
* *Block download*: `DownloadInv` is the two properties with what they rest on. `FlightOK`:
  map, queues and counters agree and list blocks of the index, from connected peers only.
  `NodesOK`: what is known of a peer points into the index. `MessageOK`: the peer whose
  message is handled is still connected, as FinalizeNode waits for the handler.
  `ChainOK`: what has data or has failed is in the index, and the genesis block is never
  selected for deletion. The tip, the handler's block and the parents of entries are in
  the index only as long as the model goes on (`Defined`). The proof uses that for what
  FindNextBlocksToDownload and the direct fetch find on the way to a known block, so
  that it may be requested. `ReceivedAgrees` and `InFlightAgrees` say what one call of
  MarkBlockAsReceived and MarkBlockAsInFlight does to the queue and to the counters;
  `LoopInvariant` carries them over the loops that request several blocks and that
  delete several. TLC checked the invariant first.

CoinsCache and CallbackQueue, which implement an abstract specification, share the module
RefinementProofs; the others have a module of proofs each.

Only model-checked: Mempool, whose operators are folds over sets and paths; ChainState
with requests of the operator (`SettledUnlessForgotten`, `NoCandidateLeft`,
`NoDanglingPointers`); all liveness. Liveness under fairness and ENABLED are out of
the prover's reach.

## Not modelled

* The content of blocks and transactions: scripts, signatures, proof of stake,
  contract execution (cpp-ethereum is not in this tree). They appear as
  constants (`BadBody`, `BadConnect`, `Bad`, `BadLate`, `BadRoots`).
* Pruning, `-reindex` of block files, `RewindBlockIndex`, `pindexBestInvalid`,
  fork warnings, memory accounting of the caches. `pindexBestHeader` too, which
  `RemoveStateBlockIndex` may leave null (`validation.cpp:6585`).
* Orphan blocks: the code that keeps them is not reached, because
  `ProcessNetBlock` handles the header first and `AcceptBlockHeader` refuses one
  whose parent is unknown (`validation.cpp:5051`).
* In block download: initial block download, the header spam filter, duplicate
  proofs of stake, whitelisted peers, which peer headers are fetched from, and
  what is announced or relayed to others. Eviction of outbound peers is left out
  with `m_work_header`: `RemoveNetBlockIndex` clears it and leaves `m_timeout` set,
  which `ConsiderEviction` does not expect (`net_processing.cpp:3323`).
* In the memory pool: sizes other than 1, the rolling minimum fee, the address and
  spent indexes, the saved file; whether a transaction is final or mature is left
  open. A failing flush inside DisconnectTip is not combined with it.
* Nodes of the contract trie that a power failure loses: its database belongs to
  cpp-ethereum. Blocks that ConnectBlock refuses before it looks at the view.
* Failing writes in ChainstateDB (a full disk): the node shuts down; a crash
  covers what is then on disk.
* Address manager, version bits and the signature caches: data structures that
  no other part modelled here depends on, each sequential under its own lock.
* The wallet, RPC, GUI, ZMQ, tools and vendored libraries: clients, input and
  output, or computations on byte strings that TLC cannot enumerate. Fee
  estimation and difficulty: floating point and 256-bit arithmetic.
