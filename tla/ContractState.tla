---------------------------- MODULE ContractState ----------------------------
(***************************************************************************)
(* What a block changes beside the coins (validation.cpp, storageresults.  *)
(* cpp, txdb.cpp, pos.cpp, init.cpp): globalState's roots, the receipts,   *)
(* the index of events by height, the index of stakers by height and the   *)
(* cache of their scripts.  None of them is written together with the      *)
(* chainstate: roots and caches live in memory, the others are written to  *)
(* their databases when a block is connected.                              *)
(*                                                                         *)
(* Every handler here holds cs_main from its start to its end, so each is  *)
(* one step.  Which block is connected next is ChainState's subject: here  *)
(* any child of the tip that is not marked invalid.  The pair of roots is  *)
(* the sequence of the blocks whose contracts have been executed; a        *)
(* receipt, an event and a staker are known by the block they come from.   *)
(* A block that ConnectBlock refuses before it looks at the view touches   *)
(* none of this and is left out.  The node runs with -logevents.           *)
(***************************************************************************)
EXTENDS BlockTree, Sequences

CONSTANTS
  Txs,         \* transactions that call contracts
  TxsOf,       \* the ones of each block
  BadLate,     \* blocks ConnectBlock refuses after it has executed contracts
  BadRoots,    \* blocks whose header has not the roots of their execution
  Maturity,    \* COINBASE_MATURITY, for the reward of earlier stakers
  Recipients,  \* nMPoSRewardRecipients - 1
  MaxFaults,   \* bound on failures of the disk and full caches
  MaxRestarts  \* bound on stops and crashes

Bad == BadLate \cup BadRoots

\* A transaction comes once in a chain: it spends coins
ASSUME ContractsAssumption ==
  /\ TxsOf \in [Blocks -> SUBSET Txs] /\ TxsOf[Genesis] = {}
  /\ \A b \in Blocks : \A a, c \in Ancestors[b] : a # c => TxsOf[a] \cap TxsOf[c] = {}
  /\ Bad \subseteq Blocks \ {Genesis}
  /\ {Maturity, Recipients, MaxFaults, MaxRestarts} \subseteq Nat

VARIABLES
  tip,       \* chainActive.Tip()
  coins,     \* pcoinsTip->GetBestBlock()
  flushed,   \* the best block of the chainstate on disk
  store,     \* globalState's roots, pstorageresult, the indexes by height, scriptsMap
  failed,    \* blocks with BLOCK_FAILED_VALID
  stopping,  \* ShutdownRequested()
  aborted,   \* an assertion has failed
  faults, restarts,
  skewed,    \* history: the roots or the coins were left behind by a failure
  tainted,   \* history: what a crash or a failure has left wrong on disk
  stale      \* history: blocks whose script was cached while that was so

vars == <<tip, coins, flushed, store, failed, stopping, aborted, faults, restarts,
          skewed, tainted, stale>>

Heights == {Height[b] : b \in Blocks \ {Genesis}}
AtHeight(b, h) == CHOOSE a \in Ancestors[b] : Height[a] = h

\* performByteCode and updateUTXO, as far as the roots are concerned
ExecRoot(root, b) == IF TxsOf[b] = {} THEN root ELSE Append(root, b)

\* hashStateRoot and hashUTXORoot of the header
HeaderRoot ==
  LET R[b \in Blocks] == IF b = Genesis THEN <<>>
                         ELSE IF b \in BadRoots THEN <<b, b>>
                         ELSE ExecRoot(R[Parent[b]], b)
  IN [b \in Blocks |-> R[b]]

NoResults == [t \in Txs |-> NoBlock]
NoScripts == [b \in Blocks |-> NoBlock]

Init ==
  /\ tip = Genesis /\ coins = Genesis /\ flushed = Genesis
  /\ store = [root |-> <<>>, cache |-> NoResults, results |-> NoResults,
              events |-> [h \in Heights |-> {}], stakers |-> [h \in Heights |-> NoBlock],
              scripts |-> NoScripts]
  /\ failed = {} /\ stopping = FALSE /\ aborted = FALSE
  /\ faults = 0 /\ restarts = 0
  /\ skewed = FALSE /\ stale = {}
  /\ tainted = [txs |-> {}, events |-> {}, stakers |-> {}]

-----------------------------------------------------------------------------
(***************************************************************************)
(* StorageResults and the indexes by height, as functions of the store.    *)
(***************************************************************************)

\* addResult for the transactions of b: an entry of the cache stays as it is
AddResults(s, b) ==
  [s EXCEPT !.cache = [t \in Txs |-> IF t \in TxsOf[b] /\ s.cache[t] = NoBlock
                                      THEN b ELSE s.cache[t]]]

ClearCacheResult(s) == [s EXCEPT !.cache = NoResults]

\* commitResults: an entry of the database stays as it is
CommitResults(s) ==
  ClearCacheResult([s EXCEPT
    !.results = [t \in Txs |-> IF @[t] = NoBlock THEN s.cache[t] ELSE @[t]]])

\* Mutant of DeleteResults: nothing is deleted
DeleteResultsNot(s, b) == s

DeleteResults(s, b) ==
  [s EXCEPT !.cache = [t \in Txs |-> IF t \in TxsOf[b] THEN NoBlock ELSE @[t]],
            !.results = [t \in Txs |-> IF t \in TxsOf[b] THEN NoBlock ELSE @[t]]]

\* WriteHeightIndex: a key is a height and an address, its value transactions
WriteHeightIndex(s, b) ==
  IF TxsOf[b] = {} THEN s ELSE [s EXCEPT !.events[Height[b]] = @ \cup {b}]

EraseHeightIndex(s, b) == [s EXCEPT !.events[Height[b]] = {}]

\* Mutant of WriteStakeIndex: only where the height has no entry
WriteStakeIndexOnce(s, b) ==
  [s EXCEPT !.stakers[Height[b]] = IF @ = NoBlock THEN b ELSE @]

WriteStakeIndex(s, b) == [s EXCEPT !.stakers[Height[b]] = b]

\* EraseStakeIndex looks for the keys of the other index and finds none
EraseStakeIndex(s, b) == s

-----------------------------------------------------------------------------
(***************************************************************************)
(* ConnectBlock and DisconnectBlock.                                       *)
(***************************************************************************)

\* A script of scriptsMap is known by the block whose staker it pays.  What is
\* far from height h goes, and what is not in chainActive, the chain of tip.
CacheScripts == ((Recipients + 1) * 3) \div 2
CleanScriptCache(scripts, h) ==
  [a \in Blocks |->
     IF /\ Height[a] + CacheScripts >= h /\ Height[a] <= h + CacheScripts
        /\ Height[a] > Height[tip] \/ a \in Ancestors[tip]
     THEN scripts[a] ELSE NoBlock]

\* The script of the cache, or one made from the stake index and cached
AddMPoSScript(scripts, stakers, h) ==
  LET a == AtHeight(tip, h)
      c == CleanScriptCache(scripts, h)
  IN IF c[a] = NoBlock THEN [c EXCEPT ![a] = stakers[h]] ELSE c

\* The stakers that a block of height n rewards, and GetMPoSOutputScripts, which
\* adds the scripts of Recipients heights downwards
RewardHeights(n) ==
  {h \in Heights : h + Maturity < n /\ n <= h + Maturity + Recipients}
GetMPoSOutputScripts(s, n) ==
  LET added[i \in 0..Recipients] ==
        IF i = 0 THEN s.scripts
        ELSE IF n - Maturity - i \in Heights
          THEN AddMPoSScript(added[i - 1], s.stakers, n - Maturity - i)
        ELSE added[i - 1]
  IN [s EXCEPT !.scripts = added[Recipients]]

\* CheckReward, as far as the stakers decide on it
CheckReward(s, b) ==
  \A h \in RewardHeights(Height[b]) : s.scripts[AtHeight(tip, h)] = AtHeight(b, h)

\* The contracts of b are executed on the roots as they are
Executed(s, b, fJustCheck) ==
  LET e == [s EXCEPT !.root = ExecRoot(s.root, b)]
  IN IF fJustCheck THEN e ELSE AddResults(e, b)

\* ... and the recipients of its reward are looked up
Rewarded(s, b, fJustCheck) ==
  GetMPoSOutputScripts(Executed(s, b, fJustCheck), Height[b])

ConnectBlock(s, b, fJustCheck) ==
  LET e == Rewarded(s, b, fJustCheck)
      wrong == ~CheckReward(e, b) \/ (~fJustCheck /\ e.root # HeaderRoot[b])
  IN IF b \in BadLate THEN [ok |-> FALSE, store |-> Executed(s, b, fJustCheck)]
     ELSE IF wrong THEN [ok |-> FALSE, store |-> e]
     ELSE IF fJustCheck
       THEN [ok |-> TRUE, store |-> [e EXCEPT !.root = HeaderRoot[Parent[b]]]]
     ELSE [ok |-> TRUE,
           store |-> CommitResults(WriteStakeIndex(WriteHeightIndex(e, b), b))]

\* DisconnectBlock; VerifyDB calls it with pfClean
DisconnectBlock(s, b, pfClean) ==
  LET r == [s EXCEPT !.root = HeaderRoot[Parent[b]]]
  IN EraseStakeIndex(IF pfClean THEN r ELSE EraseHeightIndex(DeleteResults(r, b), b), b)

\* Mutant of Restored: the roots stay those of the failed block
RestoredKeepsRoots(s, root) == ClearCacheResult(s)

\* What callers do when ConnectBlock has failed
Restored(s, root) == ClearCacheResult([s EXCEPT !.root = root])

-----------------------------------------------------------------------------
(***************************************************************************)
(* History.  A step that fails half way may leave the roots or the coins   *)
(* behind; they are in step again when a later one has set them.           *)
(***************************************************************************)

InStep(t, c, s) == c = t /\ s.root = HeaderRoot[t]
Track(failure) ==
  /\ skewed' = (~InStep(tip', coins', store') /\ (skewed \/ failure))
  /\ stale' = {b \in Blocks :
       /\ store'.scripts[b] # NoBlock
       /\ IF store.scripts[b] = NoBlock THEN Height[b] \in tainted.stakers ELSE b \in stale}

Running == ~aborted
Fault == faults < MaxFaults /\ faults' = faults + 1

\* An assertion of ConnectBlock or DisconnectTip fails
Abort ==
  /\ aborted' = TRUE
  /\ UNCHANGED <<tip, coins, flushed, store, failed, stopping, restarts, skewed, tainted,
                 stale>>

-----------------------------------------------------------------------------
(***************************************************************************)
(* ConnectTip and DisconnectTip.                                           *)
(***************************************************************************)

MayConnect(b) == Running /\ b \in Blocks \ failed /\ Parent[b] = tip

\* FlushStateToDisk(IF_NEEDED), where the coins are those of block c
FlushIfNeeded(c) == flushed' \in {flushed, c}

\* What is written for b replaces what a crash has left at its height
Rewritten(b) == tainted' = [tainted EXCEPT !.stakers = @ \ {Height[b]}]

ConnectTip(b) ==
  LET r == ConnectBlock(store, b, FALSE)
  IN /\ MayConnect(b) /\ coins = tip /\ r.ok
     /\ store' = r.store
     /\ coins' = b /\ tip' = b
     /\ FlushIfNeeded(b)
     /\ Rewritten(b)
     /\ UNCHANGED <<failed, stopping, aborted, faults, restarts>>
     /\ Track(FALSE)

\* InvalidBlockFound
ConnectInvalid(b) ==
  LET r == ConnectBlock(store, b, FALSE)
  IN /\ MayConnect(b) /\ coins = tip /\ ~r.ok
     /\ failed' = failed \cup {b}
     /\ store' = Restored(r.store, store.root)
     /\ UNCHANGED <<tip, coins, flushed, stopping, aborted, faults, restarts, tainted>>
     /\ Track(FALSE)

\* The undo data or an index cannot be written: AbortNode, and b is not invalid
ConnectWriteFails(b) ==
  LET r == ConnectBlock(store, b, FALSE)
      e == Rewarded(store, b, FALSE)
  IN /\ MayConnect(b) /\ coins = tip /\ r.ok /\ Fault
     /\ LET h == WriteHeightIndex(e, b)
        IN \E s \in {e, h, WriteStakeIndex(h, b)} : store' = Restored(s, store.root)
     /\ stopping' = TRUE
     /\ tainted' = [tainted EXCEPT !.events = @ \cup {Height[b]}]
     /\ UNCHANGED <<tip, coins, flushed, failed, aborted, restarts>>
     /\ Track(FALSE)

\* The coins are moved, then FlushStateToDisk fails: AbortNode
ConnectFlushFails(b) ==
  LET r == ConnectBlock(store, b, FALSE)
  IN /\ MayConnect(b) /\ coins = tip /\ r.ok /\ Fault
     /\ store' = r.store
     /\ coins' = b
     /\ stopping' = TRUE
     /\ Rewritten(b)
     /\ UNCHANGED <<tip, flushed, failed, aborted, restarts>>
     /\ Track(TRUE)

\* assert(hashPrevBlock == view.GetBestBlock())
ConnectAsserts(b) == MayConnect(b) /\ coins # tip /\ Abort /\ UNCHANGED faults

MayDisconnect == Running /\ tip # Genesis

\* The receipts and events of b are gone, right or not
Erased(b) == [tainted EXCEPT !.txs = @ \ TxsOf[b], !.events = @ \ {Height[b]}]

\* Mutant of DisconnectTip: the tip stays
DisconnectTipKeepsTip ==
  /\ MayDisconnect /\ coins = tip
  /\ store' = DisconnectBlock(store, tip, FALSE)
  /\ coins' = Parent[tip]
  /\ FlushIfNeeded(Parent[tip])
  /\ tainted' = Erased(tip)
  /\ UNCHANGED <<tip, failed, stopping, aborted, faults, restarts>>
  /\ Track(FALSE)

DisconnectTip ==
  /\ MayDisconnect /\ coins = tip
  /\ store' = DisconnectBlock(store, tip, FALSE)
  /\ coins' = Parent[tip] /\ tip' = Parent[tip]
  /\ FlushIfNeeded(Parent[tip])
  /\ tainted' = Erased(tip)
  /\ UNCHANGED <<failed, stopping, aborted, faults, restarts>>
  /\ Track(FALSE)

\* DISCONNECT_UNCLEAN, or the address index cannot be written: the coins stay
DisconnectFails ==
  /\ MayDisconnect /\ coins = tip /\ Fault
  /\ store' = DisconnectBlock(store, tip, FALSE)
  /\ tainted' = [tainted EXCEPT !.txs = @ \cup TxsOf[tip],
                                !.events = @ \cup {Height[tip]}]
  /\ UNCHANGED <<tip, coins, flushed, failed, stopping, aborted, restarts>>
  /\ Track(TRUE)

DisconnectFlushFails ==
  /\ MayDisconnect /\ coins = tip /\ Fault
  /\ store' = DisconnectBlock(store, tip, FALSE)
  /\ coins' = Parent[tip]
  /\ stopping' = TRUE
  /\ tainted' = Erased(tip)
  /\ UNCHANGED <<tip, flushed, failed, aborted, restarts>>
  /\ Track(TRUE)

\* assert(view.GetBestBlock() == pindexDelete->GetBlockHash())
DisconnectAsserts == MayDisconnect /\ coins # tip /\ Abort /\ UNCHANGED faults

-----------------------------------------------------------------------------
(***************************************************************************)
(* Blocks that are checked and not connected, and readers of receipts.     *)
(***************************************************************************)

\* TestBlockValidity, of a proposed block or of a template of the miner.  Past
\* the tests before ConnectBlock, which touch nothing here.
TestBlockValidity(b) ==
  LET r == ConnectBlock(store, b, TRUE)
  IN /\ Running /\ Parent[b] = tip /\ coins = tip
     /\ store' = IF r.ok THEN r.store ELSE Restored(r.store, store.root)
     /\ UNCHANGED <<tip, coins, flushed, failed, stopping, aborted, faults, restarts, tainted>>
     /\ Track(FALSE)

TestAsserts(b) ==
  Running /\ Parent[b] = tip /\ coins # tip /\ Abort /\ UNCHANGED faults

\* CreateMPoSOutputs, of a block that SignBlock makes on the tip
CreateMPoSOutputs ==
  /\ Running
  /\ store' = GetMPoSOutputScripts(store, Height[tip] + 1)
  /\ UNCHANGED <<tip, coins, flushed, failed, stopping, aborted, faults, restarts, tainted>>
  /\ Track(FALSE)

\* getResult, for gettransactionreceipt, searchlogs and waitforlogs
GetResult(t) ==
  /\ Running
  /\ store.cache[t] = NoBlock /\ store.results[t] # NoBlock
  /\ store' = [store EXCEPT !.cache[t] = store.results[t]]
  /\ UNCHANGED <<tip, coins, flushed, failed, stopping, aborted, faults, restarts,
                 skewed, tainted, stale>>

-----------------------------------------------------------------------------
(***************************************************************************)
(* VerifyDB at level 3 or 4 over the last d blocks; below, it leaves the   *)
(* store alone.                                                            *)
(***************************************************************************)

Verifies == Running /\ tip # Genesis
Down(d) == AtHeight(tip, Height[tip] - d)
Depths == 1..Height[tip]

\* DisconnectBlock d times with pfClean, of which the last decides on the roots
Disconnected(d) == DisconnectBlock(store, Down(d - 1), TRUE)

\* The blocks above Down(d) again, as far as they connect
Reconnected(s, d) ==
  LET done[i \in 0..d] ==
        IF i = 0 THEN [ok |-> TRUE, store |-> s]
        ELSE IF ~done[i - 1].ok THEN done[i - 1]
        ELSE LET r == ConnectBlock(done[i - 1].store, Down(d - i), FALSE)
             IN IF r.ok THEN r
                ELSE [ok |-> FALSE, store |-> Restored(r.store, done[i - 1].store.root)]
  IN done[d]

\* Level 3 to its end: the roots are set back
VerifyLevel3(d) ==
  /\ Verifies /\ coins = tip /\ d \in Depths
  /\ store' = [Disconnected(d) EXCEPT !.root = store.root]
  /\ UNCHANGED <<tip, coins, flushed, failed, stopping, aborted, faults, restarts, tainted>>
  /\ Track(FALSE)

\* Level 4 to its end, or to a block that does not connect any more
VerifyLevel4(d) ==
  LET r == Reconnected(Disconnected(d), d)
  IN /\ Verifies /\ coins = tip /\ d \in Depths
     /\ store' = r.store
     /\ tainted' = [tainted EXCEPT !.stakers =
          @ \ {h \in Heights : r.ok /\ h > Height[tip] - d /\ h <= Height[tip]}]
     /\ UNCHANGED <<tip, coins, flushed, failed, stopping, aborted, faults, restarts>>
     /\ Track(~r.ok)

\* A shutdown is seen after k blocks, or a block or its undo data are bad: the
\* roots stay where they are
VerifyCutShort(k) ==
  /\ Verifies /\ coins = tip /\ k \in Depths
  /\ IF stopping THEN UNCHANGED faults ELSE Fault
  /\ store' = Disconnected(k)
  /\ UNCHANGED <<tip, coins, flushed, failed, stopping, aborted, restarts, tainted>>
  /\ Track(TRUE)

\* assert(coins.GetBestBlock() == pindex->GetBlockHash()); and the assertion of
\* ConnectBlock, at level 4, when the cache was full before Down(d) was reached
VerifyAsserts ==
  Verifies /\ Abort /\ IF coins # tip THEN UNCHANGED faults ELSE Fault

-----------------------------------------------------------------------------
(***************************************************************************)
(* Flushes, stops, crashes and starts.  The results and the indexes by     *)
(* height survive a crash of the process, the blocks marked invalid those  *)
(* that were written.                                                      *)
(***************************************************************************)

FlushStateToDisk ==
  /\ Running /\ flushed # coins
  /\ flushed' = coins
  /\ UNCHANGED <<tip, coins, store, failed, stopping, aborted, faults, restarts,
                 skewed, tainted, stale>>

StartShutdown ==
  /\ Running /\ ~stopping
  /\ stopping' = TRUE
  /\ UNCHANGED <<tip, coins, flushed, store, failed, aborted, faults, restarts,
                 skewed, tainted, stale>>

\* What is on disk, and what the chain of block b calls for
WantedResult(b, t) ==
  LET with == {a \in Ancestors[b] : t \in TxsOf[a]}
  IN IF with = {} THEN NoBlock ELSE CHOOSE a \in with : TRUE
WantedEvents(b, h) == {a \in Ancestors[b] : Height[a] = h /\ TxsOf[a] # {}}
WrongOnDisk(b) ==
  [txs |-> {t \in Txs : store.results[t] # WantedResult(b, t)},
   events |-> {h \in Heights : store.events[h] # WantedEvents(b, h)},
   stakers |-> {h \in Heights : h <= Height[b] /\ store.stakers[h] # AtHeight(b, h)}]

\* Mutant of LoadRoots: the roots stay those before the stop
LoadRootsNot(b) == store.root

\* AppInitMain sets the roots to those of the tip's header
LoadRoots(b) == HeaderRoot[b]

\* The node is started on the chainstate of block b
Started(b) ==
  /\ restarts < MaxRestarts /\ restarts' = restarts + 1
  /\ flushed' = b /\ coins' = b /\ tip' = b
  /\ store' = ClearCacheResult([store EXCEPT !.root = LoadRoots(b), !.scripts = NoScripts])
  /\ stopping' = FALSE /\ aborted' = FALSE
  /\ UNCHANGED faults
  /\ Track(FALSE)

\* Shutdown, with its flush
Stop == Running /\ stopping /\ Started(coins) /\ UNCHANGED <<failed, tainted>>

Crash ==
  /\ failed' \in SUBSET failed
  /\ tainted' = IF flushed = coins THEN tainted ELSE WrongOnDisk(flushed)
  /\ Started(flushed)

Next ==
  \/ \E b \in Blocks :
       \/ ConnectTip(b) \/ ConnectInvalid(b) \/ ConnectWriteFails(b)
       \/ ConnectFlushFails(b) \/ ConnectAsserts(b)
       \/ TestBlockValidity(b) \/ TestAsserts(b)
  \/ DisconnectTip \/ DisconnectFails \/ DisconnectFlushFails \/ DisconnectAsserts
  \/ CreateMPoSOutputs
  \/ \E t \in Txs : GetResult(t)
  \/ \E d \in Depths : VerifyLevel3(d) \/ VerifyLevel4(d) \/ VerifyCutShort(d)
  \/ VerifyAsserts
  \/ FlushStateToDisk \/ StartShutdown \/ Stop \/ Crash

Spec == Init /\ [][Next]_vars

-----------------------------------------------------------------------------
(***************************************************************************)
(* Properties.                                                             *)
(***************************************************************************)

\* The variables have their types; no block's contracts were executed twice on
\* the way to the roots.
TypeOK ==
  /\ {tip, coins, flushed} \subseteq Blocks
  /\ store.root \in Seq(Blocks)
  /\ \A i, j \in DOMAIN store.root : store.root[i] = store.root[j] => i = j
  /\ store.cache \in [Txs -> Blocks \cup {NoBlock}]
  /\ store.results \in [Txs -> Blocks \cup {NoBlock}]
  /\ store.events \in [Heights -> SUBSET Blocks]
  /\ store.stakers \in [Heights -> Blocks \cup {NoBlock}]
  /\ store.scripts \in [Blocks -> Blocks \cup {NoBlock}]
  /\ failed \subseteq Blocks \ {Genesis}
  /\ {stopping, aborted, skewed} \subseteq BOOLEAN
  /\ faults <= MaxFaults /\ restarts <= MaxRestarts

\* Whenever cs_main is free, globalState has the roots of the tip's header and
\* the coins are the tip's, unless a step that failed half way left them behind
\* and nothing has set them since: ConnectTip and TestBlockValidity undo what
\* ConnectBlock did to the roots before it failed, VerifyDB what it did to them.
RootsFollowTip == ~skewed => InStep(tip, coins, store)

\* What contracts left behind is that of the active chain, whatever was
\* reorganised, checked, verified or read meanwhile: its blocks have their
\* receipts and events, no other block has any, except for entries left wrong by
\* a crash or a failure; and the cache of receipts, which only an erased or a
\* failed block empties, never serves one that the database does not hold.
ReceiptsFollowChain ==
  /\ \A t \in Txs \ tainted.txs : store.results[t] = WantedResult(coins, t)
  /\ \A h \in Heights \ tainted.events : store.events[h] = WantedEvents(coins, h)
  /\ \A t \in Txs : store.cache[t] # NoBlock => store.cache[t] = store.results[t]

\* Rewards are paid to the stakers of the active chain.  The stake index, which
\* is overwritten and never erased, has them for every height up to the tip,
\* except for those left wrong by a crash; scriptsMap, which nothing empties when
\* blocks are disconnected, pays the staker of the very block, except where the
\* script was made from such an entry, whose correction it outlives.
StakersFollowChain ==
  /\ \A h \in Heights \ tainted.stakers :
       h <= Height[coins] => store.stakers[h] = AtHeight(coins, h)
  /\ \A b \in Blocks \ stale : store.scripts[b] \in {b, NoBlock}

\* A block is marked invalid for what it contains; a valid one only while the
\* roots are behind, or when a crash has left the stake index wrong at a height
\* its reward depends on, or a script made from it is still cached.
OnlyBadBlocksFail ==
  [][\A b \in (failed' \ failed) \ Bad :
       skewed \/ \E h \in RewardHeights(Height[b]) :
                   h \in tainted.stakers \/ AtHeight(b, h) \in stale]_vars

\* No assertion on the best block of the coins fails unless a flush or a read
\* has failed, or VerifyDB ran out of memory for coins, before.
AssertionsHold == aborted => faults > 0
==============================================================================
