------------------------------ MODULE CoinsCache ------------------------------
(***************************************************************************)
(* The stack of coin views of a running node (coins.h, coins.cpp): the     *)
(* database CCoinsViewDB at the bottom, the long-lived cache pcoinsTip     *)
(* over it, and the short-lived CCoinsViewCache in which ConnectTip and    *)
(* DisconnectTip apply one block (called the view here).                   *)
(*                                                                         *)
(* Every method of CCoinsViewCache that changes state is an action.  The   *)
(* database is written atomically here; module ChainstateDB takes a flush  *)
(* apart into its batches.                                                 *)
(***************************************************************************)
EXTENDS Naturals

CONSTANTS
  Outpoints,     \* COutPoint: names of transaction outputs
  Coins,         \* Coin: unspent outputs
  Unspendable,   \* the coins whose script can never be spent
  NoCoin,        \* the spent coin (its CTxOut is null)
  NoEntry,       \* what cacheCoins.find returns when it finds nothing
  Blocks,        \* block hashes
  NullHash       \* uint256(), the hash of no block

ASSUME CoinsAssumption ==
  /\ Unspendable \subseteq Coins
  /\ NoCoin \notin Coins
  /\ NullHash \notin Blocks

\* CCoinsCacheEntry::Flags
DIRTY == "DIRTY"
FRESH == "FRESH"

MaybeCoin == Coins \cup {NoCoin}

\* CCoinsCacheEntry
CacheEntry == [coin : MaybeCoin, flags : SUBSET {DIRTY, FRESH}]

ASSUME NoEntryAssumption == NoEntry \notin CacheEntry

\* CCoinsMap, as a total function
CoinsMap == [Outpoints -> CacheEntry \cup {NoEntry}]

EmptyMap == [op \in Outpoints |-> NoEntry]

VARIABLES
  db, dbBest,        \* CCoinsViewDB: the coins, DB_BEST_BLOCK
  tipCache, tipHash, \* pcoinsTip: cacheCoins, hashBlock
  viewCache, viewHash,
  open,              \* whether the view is in scope
  logicError         \* a std::logic_error was thrown (nothing catches it)

vars == <<db, dbBest, tipCache, tipHash, viewCache, viewHash, open, logicError>>

\* Every variable has the type its declaration in coins.h gives it.
TypeOK ==
  /\ db \in [Outpoints -> MaybeCoin]
  /\ dbBest \in Blocks \cup {NullHash}
  /\ tipCache \in CoinsMap
  /\ tipHash \in Blocks \cup {NullHash}
  /\ viewCache \in CoinsMap
  /\ viewHash \in Blocks \cup {NullHash}
  /\ open \in BOOLEAN
  /\ logicError \in BOOLEAN

-----------------------------------------------------------------------------
\* What a cache over a base says: GetCoin, HaveCoin and AccessCoin all answer
\* from the entry FetchCoin returns, or from the base when there is none.
CoinAt(cache, base, op) == IF cache[op] = NoEntry THEN base[op] ELSE cache[op].coin

Represents(cache, base) == [op \in Outpoints |-> CoinAt(cache, base, op)]

\* GetBestBlock: the cached hash, or the base's when it is null
BestBlock(hash, base) == IF hash = NullHash THEN base ELSE hash

TipCoins == Represents(tipCache, db)
ViewCoins == Represents(viewCache, TipCoins)
TipBest == BestBlock(tipHash, dbBest)
ViewBest == BestBlock(viewHash, TipBest)

\* FetchCoin: a miss that the base can answer leaves an unflagged copy behind.
\* GetCoin of a base never returns true with a spent coin, so the copy is
\* never the pruned one that would be marked FRESH.
FetchCoin(cache, base, op) ==
  IF cache[op] # NoEntry \/ base[op] = NoCoin
  THEN cache
  ELSE [cache EXCEPT ![op] = [coin |-> base[op], flags |-> {}]]

\* The entry emplace finds or makes
EmplacedEntry(cache, op) ==
  IF cache[op] = NoEntry THEN [coin |-> NoCoin, flags |-> {}] ELSE cache[op]

AddCoinThrows(cache, op, coin, possibleOverwrite) ==
  /\ coin \notin Unspendable
  /\ ~possibleOverwrite
  /\ EmplacedEntry(cache, op).coin # NoCoin

\* Mutant of AddCoin: FRESH without looking at DIRTY, so a coin spent and added
\* again inside one cache looks new to the layer below.
AddCoinFreshIfNew(cache, op, coin, possibleOverwrite) ==
  LET old == EmplacedEntry(cache, op)
  IN  IF coin \in Unspendable
      THEN cache
      ELSE [cache EXCEPT ![op] =
             [coin |-> coin,
              flags |-> old.flags \cup {DIRTY}
                          \cup (IF possibleOverwrite THEN {} ELSE {FRESH})]]

AddCoin(cache, op, coin, possibleOverwrite) ==
  LET old == EmplacedEntry(cache, op)
      fresh == ~possibleOverwrite /\ DIRTY \notin old.flags
  IN  IF coin \in Unspendable
      THEN cache
      ELSE [cache EXCEPT ![op] =
             [coin |-> coin,
              flags |-> old.flags \cup {DIRTY} \cup (IF fresh THEN {FRESH} ELSE {})]]

\* SpendCoin, after its FetchCoin: FRESH entries vanish, others become pruned
SpendCoin(cache, op) ==
  IF cache[op] = NoEntry
  THEN cache
  ELSE [cache EXCEPT ![op] =
         IF FRESH \in cache[op].flags
         THEN NoEntry
         ELSE [coin |-> NoCoin, flags |-> cache[op].flags \cup {DIRTY}]]

\* Mutant of BatchWriteEntry: the child's FRESH flag is copied to a pruned
\* parent entry, as the NOTE at coins.cpp:192 warns against.
BatchWriteEntryCopiesFresh(c, p) ==
  IF c = NoEntry THEN p
  ELSE IF DIRTY \notin c.flags THEN p
  ELSE IF FRESH \in (c.flags \cup (IF p = NoEntry THEN {} ELSE p.flags)) /\ c.coin = NoCoin
  THEN NoEntry
  ELSE [coin |-> c.coin, flags |-> c.flags \cup (IF p = NoEntry THEN {} ELSE p.flags)]

\* One entry of CCoinsViewCache::BatchWrite: the child's entry c goes into the
\* parent, which holds p.
BatchWriteEntry(c, p) ==
  IF c = NoEntry THEN p
  ELSE IF DIRTY \notin c.flags THEN p
  ELSE IF p = NoEntry
    THEN IF FRESH \in c.flags /\ c.coin = NoCoin
         THEN NoEntry
         ELSE [coin |-> c.coin,
               flags |-> {DIRTY} \cup (IF FRESH \in c.flags THEN {FRESH} ELSE {})]
    ELSE IF FRESH \in p.flags /\ c.coin = NoCoin
         THEN NoEntry
         ELSE [coin |-> c.coin, flags |-> p.flags \cup {DIRTY}]

BatchWriteThrows(child, parent) ==
  \E op \in Outpoints :
    /\ child[op] # NoEntry
    /\ DIRTY \in child[op].flags
    /\ FRESH \in child[op].flags
    /\ parent[op] # NoEntry
    /\ parent[op].coin # NoCoin

BatchWrite(child, parent) ==
  [op \in Outpoints |-> BatchWriteEntry(child[op], parent[op])]

\* CCoinsViewDB::BatchWrite, whole: only DIRTY entries are written
DBBatchWrite(child, coins) ==
  [op \in Outpoints |->
    IF child[op] = NoEntry THEN coins[op]
    ELSE IF DIRTY \in child[op].flags THEN child[op].coin
    ELSE coins[op]]

-----------------------------------------------------------------------------
\* A node that starts with an empty chainstate
Init ==
  /\ db = [op \in Outpoints |-> NoCoin]
  /\ dbBest = NullHash
  /\ tipCache = EmptyMap
  /\ tipHash = NullHash
  /\ viewCache = EmptyMap
  /\ viewHash = NullHash
  /\ open = FALSE
  /\ logicError = FALSE

\* CCoinsViewCache view(pcoinsTip.get())
OpenView ==
  /\ ~open
  /\ open' = TRUE
  /\ viewCache' = EmptyMap
  /\ viewHash' = NullHash
  /\ UNCHANGED <<db, dbBest, tipCache, tipHash, logicError>>

\* A lookup in the view asks pcoinsTip when it misses, which asks the database
\* when it misses too: both caches keep a copy.
FetchedView(op) == FetchCoin(viewCache, TipCoins, op)

FetchedTip(op) == IF viewCache[op] # NoEntry THEN tipCache ELSE FetchCoin(tipCache, db, op)

\* GetCoin, HaveCoin, AccessCoin, GetValueIn, HaveInputs on the view
ReadView(op) ==
  /\ open
  /\ tipCache' = FetchedTip(op)
  /\ viewCache' = FetchedView(op)
  /\ UNCHANGED <<db, dbBest, tipHash, viewHash, open, logicError>>

\* The same on pcoinsTip, by the mempool or an RPC
ReadTip(op) ==
  /\ ~open
  /\ tipCache' = FetchCoin(tipCache, db, op)
  /\ UNCHANGED <<db, dbBest, tipHash, viewCache, viewHash, open, logicError>>

GetBestBlock ==
  /\ open
  /\ viewHash' = ViewBest
  /\ tipHash' = IF viewHash = NullHash THEN TipBest ELSE tipHash
  /\ UNCHANGED <<db, dbBest, tipCache, viewCache, open, logicError>>

\* Mutant of AddNewCoin: coinbase outputs are added without the overwrite flag.
AddNewCoinNoOverwrite(op, coin, coinbase) ==
  /\ open
  /\ coinbase \/ ViewCoins[op] = NoCoin
  /\ logicError' = AddCoinThrows(viewCache, op, coin, FALSE)
  /\ viewCache' = AddCoin(viewCache, op, coin, FALSE)
  /\ UNCHANGED <<db, dbBest, tipCache, tipHash, viewHash, open>>

\* AddCoins(view, tx, height, check = false), one output.  Only a coinbase may
\* overwrite; the output of any other transaction is new, because no two
\* transactions in a chain have the same hash.
AddNewCoin(op, coin, coinbase) ==
  /\ open
  /\ coinbase \/ ViewCoins[op] = NoCoin
  /\ logicError' = AddCoinThrows(viewCache, op, coin, coinbase)
  /\ viewCache' = AddCoin(viewCache, op, coin, coinbase)
  /\ UNCHANGED <<db, dbBest, tipCache, tipHash, viewHash, open>>

\* ApplyTxInUndo, and AddCoins(..., check = true): HaveCoin decides whether
\* the addition may overwrite.
AddCheckedCoin(op, coin) ==
  /\ open
  /\ tipCache' = FetchedTip(op)
  /\ LET have == ViewCoins[op] # NoCoin
     IN  /\ logicError' = AddCoinThrows(FetchedView(op), op, coin, have)
         /\ viewCache' = AddCoin(FetchedView(op), op, coin, have)
  /\ UNCHANGED <<db, dbBest, tipHash, viewHash, open>>

Spend(op) ==
  /\ open
  /\ tipCache' = FetchedTip(op)
  /\ viewCache' = SpendCoin(FetchedView(op), op)
  /\ UNCHANGED <<db, dbBest, tipHash, viewHash, open, logicError>>

SetBestBlock(b) ==
  /\ open
  /\ viewHash' = b
  /\ UNCHANGED <<db, dbBest, tipCache, tipHash, viewCache, open, logicError>>

\* view.Flush() at the end of ConnectTip and DisconnectTip, where the block
\* has set the best block
FlushView ==
  /\ open
  /\ viewHash # NullHash
  /\ open' = FALSE
  /\ logicError' = BatchWriteThrows(viewCache, tipCache)
  /\ tipCache' = BatchWrite(viewCache, tipCache)
  /\ tipHash' = viewHash
  /\ viewCache' = EmptyMap
  /\ viewHash' = NullHash
  /\ UNCHANGED <<db, dbBest>>

\* The block failed: the view goes out of scope unflushed
DropView ==
  /\ open
  /\ open' = FALSE
  /\ viewCache' = EmptyMap
  /\ viewHash' = NullHash
  /\ UNCHANGED <<db, dbBest, tipCache, tipHash, logicError>>

\* pcoinsTip->Flush() in FlushStateToDisk, which asks GetBestBlock first
FlushTip ==
  /\ ~open
  /\ TipBest # NullHash
  /\ db' = DBBatchWrite(tipCache, db)
  /\ dbBest' = TipBest
  /\ tipCache' = EmptyMap
  /\ tipHash' = TipBest
  /\ UNCHANGED <<viewCache, viewHash, open, logicError>>

\* pcoinsTip->Uncache(op), for the inputs of a rejected transaction
Uncache(op) ==
  /\ ~open
  /\ tipCache[op] # NoEntry
  /\ tipCache[op].flags = {}
  /\ tipCache' = [tipCache EXCEPT ![op] = NoEntry]
  /\ UNCHANGED <<db, dbBest, tipHash, viewCache, viewHash, open, logicError>>

Next ==
  /\ ~logicError
  /\ \/ OpenView
     \/ GetBestBlock
     \/ FlushView
     \/ DropView
     \/ FlushTip
     \/ \E b \in Blocks : SetBestBlock(b)
     \/ \E op \in Outpoints :
          \/ ReadView(op)
          \/ ReadTip(op)
          \/ Spend(op)
          \/ Uncache(op)
          \/ \E coin \in Coins :
               \/ AddCheckedCoin(op, coin)
               \/ \E coinbase \in BOOLEAN : AddNewCoin(op, coin, coinbase)

Spec == Init /\ [][Next]_vars

-----------------------------------------------------------------------------
(***************************************************************************)
(* Properties                                                              *)
(***************************************************************************)

\* The contract of the flags (coins.h:192-200) for one cache over its base: an
\* entry without DIRTY is the base's own unspent coin, a FRESH entry is absent
\* or pruned in the base, and a pruned entry is there to be written down, so
\* it is DIRTY and not FRESH.
EntryOK(e, below) ==
  /\ DIRTY \notin e.flags => e.coin = below /\ e.coin # NoCoin
  /\ FRESH \in e.flags => below = NoCoin
  /\ e.coin = NoCoin => DIRTY \in e.flags /\ FRESH \notin e.flags

FlagsOK(cache, base) ==
  \A op \in Outpoints : cache[op] # NoEntry => EntryOK(cache[op], base[op])

\* pcoinsTip keeps the contract towards the database, and the view towards
\* what pcoinsTip represents, through any interleaving of lookups, additions,
\* spends, flushes and Uncache: FRESH is never set on a coin the layer below
\* could still hold, so erasing a spent FRESH entry loses nothing.
FlagContract ==
  /\ FlagsOK(tipCache, db)
  /\ FlagsOK(viewCache, TipCoins)

\* Neither throw of coins.cpp is reachable: AddCoin never replaces a non-pruned
\* entry (coins.cpp:79) and BatchWrite never finds FRESH misapplied
\* (coins.cpp:177), provided callers announce overwrites as AddCoins does.
NoLogicError == ~logicError

\* A view that is not in scope leaves nothing behind.
ClosedViewIsEmpty == ~open => viewCache = EmptyMap /\ viewHash = NullHash

\* The conjunction the proofs carry
Inductive == TypeOK /\ FlagContract /\ NoLogicError /\ ClosedViewIsEmpty

\* The caches are invisible: seen through GetCoin and GetBestBlock, the stack
\* behaves as three plain unspent-output sets with their best blocks.
Utxo == INSTANCE UtxoStack WITH
  disk <- db, diskBest <- dbBest,
  tip <- TipCoins, tipBest <- TipBest,
  view <- ViewCoins, viewBest <- ViewBest

ImplementsUtxoStack == Utxo!Spec
=============================================================================
