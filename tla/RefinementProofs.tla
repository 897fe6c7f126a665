-------------------------- MODULE RefinementProofs --------------------------
(***************************************************************************)
(* Proofs about the two components that implement an abstract              *)
(* specification: CoinsCache, which implements UtxoStack, for any sets of  *)
(* outpoints, coins and blocks, and CallbackQueue, which implements        *)
(* SerialCallbacks, for any numbers of threads and callbacks.              *)
(***************************************************************************)
EXTENDS CoinsCache, CallbackQueue, TLAPS

-----------------------------------------------------------------------------
(***************************************************************************)
(* The coin caches                                                         *)
(*                                                                         *)
(* One lemma per method of CCoinsViewCache says what the method does to a  *)
(* cache over an arbitrary base: it keeps the type, it keeps the contract  *)
(* of the flags, and it changes what the cache represents as the caller    *)
(* expects.  The theorems apply the lemmas to the two caches of the stack. *)
(***************************************************************************)

UtxoSet == [Outpoints -> MaybeCoin]

\* What a cache represents is an unspent-output set, outpoint by outpoint.
LEMMA RepresentsType ==
  ASSUME NEW cache \in CoinsMap, NEW base \in UtxoSet
  PROVE  /\ Represents(cache, base) \in UtxoSet
         /\ \A op \in Outpoints : Represents(cache, base)[op] = CoinAt(cache, base, op)
  BY DEF Represents, CoinAt, UtxoSet, CoinsMap, CacheEntry, MaybeCoin

\* FetchCoin (coins.cpp:41) changes nothing a caller can see.
LEMMA FetchCoinCorrect ==
  ASSUME NEW cache \in CoinsMap, NEW base \in UtxoSet, NEW op \in Outpoints,
         FlagsOK(cache, base)
  PROVE  /\ FetchCoin(cache, base, op) \in CoinsMap
         /\ FlagsOK(FetchCoin(cache, base, op), base)
         /\ Represents(FetchCoin(cache, base, op), base) = Represents(cache, base)
         /\ FetchCoin(cache, base, op)[op] = NoEntry => base[op] = NoCoin
  <1> DEFINE new == FetchCoin(cache, base, op)
             copy == [coin |-> base[op], flags |-> {}]
  <1>1. copy \in CacheEntry /\ copy # NoEntry
    BY NoEntryAssumption DEF CacheEntry, UtxoSet
  <1>2. CASE cache[op] # NoEntry \/ base[op] = NoCoin
    BY <1>2 DEF FetchCoin
  <1>3. CASE ~(cache[op] # NoEntry \/ base[op] = NoCoin)
    <2>1. new = [cache EXCEPT ![op] = copy]
      BY <1>3 DEF FetchCoin
    <2>2. new \in CoinsMap /\ new[op] = copy
      BY <1>1, <2>1 DEF CoinsMap
    <2>3. \A p \in Outpoints : p # op => new[p] = cache[p]
      BY <2>1 DEF CoinsMap
    <2>4. FlagsOK(new, base)
      BY <1>3, <2>2, <2>3 DEF FlagsOK, EntryOK
    <2>5. \A p \in Outpoints : CoinAt(new, base, p) = CoinAt(cache, base, p)
      <3> TAKE p \in Outpoints
      <3>1. CASE p = op
        BY <1>1, <1>3, <2>2, <3>1 DEF CoinAt
      <3>2. CASE p # op
        BY <2>3, <3>2 DEF CoinAt
      <3> QED BY <3>1, <3>2
    <2>6. Represents(new, base) = Represents(cache, base)
      BY <2>5 DEF Represents
    <2> QED BY <1>1, <2>2, <2>4, <2>6
  <1> QED BY <1>2, <1>3

\* AddCoin (coins.cpp:67) adds the coin, and does not throw, when the caller
\* allows an overwrite or there is no unspent coin to overwrite.
LEMMA AddCoinCorrect ==
  ASSUME NEW cache \in CoinsMap, NEW base \in UtxoSet, NEW op \in Outpoints,
         NEW coin \in Coins, NEW ow \in BOOLEAN,
         FlagsOK(cache, base),
         ow \/ Represents(cache, base)[op] = NoCoin
  PROVE  /\ AddCoin(cache, op, coin, ow) \in CoinsMap
         /\ FlagsOK(AddCoin(cache, op, coin, ow), base)
         /\ ~AddCoinThrows(cache, op, coin, ow)
         /\ Represents(AddCoin(cache, op, coin, ow), base)
              = IF coin \in Unspendable THEN Represents(cache, base)
                ELSE [Represents(cache, base) EXCEPT ![op] = coin]
  <1> DEFINE new == AddCoin(cache, op, coin, ow)
             old == EmplacedEntry(cache, op)
             flags == old.flags \cup {DIRTY}
                        \cup (IF ~ow /\ DIRTY \notin old.flags THEN {FRESH} ELSE {})
             entry == [coin |-> coin, flags |-> flags]
  <1>0. old \in CacheEntry
    BY DEF EmplacedEntry, CoinsMap, CacheEntry, MaybeCoin
  <1>1. entry \in CacheEntry /\ entry # NoEntry
    BY <1>0, NoEntryAssumption DEF CacheEntry, MaybeCoin, DIRTY, FRESH
  <1>2. ow \/ CoinAt(cache, base, op) = NoCoin
    BY RepresentsType
  <1>3. ~AddCoinThrows(cache, op, coin, ow)
    BY <1>2 DEF AddCoinThrows, EmplacedEntry, CoinAt
  <1>4. CASE coin \in Unspendable
    BY <1>3, <1>4 DEF AddCoin
  <1>5. CASE coin \notin Unspendable
    <2>1. new = [cache EXCEPT ![op] = entry]
      BY <1>5 DEF AddCoin
    <2>2. new \in CoinsMap /\ new[op] = entry
      BY <1>1, <2>1 DEF CoinsMap
    <2>3. \A p \in Outpoints : p # op => new[p] = cache[p]
      BY <2>1 DEF CoinsMap
    <2>4. EntryOK(entry, base[op])
      <3>1. DIRTY \in entry.flags /\ entry.coin # NoCoin
        BY CoinsAssumption
      <3>2. FRESH \in entry.flags => base[op] = NoCoin
        <4>1. CASE cache[op] = NoEntry
          BY <1>2, <4>1 DEF EmplacedEntry, CoinAt, DIRTY, FRESH
        <4>2. CASE cache[op] # NoEntry
          <5>1. EntryOK(cache[op], base[op]) /\ old = cache[op]
            BY <4>2 DEF FlagsOK, EmplacedEntry
          <5>2. ow \/ cache[op].coin = NoCoin
            BY <1>2, <4>2 DEF CoinAt
          <5> QED BY <5>1, <5>2 DEF EntryOK, DIRTY, FRESH
        <4> QED BY <4>1, <4>2
      <3> QED BY <3>1, <3>2 DEF EntryOK
    <2>5. FlagsOK(new, base)
      BY <2>2, <2>3, <2>4 DEF FlagsOK
    <2>6. \A p \in Outpoints : CoinAt(new, base, p) =
                                 IF p = op THEN coin ELSE CoinAt(cache, base, p)
      <3> TAKE p \in Outpoints
      <3>1. CASE p = op
        BY <1>1, <2>2, <3>1 DEF CoinAt
      <3>2. CASE p # op
        BY <2>3, <3>2 DEF CoinAt
      <3> QED BY <3>1, <3>2
    <2>7. Represents(new, base) = [Represents(cache, base) EXCEPT ![op] = coin]
      BY <2>6, Zenon DEF Represents
    <2> QED BY <1>3, <1>5, <2>2, <2>5, <2>7
  <1> QED BY <1>4, <1>5

\* SpendCoin (coins.cpp:100), on a cache in which the outpoint was fetched,
\* removes the coin from what the cache represents.
LEMMA SpendCoinCorrect ==
  ASSUME NEW cache \in CoinsMap, NEW base \in UtxoSet, NEW op \in Outpoints,
         FlagsOK(cache, base),
         cache[op] = NoEntry => base[op] = NoCoin
  PROVE  /\ SpendCoin(cache, op) \in CoinsMap
         /\ FlagsOK(SpendCoin(cache, op), base)
         /\ Represents(SpendCoin(cache, op), base)
              = [Represents(cache, base) EXCEPT ![op] = NoCoin]
  <1> DEFINE new == SpendCoin(cache, op)
             pruned == [coin |-> NoCoin, flags |-> cache[op].flags \cup {DIRTY}]
  <1>1. CASE cache[op] = NoEntry
    <2>1. new = cache
      BY <1>1 DEF SpendCoin
    <2>2. \A p \in Outpoints : CoinAt(cache, base, p) =
                                 IF p = op THEN NoCoin ELSE CoinAt(cache, base, p)
      BY <1>1 DEF CoinAt
    <2>3. Represents(cache, base) = [Represents(cache, base) EXCEPT ![op] = NoCoin]
      BY <2>2, Zenon DEF Represents
    <2> QED BY <2>1, <2>3
  <1>2. CASE cache[op] # NoEntry /\ FRESH \in cache[op].flags
    <2>1. new = [cache EXCEPT ![op] = NoEntry]
      BY <1>2 DEF SpendCoin
    <2>2. new \in CoinsMap /\ new[op] = NoEntry
      BY <2>1 DEF CoinsMap
    <2>3. \A p \in Outpoints : p # op => new[p] = cache[p]
      BY <2>1 DEF CoinsMap
    <2>4. FlagsOK(new, base)
      BY <2>2, <2>3 DEF FlagsOK
    <2>5. base[op] = NoCoin
      BY <1>2 DEF FlagsOK, EntryOK
    <2>6. \A p \in Outpoints : CoinAt(new, base, p) =
                                 IF p = op THEN NoCoin ELSE CoinAt(cache, base, p)
      <3> TAKE p \in Outpoints
      <3>1. CASE p = op
        BY <2>2, <2>5, <3>1 DEF CoinAt
      <3>2. CASE p # op
        BY <2>3, <3>2 DEF CoinAt
      <3> QED BY <3>1, <3>2
    <2>7. Represents(new, base) = [Represents(cache, base) EXCEPT ![op] = NoCoin]
      BY <2>6, Zenon DEF Represents
    <2> QED BY <2>2, <2>4, <2>7
  <1>3. CASE cache[op] # NoEntry /\ FRESH \notin cache[op].flags
    <2>0. pruned \in CacheEntry /\ pruned # NoEntry
      BY <1>3, NoEntryAssumption DEF CoinsMap, CacheEntry, MaybeCoin, DIRTY, FRESH
    <2>1. new = [cache EXCEPT ![op] = pruned]
      BY <1>3 DEF SpendCoin
    <2>2. new \in CoinsMap /\ new[op] = pruned
      BY <2>0, <2>1 DEF CoinsMap
    <2>3. \A p \in Outpoints : p # op => new[p] = cache[p]
      BY <2>1 DEF CoinsMap
    <2>4. EntryOK(pruned, base[op])
      BY <1>3 DEF EntryOK, DIRTY, FRESH
    <2>5. FlagsOK(new, base)
      BY <2>2, <2>3, <2>4 DEF FlagsOK
    <2>6. \A p \in Outpoints : CoinAt(new, base, p) =
                                 IF p = op THEN NoCoin ELSE CoinAt(cache, base, p)
      <3> TAKE p \in Outpoints
      <3>1. CASE p = op
        BY <2>0, <2>2, <3>1 DEF CoinAt
      <3>2. CASE p # op
        BY <2>3, <3>2 DEF CoinAt
      <3> QED BY <3>1, <3>2
    <2>7. Represents(new, base) = [Represents(cache, base) EXCEPT ![op] = NoCoin]
      BY <2>6 DEF Represents
    <2> QED BY <2>2, <2>5, <2>7
  <1> QED BY <1>1, <1>2, <1>3

\* CCoinsViewCache::BatchWrite (coins.cpp:147) makes the parent represent what
\* the child did, keeps the parent's contract with its own base, and finds no
\* FRESH flag misapplied.
LEMMA BatchWriteCorrect ==
  ASSUME NEW child \in CoinsMap, NEW parent \in CoinsMap, NEW base \in UtxoSet,
         FlagsOK(parent, base),
         FlagsOK(child, Represents(parent, base))
  PROVE  /\ BatchWrite(child, parent) \in CoinsMap
         /\ FlagsOK(BatchWrite(child, parent), base)
         /\ ~BatchWriteThrows(child, parent)
         /\ Represents(BatchWrite(child, parent), base)
              = Represents(child, Represents(parent, base))
  <1> DEFINE new == BatchWrite(child, parent)
             mid == Represents(parent, base)
  <1>1. mid \in UtxoSet /\ \A op \in Outpoints : mid[op] = CoinAt(parent, base, op)
    BY RepresentsType
  <1>2. ASSUME NEW op \in Outpoints
        PROVE  /\ new[op] \in CacheEntry \cup {NoEntry}
               /\ new[op] # NoEntry => EntryOK(new[op], base[op])
               /\ CoinAt(new, base, op) = CoinAt(child, mid, op)
               /\ ~(/\ child[op] # NoEntry
                    /\ DIRTY \in child[op].flags
                    /\ FRESH \in child[op].flags
                    /\ parent[op] # NoEntry
                    /\ parent[op].coin # NoCoin)
    <2> DEFINE c == child[op]
               p == parent[op]
    <2>1. new[op] = BatchWriteEntry(c, p)
      BY DEF BatchWrite
    <2>2. /\ c # NoEntry => c \in CacheEntry /\ EntryOK(c, mid[op])
          /\ p # NoEntry => p \in CacheEntry /\ EntryOK(p, base[op])
          /\ mid[op] = IF p = NoEntry THEN base[op] ELSE p.coin
      BY <1>1 DEF CoinsMap, FlagsOK, CoinAt
    <2>3. CoinAt(child, mid, op) = IF c = NoEntry THEN mid[op] ELSE c.coin
      BY DEF CoinAt
    <2>4. CoinAt(new, base, op) = IF new[op] = NoEntry THEN base[op] ELSE new[op].coin
      BY DEF CoinAt
    <2> HIDE DEF new, mid, c, p
    <2>5. ASSUME NEW coin \in MaybeCoin, NEW flags \in SUBSET {DIRTY, FRESH}
          PROVE  /\ [coin |-> coin, flags |-> flags] \in CacheEntry
                 /\ [coin |-> coin, flags |-> flags] # NoEntry
      BY NoEntryAssumption DEF CacheEntry
    <2>6. CASE c = NoEntry \/ (c # NoEntry /\ DIRTY \notin c.flags)
      <3>1. new[op] = p
        BY <2>1, <2>6 DEF BatchWriteEntry
      <3>2. CoinAt(child, mid, op) = mid[op]
        BY <2>2, <2>3, <2>6 DEF EntryOK
      <3> QED BY <2>2, <2>4, <2>6, <3>1, <3>2 DEF c, p, CoinsMap
    <2>7. CASE c # NoEntry /\ DIRTY \in c.flags /\ p = NoEntry
      <3>1. ~(FRESH \in c.flags /\ c.coin = NoCoin)
        BY <2>2, <2>7 DEF EntryOK
      <3>2. new[op] = [coin |-> c.coin,
                       flags |-> {DIRTY} \cup (IF FRESH \in c.flags THEN {FRESH} ELSE {})]
        BY <2>1, <2>7, <3>1 DEF BatchWriteEntry
      <3>3. new[op] \in CacheEntry /\ new[op] # NoEntry
        BY <2>2, <2>5, <2>7, <3>2 DEF CacheEntry
      <3>4. EntryOK(new[op], base[op])
        BY <2>2, <2>7, <3>1, <3>2 DEF EntryOK, DIRTY, FRESH
      <3> QED BY <2>3, <2>4, <2>7, <3>2, <3>3, <3>4 DEF p
    <2>8. CASE c # NoEntry /\ DIRTY \in c.flags /\ p # NoEntry
      <3>1. FRESH \in c.flags => p.coin = NoCoin
        BY <2>2, <2>8 DEF EntryOK
      <3>2. CASE FRESH \in p.flags /\ c.coin = NoCoin
        <4>1. new[op] = NoEntry
          BY <2>1, <2>8, <3>2 DEF BatchWriteEntry
        <4>2. base[op] = NoCoin
          BY <2>2, <2>8, <3>2 DEF EntryOK
        <4> QED BY <2>3, <2>4, <2>8, <3>1, <3>2, <4>1, <4>2 DEF c, p
      <3>3. CASE ~(FRESH \in p.flags /\ c.coin = NoCoin)
        <4>1. new[op] = [coin |-> c.coin, flags |-> p.flags \cup {DIRTY}]
          BY <2>1, <2>8, <3>3 DEF BatchWriteEntry
        <4>2. p.flags \cup {DIRTY} \in SUBSET {DIRTY, FRESH}
          BY <2>2, <2>8 DEF CacheEntry
        <4>3. new[op] \in CacheEntry /\ new[op] # NoEntry
          BY <2>2, <2>5, <2>8, <4>1, <4>2 DEF CacheEntry
        <4>4. EntryOK(new[op], base[op])
          BY <2>2, <2>8, <3>3, <4>1 DEF EntryOK, DIRTY, FRESH
        <4> QED BY <2>3, <2>4, <2>8, <3>1, <4>1, <4>3, <4>4 DEF c, p
      <3> QED BY <3>2, <3>3
    <2> QED BY <2>6, <2>7, <2>8
  <1>3. new \in CoinsMap
    BY <1>2, Zenon DEF CoinsMap, BatchWrite
  <1>4. FlagsOK(new, base)
    BY <1>2 DEF FlagsOK
  <1>5. ~BatchWriteThrows(child, parent)
    BY <1>2 DEF BatchWriteThrows
  <1>6. Represents(new, base) = Represents(child, mid)
    BY <1>2, Zenon DEF Represents
  <1> QED BY <1>3, <1>4, <1>5, <1>6

\* CCoinsViewDB::BatchWrite (txdb.cpp:100) of a cache over the database makes
\* the database hold what the cache represented: no change was left unmarked.
LEMMA DBBatchWriteCorrect ==
  ASSUME NEW cache \in CoinsMap, NEW base \in UtxoSet, FlagsOK(cache, base)
  PROVE  DBBatchWrite(cache, base) = Represents(cache, base)
  BY DEF DBBatchWrite, Represents, CoinAt, FlagsOK, EntryOK

-----------------------------------------------------------------------------
\* Everything a lookup through the view does (FetchCoin in the view, and in
\* pcoinsTip when the view misses): both caches keep their contracts, and
\* neither the tip's nor the view's coins change.
LEMMA FetchThroughCorrect ==
  ASSUME TypeOK, FlagContract, NEW op \in Outpoints
  PROVE  /\ FetchedTip(op) \in CoinsMap
         /\ FlagsOK(FetchedTip(op), db)
         /\ Represents(FetchedTip(op), db) = TipCoins
         /\ FetchedView(op) \in CoinsMap
         /\ FlagsOK(FetchedView(op), TipCoins)
         /\ Represents(FetchedView(op), TipCoins) = ViewCoins
         /\ FetchedView(op)[op] = NoEntry => TipCoins[op] = NoCoin
  <1>1. db \in UtxoSet /\ tipCache \in CoinsMap /\ viewCache \in CoinsMap
    BY DEF TypeOK, UtxoSet
  <1>2. TipCoins \in UtxoSet
    BY <1>1, RepresentsType DEF TipCoins
  <1>3. FlagsOK(tipCache, db) /\ FlagsOK(viewCache, TipCoins)
    BY DEF FlagContract
  <1>4. /\ FetchedTip(op) \in CoinsMap
        /\ FlagsOK(FetchedTip(op), db)
        /\ Represents(FetchedTip(op), db) = TipCoins
    BY <1>1, <1>3, FetchCoinCorrect DEF FetchedTip, TipCoins
  <1>5. /\ FetchedView(op) \in CoinsMap
        /\ FlagsOK(FetchedView(op), TipCoins)
        /\ Represents(FetchedView(op), TipCoins) = ViewCoins
        /\ FetchedView(op)[op] = NoEntry => TipCoins[op] = NoCoin
    BY <1>1, <1>2, <1>3, FetchCoinCorrect DEF FetchedView, ViewCoins
  <1> QED BY <1>4, <1>5

\* An empty cache keeps the contract over any base and adds nothing to it.
LEMMA EmptyCacheCorrect ==
  ASSUME NEW base \in UtxoSet
  PROVE  EmptyMap \in CoinsMap /\ FlagsOK(EmptyMap, base) /\ Represents(EmptyMap, base) = base
  BY DEF EmptyMap, CoinsMap, FlagsOK, Represents, CoinAt, UtxoSet

\* The start of a node satisfies the invariant.
LEMMA InductiveInit == Init => Inductive
  <1> SUFFICES ASSUME Init PROVE Inductive
    OBVIOUS
  <1>1. db \in UtxoSet
    BY DEF Init, UtxoSet, MaybeCoin
  <1>2. /\ FlagsOK(EmptyMap, db) /\ EmptyMap \in CoinsMap
        /\ TipCoins = db
    BY <1>1, EmptyCacheCorrect DEF Init, TipCoins
  <1> QED BY <1>1, <1>2, Zenon DEF Init, Inductive, TypeOK, FlagContract, NoLogicError,
                            ClosedViewIsEmpty, UtxoSet

\* What each step of the stack does to the coins and best blocks its callers
\* see, and that it keeps the invariant.
LEMMA StepCorrect ==
  ASSUME Inductive, Next
  PROVE  Inductive' /\ (Utxo!Next \/ UNCHANGED Utxo!absVars)
  <1> USE DEF UtxoSet
  <1>1. /\ db \in UtxoSet /\ tipCache \in CoinsMap /\ viewCache \in CoinsMap
        /\ dbBest \in Blocks \cup {NullHash} /\ tipHash \in Blocks \cup {NullHash}
        /\ viewHash \in Blocks \cup {NullHash} /\ open \in BOOLEAN
    BY DEF Inductive, TypeOK
  <1>2. FlagsOK(tipCache, db) /\ FlagsOK(viewCache, TipCoins)
    BY DEF Inductive, FlagContract
  <1>3. logicError = FALSE /\ (~open => viewCache = EmptyMap /\ viewHash = NullHash)
    BY DEF Inductive, TypeOK, NoLogicError, ClosedViewIsEmpty
  <1>4. TipCoins \in UtxoSet
    BY <1>1, RepresentsType DEF TipCoins
  <1>5. ~open => ViewCoins = TipCoins /\ ViewBest = TipBest
    BY <1>3, <1>4, EmptyCacheCorrect DEF ViewCoins, ViewBest, BestBlock
  <1>6. /\ TipCoins' = Represents(tipCache', db')
        /\ ViewCoins' = Represents(viewCache', TipCoins')
        /\ TipBest' = BestBlock(tipHash', dbBest')
        /\ ViewBest' = BestBlock(viewHash', TipBest')
    BY DEF TipCoins, ViewCoins, TipBest, ViewBest, BestBlock, Represents, CoinAt
  <1>7. /\ TipBest \in Blocks \cup {NullHash}
        /\ ViewBest \in Blocks \cup {NullHash}
    BY <1>1 DEF TipBest, ViewBest, BestBlock
  <1>8. TypeOK /\ FlagContract
    BY DEF Inductive
  <1>9. Inductive' <=>
          /\ db' \in UtxoSet /\ tipCache' \in CoinsMap /\ viewCache' \in CoinsMap
          /\ dbBest' \in Blocks \cup {NullHash} /\ tipHash' \in Blocks \cup {NullHash}
          /\ viewHash' \in Blocks \cup {NullHash} /\ open' \in BOOLEAN
          /\ FlagsOK(tipCache', db') /\ FlagsOK(viewCache', TipCoins')
          /\ logicError' = FALSE
          /\ ~open' => viewCache' = EmptyMap /\ viewHash' = NullHash
    BY Zenon DEF Inductive, TypeOK, FlagContract, NoLogicError, ClosedViewIsEmpty, FlagsOK,
           EmptyMap
  <1> HIDE DEF UtxoSet
  <1>a. CASE OpenView
    <2>1. FlagsOK(viewCache', TipCoins') /\ TipCoins' = TipCoins /\ ViewCoins' = TipCoins
          /\ viewCache' \in CoinsMap
      BY <1>4, <1>6, <1>a, EmptyCacheCorrect DEF OpenView, TipCoins
    <2>2. TipBest' = TipBest /\ ViewBest' = TipBest
      BY <1>6, <1>a DEF OpenView, TipBest, BestBlock
    <2>3. Utxo!Open
      BY <1>a, <2>1, <2>2 DEF OpenView, Utxo!Open
    <2>4. Inductive'
      BY <1>1, <1>2, <1>3, <1>9, <1>a, <2>1 DEF OpenView
    <2> QED BY <2>3, <2>4 DEF Utxo!Next
  <1>b. CASE GetBestBlock
    <2>1. TipCoins' = TipCoins /\ ViewCoins' = ViewCoins
      BY <1>6, <1>b DEF GetBestBlock, TipCoins, ViewCoins
    <2>2. TipBest' = TipBest /\ ViewBest' = ViewBest
      BY <1>6, <1>b DEF GetBestBlock, TipBest, ViewBest, BestBlock
    <2>3. UNCHANGED Utxo!absVars
      BY <1>b, <2>1, <2>2 DEF GetBestBlock, Utxo!absVars
    <2>4. Inductive'
      BY <1>1, <1>2, <1>3, <1>7, <1>9, <1>b, <2>1 DEF GetBestBlock
    <2> QED BY <2>3, <2>4
  <1>c. CASE FlushView
    <2>1. /\ tipCache' = BatchWrite(viewCache, tipCache) /\ db' = db
          /\ viewCache' = EmptyMap
          /\ logicError' = BatchWriteThrows(viewCache, tipCache)
      BY <1>c DEF FlushView
    <2>2. /\ tipCache' \in CoinsMap /\ FlagsOK(tipCache', db')
          /\ ~BatchWriteThrows(viewCache, tipCache)
          /\ TipCoins' = ViewCoins
      BY <1>1, <1>2, <1>6, <2>1, BatchWriteCorrect DEF TipCoins, ViewCoins
    <2>3. ViewCoins \in UtxoSet
      BY <1>1, <1>4, RepresentsType DEF ViewCoins
    <2>4. viewCache' \in CoinsMap /\ FlagsOK(viewCache', TipCoins') /\ ViewCoins' = ViewCoins
      BY <1>6, <2>1, <2>2, <2>3, EmptyCacheCorrect
    <2>5. TipBest' = ViewBest /\ ViewBest' = ViewBest
      BY <1>6, <1>c DEF FlushView, ViewBest, BestBlock
    <2>6. Utxo!Commit
      BY <1>c, <2>2, <2>4, <2>5 DEF FlushView, Utxo!Commit
    <2>7. logicError' = FALSE
      BY <2>1, <2>2 DEF BatchWriteThrows
    <2>8. Inductive'
      BY <1>1, <1>9, <1>c, <2>2, <2>4, <2>7, Zenon DEF FlushView
    <2> QED BY <2>6, <2>8 DEF Utxo!Next
  <1>d. CASE DropView
    <2>1. FlagsOK(viewCache', TipCoins') /\ TipCoins' = TipCoins /\ ViewCoins' = TipCoins
          /\ viewCache' \in CoinsMap
      BY <1>4, <1>6, <1>d, EmptyCacheCorrect DEF DropView, TipCoins
    <2>2. TipBest' = TipBest /\ ViewBest' = TipBest
      BY <1>6, <1>d DEF DropView, TipBest, BestBlock
    <2>3. Utxo!Forget
      BY <1>d, <2>1, <2>2 DEF DropView, Utxo!Forget
    <2>4. NullHash \in Blocks \cup {NullHash} /\ open' = FALSE /\ viewHash' = NullHash
          /\ viewCache' = EmptyMap /\ logicError' = FALSE
      BY <1>3, <1>d DEF DropView
    <2>5. Inductive'
      BY <1>1, <1>2, <1>9, <1>d, <2>1, <2>4, Zenon DEF DropView
    <2> QED BY <2>3, <2>5 DEF Utxo!Next
  <1>e. CASE FlushTip
    <2>1. db' = TipCoins
      BY <1>1, <1>2, <1>e, DBBatchWriteCorrect DEF FlushTip, TipCoins
    <2>2. tipCache' \in CoinsMap /\ FlagsOK(tipCache', db') /\ TipCoins' = TipCoins
      BY <1>4, <1>6, <1>e, <2>1, EmptyCacheCorrect DEF FlushTip
    <2>3. ViewCoins' = ViewCoins
      BY <1>6, <1>e, <2>2 DEF FlushTip, ViewCoins
    <2>4. dbBest' = TipBest /\ TipBest' = TipBest /\ ViewBest' = ViewBest
      BY <1>6, <1>e DEF FlushTip, ViewBest, BestBlock
    <2>5. Utxo!Sync
      BY <1>e, <2>1, <2>2, <2>3, <2>4 DEF FlushTip, Utxo!Sync
    <2>6. Inductive'
      BY <1>1, <1>2, <1>3, <1>4, <1>7, <1>9, <1>e, <2>1, <2>2 DEF FlushTip
    <2> QED BY <2>5, <2>6 DEF Utxo!Next
  <1>f. ASSUME NEW b \in Blocks, SetBestBlock(b)
        PROVE  Inductive' /\ (Utxo!Next \/ UNCHANGED Utxo!absVars)
    <2>1. TipCoins' = TipCoins /\ ViewCoins' = ViewCoins /\ TipBest' = TipBest
      BY <1>6, <1>f DEF SetBestBlock, TipCoins, ViewCoins, TipBest
    <2>2. ViewBest' = b
      BY <1>6, <1>f, CoinsAssumption DEF SetBestBlock, BestBlock
    <2>3. Utxo!SetBest(b)
      BY <1>f, <2>1, <2>2 DEF SetBestBlock, Utxo!SetBest
    <2>4. Inductive'
      BY <1>1, <1>2, <1>3, <1>9, <1>f, <2>1 DEF SetBestBlock
    <2> QED BY <2>3, <2>4 DEF Utxo!Next
  <1>g. ASSUME NEW op \in Outpoints, ReadView(op)
        PROVE  Inductive' /\ (Utxo!Next \/ UNCHANGED Utxo!absVars)
    <2>1. /\ tipCache' \in CoinsMap /\ FlagsOK(tipCache', db') /\ TipCoins' = TipCoins
          /\ viewCache' \in CoinsMap /\ FlagsOK(viewCache', TipCoins')
          /\ ViewCoins' = ViewCoins
      BY <1>6, <1>8, <1>g, FetchThroughCorrect DEF ReadView
    <2>2. TipBest' = TipBest /\ ViewBest' = ViewBest
      BY <1>6, <1>g DEF ReadView, TipBest, ViewBest
    <2>3. UNCHANGED Utxo!absVars
      BY <1>g, <2>1, <2>2 DEF ReadView, Utxo!absVars
    <2>4. Inductive'
      BY <1>1, <1>3, <1>9, <1>g, <2>1 DEF ReadView
    <2> QED BY <2>3, <2>4
  <1>h. ASSUME NEW op \in Outpoints, ReadTip(op)
        PROVE  Inductive' /\ (Utxo!Next \/ UNCHANGED Utxo!absVars)
    <2>1. tipCache' \in CoinsMap /\ FlagsOK(tipCache', db') /\ TipCoins' = TipCoins
      BY <1>1, <1>2, <1>6, <1>h, FetchCoinCorrect DEF ReadTip, TipCoins
    <2>2. ViewCoins' = ViewCoins /\ TipBest' = TipBest /\ ViewBest' = ViewBest
      BY <1>6, <1>h, <2>1 DEF ReadTip, ViewCoins, TipBest, ViewBest
    <2>3. UNCHANGED Utxo!absVars
      BY <1>h, <2>1, <2>2 DEF ReadTip, Utxo!absVars
    <2>4. Inductive'
      BY <1>1, <1>2, <1>3, <1>9, <1>h, <2>1 DEF ReadTip
    <2> QED BY <2>3, <2>4
  <1>i. ASSUME NEW op \in Outpoints, Spend(op)
        PROVE  Inductive' /\ (Utxo!Next \/ UNCHANGED Utxo!absVars)
    <2>1. /\ tipCache' \in CoinsMap /\ FlagsOK(tipCache', db') /\ TipCoins' = TipCoins
      BY <1>6, <1>8, <1>i, FetchThroughCorrect DEF Spend
    <2>2. /\ FetchedView(op) \in CoinsMap /\ FlagsOK(FetchedView(op), TipCoins)
          /\ Represents(FetchedView(op), TipCoins) = ViewCoins
          /\ FetchedView(op)[op] = NoEntry => TipCoins[op] = NoCoin
      BY <1>8, FetchThroughCorrect
    <2>3. viewCache' = SpendCoin(FetchedView(op), op)
      BY <1>i DEF Spend
    <2>4. /\ viewCache' \in CoinsMap /\ FlagsOK(viewCache', TipCoins')
          /\ ViewCoins' = [ViewCoins EXCEPT ![op] = NoCoin]
      BY <1>4, <1>6, <2>1, <2>2, <2>3, SpendCoinCorrect
    <2>5. TipBest' = TipBest /\ ViewBest' = ViewBest
      BY <1>6, <1>i DEF Spend, TipBest, ViewBest
    <2>6. Utxo!Spend(op)
      BY <1>i, <2>1, <2>4, <2>5 DEF Spend, Utxo!Spend
    <2>7. Inductive'
      BY <1>1, <1>3, <1>9, <1>i, <2>1, <2>4 DEF Spend
    <2> QED BY <2>6, <2>7 DEF Utxo!Next
  <1>j. ASSUME NEW op \in Outpoints, Uncache(op)
        PROVE  Inductive' /\ (Utxo!Next \/ UNCHANGED Utxo!absVars)
    <2>1. /\ tipCache' = [tipCache EXCEPT ![op] = NoEntry] /\ db' = db
          /\ tipCache[op] # NoEntry /\ tipCache[op].flags = {}
      BY <1>j DEF Uncache
    <2>2. tipCache' \in CoinsMap /\ tipCache'[op] = NoEntry
      BY <1>1, <2>1 DEF CoinsMap
    <2>3. \A q \in Outpoints : q # op => tipCache'[q] = tipCache[q]
      BY <1>1, <2>1 DEF CoinsMap
    <2>4. FlagsOK(tipCache', db')
      BY <1>2, <2>1, <2>2, <2>3 DEF FlagsOK
    <2>5. db[op] = tipCache[op].coin
      BY <1>2, <2>1 DEF FlagsOK, EntryOK
    <2>6. \A q \in Outpoints : CoinAt(tipCache', db', q) = CoinAt(tipCache, db, q)
      <3> TAKE q \in Outpoints
      <3>1. CASE q = op
        BY <2>1, <2>2, <2>5, <3>1 DEF CoinAt
      <3>2. CASE q # op
        BY <2>1, <2>3, <3>2 DEF CoinAt
      <3> QED BY <3>1, <3>2
    <2>7. TipCoins' = TipCoins
      BY <1>6, <2>6 DEF TipCoins, Represents
    <2>8. ViewCoins' = ViewCoins /\ TipBest' = TipBest /\ ViewBest' = ViewBest
      BY <1>6, <1>j, <2>7 DEF Uncache, ViewCoins, TipBest, ViewBest
    <2>9. UNCHANGED Utxo!absVars
      BY <1>j, <2>7, <2>8 DEF Uncache, Utxo!absVars
    <2>10. Inductive'
      BY <1>1, <1>2, <1>3, <1>9, <1>j, <2>2, <2>4, <2>7 DEF Uncache
    <2> QED BY <2>9, <2>10
  <1>k. ASSUME NEW op \in Outpoints, NEW coin \in Coins, AddCheckedCoin(op, coin)
        PROVE  Inductive' /\ (Utxo!Next \/ UNCHANGED Utxo!absVars)
    <2> DEFINE have == ViewCoins[op] # NoCoin
    <2>1. tipCache' \in CoinsMap /\ FlagsOK(tipCache', db') /\ TipCoins' = TipCoins
      BY <1>6, <1>8, <1>k, FetchThroughCorrect DEF AddCheckedCoin
    <2>2. /\ FetchedView(op) \in CoinsMap /\ FlagsOK(FetchedView(op), TipCoins)
          /\ Represents(FetchedView(op), TipCoins) = ViewCoins
      BY <1>8, FetchThroughCorrect
    <2>3. /\ viewCache' = AddCoin(FetchedView(op), op, coin, have)
          /\ logicError' = AddCoinThrows(FetchedView(op), op, coin, have)
      BY <1>k DEF AddCheckedCoin
    <2>4. have \/ Represents(FetchedView(op), TipCoins)[op] = NoCoin
      BY <2>2
    <2>5. have \in BOOLEAN
      OBVIOUS
    <2> HIDE DEF have
    <2>6. /\ viewCache' \in CoinsMap /\ FlagsOK(viewCache', TipCoins')
          /\ ~AddCoinThrows(FetchedView(op), op, coin, have)
          /\ ViewCoins' = IF coin \in Unspendable THEN ViewCoins
                          ELSE [ViewCoins EXCEPT ![op] = coin]
      BY <1>4, <1>6, <2>1, <2>2, <2>3, <2>4, <2>5, AddCoinCorrect
    <2>7. TipBest' = TipBest /\ ViewBest' = ViewBest
      BY <1>6, <1>k DEF AddCheckedCoin, TipBest, ViewBest
    <2>8. Utxo!Add(op, coin)
      BY <1>k, <2>1, <2>6, <2>7 DEF AddCheckedCoin, Utxo!Add
    <2>9. logicError' = FALSE
      BY <2>3, <2>6 DEF AddCoinThrows
    <2>10. Inductive'
      BY <1>1, <1>3, <1>9, <1>k, <2>1, <2>6, <2>9 DEF AddCheckedCoin
    <2> QED BY <2>8, <2>10 DEF Utxo!Next
  <1>l. ASSUME NEW op \in Outpoints, NEW coin \in Coins, NEW cb \in BOOLEAN,
               AddNewCoin(op, coin, cb)
        PROVE  Inductive' /\ (Utxo!Next \/ UNCHANGED Utxo!absVars)
    <2>1. TipCoins' = TipCoins /\ TipBest' = TipBest /\ ViewBest' = ViewBest
      BY <1>6, <1>l DEF AddNewCoin, TipCoins, TipBest, ViewBest
    <2>2. /\ viewCache' = AddCoin(viewCache, op, coin, cb)
          /\ logicError' = AddCoinThrows(viewCache, op, coin, cb)
          /\ cb \/ Represents(viewCache, TipCoins)[op] = NoCoin
      BY <1>l DEF AddNewCoin, ViewCoins
    <2>3. /\ viewCache' \in CoinsMap /\ FlagsOK(viewCache', TipCoins')
          /\ ~AddCoinThrows(viewCache, op, coin, cb)
          /\ ViewCoins' = IF coin \in Unspendable THEN ViewCoins
                          ELSE [ViewCoins EXCEPT ![op] = coin]
      BY <1>1, <1>2, <1>4, <1>6, <2>1, <2>2, AddCoinCorrect DEF ViewCoins
    <2>4. Utxo!Add(op, coin)
      BY <1>l, <2>1, <2>3 DEF AddNewCoin, Utxo!Add
    <2>5. logicError' = FALSE
      BY <2>2, <2>3 DEF AddCoinThrows
    <2>6. Inductive'
      BY <1>1, <1>2, <1>3, <1>9, <1>l, <2>1, <2>3, <2>5 DEF AddNewCoin
    <2> QED BY <2>4, <2>6 DEF Utxo!Next
  <1> QED BY <1>a, <1>b, <1>c, <1>d, <1>e, <1>f, <1>g, <1>h, <1>i, <1>j, <1>k, <1>l
          DEF Next

-----------------------------------------------------------------------------
\* No step of the node, nor a step of the rest of the system, breaks the
\* invariant; and every step is one the callers' view of the stack allows.
LEMMA NextCorrect ==
  Inductive /\ [Next]_vars => Inductive' /\ [Utxo!Next]_(Utxo!absVars)
  <1> SUFFICES ASSUME Inductive, [Next]_vars
               PROVE  Inductive' /\ (Utxo!Next \/ UNCHANGED Utxo!absVars)
    OBVIOUS
  <1>1. CASE Next
    BY <1>1, StepCorrect
  <1>2. CASE UNCHANGED vars
    <2>1. Inductive'
      BY <1>2 DEF vars, Inductive, TypeOK, FlagContract, NoLogicError,
                  ClosedViewIsEmpty, FlagsOK, TipCoins, Represents, CoinAt
    <2>2. UNCHANGED Utxo!absVars
      BY <1>2 DEF vars, Utxo!absVars, TipCoins, ViewCoins, TipBest, ViewBest,
                  Represents, CoinAt, BestBlock
    <2> QED BY <2>1, <2>2
  <1> QED BY <1>1, <1>2

\* Type correctness of the stack of coin views.
THEOREM TypeCorrect == Spec => []TypeOK
  <1>1. Inductive => TypeOK
    BY DEF Inductive
  <1> QED BY <1>1, InductiveInit, NextCorrect, PTL DEF Spec

\* The DIRTY/FRESH contract of coins.h holds in both caches for ever.
THEOREM FlagContractHolds == Spec => []FlagContract
  <1>1. Inductive => FlagContract
    BY DEF Inductive
  <1> QED BY <1>1, InductiveInit, NextCorrect, PTL DEF Spec

\* Neither std::logic_error of coins.cpp is ever thrown.
THEOREM NeverThrows == Spec => []NoLogicError
  <1>1. Inductive => NoLogicError
    BY DEF Inductive
  <1> QED BY <1>1, InductiveInit, NextCorrect, PTL DEF Spec

\* The cached stack implements three plain unspent-output sets: lookups,
\* Uncache and the flags are invisible, a flushed view arrives whole.
THEOREM CacheRefinesUtxoStack == Spec => ImplementsUtxoStack
  <1>1. Init => Utxo!Init
    BY EmptyCacheCorrect DEF Init, Utxo!Init, TipCoins, ViewCoins, TipBest, ViewBest,
       BestBlock, UtxoSet, MaybeCoin
  <1> QED BY <1>1, InductiveInit, NextCorrect, PTL DEF Spec, ImplementsUtxoStack, Utxo!Spec

-----------------------------------------------------------------------------
(***************************************************************************)
(* The callback queue                                                      *)
(***************************************************************************)

Started == added - Len(pending)
InCallback == {w \in Runners : run[w] = "callback"}

\* The callbacks that wait are the last ones added, in order
Numbered ==
  /\ pending \in Seq(Nat) /\ added \in Nat /\ Len(pending) <= added
  /\ \A i \in 1..Len(pending) : pending[i] = Started + i

\* Whoever is in ProcessQueue has set m_are_callbacks_running, and is alone there
OneRuns ==
  /\ running \in BOOLEAN
  /\ DOMAIN run = Runners /\ DOMAIN current = Runners
  /\ \A w \in Runners : run[w] \in {"callback", "ran"} => running
  /\ \A v, w \in Runners :
       run[v] \in {"callback", "ran"} /\ run[w] \in {"callback", "ran"} => v = w

\* All callbacks that have begun have ended, except the one that is running
AllButOneEnded ==
  /\ \A w \in InCallback : current[w] = Started /\ Started > 0 /\ done = 1..Started - 1
  /\ InCallback = {} => done = 1..Started

SerialInv == Numbered /\ OneRuns /\ AllButOneEnded

\* Main services the queue only when the scheduler threads have been joined
Joined ==
  /\ DOMAIN run = Runners
  /\ phase # "emptying" => run[Main] = "off"
  /\ phase \in {"emptying", "flushing", "done"} => \A w \in Workers : run[w] = "off"

-----------------------------------------------------------------------------
(***************************************************************************)
(* Four kinds of steps, as far as the order of the callbacks is concerned. *)
(***************************************************************************)

Busy == {"callback", "ran"}

\* A thread moves to a place outside ProcessQueue, or nowhere
MovesOutside ==
  /\ DOMAIN run' = DOMAIN run
  /\ \A w \in Runners : run'[w] # run[w] => run[w] \notin Busy /\ run'[w] \notin Busy

\* Nothing that the order depends on changes
Irrelevant ==
  MovesOutside /\ UNCHANGED <<pending, running, current, added, done>>

\* Steps of the scheduler, of the users and of Shutdown that touch neither the
\* queue nor a thread inside ProcessQueue keep the invariant.
LEMMA IrrelevantKeeps ==
  ASSUME SerialInv, Irrelevant
  PROVE  SerialInv' /\ UNCHANGED <<added, Started, done>>
  <1>1. Started' = Started /\ Numbered'
    BY DEF SerialInv, Numbered, Started, Irrelevant
  <1>2. InCallback' = InCallback
    BY DEF InCallback, Irrelevant, MovesOutside, Busy
  <1>3. OneRuns'
    BY DEF SerialInv, OneRuns, Irrelevant, MovesOutside, Busy
  <1>4. AllButOneEnded'
    BY <1>1, <1>2 DEF SerialInv, AllButOneEnded, Irrelevant
  <1> QED BY <1>1, <1>3, <1>4 DEF SerialInv, Irrelevant

\* AddToProcessQueue (scheduler.cpp) keeps the invariant and is an Add of the
\* abstract queue, whatever the threads are doing.
LEMMA EnqueueKeeps ==
  ASSUME SerialInv, Enqueue, MovesOutside, UNCHANGED <<running, current, done>>
  PROVE  SerialInv' /\ Serial!Add
  <1>1. /\ pending \in Seq(Nat) /\ added \in Nat /\ Len(pending) \in Nat
        /\ added' = added + 1 /\ pending' = Append(pending, added + 1)
    BY DEF SerialInv, Numbered, Enqueue
  <1>2. Len(pending') = Len(pending) + 1 /\ pending' \in Seq(Nat)
    BY <1>1
  <1>3. Started' = Started
    BY <1>1, <1>2 DEF Started
  <1>4. \A i \in 1..Len(pending') : pending'[i] = Started + i
    <2> TAKE i \in 1..Len(pending')
    <2>1. CASE i <= Len(pending)
      BY <1>1, <1>2, <2>1 DEF SerialInv, Numbered
    <2>2. CASE i = Len(pending) + 1
      BY <1>1, <1>2, <2>2 DEF Started
    <2> QED BY <1>1, <1>2, <2>1, <2>2
  <1>5. Numbered'
    BY <1>1, <1>2, <1>3, <1>4 DEF SerialInv, Numbered
  <1>6. InCallback' = InCallback
    BY DEF InCallback, MovesOutside, Busy
  <1>7. OneRuns'
    BY DEF SerialInv, OneRuns, MovesOutside, Busy
  <1>8. AllButOneEnded'
    BY <1>3, <1>6 DEF SerialInv, AllButOneEnded
  <1> QED BY <1>1, <1>3, <1>5, <1>7, <1>8 DEF SerialInv, Serial!Add, Started

\* ProcessQueue (scheduler.cpp) begins the next callback only when nobody runs
\* one: m_are_callbacks_running, looked at and set in one critical section.
LEMMA ProcessQueueKeeps ==
  ASSUME SerialInv, NEW w \in Runners, ProcessQueue(w)
  PROVE  SerialInv' /\ (Serial!Begin \/ UNCHANGED <<added, Started, done>>)
  <1>1. CASE running \/ pending = <<>>
    <2>1. Irrelevant
      BY <1>1 DEF ProcessQueue, Irrelevant, MovesOutside, SerialInv, OneRuns, Busy, schedVars
    <2> QED BY <2>1, IrrelevantKeeps
  <1>2. CASE ~running /\ pending # <<>>
    <2>1. /\ run[w] = "process" /\ running' = TRUE
          /\ run' = [run EXCEPT ![w] = "callback"]
          /\ current' = [current EXCEPT ![w] = Head(pending)]
          /\ pending' = Tail(pending) /\ added' = added /\ done' = done
      BY <1>2 DEF ProcessQueue
    <2>2. /\ pending \in Seq(Nat) /\ added \in Nat /\ Len(pending) \in Nat
          /\ Len(pending) > 0 /\ Len(pending) <= added
      BY <1>2 DEF SerialInv, Numbered
    <2>3. /\ pending' \in Seq(Nat) /\ Len(pending') = Len(pending) - 1
          /\ \A i \in 1..Len(pending') : pending'[i] = pending[i + 1]
      BY <2>1, <2>2
    <2>4. Started' = Started + 1 /\ Started \in Nat
      BY <2>1, <2>2, <2>3 DEF Started
    <2>5. Numbered'
      BY <2>1, <2>2, <2>3, <2>4 DEF SerialInv, Numbered
    <2>6. \A v \in Runners : run[v] \notin Busy
      BY <1>2 DEF SerialInv, OneRuns, Busy
    <2>7. DOMAIN run = Runners /\ DOMAIN current = Runners
      BY DEF SerialInv, OneRuns
    <2>8. InCallback = {} /\ InCallback' = {w}
      BY <2>1, <2>6, <2>7 DEF InCallback, Busy
    <2>9. OneRuns'
      BY <2>1, <2>6, <2>7 DEF OneRuns, Busy
    <2>10. done = 1..Started
      BY <2>8 DEF SerialInv, AllButOneEnded
    <2>11. current'[w] = Started'
      <3>1. Head(pending) = Started + 1
        BY <2>2 DEF SerialInv, Numbered
      <3> QED BY <2>1, <2>4, <2>7, <3>1
    <2>12. AllButOneEnded'
      BY <2>1, <2>4, <2>8, <2>10, <2>11 DEF AllButOneEnded
    <2>13. Started < added
      BY <2>2 DEF Started
    <2> QED BY <2>1, <2>4, <2>5, <2>9, <2>10, <2>12, <2>13 DEF SerialInv, Serial!Begin, Started
  <1> QED BY <1>1, <1>2

\* The end of a callback is an End of the abstract queue: it was the last begun.
LEMMA RunCallbackKeeps ==
  ASSUME SerialInv, NEW w \in Runners, RunCallback(w)
  PROVE  SerialInv' /\ Serial!End
  <1>1. /\ run[w] = "callback" /\ run' = [run EXCEPT ![w] = "ran"]
        /\ done' = done \cup {current[w]} /\ current' = [current EXCEPT ![w] = 0]
        /\ pending' = pending /\ running' = running /\ added' = added
    BY DEF RunCallback, schedVars
  <1>2. Numbered' /\ Started' = Started
    BY <1>1 DEF SerialInv, Numbered, Started
  <1>3. DOMAIN run = Runners /\ DOMAIN current = Runners
    BY DEF SerialInv, OneRuns
  <1>4. OneRuns'
    BY <1>1, <1>3 DEF SerialInv, OneRuns
  <1>5. InCallback = {w}
    BY <1>1 DEF InCallback, SerialInv, OneRuns
  <1>6. InCallback' = {}
    BY <1>1, <1>3, <1>5 DEF InCallback
  <1>7. current[w] = Started /\ Started > 0 /\ done = 1..Started - 1
    BY <1>5 DEF SerialInv, AllButOneEnded
  <1>8. Started \in Nat
    BY DEF Started, SerialInv, Numbered
  <1>9. done' = 1..Started
    BY <1>1, <1>7, <1>8
  <1> QED BY <1>1, <1>2, <1>4, <1>6, <1>9 DEF SerialInv, AllButOneEnded, Serial!End, Started

\* ~RAIICallbacksRunning resets the flag for the thread that had set it.
LEMMA FinishKeeps ==
  ASSUME SerialInv, NEW w \in Runners, Finish(w)
  PROVE  SerialInv' /\ UNCHANGED <<added, Started, done>>
  <1>1. /\ run[w] = "ran" /\ run' = [run EXCEPT ![w] = "maybe"] /\ running' = FALSE
        /\ UNCHANGED <<pending, current, added, done>>
    BY DEF Finish
  <1>2. Numbered' /\ Started' = Started
    BY <1>1 DEF SerialInv, Numbered, Started
  <1>3. DOMAIN run = Runners
    BY DEF SerialInv, OneRuns
  <1>4. OneRuns'
    BY <1>1, <1>3, Zenon DEF SerialInv, OneRuns
  <1>5. InCallback' = InCallback
    BY <1>1, <1>3 DEF InCallback
  <1>6. AllButOneEnded'
    BY <1>1, <1>2, <1>5 DEF SerialInv, AllButOneEnded
  <1> QED BY <1>1, <1>2, <1>4, <1>6 DEF SerialInv

-----------------------------------------------------------------------------
(***************************************************************************)
(* Every step                                                              *)
(***************************************************************************)

\* schedule() (scheduler.cpp) wakes at most one thread that waits for a task.
LEMMA ScheduleWakes ==
  ASSUME NEW r, DOMAIN r = Runners, Schedule(r)
  PROVE  /\ DOMAIN run' = Runners
         /\ \A w \in Runners :
              run'[w] # r[w] => w \in Workers /\ r[w] = "wait" /\ run'[w] = "loop"
  <1>1. CASE \E w \in Workers : r[w] = "wait"
    <2>1. PICK w \in Workers : r[w] = "wait" /\ run' = [r EXCEPT ![w] = "loop"]
      BY <1>1 DEF Schedule
    <2> QED BY <2>1 DEF Runners
  <1>2. CASE ~\E w \in Workers : r[w] = "wait"
    BY <1>2 DEF Schedule
  <1> QED BY <1>1, <1>2

\* A step of a thread that uses the queue
ClientStep(c) ==
  \/ Proceed(c) \/ ThreadEnds(c) \/ Begin(c) \/ Signal(c)
  \/ SelectIndexes(c) \/ SyncBeforeErase(c)

\* Every step is one of a scheduler thread or of Main in ProcessQueue, one of a user of
\* the queue, or one of Shutdown.
LEMMA StepKinds ==
  ASSUME [QueueNext]_queueVars
  PROVE  \/ \E w \in Runners : Service(w) \/ SpuriousWakeup(w)
         \/ \E c \in Clients : ClientStep(c)
         \/ BeginShutdown \/ ShutdownStep \/ UNCHANGED queueVars
  BY Zenon DEF QueueNext, ClientStep, Clients

\* A user of the queue adds a callback (AddToProcessQueue), or schedules ProcessQueue, or
\* touches neither the queue nor the scheduler.
LEMMA ClientStepShape ==
  ASSUME NEW c \in Clients, ClientStep(c)
  PROVE  /\ UNCHANGED <<phase, running, current, done>>
         /\ \/ UNCHANGED run /\ (Enqueue \/ UNCHANGED <<pending, added>>)
            \/ Schedule(run) /\ UNCHANGED <<pending, added>>
  <1>1. CASE LimitValidationInterfaceQueue(c) \/ Signal(c) \/ SyncBeforeErase(c)
    BY <1>1 DEF LimitValidationInterfaceQueue, Signal, SyncBeforeErase, Sync, schedVars
  <1>2. CASE ClientSchedule(c)
    BY <1>2 DEF ClientSchedule
  <1>3. CASE \/ LockChainstate(c) \/ LockMain(c) \/ UnlockMain(c) \/ MaybeSchedule(c)
             \/ SyncReturns(c) \/ NothingToErase(c)
    BY <1>3 DEF LockChainstate, LockMain, UnlockMain, MaybeSchedule, SyncReturns,
                NothingToErase, schedVars
  <1>4. CASE ThreadEnds(c) \/ Begin(c) \/ SelectIndexes(c)
    BY <1>4 DEF ThreadEnds, Begin, SelectIndexes, schedVars
  <1> QED BY <1>1, <1>2, <1>3, <1>4, ClientStep(c) DEF ClientStep, Proceed

\* The invariant that Shutdown relies on is kept by every step.
LEMMA JoinedKept ==
  ASSUME Joined, [QueueNext]_queueVars
  PROVE  Joined'
  <1> USE ThreadsAssumption DEF Clients, Runners
  <1>1. ASSUME NEW w \in Runners, Service(w) \/ SpuriousWakeup(w)
        PROVE  Joined'
    <2>1. UNCHANGED phase
      BY <1>1 DEF Service, SpuriousWakeup, Sleep, TakeTask, Interrupt, ProcessQueue,
                  RunCallback, Finish, Reconsider, Reschedule, clientVars
    <2>2. /\ DOMAIN run' = Runners
          /\ run[w] # "off"
          /\ \A v \in Runners :
               run'[v] # run[v] => v = w \/ (v \in Workers /\ run[v] = "wait")
      <3>1. CASE Reschedule(w)
        <4> DEFINE r == [run EXCEPT ![w] = "loop"]
        <4>1. Schedule(r) /\ run[w] = "schedule"
          BY <3>1 DEF Reschedule
        <4>2. DOMAIN r = Runners /\ \A v \in Runners : v # w => r[v] = run[v]
          BY DEF Joined
        <4> HIDE DEF r
        <4>3. /\ DOMAIN run' = Runners
              /\ \A v \in Runners : run'[v] # r[v] => v \in Workers /\ r[v] = "wait"
          BY <4>1, <4>2, ScheduleWakes
        <4> QED BY <4>1, <4>2, <4>3
      <3>2. CASE ~Reschedule(w)
        BY <1>1, <3>2 DEF Joined, Service, SpuriousWakeup, Sleep, TakeTask, Interrupt,
             ProcessQueue, RunCallback, Finish, Reconsider
      <3> QED BY <3>1, <3>2
    <2> QED BY <2>1, <2>2 DEF Joined
  <1>2. ASSUME NEW c \in Clients, ClientStep(c)
        PROVE  Joined'
    <2>1. UNCHANGED phase /\ (UNCHANGED run \/ Schedule(run))
      BY <1>2, ClientStepShape
    <2>2. DOMAIN run' = Runners
          /\ \A v \in Runners : run'[v] # run[v] => v \in Workers /\ run[v] = "wait"
      BY <2>1, ScheduleWakes DEF Joined
    <2> QED BY <2>1, <2>2 DEF Joined
  <1>5. CASE BeginShutdown
    BY <1>5 DEF BeginShutdown, Joined
  <1>6. CASE InterruptAll
    BY <1>6 DEF InterruptAll, Joined
  <1>7. CASE JoinAll
    BY <1>7 DEF JoinAll, Joined
  <1>8. CASE EmptyQueue
    BY <1>8 DEF EmptyQueue, Joined
  <1>9. CASE LastFlush \/ UNCHANGED queueVars
    BY <1>9 DEF LastFlush, queueVars, Joined
  <1> QED BY <1>1, <1>2, <1>5, <1>6, <1>7, <1>8, <1>9, StepKinds DEF ShutdownStep

\* Every step keeps the order of the callbacks, and is a step of the abstract
\* queue or changes nothing that it shows.
LEMMA SerialKept ==
  ASSUME SerialInv, Joined, [QueueNext]_queueVars
  PROVE  SerialInv' /\ [Serial!Next]_<<added, Started, done>>
  <1> USE ThreadsAssumption DEF Clients, Runners
  <1>0. DOMAIN run = Runners
    BY DEF Joined
  <1>1. ASSUME NEW w \in Runners, Service(w) \/ SpuriousWakeup(w)
        PROVE  SerialInv' /\ [Serial!Next]_<<added, Started, done>>
    <2>1. CASE ProcessQueue(w)
      BY <2>1, ProcessQueueKeeps DEF Serial!Next
    <2>2. CASE RunCallback(w)
      BY <2>2, RunCallbackKeeps DEF Serial!Next
    <2>3. CASE Finish(w)
      BY <2>3, FinishKeeps
    <2>4. CASE Reschedule(w)
      <3> DEFINE r == [run EXCEPT ![w] = "loop"]
      <3>1. Schedule(r) /\ run[w] = "schedule"
            /\ UNCHANGED <<pending, running, current, added, done>>
        BY <2>4 DEF Reschedule
      <3>2. DOMAIN r = Runners /\ r[w] = "loop" /\ \A v \in Runners : v # w => r[v] = run[v]
        BY <1>0
      <3> HIDE DEF r
      <3>3. /\ DOMAIN run' = Runners
            /\ \A v \in Runners : run'[v] # r[v] => r[v] = "wait" /\ run'[v] = "loop"
        BY <3>1, <3>2, ScheduleWakes
      <3>4. Irrelevant
        BY <1>0, <3>1, <3>2, <3>3 DEF Irrelevant, MovesOutside, Busy
      <3> QED BY <3>4, IrrelevantKeeps
    <2>5. CASE Sleep(w) \/ TakeTask(w) \/ Interrupt(w) \/ Reconsider(w) \/ SpuriousWakeup(w)
      <3>1. /\ UNCHANGED <<pending, running, current, added, done>>
            /\ run[w] \notin Busy
            /\ \E p : p \notin Busy /\ run' = [run EXCEPT ![w] = p]
        BY <2>5, Zenon DEF Busy, Sleep, TakeTask, Interrupt, Reconsider, SpuriousWakeup, schedVars
      <3>2. Irrelevant
        BY <1>0, <3>1 DEF Irrelevant, MovesOutside
      <3> QED BY <3>2, IrrelevantKeeps
    <2> QED BY <1>1, <2>1, <2>2, <2>3, <2>4, <2>5 DEF Service
  <1>2. ASSUME NEW c \in Clients, ClientStep(c)
        PROVE  SerialInv' /\ [Serial!Next]_<<added, Started, done>>
    <2>1. UNCHANGED <<running, current, done>>
      BY <1>2, ClientStepShape
    <2>2. MovesOutside
      BY <1>0, <1>2, ClientStepShape, ScheduleWakes DEF MovesOutside, Busy
    <2>3. CASE Enqueue
      BY <2>1, <2>2, <2>3, EnqueueKeeps DEF Serial!Next
    <2>4. CASE UNCHANGED <<pending, added>>
      BY <2>1, <2>2, <2>4, IrrelevantKeeps DEF Irrelevant
    <2> QED BY <1>2, <2>3, <2>4, ClientStepShape
  <1>4. CASE JoinAll
    <2>1. /\ UNCHANGED <<running, current, done>> /\ Enqueue
          /\ run[Main] = "off" /\ run' = [run EXCEPT ![Main] = "process"]
      BY <1>4 DEF JoinAll, FlushStateToDisk, Joined
    <2>2. MovesOutside
      BY <1>0, <2>1 DEF MovesOutside, Busy
    <2> QED BY <2>1, <2>2, EnqueueKeeps DEF Serial!Next
  <1>5. CASE BeginShutdown \/ InterruptAll \/ EmptyQueue \/ UNCHANGED queueVars
    <2>1. Irrelevant
      BY <1>0, <1>5 DEF Irrelevant, MovesOutside, Busy, BeginShutdown, InterruptAll,
                        EmptyQueue, queueVars, schedVars
    <2> QED BY <2>1, IrrelevantKeeps
  <1>6. CASE LastFlush
    <2>1. UNCHANGED <<run, running, current, done>> /\ Enqueue
      BY <1>6 DEF LastFlush, FlushStateToDisk
    <2>2. MovesOutside
      BY <2>1 DEF MovesOutside
    <2> QED BY <2>1, <2>2, EnqueueKeeps DEF Serial!Next
  <1> QED BY <1>1, <1>2, <1>4, <1>5, <1>6, StepKinds DEF ShutdownStep

\* The initial state satisfies both invariants and is one of the abstract queue.
LEMMA Initially ==
  ASSUME QueueInit
  PROVE  SerialInv /\ Joined /\ Serial!Init
  <1>1. pending = <<>> /\ Len(pending) = 0 /\ added = 0 /\ Started = 0 /\ done = {}
    <2>1. pending = <<>> /\ added = 0 /\ done = {}
      BY DEF QueueInit
    <2>2. Len(pending) = 0
      BY <2>1
    <2>3. Started = 0 - 0
      BY <2>1, <2>2, Zenon DEF Started
    <2> QED BY <2>1, <2>2, <2>3
  <1>2. \A w \in Runners : run[w] \in {"off", "loop"}
    BY DEF QueueInit
  <1>3. 1..0 = {}
    OBVIOUS
  <1>4. Numbered
    BY <1>1 DEF Numbered
  <1>5. OneRuns
    BY <1>2, Zenon DEF OneRuns, QueueInit
  <1>6. AllButOneEnded
    BY <1>1, <1>2, <1>3 DEF AllButOneEnded, InCallback
  <1>7. Joined
    BY ThreadsAssumption DEF QueueInit, Joined, Runners
  <1> QED BY <1>1, <1>4, <1>5, <1>6, <1>7 DEF SerialInv, Serial!Init, Started

-----------------------------------------------------------------------------
\* SingleThreadedSchedulerClient keeps its promise: with any number of scheduler
\* threads and of threads that add callbacks, they run one at a time and in the
\* order in which AddToProcessQueue was called, also across a shutdown.
THEOREM QueueIsSerial == QueueSpec => ImplementsSerialCallbacks
  <1>1. QueueInit => SerialInv /\ Joined /\ Serial!Init
    BY Initially
  <1>2. SerialInv /\ Joined /\ [QueueNext]_queueVars => SerialInv' /\ Joined' /\ [Serial!Next]_<<added, Started, done>>
    BY SerialKept, JoinedKept
  <1>3. [Serial!Next]_<<added, Started, done>> => [Serial!Next]_<<added, added - Len(pending), done>>
    BY DEF Started
  <1> QED BY <1>1, <1>2, <1>3, PTL DEF QueueSpec, ImplementsSerialCallbacks, Serial!Spec

\* When FlushBackgroundCallbacks (init.cpp) returns, every callback that was ever added
\* has run to its end, with any number of scheduler threads and although staking
\* threads, which nobody joins, may add callbacks while Main empties the queue: nobody
\* but Main is inside ProcessQueue then, so an empty queue means that all have ended.
THEOREM QueueIsFlushed == QueueSpec => FlushedCompletely
  <1>1. QueueInit => SerialInv /\ Joined
    BY Initially
  <1>2. SerialInv /\ Joined /\ [QueueNext]_queueVars => SerialInv' /\ Joined'
    BY SerialKept, JoinedKept
  <1>3. ASSUME SerialInv, Joined, [QueueNext]_queueVars
        PROVE  [phase = "emptying" /\ phase' = "flushing" => done = 1..added]_queueVars
    <2> SUFFICES ASSUME phase = "emptying", phase' = "flushing"
                 PROVE  done = 1..added
      OBVIOUS
    <2>1. EmptyQueue
      <3>1. ASSUME NEW w \in Runners, Service(w) \/ SpuriousWakeup(w)
            PROVE  FALSE
        BY <3>1 DEF Service, SpuriousWakeup, Sleep, TakeTask, Interrupt, ProcessQueue,
                    RunCallback, Finish, Reconsider, Reschedule
      <3>2. ASSUME NEW c \in Clients, ClientStep(c)
            PROVE  FALSE
        BY <3>2, ClientStepShape
      <3>3. ~BeginShutdown /\ ~InterruptAll /\ ~JoinAll /\ ~LastFlush /\ ~UNCHANGED queueVars
        BY DEF BeginShutdown, InterruptAll, JoinAll, LastFlush, queueVars
      <3> QED BY <1>3, <3>1, <3>2, <3>3, StepKinds DEF ShutdownStep
    <2>2. pending = <<>> /\ run[Main] = "loop"
      BY <2>1 DEF EmptyQueue
    <2>3. InCallback = {}
      BY <1>3, <2>2 DEF InCallback, Joined, Runners
    <2>4. Started = added
      <3>1. Len(pending) = 0 /\ added \in Nat
        BY <1>3, <2>2 DEF SerialInv, Numbered
      <3> QED BY <3>1 DEF Started
    <2> QED BY <1>3, <2>3, <2>4 DEF SerialInv, AllButOneEnded
  <1> QED BY <1>1, <1>2, <1>3, PTL DEF QueueSpec, FlushedCompletely
=============================================================================
