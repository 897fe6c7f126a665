------------------------ MODULE ContractStateProofs ------------------------
(***************************************************************************)
(* Proofs about ContractState, for any tree of blocks, any transactions in *)
(* it and any bounds: the roots, the receipts, the events and the stakers  *)
(* are those of the active chain, only bad blocks are marked invalid, and  *)
(* the assertions on the coins fail only after something else has.         *)
(***************************************************************************)
EXTENDS ContractState, BlockTreeProofs

-----------------------------------------------------------------------------
(***************************************************************************)
(* Assertions on the coins.                                                *)
(***************************************************************************)

\* The coins leave the tip only where a write or a read has failed
CoinsFollow ==
  /\ faults \in Nat
  /\ coins = tip \/ faults > 0
  /\ AssertionsHold

\* What a step may do to the coins, the tip and the count of failures
Follows ==
  /\ faults' \in {faults, faults + 1}
  /\ coins' = tip' \/ UNCHANGED <<coins, tip>> \/ faults' = faults + 1
  /\ aborted' \in {FALSE, aborted} \/ coins # tip \/ faults' = faults + 1

\* ConnectTip and TestBlockValidity move the coins with the tip, or not at all, and
\* stop at their assertion only where the coins are not those of the tip.
LEMMA ConnectFollows ==
  ASSUME NEW b \in Blocks,
         \/ ConnectTip(b) \/ ConnectInvalid(b) \/ ConnectWriteFails(b) \/ ConnectFlushFails(b)
         \/ ConnectAsserts(b) \/ TestBlockValidity(b) \/ TestAsserts(b)
  PROVE  Follows
  <1>1. CASE ConnectTip(b) \/ ConnectInvalid(b) \/ TestBlockValidity(b)
    BY <1>1, Zenon DEF ConnectTip, ConnectInvalid, TestBlockValidity, Follows
  <1>2. CASE ConnectWriteFails(b) \/ ConnectFlushFails(b)
    BY <1>2, Zenon DEF ConnectWriteFails, ConnectFlushFails, Fault, Follows
  <1>3. CASE ConnectAsserts(b) \/ TestAsserts(b)
    BY <1>3, Zenon DEF ConnectAsserts, TestAsserts, Abort, Follows
  <1> QED BY <1>1, <1>2, <1>3, SMTT(40)

\* The same of DisconnectTip.
LEMMA DisconnectFollows ==
  ASSUME DisconnectTip \/ DisconnectFails \/ DisconnectFlushFails \/ DisconnectAsserts
  PROVE  Follows
  <1>1. CASE DisconnectTip \/ DisconnectAsserts
    BY <1>1, Zenon DEF DisconnectTip, DisconnectAsserts, Abort, Follows
  <1>2. CASE DisconnectFails \/ DisconnectFlushFails
    BY <1>2, Zenon DEF DisconnectFails, DisconnectFlushFails, Fault, Follows
  <1> QED BY <1>1, <1>2

\* VerifyDB works on a view of its own; its assertions count as failures unless
\* the coins were not those of the tip to begin with.
LEMMA VerifyFollows ==
  ASSUME \/ \E d \in Depths : VerifyLevel3(d) \/ VerifyLevel4(d) \/ VerifyCutShort(d)
         \/ VerifyAsserts
  PROVE  Follows
  <1>1. CASE \E d \in Depths : VerifyLevel3(d) \/ VerifyLevel4(d)
    BY <1>1, Zenon DEF VerifyLevel3, VerifyLevel4, Follows
  <1>2. CASE \E d \in Depths : VerifyCutShort(d)
    BY <1>2 DEF VerifyCutShort, Fault, Follows
  <1>3. CASE VerifyAsserts
    BY <1>3, Zenon DEF VerifyAsserts, Abort, Fault, Follows
  <1> QED BY <1>1, <1>2, <1>3

\* Readers, flushes, and starts, which take the coins for the tip.
LEMMA OthersFollow ==
  ASSUME \/ CreateMPoSOutputs \/ \E t \in Txs : GetResult(t)
         \/ FlushStateToDisk \/ StartShutdown \/ Stop \/ Crash \/ UNCHANGED vars
  PROVE  Follows
  BY Zenon DEF CreateMPoSOutputs, GetResult, FlushStateToDisk, StartShutdown, Stop, Crash, Started, vars,
         Follows

\* The assertions on the best block of the coins (ConnectBlock, DisconnectTip,
\* TestBlockValidity, VerifyDB) fail only after a flush or a read has failed.
THEOREM AssertionsNeverFail == Spec => []AssertionsHold
  <1>1. Init => CoinsFollow
    BY DEF Init, CoinsFollow, AssertionsHold
  <1>2. CoinsFollow => AssertionsHold
    BY DEF CoinsFollow
  <1>3. CoinsFollow /\ [Next]_vars => CoinsFollow'
    <2> SUFFICES ASSUME CoinsFollow, [Next]_vars PROVE CoinsFollow'
      OBVIOUS
    <2>1. Follows
      BY ConnectFollows, DisconnectFollows, VerifyFollows, OthersFollow, SMTT(40) DEF Next
    <2>2. /\ faults' \in Nat
          /\ faults > 0 => faults' > 0
          /\ faults' = faults + 1 => faults' > 0
      BY <2>1 DEF Follows, CoinsFollow
    <2>3. coins' = tip' \/ faults' > 0
      BY <2>1, <2>2 DEF Follows, CoinsFollow
    <2>4. aborted' => faults' > 0
      <3>1. CASE aborted' \in {FALSE, aborted}
        BY <3>1, <2>2, Zenon DEF CoinsFollow, AssertionsHold
      <3>2. CASE ~(aborted' \in {FALSE, aborted})
        BY <3>2, <2>1, <2>2, Zenon DEF Follows, CoinsFollow
      <3> QED BY <3>1, <3>2, Zenon
    <2> QED BY <2>2, <2>3, <2>4 DEF CoinsFollow, AssertionsHold
  <1> QED BY <1>1, <1>2, <1>3, PTL DEF Spec

-----------------------------------------------------------------------------
(***************************************************************************)
(* The chain of a block.                                                   *)
(***************************************************************************)

\* Every block but the genesis block has a height of the indexes by height.
LEMMA HeightsFacts ==
  /\ \A h \in Heights : h \in Nat /\ h > 0
  /\ \A b \in Blocks \ {Genesis} : Height[b] \in Heights
  <1>1. \A b \in Blocks \ {Genesis} : Height[b] \in Nat /\ Height[b] > 0
    BY HeightDef, AncestorsOfBlock
  <1> QED BY <1>1, Zenon DEF Heights

\* GetAncestor finds the one ancestor of a height.
LEMMA AtHeightFacts ==
  ASSUME NEW b \in Blocks
  PROVE  /\ \A h \in Nat : h <= Height[b] =>
              AtHeight(b, h) \in Ancestors[b] /\ AtHeight(b, h) \in Blocks
              /\ Height[AtHeight(b, h)] = h
         /\ \A a \in Ancestors[b] : AtHeight(b, Height[a]) = a
  <1>1. ASSUME NEW h \in Nat, h <= Height[b]
        PROVE  /\ AtHeight(b, h) \in Ancestors[b] /\ Height[AtHeight(b, h)] = h
               /\ AtHeight(b, h) \in Blocks
    <2>1. \E a \in Ancestors[b] : Height[a] = h
      BY <1>1, AncestorAtHeight, Zenon
    <2>2. AtHeight(b, h) \in Ancestors[b] /\ Height[AtHeight(b, h)] = h
      BY <2>1, Zenon DEF AtHeight
    <2> QED BY <2>2, AncestorsOfAncestors, Zenon
  <1>2. ASSUME NEW a \in Ancestors[b] PROVE AtHeight(b, Height[a]) = a
    <2>1. Height[a] \in Nat /\ Height[a] <= Height[b]
      BY AncestorIsLower, AncestorsOfAncestors, HeightDef, Zenon
    <2>2. /\ AtHeight(b, Height[a]) \in Ancestors[b]
          /\ Height[AtHeight(b, Height[a])] = Height[a] /\ Height[a] <= Height[a]
      BY <2>1, <1>1
    <2> QED BY <2>2, LowerIsAncestor, Zenon
  <1> QED BY <1>1, <1>2, Zenon

\* An ancestor's ancestor of some height is the block's.
LEMMA AtHeightOfAncestor ==
  ASSUME NEW b \in Blocks, NEW a \in Ancestors[b], NEW h \in Nat, h <= Height[a]
  PROVE  AtHeight(a, h) = AtHeight(b, h)
  <1>1. a \in Blocks /\ Ancestors[a] \subseteq Ancestors[b]
    BY AncestorsOfAncestors, Zenon
  <1>2. AtHeight(a, h) \in Ancestors[b] /\ Height[AtHeight(a, h)] = h
    BY <1>1, AtHeightFacts, Zenon
  <1> QED BY <1>2, AtHeightFacts, Zenon

\* The roots of a header are those of the parent with the block's contracts executed.
LEMMA HeaderRootDef ==
  /\ HeaderRoot \in [Blocks -> Seq(Blocks)] /\ HeaderRoot[Genesis] = <<>>
  /\ \A b \in Blocks \ {Genesis} : b \notin BadRoots => HeaderRoot[b] = ExecRoot(HeaderRoot[Parent[b]], b)
  <1> DEFINE exec == [b \in Blocks |-> [r \in Seq(Blocks) |->
                        IF b \in BadRoots THEN <<b, b>> ELSE ExecRoot(r, b)]]
             rhs(f) == [b \in Blocks |-> IF b = Genesis THEN <<>>
                                         ELSE IF b \in BadRoots THEN <<b, b>>
                                         ELSE ExecRoot(f[Parent[b]], b)]
             R == CHOOSE f : f = rhs(f)
  <1>1. ASSUME NEW b \in Blocks, NEW r \in Seq(Blocks)
        PROVE  ExecRoot(r, b) \in Seq(Blocks) /\ <<b, b>> \in Seq(Blocks)
    BY DEF ExecRoot
  <1>2. exec \in [Blocks -> [Seq(Blocks) -> Seq(Blocks)]] /\ <<>> \in Seq(Blocks)
    <2>1. <<>> \in Seq(Blocks)
      OBVIOUS
    <2> QED BY <1>1, <2>1, Zenon
  <1>3. PICK f \in [Blocks -> Seq(Blocks)] : AlongChain(f, <<>>, exec)
    <2> HIDE DEF exec
    <2> QED BY <1>2, DefinedAlongChain, Zenon
  <1>4. f = rhs(f)
    <2>1. ASSUME NEW b \in Blocks PROVE f[b] = rhs(f)[b]
      <3>1. CASE b = Genesis
        BY <3>1, <1>3, Zenon DEF AlongChain
      <3>2. CASE b # Genesis
        <4>1. f[Parent[b]] \in Seq(Blocks)
          BY <3>2, AncestorsOfBlock, Zenon
        <4>2. f[b] = exec[b][f[Parent[b]]]
          BY <3>2, <1>3, Zenon DEF AlongChain
        <4>3. exec[b][f[Parent[b]]] = IF b \in BadRoots THEN <<b, b>> ELSE ExecRoot(f[Parent[b]], b)
          BY <4>1, Zenon
        <4> QED BY <3>2, <4>2, <4>3, Zenon
      <3> QED BY <3>1, <3>2, Zenon
    <2> QED BY <2>1, Zenon
  <1>5. R = rhs(R)
    BY <1>4, Zenon
  <1>6. HeaderRoot = [b \in Blocks |-> R[b]]
    BY Zenon DEF HeaderRoot
  <1> HIDE DEF R
  <1>7. \A b \in Blocks : HeaderRoot[b] = IF b = Genesis THEN <<>>
                                          ELSE IF b \in BadRoots THEN <<b, b>>
                                          ELSE ExecRoot(HeaderRoot[Parent[b]], b)
    <2>1. ASSUME NEW b \in Blocks
          PROVE  R[b] = IF b = Genesis THEN <<>>
                        ELSE IF b \in BadRoots THEN <<b, b>> ELSE ExecRoot(R[Parent[b]], b)
      BY <1>5, Zenon
    <2>2. \A b \in Blocks \ {Genesis} : HeaderRoot[Parent[b]] = R[Parent[b]]
      BY <1>6, AncestorsOfBlock, Zenon
    <2> QED BY <2>1, <2>2, <1>6, Zenon
  <1> DEFINE Wrong == {b \in Blocks : HeaderRoot[b] \notin Seq(Blocks)}
  <1>8. ASSUME NEW b \in Wrong, Parent[b] \notin Wrong PROVE FALSE
    <2>1. b # Genesis
      BY <1>2, <1>7, Zenon
    <2>2. HeaderRoot[Parent[b]] \in Seq(Blocks)
      BY <2>1, <1>8, AncestorsOfBlock, Zenon
    <2> QED BY <2>1, <2>2, <1>1, <1>7, Zenon
  <1>9. Wrong = {}
    BY <1>8, WellFoundedAssumption, Zenon
  <1>10. HeaderRoot \in [Blocks -> Seq(Blocks)]
    BY <1>6, <1>9, Zenon
  <1> QED BY <1>7, <1>10, TreeAssumption, Zenon

\* The receipts that the chain of a block calls for: those of its transactions, which
\* no ancestor holds, and its parent's.
LEMMA WantedResults ==
  ASSUME NEW b \in Blocks \ {Genesis}, NEW t \in Txs
  PROVE  /\ t \in TxsOf[b] => WantedResult(b, t) = b /\ WantedResult(Parent[b], t) = NoBlock
         /\ t \notin TxsOf[b] => WantedResult(b, t) = WantedResult(Parent[b], t)
  <1> DEFINE with(c) == {a \in Ancestors[c] : t \in TxsOf[a]}
  <1>1. Parent[b] \in Blocks /\ Ancestors[b] = {b} \cup Ancestors[Parent[b]]
    BY AncestorsOfBlock, Zenon
  <1>2. \A c : WantedResult(c, t) = IF with(c) = {} THEN NoBlock ELSE CHOOSE a \in with(c) : TRUE
    BY Zenon DEF WantedResult
  <1>3. b \notin Ancestors[Parent[b]]
    BY <1>1, AncestorIsLower, HeightDef
  <1>4. CASE t \in TxsOf[b]
    <2>1. \A a \in Ancestors[Parent[b]] : t \notin TxsOf[a]
      BY <1>1, <1>3, <1>4, ContractsAssumption, Zenon
    <2>2. with(b) = {b} /\ with(Parent[b]) = {}
      BY <1>1, <1>4, <2>1, Zenon
    <2>3. (CHOOSE a \in {b} : TRUE) = b
      BY Zenon
    <2> QED BY <1>2, <1>4, <2>2, <2>3, Zenon
  <1>5. CASE t \notin TxsOf[b]
    <2>1. with(b) = with(Parent[b])
      BY <1>1, <1>5, Zenon
    <2> HIDE DEF with
    <2> QED BY <1>2, <1>5, <2>1, Zenon
  <1> QED BY <1>4, <1>5, Zenon

\* ... and those of the transactions of an ancestor are the ancestor's.
LEMMA WantedInChain ==
  ASSUME NEW b \in Blocks, NEW a \in Ancestors[b], NEW t \in TxsOf[a]
  PROVE  WantedResult(b, t) = a
  <1> DEFINE with == {c \in Ancestors[b] : t \in TxsOf[c]}
  <1>1. with = {a}
    BY ContractsAssumption, Zenon
  <1>2. (CHOOSE c \in {a} : TRUE) = a
    BY Zenon
  <1>3. WantedResult(b, t) = IF with = {} THEN NoBlock ELSE CHOOSE c \in with : TRUE
    BY Zenon DEF WantedResult
  <1> QED BY <1>1, <1>2, <1>3, Zenon

\* The same of the events by height.
LEMMA WantedEventsOfChild ==
  ASSUME NEW b \in Blocks \ {Genesis}, NEW h \in Heights
  PROVE  /\ h # Height[b] => WantedEvents(b, h) = WantedEvents(Parent[b], h)
         /\ h = Height[b] => /\ WantedEvents(Parent[b], h) = {}
                             /\ WantedEvents(b, h) = IF TxsOf[b] = {} THEN {} ELSE {b}
  <1>1. Parent[b] \in Blocks /\ Ancestors[b] = {b} \cup Ancestors[Parent[b]]
    BY AncestorsOfBlock, Zenon
  <1>2. \A a \in Ancestors[Parent[b]] : Height[a] # Height[b]
    BY <1>1, AncestorIsLower, HeightDef, AncestorsOfAncestors
  <1>3. CASE h # Height[b]
    BY <1>1, <1>3, Zenon DEF WantedEvents
  <1>4. CASE h = Height[b]
    <2>1. WantedEvents(Parent[b], h) = {}
      BY <1>2, <1>4, Zenon DEF WantedEvents
    <2>2. CASE TxsOf[b] = {}
      BY <1>1, <1>2, <1>4, <2>1, <2>2, Zenon DEF WantedEvents
    <2>3. CASE TxsOf[b] # {}
      BY <1>1, <1>2, <1>4, <2>1, <2>3, Zenon DEF WantedEvents
    <2> QED BY <2>1, <2>2, <2>3, <1>4, Zenon
  <1> QED BY <1>3, <1>4, Zenon

-----------------------------------------------------------------------------
(***************************************************************************)
(* What the operations do to the store, field by field.                    *)
(***************************************************************************)

MaybeBlock == Blocks \cup {NoBlock}
Results == [Txs -> MaybeBlock]
Scripts == [Blocks -> MaybeBlock]
Stores == [root : Seq(Blocks), cache : Results, results : Results,
           events : [Heights -> SUBSET Blocks], stakers : [Heights -> MaybeBlock],
           scripts : Scripts]

Fields(s, root, cache, results, events, stakers, scripts) ==
  /\ s \in Stores
  /\ s.root = root /\ s.cache = cache /\ s.results = results
  /\ s.events = events /\ s.stakers = stakers /\ s.scripts = scripts

\* An assignment to one of them leaves the others alone.
LEMMA FieldUpdates ==
  ASSUME NEW s \in Stores
  PROVE  /\ /\ s.root \in Seq(Blocks) /\ s.cache \in Results /\ s.results \in Results
            /\ s.events \in [Heights -> SUBSET Blocks] /\ s.stakers \in [Heights -> MaybeBlock]
            /\ s.scripts \in Scripts
         /\ \A x \in Seq(Blocks) :
              Fields([s EXCEPT !.root = x], x, s.cache, s.results, s.events, s.stakers, s.scripts)
         /\ \A x \in Results :
              Fields([s EXCEPT !.cache = x], s.root, x, s.results, s.events, s.stakers, s.scripts)
         /\ \A x \in Results :
              Fields([s EXCEPT !.results = x], s.root, s.cache, x, s.events, s.stakers, s.scripts)
         /\ \A x \in [Heights -> SUBSET Blocks] :
              Fields([s EXCEPT !.events = x], s.root, s.cache, s.results, x, s.stakers, s.scripts)
         /\ \A x \in [Heights -> MaybeBlock] :
              Fields([s EXCEPT !.stakers = x], s.root, s.cache, s.results, s.events, x, s.scripts)
         /\ \A x \in Scripts :
              Fields([s EXCEPT !.scripts = x], s.root, s.cache, s.results, s.events, s.stakers, x)
  BY DEF Stores, Fields

\* What ConnectBlock adds for block b
CacheWith(s, b) ==
  [t \in Txs |-> IF t \in TxsOf[b] /\ s.cache[t] = NoBlock THEN b ELSE s.cache[t]]
ResultsWith(s, b) ==
  [t \in Txs |-> IF s.results[t] = NoBlock THEN CacheWith(s, b)[t] ELSE s.results[t]]
EventsWith(s, b) ==
  IF TxsOf[b] = {} THEN s.events
  ELSE [s.events EXCEPT ![Height[b]] = s.events[Height[b]] \cup {b}]
StakersWith(s, b) == [s.stakers EXCEPT ![Height[b]] = b]

\* ... and what DisconnectBlock takes away
Without(results, b) == [t \in Txs |-> IF t \in TxsOf[b] THEN NoBlock ELSE results[t]]

\* The operations of StorageResults and of the indexes by height.
LEMMA StoreOperations ==
  ASSUME NEW s \in Stores, NEW b \in Blocks \ {Genesis}
  PROVE  /\ Fields(AddResults(s, b), s.root, CacheWith(s, b), s.results, s.events, s.stakers, s.scripts)
         /\ \A root \in Seq(Blocks) :
              Fields(Restored(s, root), root, NoResults, s.results, s.events, s.stakers, s.scripts)
         /\ Fields(CommitResults(s), s.root, NoResults,
                   [t \in Txs |-> IF s.results[t] = NoBlock THEN s.cache[t] ELSE s.results[t]],
                   s.events, s.stakers, s.scripts)
         /\ Fields(DeleteResults(s, b), s.root, Without(s.cache, b), Without(s.results, b),
                   s.events, s.stakers, s.scripts)
         /\ Fields(WriteHeightIndex(s, b), s.root, s.cache, s.results, EventsWith(s, b),
                   s.stakers, s.scripts)
         /\ Fields(EraseHeightIndex(s, b), s.root, s.cache, s.results,
                   [s.events EXCEPT ![Height[b]] = {}], s.stakers, s.scripts)
         /\ Fields(WriteStakeIndex(s, b), s.root, s.cache, s.results, s.events,
                   StakersWith(s, b), s.scripts)
  <1>1. /\ s.cache \in Results /\ s.results \in Results
        /\ s.events \in [Heights -> SUBSET Blocks] /\ s.stakers \in [Heights -> MaybeBlock]
    BY FieldUpdates, Zenon
  <1>2. Height[b] \in Heights
    BY HeightsFacts, Zenon
  <1>3. /\ NoResults \in Results /\ CacheWith(s, b) \in Results
        /\ Without(s.cache, b) \in Results /\ Without(s.results, b) \in Results
        /\ [t \in Txs |-> IF s.results[t] = NoBlock THEN s.cache[t] ELSE s.results[t]] \in Results
    BY <1>1, Zenon DEF NoResults, CacheWith, Without, Results, MaybeBlock
  <1>4. AddResults(s, b) = [s EXCEPT !.cache = CacheWith(s, b)]
    BY Zenon DEF AddResults, CacheWith
  <1>5. ASSUME NEW u \in Stores
        PROVE  Fields(ClearCacheResult(u), u.root, NoResults, u.results, u.events, u.stakers, u.scripts)
    BY <1>3, FieldUpdates, Zenon DEF ClearCacheResult
  <1>6. ASSUME NEW root \in Seq(Blocks)
        PROVE  Fields(Restored(s, root), root, NoResults, s.results, s.events, s.stakers, s.scripts)
    <2> DEFINE u == [s EXCEPT !.root = root]
    <2>1. Fields(u, root, s.cache, s.results, s.events, s.stakers, s.scripts)
      BY FieldUpdates, Zenon
    <2>2. Restored(s, root) = ClearCacheResult(u)
      BY Zenon DEF Restored
    <2> HIDE DEF u
    <2>3. u \in Stores
      BY <2>1, Zenon DEF Fields
    <2>4. Fields(ClearCacheResult(u), u.root, NoResults, u.results, u.events, u.stakers, u.scripts)
      BY <1>5, <2>3, Zenon
    <2>5. /\ u.root = root /\ u.results = s.results /\ u.events = s.events
          /\ u.stakers = s.stakers /\ u.scripts = s.scripts
      BY <2>1, Zenon DEF Fields
    <2> QED BY <2>2, <2>4, <2>5, Zenon
  <1>7. Fields(CommitResults(s), s.root, NoResults,
               [t \in Txs |-> IF s.results[t] = NoBlock THEN s.cache[t] ELSE s.results[t]],
               s.events, s.stakers, s.scripts)
    <2> DEFINE x == [t \in Txs |-> IF s.results[t] = NoBlock THEN s.cache[t] ELSE s.results[t]]
               u == [s EXCEPT !.results = x]
    <2>1. CommitResults(s) = ClearCacheResult(u)
      BY Zenon DEF CommitResults
    <2> HIDE DEF x
    <2>2. Fields(u, s.root, s.cache, x, s.events, s.stakers, s.scripts)
      BY <1>3, FieldUpdates, Zenon DEF x
    <2> HIDE DEF u
    <2>3. u \in Stores
      BY <2>2, Zenon DEF Fields
    <2>4. Fields(ClearCacheResult(u), u.root, NoResults, u.results, u.events, u.stakers, u.scripts)
      BY <1>5, <2>3, Zenon
    <2>5. /\ u.root = s.root /\ u.results = x /\ u.events = s.events
          /\ u.stakers = s.stakers /\ u.scripts = s.scripts
      BY <2>2, Zenon DEF Fields
    <2>6. Fields(CommitResults(s), s.root, NoResults, x, s.events, s.stakers, s.scripts)
      BY <2>1, <2>4, <2>5, Zenon
    <2> QED BY <2>6, Zenon DEF x
  <1>8. Fields(DeleteResults(s, b), s.root, Without(s.cache, b), Without(s.results, b),
               s.events, s.stakers, s.scripts)
    <2> DEFINE u == [s EXCEPT !.cache = Without(s.cache, b)]
    <2>1. Fields(u, s.root, Without(s.cache, b), s.results, s.events, s.stakers, s.scripts)
      BY <1>3, FieldUpdates, Zenon
    <2>2. DeleteResults(s, b) = [u EXCEPT !.results = Without(s.results, b)]
      BY DEF DeleteResults, Without, Stores
    <2> HIDE DEF u
    <2>3. /\ u \in Stores /\ u.root = s.root /\ u.cache = Without(s.cache, b)
          /\ u.events = s.events /\ u.stakers = s.stakers /\ u.scripts = s.scripts
      BY <2>1, Zenon DEF Fields
    <2>4. Fields([u EXCEPT !.results = Without(s.results, b)], u.root, u.cache,
                 Without(s.results, b), u.events, u.stakers, u.scripts)
      BY <2>3, <1>3, FieldUpdates, Zenon
    <2> QED BY <2>2, <2>3, <2>4, Zenon
  <1>9. Fields(WriteHeightIndex(s, b), s.root, s.cache, s.results, EventsWith(s, b),
               s.stakers, s.scripts)
    <2>1. EventsWith(s, b) \in [Heights -> SUBSET Blocks]
      BY <1>1, <1>2, Zenon DEF EventsWith
    <2>2. CASE TxsOf[b] = {}
      BY <2>2, Zenon DEF WriteHeightIndex, EventsWith, Fields
    <2>3. CASE TxsOf[b] # {}
      <3>1. WriteHeightIndex(s, b) = [s EXCEPT !.events = EventsWith(s, b)]
        BY <2>3, Zenon DEF WriteHeightIndex, EventsWith
      <3> QED BY <3>1, <2>1, FieldUpdates, Zenon
    <2> QED BY <2>2, <2>3, Zenon
  <1>10. Fields(EraseHeightIndex(s, b), s.root, s.cache, s.results,
                [s.events EXCEPT ![Height[b]] = {}], s.stakers, s.scripts)
    <2>1. [s.events EXCEPT ![Height[b]] = {}] \in [Heights -> SUBSET Blocks]
      BY <1>1, <1>2, Zenon
    <2> QED BY <2>1, FieldUpdates, Zenon DEF EraseHeightIndex
  <1>11. Fields(WriteStakeIndex(s, b), s.root, s.cache, s.results, s.events,
                StakersWith(s, b), s.scripts)
    <2>1. StakersWith(s, b) \in [Heights -> MaybeBlock]
      BY <1>1, <1>2, Zenon DEF StakersWith, MaybeBlock
    <2> QED BY <2>1, FieldUpdates, Zenon DEF WriteStakeIndex, StakersWith
  <1> QED BY <1>3, <1>4, <1>6, <1>7, <1>8, <1>9, <1>10, <1>11, FieldUpdates, Zenon

\* What is written for b when its reward has been found right.
LEMMA WrittenFields ==
  ASSUME NEW s \in Stores, NEW b \in Blocks \ {Genesis}
  PROVE  LET h == WriteHeightIndex(s, b)
             k == WriteStakeIndex(h, b)
         IN /\ Fields(h, s.root, s.cache, s.results, EventsWith(s, b), s.stakers, s.scripts)
            /\ Fields(k, s.root, s.cache, s.results, EventsWith(s, b), StakersWith(s, b), s.scripts)
            /\ Fields(CommitResults(k), s.root, NoResults,
                      [t \in Txs |-> IF s.results[t] = NoBlock THEN s.cache[t] ELSE s.results[t]],
                      EventsWith(s, b), StakersWith(s, b), s.scripts)
  <1> DEFINE h == WriteHeightIndex(s, b)
             k == WriteStakeIndex(h, b)
  <1>1. Fields(h, s.root, s.cache, s.results, EventsWith(s, b), s.stakers, s.scripts)
    BY StoreOperations, Zenon
  <1> HIDE DEF h
  <1>2. /\ h \in Stores /\ h.root = s.root /\ h.cache = s.cache /\ h.results = s.results
        /\ h.events = EventsWith(s, b) /\ h.stakers = s.stakers /\ h.scripts = s.scripts
    BY <1>1, Zenon DEF Fields
  <1>3. StakersWith(h, b) = StakersWith(s, b)
    BY <1>2, Zenon DEF StakersWith
  <1>4. Fields(k, h.root, h.cache, h.results, h.events, StakersWith(h, b), h.scripts)
    BY <1>2, StoreOperations, Zenon
  <1> HIDE DEF k
  <1>5. /\ k \in Stores /\ k.root = s.root /\ k.cache = s.cache /\ k.results = s.results
        /\ k.events = EventsWith(s, b) /\ k.stakers = StakersWith(s, b) /\ k.scripts = s.scripts
    BY <1>2, <1>3, <1>4, Zenon DEF Fields
  <1>6. Fields(CommitResults(k), k.root, NoResults,
               [t \in Txs |-> IF k.results[t] = NoBlock THEN k.cache[t] ELSE k.results[t]],
               k.events, k.stakers, k.scripts)
    BY <1>5, StoreOperations, Zenon
  <1>7. Fields(CommitResults(k), s.root, NoResults,
               [t \in Txs |-> IF s.results[t] = NoBlock THEN s.cache[t] ELSE s.results[t]],
               EventsWith(s, b), StakersWith(s, b), s.scripts)
    BY <1>5, <1>6, Zenon
  <1>8. Fields(k, s.root, s.cache, s.results, EventsWith(s, b), StakersWith(s, b), s.scripts)
    BY <1>2, <1>3, <1>4, Zenon
  <1> QED BY <1>1, <1>7, <1>8, Zenon DEF h, k

\* DisconnectBlock sets the roots back; without pfClean it also deletes what ConnectBlock
\* wrote, all but the staker.
LEMMA DisconnectBlockFields ==
  ASSUME NEW s \in Stores, NEW b \in Blocks \ {Genesis}
  PROVE  /\ Fields(DisconnectBlock(s, b, TRUE), HeaderRoot[Parent[b]], s.cache, s.results, s.events,
                   s.stakers, s.scripts)
         /\ Fields(DisconnectBlock(s, b, FALSE), HeaderRoot[Parent[b]], Without(s.cache, b),
                   Without(s.results, b), [s.events EXCEPT ![Height[b]] = {}], s.stakers, s.scripts)
  <1> DEFINE r == [s EXCEPT !.root = HeaderRoot[Parent[b]]]
             d == DeleteResults(r, b)
  <1>1. HeaderRoot[Parent[b]] \in Seq(Blocks)
    BY HeaderRootDef, AncestorsOfBlock, Zenon
  <1>2. Fields(r, HeaderRoot[Parent[b]], s.cache, s.results, s.events, s.stakers, s.scripts)
    BY <1>1, FieldUpdates, Zenon
  <1>3. DisconnectBlock(s, b, TRUE) = r /\ DisconnectBlock(s, b, FALSE) = EraseHeightIndex(d, b)
    BY Zenon DEF DisconnectBlock, EraseStakeIndex
  <1> HIDE DEF r
  <1>4. /\ r \in Stores /\ r.root = HeaderRoot[Parent[b]] /\ r.cache = s.cache /\ r.results = s.results
        /\ r.events = s.events /\ r.stakers = s.stakers /\ r.scripts = s.scripts
    BY <1>2, Zenon DEF Fields
  <1>5. Fields(d, r.root, Without(r.cache, b), Without(r.results, b), r.events, r.stakers, r.scripts)
    BY <1>4, StoreOperations, Zenon
  <1> HIDE DEF d
  <1>6. /\ d \in Stores /\ d.root = HeaderRoot[Parent[b]]
        /\ d.cache = Without(s.cache, b) /\ d.results = Without(s.results, b)
        /\ d.events = s.events /\ d.stakers = s.stakers /\ d.scripts = s.scripts
    BY <1>4, <1>5, Zenon DEF Fields
  <1>7. Fields(EraseHeightIndex(d, b), d.root, d.cache, d.results, [d.events EXCEPT ![Height[b]] = {}],
               d.stakers, d.scripts)
    BY <1>6, StoreOperations, Zenon
  <1> QED BY <1>2, <1>3, <1>6, <1>7, Zenon

-----------------------------------------------------------------------------
(***************************************************************************)
(* The store is that of a chain, but for what is known to be wrong.        *)
(***************************************************************************)

ReceiptsRight(s, c, txs, events) ==
  /\ \A t \in Txs \ txs : s.results[t] = WantedResult(c, t)
  /\ \A h \in Heights \ events : s.events[h] = WantedEvents(c, h)
  /\ \A t \in Txs : s.cache[t] # NoBlock => s.cache[t] = s.results[t]
StakersRight(s, c, wrong) ==
  \A h \in Heights \ wrong : h <= Height[c] => s.stakers[h] = AtHeight(c, h)

\* ConnectBlock's outcomes: refused, right but not to be connected, and connected
Refused(r, s, x) ==
  /\ ~r.ok /\ r.store \in Stores
  /\ r.store.results = s.results /\ r.store.events = s.events /\ r.store.stakers = s.stakers
  /\ r.store.scripts = x
Tested(r, s, b, x) ==
  /\ r.ok
  /\ Fields(r.store, HeaderRoot[Parent[b]], s.cache, s.results, s.events, s.stakers, x)
Connected(r, s, b, x) ==
  /\ r.ok
  /\ Fields(r.store, HeaderRoot[b], NoResults, ResultsWith(s, b), EventsWith(s, b), StakersWith(s, b), x)

\* A block is connected: a receipt that is there stays, and there is none of its
\* transactions unless it has been connected before, as when VerifyDB does it again.
LEMMA ConnectedReceipts ==
  ASSUME NEW s \in Stores, NEW b \in Blocks \ {Genesis}, NEW txs, NEW events, NEW r, NEW x,
         Connected(r, s, b, x)
  PROVE  /\ ReceiptsRight(s, Parent[b], txs, events) => ReceiptsRight(r.store, b, txs, events)
         /\ \A c \in Blocks : b \in Ancestors[c] /\ ReceiptsRight(s, c, txs, events)
                              => ReceiptsRight(r.store, c, txs, events)
  <1> DEFINE k == r.store
  <1>1. k.cache = NoResults /\ k.results = ResultsWith(s, b) /\ k.events = EventsWith(s, b)
    BY Zenon DEF Connected, Fields
  <1>2. \A t \in Txs : k.cache[t] = NoBlock
    BY <1>1, Zenon DEF NoResults
  <1>3. s.events \in [Heights -> SUBSET Blocks] /\ Height[b] \in Heights /\ b # NoBlock
    BY FieldUpdates, HeightsFacts, TreeAssumption, Zenon
  <1>4. \A t \in Txs : k.results[t] = IF s.results[t] # NoBlock THEN s.results[t]
                                      ELSE IF t \in TxsOf[b] /\ s.cache[t] = NoBlock THEN b
                                      ELSE s.cache[t]
    BY <1>1, Zenon DEF ResultsWith, CacheWith
  <1>5. \A h \in Heights : k.events[h] = IF TxsOf[b] # {} /\ h = Height[b] THEN s.events[h] \cup {b}
                                         ELSE s.events[h]
    BY <1>1, <1>3, Zenon DEF EventsWith
  <1> HIDE DEF k
  <1>6. ASSUME ReceiptsRight(s, Parent[b], txs, events) PROVE ReceiptsRight(k, b, txs, events)
    <2>1. ASSUME NEW t \in Txs \ txs PROVE k.results[t] = WantedResult(b, t)
      <3>1. s.results[t] = WantedResult(Parent[b], t)
            /\ (s.cache[t] # NoBlock => s.cache[t] = s.results[t])
        BY <1>6, Zenon DEF ReceiptsRight
      <3>2. k.results[t] = IF s.results[t] # NoBlock THEN s.results[t]
                           ELSE IF t \in TxsOf[b] /\ s.cache[t] = NoBlock THEN b ELSE s.cache[t]
        BY <1>4, Zenon
      <3>3. CASE t \in TxsOf[b]
        BY <3>1, <3>2, <3>3, WantedResults, Zenon
      <3>4. CASE t \notin TxsOf[b]
        BY <3>1, <3>2, <3>4, WantedResults, Zenon
      <3> QED BY <3>3, <3>4, Zenon
    <2>2. ASSUME NEW h \in Heights \ events PROVE k.events[h] = WantedEvents(b, h)
      <3>1. s.events[h] = WantedEvents(Parent[b], h)
        BY <1>6, Zenon DEF ReceiptsRight
      <3>2. CASE h = Height[b]
        <4>1. s.events[h] = {} /\ WantedEvents(b, h) = IF TxsOf[b] = {} THEN {} ELSE {b}
          BY <3>1, <3>2, WantedEventsOfChild, Zenon
        <4> QED BY <4>1, <3>2, <1>5
      <3>3. CASE h # Height[b]
        BY <3>1, <3>3, <1>5, WantedEventsOfChild, Zenon
      <3> QED BY <3>2, <3>3, Zenon
    <2> QED BY <2>1, <2>2, <1>2, Zenon DEF ReceiptsRight
  <1>7. ASSUME NEW c \in Blocks, b \in Ancestors[c], ReceiptsRight(s, c, txs, events)
        PROVE  ReceiptsRight(k, c, txs, events)
    <2>1. ASSUME NEW t \in Txs \ txs PROVE k.results[t] = WantedResult(c, t)
      <3>1. s.results[t] = WantedResult(c, t) /\ (s.cache[t] # NoBlock => s.cache[t] = s.results[t])
        BY <1>7, Zenon DEF ReceiptsRight
      <3>2. t \in TxsOf[b] => WantedResult(c, t) # NoBlock
        BY <1>3, <1>7, WantedInChain, Zenon
      <3> QED BY <3>1, <3>2, <1>4, Zenon
    <2>2. ASSUME NEW h \in Heights \ events PROVE k.events[h] = WantedEvents(c, h)
      <3>1. s.events[h] = WantedEvents(c, h)
        BY <1>7, Zenon DEF ReceiptsRight
      <3>2. TxsOf[b] # {} /\ h = Height[b] => b \in WantedEvents(c, h)
        BY <1>7, Zenon DEF WantedEvents
      <3> QED BY <3>1, <3>2, <1>5, Zenon
    <2> QED BY <2>1, <2>2, <1>2, Zenon DEF ReceiptsRight
  <1> QED BY <1>6, <1>7, Zenon DEF k

\* DisconnectBlock leaves the receipts and events of the parent's chain; those of its
\* own are missing in the chain of the block.
LEMMA DisconnectedReceipts ==
  ASSUME NEW s \in Stores, NEW b \in Blocks \ {Genesis}, NEW txs, NEW events,
         ReceiptsRight(s, b, txs, events)
  PROVE  LET k == DisconnectBlock(s, b, FALSE)
         IN /\ ReceiptsRight(k, Parent[b], txs \ TxsOf[b], events \ {Height[b]})
            /\ ReceiptsRight(k, b, txs \cup TxsOf[b], events \cup {Height[b]})
  <1> DEFINE k == DisconnectBlock(s, b, FALSE)
  <1>1. /\ k.cache = Without(s.cache, b) /\ k.results = Without(s.results, b)
        /\ k.events = [s.events EXCEPT ![Height[b]] = {}]
    BY DisconnectBlockFields, Zenon DEF Fields
  <1> HIDE DEF k
  <1>2. s.events \in [Heights -> SUBSET Blocks] /\ Height[b] \in Heights
    BY FieldUpdates, HeightsFacts, Zenon
  <1>3. /\ \A t \in Txs : k.results[t] = IF t \in TxsOf[b] THEN NoBlock ELSE s.results[t]
        /\ \A t \in Txs : k.cache[t] = IF t \in TxsOf[b] THEN NoBlock ELSE s.cache[t]
        /\ \A h \in Heights : k.events[h] = IF h = Height[b] THEN {} ELSE s.events[h]
    BY <1>1, <1>2, Zenon DEF Without
  <1>4. \A t \in Txs : k.cache[t] # NoBlock => k.cache[t] = k.results[t]
    BY <1>3, Zenon DEF ReceiptsRight
  <1>5. ASSUME NEW t \in Txs
        PROVE  /\ t \notin txs \ TxsOf[b] => k.results[t] = WantedResult(Parent[b], t)
               /\ t \notin txs \cup TxsOf[b] => k.results[t] = WantedResult(b, t)
    <2>1. CASE t \in TxsOf[b]
      <3>1. k.results[t] = NoBlock /\ WantedResult(Parent[b], t) = NoBlock
        BY <2>1, <1>3, WantedResults, Zenon
      <3> QED BY <3>1, <2>1, Zenon
    <2>2. CASE t \notin TxsOf[b]
      <3>1. k.results[t] = s.results[t] /\ WantedResult(b, t) = WantedResult(Parent[b], t)
        BY <2>2, <1>3, WantedResults, Zenon
      <3>2. t \notin txs => s.results[t] = WantedResult(b, t)
        BY Zenon DEF ReceiptsRight
      <3> QED BY <3>1, <3>2, <2>2, Zenon
    <2> QED BY <2>1, <2>2, Zenon
  <1>6. ASSUME NEW h \in Heights
        PROVE  /\ h \notin events \ {Height[b]} => k.events[h] = WantedEvents(Parent[b], h)
               /\ h \notin events \cup {Height[b]} => k.events[h] = WantedEvents(b, h)
    <2>1. h \notin events => s.events[h] = WantedEvents(b, h)
      BY Zenon DEF ReceiptsRight
    <2>2. k.events[h] = IF h = Height[b] THEN {} ELSE s.events[h]
      BY <1>3, Zenon
    <2> QED BY <2>1, <2>2, WantedEventsOfChild, Zenon
  <1> QED BY <1>4, <1>5, <1>6, Zenon DEF ReceiptsRight, k

\* The stakers of a chain are those of its ancestors.
LEMMA StakersOfParent ==
  ASSUME NEW s, NEW b \in Blocks \ {Genesis}, NEW wrong
  PROVE  /\ \A h \in Heights : h <= Height[Parent[b]] =>
              h <= Height[b] /\ h # Height[b] /\ AtHeight(Parent[b], h) = AtHeight(b, h)
         /\ StakersRight(s, b, wrong) => StakersRight(s, Parent[b], wrong)
  <1>1. /\ Parent[b] \in Blocks /\ Parent[b] \in Ancestors[b]
        /\ Height[b] = Height[Parent[b]] + 1 /\ Height[b] \in Nat /\ Height[Parent[b]] \in Nat
    BY AncestorsOfBlock, HeightDef, Zenon
  <1>2. ASSUME NEW h \in Heights, h <= Height[Parent[b]]
        PROVE  h <= Height[b] /\ h # Height[b] /\ AtHeight(Parent[b], h) = AtHeight(b, h)
    <2>1. h \in Nat
      BY HeightsFacts, Zenon
    <2>2. h <= Height[b] /\ h # Height[b]
      BY <1>1, <1>2, <2>1
    <2> QED BY <1>1, <1>2, <2>1, <2>2, AtHeightOfAncestor, Zenon
  <1> QED BY <1>2, Zenon DEF StakersRight

\* A block that is written becomes the staker of its height: in the chain it ends, in
\* its parent's, which is lower, and in every chain it is in.
LEMMA StakerWritten ==
  ASSUME NEW s, s.stakers \in [Heights -> MaybeBlock], NEW b \in Blocks \ {Genesis}, NEW wrong,
         NEW k, k.stakers = StakersWith(s, b)
  PROVE  /\ StakersRight(s, Parent[b], wrong) =>
              StakersRight(k, b, wrong \ {Height[b]})
              /\ StakersRight(k, Parent[b], wrong \ {Height[b]})
         /\ \A c \in Blocks : b \in Ancestors[c] /\ StakersRight(s, c, wrong)
                              => StakersRight(k, c, wrong \ {Height[b]})
  <1>1. /\ b \in Ancestors[b] /\ Height[b] = Height[Parent[b]] + 1
        /\ Height[b] \in Nat /\ Height[Parent[b]] \in Nat /\ Height[b] \in Heights
    BY AncestorsOfAncestors, AncestorsOfBlock, HeightDef, HeightsFacts, Zenon
  <1>2. ASSUME NEW h \in Heights, h <= Height[b] PROVE h = Height[b] \/ h <= Height[Parent[b]]
    BY <1>1, <1>2, HeightsFacts
  <1>3. \A c \in Blocks : b \in Ancestors[c] => AtHeight(c, Height[b]) = b
    BY AtHeightFacts, Zenon
  <1>4. \A h \in Heights : k.stakers[h] = IF h = Height[b] THEN b ELSE s.stakers[h]
    BY <1>1, Zenon DEF StakersWith
  <1>5. ASSUME StakersRight(s, Parent[b], wrong)
        PROVE  StakersRight(k, b, wrong \ {Height[b]}) /\ StakersRight(k, Parent[b], wrong \ {Height[b]})
    <2>1. \A h \in Heights : h <= Height[Parent[b]] =>
            h <= Height[b] /\ h # Height[b] /\ AtHeight(Parent[b], h) = AtHeight(b, h)
      BY StakersOfParent, Zenon
    <2>2. ASSUME NEW h \in Heights \ (wrong \ {Height[b]}), h <= Height[Parent[b]]
          PROVE  k.stakers[h] = AtHeight(Parent[b], h)
      BY <2>1, <2>2, <1>4, <1>5, Zenon DEF StakersRight
    <2>3. ASSUME NEW h \in Heights \ (wrong \ {Height[b]}), h <= Height[b]
          PROVE  k.stakers[h] = AtHeight(b, h)
      <3>1. CASE h = Height[b]
        BY <3>1, <1>1, <1>3, <1>4, Zenon
      <3>2. CASE h <= Height[Parent[b]]
        BY <3>2, <2>1, <2>2, Zenon
      <3> QED BY <3>1, <3>2, <2>3, <1>2, Zenon
    <2> QED BY <2>2, <2>3, Zenon DEF StakersRight
  <1>6. ASSUME NEW c \in Blocks, b \in Ancestors[c], StakersRight(s, c, wrong)
        PROVE  StakersRight(k, c, wrong \ {Height[b]})
    BY <1>3, <1>4, <1>6, Zenon DEF StakersRight
  <1> QED BY <1>5, <1>6, Zenon

-----------------------------------------------------------------------------
(***************************************************************************)
(* The invariant.                                                          *)
(***************************************************************************)

Taints == [txs : SUBSET Txs, events : SUBSET Heights, stakers : SUBSET Heights]

Types ==
  /\ tip \in Blocks /\ coins \in Blocks /\ flushed \in Blocks
  /\ store \in Stores /\ tainted \in Taints

\* The stake index serves two chains: that of the coins, which a start goes on with, and
\* that of the tip, for which scripts are made.  A script that was made from a right
\* entry is right, and there is none at a height that is wrong now.
StoreSound ==
  /\ Types
  /\ RootsFollowTip
  /\ ReceiptsRight(store, coins, tainted.txs, tainted.events)
  /\ StakersRight(store, coins, tainted.stakers)
  /\ StakersRight(store, tip, tainted.stakers)
  /\ \A b \in Blocks \ stale : /\ store.scripts[b] \in {b, NoBlock}
                               /\ store.scripts[b] # NoBlock => Height[b] \notin tainted.stakers

\* Scripts are the old ones or made from the stake index, which is right where it is not tainted
ScriptsRight(x) ==
  \A a \in Blocks : \/ x[a] \in {store.scripts[a], NoBlock}
                    \/ Height[a] \notin tainted.stakers => x[a] = a

\* What a step has to do
StepSound(failure) ==
  /\ Types' /\ tainted'.stakers \subseteq tainted.stakers
  /\ ReceiptsRight(store', coins', tainted'.txs, tainted'.events)
  /\ StakersRight(store', coins', tainted'.stakers) /\ StakersRight(store', tip', tainted'.stakers)
  /\ ScriptsRight(store'.scripts)
  /\ failure \/ (InStep(tip, coins, store) => InStep(tip', coins', store'))
  /\ Track(failure)

\* ... so that the invariant holds after it.
LEMMA StepKeepsSound ==
  ASSUME StoreSound, NEW failure \in BOOLEAN, StepSound(failure)
  PROVE  StoreSound'
  <1>1. RootsFollowTip'
    BY Zenon DEF StoreSound, StepSound, RootsFollowTip, Track, InStep
  <1>2. ASSUME NEW b \in Blocks, b \notin stale'
        PROVE  /\ store'.scripts[b] \in {b, NoBlock}
               /\ store'.scripts[b] # NoBlock => Height[b] \notin tainted'.stakers
    <2>1. CASE store'.scripts[b] = NoBlock
      BY <2>1, Zenon
    <2>2. CASE store'.scripts[b] # NoBlock /\ store.scripts[b] = NoBlock
      <3>1. Height[b] \notin tainted.stakers
        BY <1>2, <2>2, Zenon DEF StepSound, Track
      <3> QED BY <3>1, <2>2, Zenon DEF StepSound, ScriptsRight
    <2>3. CASE store'.scripts[b] # NoBlock /\ store.scripts[b] # NoBlock
      <3>1. b \notin stale
        BY <1>2, <2>3, Zenon DEF StepSound, Track
      <3>2. store.scripts[b] = b /\ Height[b] \notin tainted.stakers
        BY <3>1, <2>3, Zenon DEF StoreSound
      <3> QED BY <3>2, <2>3, Zenon DEF StepSound, ScriptsRight
    <2> QED BY <2>1, <2>2, <2>3, Zenon
  <1>3. Types' /\ ReceiptsRight(store, coins, tainted.txs, tainted.events)'
    BY Zenon DEF StepSound, ReceiptsRight
  <1>4. StakersRight(store, coins, tainted.stakers)' /\ StakersRight(store, tip, tainted.stakers)'
    BY Zenon DEF StepSound, StakersRight
  <1> QED BY <1>1, <1>2, <1>3, <1>4, Zenon DEF StoreSound

-----------------------------------------------------------------------------
(***************************************************************************)
(* Steps that execute no contracts.                                        *)
(***************************************************************************)

\* DisconnectTip, to its end, without the flush at it, and where the coins stay.
LEMMA DisconnectTipSound ==
  ASSUME StoreSound, DisconnectTip \/ DisconnectFails \/ DisconnectFlushFails
  PROVE  StoreSound'
  <1> DEFINE k == DisconnectBlock(store, tip, FALSE)
  <1>1. Types /\ store \in Stores /\ tip \in Blocks /\ tainted \in Taints /\ flushed \in Blocks
    BY Zenon DEF StoreSound, Types
  <1>2. /\ tip # Genesis /\ coins = tip /\ store' = k
        /\ \/ /\ tip' = Parent[tip] /\ Track(FALSE)
              /\ coins' = Parent[tip] /\ tainted' = Erased(tip)
           \/ /\ tip' = tip /\ Track(TRUE)
              /\ coins' = Parent[tip] /\ tainted' = Erased(tip)
           \/ /\ tip' = tip /\ Track(TRUE)
              /\ coins' = tip /\ tainted' = [tainted EXCEPT !.txs = tainted.txs \cup TxsOf[tip],
                                                            !.events = tainted.events \cup {Height[tip]}]
        /\ flushed' \in {flushed, Parent[tip]}
    BY Zenon DEF DisconnectTip, DisconnectFails, DisconnectFlushFails, MayDisconnect, FlushIfNeeded
  <1>3. tip \in Blocks \ {Genesis} /\ Parent[tip] \in Blocks /\ Height[tip] \in Heights
        /\ TxsOf[tip] \subseteq Txs
    BY <1>1, <1>2, AncestorsOfBlock, HeightsFacts, ContractsAssumption, Zenon
  <1>4. /\ k \in Stores /\ k.root = HeaderRoot[Parent[tip]] /\ k.stakers = store.stakers
           /\ k.scripts = store.scripts
    BY <1>1, <1>3, DisconnectBlockFields, Zenon DEF Fields
  <1>5. /\ ReceiptsRight(k, Parent[tip], tainted.txs \ TxsOf[tip], tainted.events \ {Height[tip]})
        /\ ReceiptsRight(k, tip, tainted.txs \cup TxsOf[tip], tainted.events \cup {Height[tip]})
    <2>1. ReceiptsRight(store, tip, tainted.txs, tainted.events)
      BY <1>2, Zenon DEF StoreSound
    <2> QED BY <2>1, <1>1, <1>3, DisconnectedReceipts, Zenon
  <1> HIDE DEF k
  <1> DEFINE Gone == tainted' = Erased(tip)
             Missing == tainted' = [tainted EXCEPT !.txs = tainted.txs \cup TxsOf[tip],
                                                   !.events = tainted.events \cup {Height[tip]}]
  <1>6. ASSUME Gone
         PROVE  /\ tainted' \in Taints /\ tainted'.stakers = tainted.stakers
                /\ tainted'.txs = tainted.txs \ TxsOf[tip]
                /\ tainted'.events = tainted.events \ {Height[tip]}
    BY <1>1, <1>6 DEF Taints, Erased
  <1>7. ASSUME Missing
         PROVE  /\ tainted' \in Taints /\ tainted'.stakers = tainted.stakers
                /\ tainted'.txs = tainted.txs \cup TxsOf[tip]
                /\ tainted'.events = tainted.events \cup {Height[tip]}
    BY <1>1, <1>3, <1>7 DEF Taints
  <1>8. tainted' \in Taints /\ tainted'.stakers = tainted.stakers
    BY <1>2, <1>6, <1>7, Zenon
  <1>9. Types' /\ tainted'.stakers \subseteq tainted.stakers
    BY <1>1, <1>2, <1>3, <1>4, <1>8, Zenon DEF Types
  <1>10. ReceiptsRight(store', coins', tainted'.txs, tainted'.events)
    <2>1. CASE Gone /\ coins' = Parent[tip]
      BY <2>1, <1>2, <1>5, <1>6, Zenon
    <2>2. CASE Missing /\ coins' = tip
      BY <2>2, <1>2, <1>5, <1>7, Zenon
    <2> QED BY <2>1, <2>2, <1>2, Zenon
  <1>11. StakersRight(store', coins', tainted'.stakers) /\ StakersRight(store', tip', tainted'.stakers)
    <2>1. StakersRight(store, tip, tainted.stakers)
          /\ StakersRight(store, Parent[tip], tainted.stakers)
      BY <1>3, StakersOfParent, Zenon DEF StoreSound
    <2> QED BY <2>1, <1>2, <1>4, <1>8, Zenon DEF StakersRight
  <1>12. ScriptsRight(store'.scripts)
    BY <1>2, <1>4, Zenon DEF ScriptsRight
  <1>13. tip' = Parent[tip] /\ coins' = Parent[tip] => InStep(tip', coins', store')
    BY <1>2, <1>4, Zenon DEF InStep
  <1>14. StepSound(FALSE) \/ StepSound(TRUE)
    BY <1>2, <1>9, <1>10, <1>11, <1>12, <1>13, Zenon DEF StepSound
  <1> QED BY <1>14, StepKeepsSound, Zenon

\* Scripts come from the cache or from the stake index
FromIndex(x, s) ==
  \A a \in Blocks : \/ x[a] \in {s.scripts[a], NoBlock}
                    \/ a \in Ancestors[tip] \ {Genesis} /\ x[a] = s.stakers[Height[a]]

\* Scripts that ConnectBlock or CreateMPoSOutputs leave in the cache are right.
LEMMA ScriptsFromIndex ==
  ASSUME Types, NEW s, NEW x, StakersRight(s, tip, tainted.stakers), ScriptsRight(s.scripts),
         FromIndex(x, s)
  PROVE  ScriptsRight(x)
  <1> SUFFICES ASSUME NEW a \in Blocks
               PROVE  \/ x[a] \in {store.scripts[a], NoBlock}
                      \/ Height[a] \notin tainted.stakers => x[a] = a
    BY Zenon DEF ScriptsRight
  <1>1. CASE x[a] \in {s.scripts[a], NoBlock}
    BY <1>1, Zenon DEF ScriptsRight
  <1>2. CASE a \in Ancestors[tip] \ {Genesis} /\ x[a] = s.stakers[Height[a]]
    <2>1. tip \in Blocks /\ Height[a] \in Heights
      BY HeightsFacts, <1>2, Zenon DEF Types
    <2>2. Height[a] <= Height[tip] /\ AtHeight(tip, Height[a]) = a
      BY <2>1, <1>2, AncestorIsLower, AtHeightFacts, Zenon
    <2> QED BY <2>1, <2>2, <1>2, Zenon DEF StakersRight
  <1> QED BY <1>1, <1>2, Zenon DEF FromIndex

\* A store with other scripts, and with the cache of receipts empty or as it was, is
\* as right as the old one.
LEMMA ScriptsChange ==
  ASSUME StoreSound, NEW x, FromIndex(x, store), NEW failure \in BOOLEAN,
         store' \in Stores,
         store'.results = store.results, store'.events = store.events, store'.stakers = store.stakers,
         store'.scripts = x, store'.cache \in {NoResults, store.cache},
         failure \/ store'.root \in {store.root, HeaderRoot[tip]},
         UNCHANGED <<tip, coins, flushed, tainted>>, Track(failure)
  PROVE  StoreSound'
  <1>1. Types' /\ tainted'.stakers \subseteq tainted.stakers
    BY Zenon DEF StoreSound, Types
  <1>2. \A t \in Txs : store'.cache[t] # NoBlock => store'.cache[t] = store'.results[t]
    BY Zenon DEF StoreSound, ReceiptsRight, NoResults
  <1>3. ReceiptsRight(store', coins', tainted'.txs, tainted'.events)
    BY <1>2, Zenon DEF StoreSound, ReceiptsRight
  <1>4. StakersRight(store', coins', tainted'.stakers) /\ StakersRight(store', tip', tainted'.stakers)
    BY Zenon DEF StoreSound, StakersRight
  <1>5. ScriptsRight(store'.scripts)
    <2>1. ScriptsRight(store.scripts)
      BY Zenon DEF ScriptsRight
    <2> QED BY <2>1, ScriptsFromIndex, Zenon DEF StoreSound
  <1>6. failure \/ (InStep(tip, coins, store) => InStep(tip', coins', store'))
    BY Zenon DEF InStep
  <1>7. StepSound(failure)
    BY <1>1, <1>3, <1>4, <1>5, <1>6, Zenon DEF StepSound
  <1> QED BY <1>7, StepKeepsSound, Zenon

\* VerifyDB goes down the active chain.
LEMMA DownIsBlock ==
  ASSUME Types, NEW d \in Nat, d <= Height[tip]
  PROVE  /\ Down(d) \in Ancestors[tip] /\ Down(d) \in Blocks /\ Height[Down(d)] = Height[tip] - d
         /\ d < Height[tip] => Down(d) \in Blocks \ {Genesis}
         /\ d = 0 => Down(d) = tip
  <1>1. tip \in Blocks /\ Height[tip] \in Nat /\ tip \in Ancestors[tip]
    BY HeightDef, AncestorsOfAncestors, Zenon DEF Types
  <1>2. Height[tip] - d \in Nat /\ Height[tip] - d <= Height[tip]
    BY <1>1
  <1>3. Down(d) \in Ancestors[tip] /\ Down(d) \in Blocks /\ Height[Down(d)] = Height[tip] - d
    BY <1>1, <1>2, AtHeightFacts, Zenon DEF Down
  <1>4. d < Height[tip] => Height[Down(d)] # Height[Genesis]
    BY <1>1, <1>3, HeightDef
  <1>5. ASSUME d = 0 PROVE Down(d) = tip
    <2>1. Height[Down(d)] = Height[tip] /\ Height[Down(d)] <= Height[tip]
      BY <1>1, <1>3, <1>5
    <2> QED BY <2>1, <1>1, <1>3, LowerIsAncestor, Zenon
  <1> QED BY <1>3, <1>4, <1>5, Zenon

\* Disconnecting with pfClean sets the roots and nothing else.
LEMMA DisconnectedFields ==
  ASSUME Types, NEW d \in Depths
  PROVE  /\ Down(d - 1) \in Blocks \ {Genesis}
         /\ Fields(Disconnected(d), HeaderRoot[Parent[Down(d - 1)]], store.cache, store.results,
                   store.events, store.stakers, store.scripts)
  <1>1. Height[tip] \in Nat
    BY HeightDef, Zenon DEF Types
  <1>2. d - 1 \in Nat /\ d - 1 <= Height[tip] /\ d - 1 < Height[tip]
    BY <1>1 DEF Depths
  <1>3. Down(d - 1) \in Blocks \ {Genesis}
    BY <1>2, DownIsBlock, Zenon
  <1> QED BY <1>3, DisconnectBlockFields, Zenon DEF Disconnected, Types

\* VerifyDB at level 3, to its end or cut short.
LEMMA VerifySound ==
  ASSUME StoreSound, NEW d \in Depths, VerifyLevel3(d) \/ VerifyCutShort(d)
  PROVE  StoreSound'
  <1>1. Types /\ store \in Stores /\ store.root \in Seq(Blocks)
    BY FieldUpdates, Zenon DEF StoreSound, Types
  <1> DEFINE u == Disconnected(d)
  <1>2. Fields(u, HeaderRoot[Parent[Down(d - 1)]], store.cache, store.results, store.events,
               store.stakers, store.scripts)
    BY <1>1, DisconnectedFields, Zenon
  <1>3. /\ UNCHANGED <<tip, coins, flushed, tainted>>
        /\ \/ store' = [u EXCEPT !.root = store.root] /\ Track(FALSE)
           \/ store' = u /\ Track(TRUE)
    BY Zenon DEF VerifyLevel3, VerifyCutShort
  <1> HIDE DEF u
  <1>4. FromIndex(store.scripts, store)
    BY Zenon DEF FromIndex
  <1>5. /\ u \in Stores /\ u.cache = store.cache /\ u.results = store.results
           /\ u.events = store.events
        /\ u.stakers = store.stakers /\ u.scripts = store.scripts
    BY <1>2, Zenon DEF Fields
  <1>6. CASE store' = [u EXCEPT !.root = store.root] /\ Track(FALSE)
    <2>1. Fields(store', store.root, u.cache, u.results, u.events, u.stakers, u.scripts)
      BY <1>1, <1>5, <1>6, FieldUpdates, Zenon
    <2>2. /\ store' \in Stores /\ store'.root = store.root
          /\ store'.cache = store.cache /\ store'.results = store.results
          /\ store'.events = store.events /\ store'.stakers = store.stakers
          /\ store'.scripts = store.scripts
      BY <2>1, <1>5, Zenon DEF Fields
    <2> QED BY <2>2, <1>3, <1>4, <1>6, ScriptsChange, Zenon
  <1>7. CASE store' = u /\ Track(TRUE)
    BY <1>3, <1>4, <1>5, <1>7, ScriptsChange, Zenon
  <1> QED BY <1>3, <1>6, <1>7, Zenon

\* Readers of receipts, flushes, and assertions that fail.
LEMMA OthersSound ==
  ASSUME StoreSound,
         \/ \E t \in Txs : GetResult(t)
         \/ FlushStateToDisk \/ StartShutdown \/ UNCHANGED vars \/ Abort
  PROVE  StoreSound'
  <1>1. CASE \E t \in Txs : GetResult(t)
    <2>1. PICK t \in Txs : GetResult(t)
      BY <1>1, Zenon
    <2> DEFINE c == [store.cache EXCEPT ![t] = store.results[t]]
    <2>2. /\ store' = [store EXCEPT !.cache = c]
          /\ UNCHANGED <<tip, coins, flushed, skewed, tainted, stale>>
      BY <2>1, Zenon DEF GetResult
    <2>3. store \in Stores /\ store.cache \in Results /\ store.results \in Results
      BY FieldUpdates, Zenon DEF StoreSound, Types
    <2>4. c \in Results /\ \A x \in Txs : c[x] = IF x = t THEN store.results[t] ELSE store.cache[x]
      BY <2>3, Zenon DEF Results
    <2> HIDE DEF c
    <2>5. Fields(store', store.root, c, store.results, store.events, store.stakers, store.scripts)
      BY <2>2, <2>3, <2>4, FieldUpdates, Zenon
    <2>6. /\ store' \in Stores /\ store'.root = store.root /\ store'.cache = c
          /\ store'.results = store.results /\ store'.events = store.events
          /\ store'.stakers = store.stakers /\ store'.scripts = store.scripts
      BY <2>5, Zenon DEF Fields
    <2>7. Types' /\ RootsFollowTip'
      BY <2>2, <2>6, Zenon DEF StoreSound, Types, RootsFollowTip, InStep
    <2>8. ReceiptsRight(store, coins, tainted.txs, tainted.events)'
      <3>1. ReceiptsRight(store, coins, tainted.txs, tainted.events)
        BY Zenon DEF StoreSound
      <3>2. \A x \in Txs : c[x] # NoBlock => c[x] = store.results[x]
        BY <3>1, <2>4, Zenon DEF ReceiptsRight
      <3> QED BY <3>1, <3>2, <2>2, <2>6, Zenon DEF ReceiptsRight
    <2>9. StakersRight(store, coins, tainted.stakers)' /\ StakersRight(store, tip, tainted.stakers)'
      BY <2>2, <2>6, Zenon DEF StoreSound, StakersRight
    <2> QED BY <2>2, <2>6, <2>7, <2>8, <2>9, Zenon DEF StoreSound
  <1>2. ASSUME FlushStateToDisk \/ StartShutdown \/ UNCHANGED vars \/ Abort PROVE StoreSound'
    <2>1. UNCHANGED <<tip, coins, store, skewed, tainted, stale>> /\ flushed' \in {flushed, coins}
      BY <1>2, Zenon DEF FlushStateToDisk, StartShutdown, vars, Abort
    <2>2. Types' /\ RootsFollowTip'
      BY <2>1, Zenon DEF StoreSound, Types, RootsFollowTip, InStep
    <2>3. ReceiptsRight(store, coins, tainted.txs, tainted.events)'
      BY <2>1, Zenon DEF StoreSound, ReceiptsRight
    <2>4. StakersRight(store, coins, tainted.stakers)' /\ StakersRight(store, tip, tainted.stakers)'
      BY <2>1, Zenon DEF StoreSound, StakersRight
    <2> QED BY <2>1, <2>2, <2>3, <2>4, Zenon DEF StoreSound
  <1> QED BY <1>1, <1>2, Zenon

\* A start on the chainstate of block b: the roots are set to b's, the caches are empty.
LEMMA StartedSound ==
  ASSUME StoreSound, NEW b \in Blocks, Started(b), tainted' \in Taints,
         ReceiptsRight(store, b, tainted'.txs, tainted'.events),
         StakersRight(store, b, tainted'.stakers)
  PROVE  StoreSound'
  <1> DEFINE u == [store EXCEPT !.root = HeaderRoot[b]]
             v == [u EXCEPT !.scripts = NoScripts]
  <1>1. /\ tip' = b /\ coins' = b /\ flushed' = b /\ Track(FALSE)
        /\ store' = ClearCacheResult(v)
    BY Zenon DEF Started, LoadRoots
  <1>2. store \in Stores /\ HeaderRoot[b] \in Seq(Blocks) /\ NoScripts \in Scripts
        /\ NoResults \in Results
    BY HeaderRootDef, Zenon DEF StoreSound, Types, NoScripts, NoResults, Scripts, Results, MaybeBlock
  <1>3. Fields(u, HeaderRoot[b], store.cache, store.results, store.events, store.stakers, store.scripts)
    BY <1>2, FieldUpdates, Zenon
  <1> HIDE DEF u
  <1>4. /\ u \in Stores /\ u.root = HeaderRoot[b] /\ u.cache = store.cache
        /\ u.results = store.results /\ u.events = store.events /\ u.stakers = store.stakers
    BY <1>3, Zenon DEF Fields
  <1>5. Fields(v, u.root, u.cache, u.results, u.events, u.stakers, NoScripts)
    BY <1>2, <1>4, FieldUpdates, Zenon
  <1> HIDE DEF v
  <1>6. /\ v \in Stores /\ v.root = HeaderRoot[b] /\ v.scripts = NoScripts
        /\ v.results = store.results /\ v.events = store.events /\ v.stakers = store.stakers
    BY <1>4, <1>5, Zenon DEF Fields
  <1>7. Fields(store', v.root, NoResults, v.results, v.events, v.stakers, v.scripts)
    <2>1. Fields([v EXCEPT !.cache = NoResults], v.root, NoResults, v.results, v.events, v.stakers,
                 v.scripts)
      BY <1>2, <1>6, FieldUpdates, Zenon
    <2> QED BY <2>1, <1>1, Zenon DEF ClearCacheResult
  <1>8. /\ store' \in Stores /\ store'.root = HeaderRoot[b] /\ store'.scripts = NoScripts
        /\ store'.cache = NoResults
        /\ store'.results = store.results /\ store'.events = store.events
        /\ store'.stakers = store.stakers
    BY <1>6, <1>7, Zenon DEF Fields
  <1>9. Types' /\ RootsFollowTip'
    BY <1>1, <1>8, Zenon DEF Types, RootsFollowTip, InStep
  <1>10. ReceiptsRight(store, coins, tainted.txs, tainted.events)'
    BY <1>1, <1>8, Zenon DEF ReceiptsRight, NoResults
  <1>11. StakersRight(store, coins, tainted.stakers)' /\ StakersRight(store, tip, tainted.stakers)'
    BY <1>1, <1>8, Zenon DEF StakersRight
  <1>12. \A a \in Blocks : store'.scripts[a] = NoBlock
    BY <1>8, Zenon DEF NoScripts
  <1> QED BY <1>9, <1>10, <1>11, <1>12, Zenon DEF StoreSound

\* Stop goes on with the coins, Crash with those on disk; what is wrong for these is
\* recorded unless they are the same.
LEMMA RestartSound ==
  ASSUME StoreSound, Stop \/ Crash
  PROVE  StoreSound'
  <1>1. CASE Stop \/ (Crash /\ flushed = coins)
    <2>1. Started(coins) /\ tainted' = tainted
      BY <1>1, Zenon DEF Stop, Crash
    <2> QED BY <2>1, StartedSound, Zenon DEF StoreSound, Types
  <1>2. CASE Crash /\ flushed # coins
    <2>1. Started(flushed) /\ tainted' = WrongOnDisk(flushed)
      BY <1>2, Zenon DEF Crash
    <2>2. /\ tainted'.txs = {t \in Txs : store.results[t] # WantedResult(flushed, t)}
          /\ tainted'.events = {h \in Heights : store.events[h] # WantedEvents(flushed, h)}
          /\ tainted'.stakers = {h \in Heights : /\ h <= Height[flushed]
                                               /\ store.stakers[h] # AtHeight(flushed, h)}
      BY <2>1, Zenon DEF WrongOnDisk
    <2>3. tainted' \in Taints
      BY <2>1 DEF WrongOnDisk, Taints
    <2>4. ReceiptsRight(store, flushed, tainted'.txs, tainted'.events)
      BY <2>2, Zenon DEF ReceiptsRight, StoreSound
    <2>5. StakersRight(store, flushed, tainted'.stakers)
      BY <2>2, Zenon DEF StakersRight
    <2> QED BY <2>1, <2>3, <2>4, <2>5, StartedSound, Zenon DEF StoreSound, Types
  <1> QED BY <1>1, <1>2, Zenon

-----------------------------------------------------------------------------
(***************************************************************************)
(* Rewards.  GetMPoSOutputScripts and the second half of VerifyDB are loops;*)
(* induction over them is by the first step that goes wrong.               *)
(***************************************************************************)

\* AddMPoSScript has the script of height h in the cache, and of the others keeps
\* those of the chain that are near.
LEMMA ScriptAdded ==
  ASSUME tip \in Blocks, NEW x \in Scripts, NEW stakers \in [Heights -> MaybeBlock],
         NEW h \in Heights, h <= Height[tip]
  PROVE  LET y == AddMPoSScript(x, stakers, h)
             a == AtHeight(tip, h)
         IN /\ y \in Scripts
            /\ y[a] \in {x[a], stakers[h]} /\ (y[a] = NoBlock => stakers[h] = NoBlock)
            /\ \A c \in Blocks \ {a} : y[c] \in {x[c], NoBlock}
            /\ \A c \in Ancestors[tip] \ {a} :
                 Height[c] + CacheScripts >= h /\ Height[c] <= h + CacheScripts => y[c] = x[c]
  <1> DEFINE c == CleanScriptCache(x, h)
             a == AtHeight(tip, h)
             y == AddMPoSScript(x, stakers, h)
  <1>1. /\ c \in Scripts
        /\ \A d \in Blocks : c[d] \in {x[d], NoBlock}
        /\ \A d \in Ancestors[tip] :
             Height[d] + CacheScripts >= h /\ Height[d] <= h + CacheScripts => c[d] = x[d]
    <2>1. Ancestors[tip] \subseteq Blocks
      BY AncestorsOfAncestors, Zenon
    <2> QED BY <2>1, Zenon DEF CleanScriptCache, Scripts, MaybeBlock
  <1>2. a \in Blocks /\ stakers[h] \in MaybeBlock
    BY HeightsFacts, AtHeightFacts, Zenon
  <1>3. y = IF c[a] = NoBlock THEN [c EXCEPT ![a] = stakers[h]] ELSE c
    BY Zenon DEF AddMPoSScript
  <1> HIDE DEF c, a, y
  <1>4. CASE c[a] = NoBlock
    <2>1. y = [c EXCEPT ![a] = stakers[h]]
      BY <1>3, <1>4, Zenon
    <2>2. y \in Scripts /\ y[a] = stakers[h] /\ \A d \in Blocks \ {a} : y[d] = c[d]
      BY <2>1, <1>1, <1>2, Zenon DEF Scripts
    <2>3. Ancestors[tip] \subseteq Blocks
      BY AncestorsOfAncestors, Zenon
    <2> QED BY <2>2, <2>3, <1>1, Zenon DEF y, a
  <1>5. CASE c[a] # NoBlock
    <2>1. y = c
      BY <1>3, <1>5, Zenon
    <2> QED BY <2>1, <1>1, <1>2, <1>5, Zenon DEF y, a
  <1> QED BY <1>4, <1>5, Zenon

\* ... and that of height h is there
Served(x, s, h) ==
  LET a == AtHeight(tip, h)
  IN x[a] \in {s.scripts[a], s.stakers[h]} /\ (x[a] = NoBlock => s.stakers[h] = NoBlock)

LOCAL W == INSTANCE WellFoundedInduction

\* Steps 1 to n of a loop whose i-th step computes q[i] of what there is
Loop(f, n, base, q) == f[0] = base /\ \A i \in 1..n : f[i] = q[i][f[i - 1]]

\* What holds before a loop and is kept by every step of it holds after each.
LEMMA LoopInvariant ==
  ASSUME NEW n \in Nat, NEW S, 0 \in S, \A i \in 1..n : i - 1 \in S => i \in S
  PROVE  \A i \in 0..n : i \in S
  <1> DEFINE Wrong == {i \in 0..n : i \notin S}
  <1>1. Wrong \subseteq Nat
    OBVIOUS
  <1>2. SUFFICES ASSUME Wrong # {} PROVE FALSE
    BY Zenon
  <1>3. PICK i \in Wrong : \A j \in Wrong : ~(<<j, i>> \in W!OpToRel(<, Nat))
    BY <1>1, <1>2, W!NatLessThanWellFounded, W!WFMin, Zenon
  <1>4. \A j \in Wrong : ~(j < i)
    BY <1>1, <1>3, Zenon DEF W!OpToRel
  <1>5. i \in 1..n /\ i - 1 \in 0..n /\ i - 1 < i
    OBVIOUS
  <1> QED BY <1>4, <1>5, Zenon

\* A loop ends.
LEMMA LoopDefined ==
  ASSUME NEW n \in Nat, NEW S, NEW base \in S, NEW q \in [1..n -> [S -> S]]
  PROVE  \E f \in [0..n -> S] : Loop(f, n, base, q)
  <1> DEFINE Done == {i \in 0..n : \E f \in [0..i -> S] : Loop(f, i, base, q)}
  <1>1. 0 \in Done
    <2>1. [j \in 0..0 |-> base] \in [0..0 -> S] /\ Loop([j \in 0..0 |-> base], 0, base, q)
      BY DEF Loop
    <2> QED BY <2>1
  <1>2. ASSUME NEW i \in 1..n, i - 1 \in Done PROVE i \in Done
    <2>1. PICK f \in [0..(i - 1) -> S] : Loop(f, i - 1, base, q)
      BY <1>2, Zenon
    <2> DEFINE g == [j \in 0..i |-> IF j = i THEN q[i][f[i - 1]] ELSE f[j]]
    <2>2. i - 1 \in 0..(i - 1) /\ f[i - 1] \in S /\ q[i] \in [S -> S]
      BY <2>1
    <2>3. g \in [0..i -> S]
      BY <2>1, <2>2
    <2>4. g[0] = base
      BY <2>1 DEF Loop
    <2>5. ASSUME NEW j \in 1..i PROVE g[j] = q[j][g[j - 1]]
      <3>1. CASE j = i
        <4>1. g[i] = q[i][f[i - 1]] /\ g[i - 1] = f[i - 1]
          OBVIOUS
        <4> QED BY <3>1, <4>1, Zenon
      <3>2. CASE j # i
        <4>1. g[j] = f[j] /\ g[j - 1] = f[j - 1] /\ j \in 1..(i - 1)
          BY <3>2
        <4> QED BY <4>1, <2>1, Zenon DEF Loop
      <3> QED BY <3>1, <3>2, Zenon
    <2> HIDE DEF g
    <2>6. Loop(g, i, base, q)
      BY <2>4, <2>5, Zenon DEF Loop
    <2>7. i \in 0..n
      OBVIOUS
    <2> QED BY <2>3, <2>6, <2>7, Zenon
  <1>3. n \in Done
    <2>1. n \in 0..n
      OBVIOUS
    <2> HIDE DEF Done
    <2> QED BY <1>1, <1>2, <2>1, LoopInvariant, Zenon
  <1> QED BY <1>3, Zenon

\* GetMPoSOutputScripts changes nothing but the cache, where it leaves the scripts of
\* all heights that block n rewards: none of them is too far away from another.
LEMMA RewardScripts ==
  ASSUME tip \in Blocks, NEW s \in Stores, NEW n \in Nat, n <= Height[tip] + 1
  PROVE  \E x \in Scripts :
           /\ Fields(GetMPoSOutputScripts(s, n), s.root, s.cache, s.results, s.events, s.stakers, x)
           /\ FromIndex(x, s)
           /\ \A h \in RewardHeights(n) : Served(x, s, h)
  <1> DEFINE at(i) == n - Maturity - i
             step(x, i) == IF at(i) \in Heights THEN AddMPoSScript(x, s.stakers, at(i)) ELSE x
             q == [i \in 1..Recipients |-> [x \in Scripts |-> step(x, i)]]
             rhs(f) == [i \in 0..Recipients |-> IF i = 0 THEN s.scripts ELSE step(f[i - 1], i)]
             added == CHOOSE f : f = rhs(f)
  <1>1. /\ s.scripts \in Scripts /\ s.stakers \in [Heights -> MaybeBlock]
        /\ Recipients \in Nat /\ Maturity \in Nat /\ Height[tip] \in Nat
    BY FieldUpdates, ContractsAssumption, HeightDef, Zenon
  <1>2. ASSUME NEW i \in 1..Recipients PROVE at(i) \in Int /\ at(i) <= Height[tip]
    BY <1>1
  <1>3. ASSUME NEW i \in 1..Recipients, NEW x \in Scripts PROVE step(x, i) \in Scripts
    <2> HIDE DEF at
    <2>1. CASE at(i) \in Heights
      BY <2>1, <1>1, <1>2, ScriptAdded, Zenon
    <2>2. CASE at(i) \notin Heights
      BY <2>2, Zenon
    <2> QED BY <2>1, <2>2, Zenon
  <1>4. q \in [1..Recipients -> [Scripts -> Scripts]]
    <2> HIDE DEF step
    <2> QED BY <1>3, Zenon
  <1>5. PICK f \in [0..Recipients -> Scripts] : Loop(f, Recipients, s.scripts, q)
    <2> HIDE DEF q
    <2> QED BY <1>1, <1>4, LoopDefined, Zenon
  <1>6. f = rhs(f)
    <2> HIDE DEF step
    <2>1. ASSUME NEW i \in 0..Recipients PROVE f[i] = rhs(f)[i]
      <3>1. CASE i = 0
        BY <3>1, <1>5, Zenon DEF Loop
      <3>2. CASE i # 0
        <4>1. i \in 1..Recipients /\ i - 1 \in 0..Recipients
          BY <3>2, <1>1
        <4>2. f[i - 1] \in Scripts /\ f[i] = q[i][f[i - 1]]
          BY <4>1, <1>5, Zenon DEF Loop
        <4> QED BY <4>1, <4>2, <3>2, Zenon
      <3> QED BY <3>1, <3>2, Zenon
    <2> QED BY <2>1, Zenon
  <1>7. added = rhs(added)
    BY <1>6, Zenon
  <1>8. GetMPoSOutputScripts(s, n) = [s EXCEPT !.scripts = added[Recipients]]
    BY Zenon DEF GetMPoSOutputScripts
  <1> HIDE DEF added
  <1>9. added[0] = s.scripts /\ \A i \in 1..Recipients : added[i] = step(added[i - 1], i)
    <2> HIDE DEF step
    <2>1. 0 \in 0..Recipients /\ \A i \in 1..Recipients : i \in 0..Recipients /\ i # 0
      BY <1>1
    <2> QED BY <1>7, <2>1, Zenon
  <1> DEFINE Near(x, i) == \A j \in 1..i : at(j) \in Heights => Served(x, s, at(j))
             Good == {i \in 0..Recipients : /\ added[i] \in Scripts /\ FromIndex(added[i], s)
                                            /\ Near(added[i], i)}
  <1>10. 0 \in Good
    <2>1. 0 \in 0..Recipients /\ 1..0 = {}
      BY <1>1
    <2> QED BY <2>1, <1>1, <1>9, Zenon DEF FromIndex
  <1>11. ASSUME NEW i \in 1..Recipients, i - 1 \in Good PROVE i \in Good
    <2> DEFINE x == added[i - 1]
               y == added[i]
               a == AtHeight(tip, at(i))
    <2>1. x \in Scripts /\ FromIndex(x, s) /\ Near(x, i - 1) /\ y = step(x, i)
      BY <1>9, <1>11, Zenon
    <2>2. i \in 0..Recipients /\ i - 1 \in Nat /\ \A j \in 1..i : j = i \/ j \in 1..(i - 1)
      OBVIOUS
    <2>3. CASE at(i) \notin Heights
      <3>1. y = x
        BY <2>1, <2>3, Zenon
      <3>2. Near(y, i)
        BY <3>1, <2>1, <2>2, <2>3, Zenon
      <3> QED BY <3>1, <3>2, <2>1, <2>2, Zenon
    <2>4. CASE at(i) \in Heights
      <3>1. /\ y = AddMPoSScript(x, s.stakers, at(i)) /\ at(i) <= Height[tip] /\ at(i) \in Nat
        BY <2>1, <2>4, <1>2, HeightsFacts, Zenon
      <3>2. /\ y \in Scripts
            /\ y[a] \in {x[a], s.stakers[at(i)]} /\ (y[a] = NoBlock => s.stakers[at(i)] = NoBlock)
            /\ \A c \in Blocks \ {a} : y[c] \in {x[c], NoBlock}
            /\ \A c \in Ancestors[tip] \ {a} :
                 Height[c] + CacheScripts >= at(i) /\ Height[c] <= at(i) + CacheScripts => y[c] = x[c]
        <4>1. x \in Scripts /\ s.stakers \in [Heights -> MaybeBlock] /\ at(i) \in Heights
          BY <2>1, <2>4, <1>1, Zenon
        <4> HIDE DEF at, x, y
        <4> QED BY <3>1, <4>1, ScriptAdded
      <3>3. a \in Ancestors[tip] /\ a \in Blocks /\ Height[a] = at(i) /\ a # Genesis
        <4>1. a \in Ancestors[tip] /\ a \in Blocks /\ Height[a] = at(i)
          BY <3>1, AtHeightFacts, Zenon
        <4> QED BY <4>1, <2>4, HeightDef, HeightsFacts
      <3> HIDE DEF x, y, a
      <3>4. x[a] \in {s.scripts[a], NoBlock, s.stakers[at(i)]}
        BY <2>1, <3>3, Zenon DEF FromIndex
      <3>5. FromIndex(y, s)
        BY <2>1, <3>2, <3>3, <3>4, Zenon DEF FromIndex
      <3>6. Served(y, s, at(i))
        BY <3>2, <3>4, Zenon DEF Served, a
      <3>7. ASSUME NEW j \in 1..(i - 1), at(j) \in Heights PROVE Served(y, s, at(j))
        <4> DEFINE c == AtHeight(tip, at(j))
        <4>1. j \in 1..Recipients /\ at(j) # at(i)
          BY <1>1
        <4>2. /\ at(j) + CacheScripts >= at(i) /\ at(j) <= at(i) + CacheScripts
          BY <4>1, <1>1 DEF CacheScripts
        <4>3. c \in Ancestors[tip] /\ Height[c] = at(j)
          BY <4>1, <3>7, <1>2, HeightsFacts, AtHeightFacts, Zenon
        <4>4. y[c] = x[c]
          BY <4>1, <4>2, <4>3, <3>2, <3>3, Zenon
        <4>5. Served(x, s, at(j))
          BY <2>1, <3>7, Zenon
        <4> HIDE DEF at
        <4> QED BY <4>4, <4>5, Zenon DEF Served
      <3>8. Near(y, i)
        BY <3>6, <3>7, <2>2, Zenon
      <3> QED BY <3>2, <3>5, <3>8, <2>2, Zenon DEF y
    <2> QED BY <2>3, <2>4, Zenon
  <1>12. Recipients \in Good
    <2>1. Recipients \in 0..Recipients
      BY <1>1
    <2> HIDE DEF Good
    <2> QED BY <1>1, <1>10, <1>11, <2>1, LoopInvariant, Zenon
  <1>13. ASSUME NEW h \in RewardHeights(n) PROVE Served(added[Recipients], s, h)
    <2>1. h \in Heights /\ h \in Nat /\ h + Maturity < n /\ n <= h + Maturity + Recipients
      BY HeightsFacts, Zenon DEF RewardHeights
    <2>2. PICK j \in 1..Recipients : at(j) = h
      <3>1. n - Maturity - h \in 1..Recipients /\ at(n - Maturity - h) = h
        BY <2>1, <1>1
      <3> QED BY <3>1, Zenon
    <2> QED BY <2>1, <2>2, <1>12, Zenon
  <1>14. Fields(GetMPoSOutputScripts(s, n), s.root, s.cache, s.results, s.events, s.stakers,
                added[Recipients])
    BY <1>8, <1>12, FieldUpdates, Zenon
  <1> QED BY <1>12, <1>13, <1>14, Zenon

\* ConnectBlock up to the rewards: the contracts are executed, and scripts cached.
LEMMA RewardedFields ==
  ASSUME tip \in Blocks, NEW s \in Stores, NEW b \in Blocks \ {Genesis}, Height[b] <= Height[tip] + 1,
         NEW fJustCheck \in BOOLEAN
  PROVE  /\ Fields(Executed(s, b, fJustCheck), ExecRoot(s.root, b),
                   IF fJustCheck THEN s.cache ELSE CacheWith(s, b),
                   s.results, s.events, s.stakers, s.scripts)
         /\ \E x \in Scripts :
              /\ Fields(Rewarded(s, b, fJustCheck), ExecRoot(s.root, b),
                        IF fJustCheck THEN s.cache ELSE CacheWith(s, b),
                        s.results, s.events, s.stakers, x)
              /\ FromIndex(x, s)
              /\ \A h \in RewardHeights(Height[b]) : Served(x, s, h)
  <1> DEFINE e == [s EXCEPT !.root = ExecRoot(s.root, b)]
             u == Executed(s, b, fJustCheck)
             cache == IF fJustCheck THEN s.cache ELSE CacheWith(s, b)
  <1>1. s.root \in Seq(Blocks) /\ ExecRoot(s.root, b) \in Seq(Blocks)
    <2>1. s.root \in Seq(Blocks)
      BY FieldUpdates, Zenon
    <2> QED BY <2>1 DEF ExecRoot
  <1>2. Fields(e, ExecRoot(s.root, b), s.cache, s.results, s.events, s.stakers, s.scripts)
    BY <1>1, FieldUpdates, Zenon
  <1>3. u = IF fJustCheck THEN e ELSE AddResults(e, b)
    BY Zenon DEF Executed
  <1> HIDE DEF e, u
  <1>4. Fields(u, ExecRoot(s.root, b), cache, s.results, s.events, s.stakers, s.scripts)
    <2>1. CASE fJustCheck
      BY <2>1, <1>2, <1>3, Zenon
    <2>2. CASE ~fJustCheck
      <3>1. /\ e \in Stores /\ e.root = ExecRoot(s.root, b) /\ e.cache = s.cache
               /\ e.results = s.results
            /\ e.events = s.events /\ e.stakers = s.stakers /\ e.scripts = s.scripts
        BY <1>2, Zenon DEF Fields
      <3>2. CacheWith(e, b) = CacheWith(s, b)
        BY <3>1, Zenon DEF CacheWith
      <3>3. Fields(AddResults(e, b), e.root, CacheWith(e, b), e.results, e.events, e.stakers, e.scripts)
        BY <3>1, StoreOperations, Zenon
      <3> QED BY <2>2, <1>3, <3>1, <3>2, <3>3, Zenon
    <2> QED BY <2>1, <2>2, Zenon
  <1>5. /\ u \in Stores /\ u.root = ExecRoot(s.root, b) /\ u.cache = cache /\ u.results = s.results
        /\ u.events = s.events /\ u.stakers = s.stakers /\ u.scripts = s.scripts
    BY <1>4, Zenon DEF Fields
  <1>6. Rewarded(s, b, fJustCheck) = GetMPoSOutputScripts(u, Height[b]) /\ Height[b] \in Nat
    BY HeightDef, Zenon DEF Rewarded, u
  <1> HIDE DEF cache
  <1>7. PICK x \in Scripts :
          /\ Fields(GetMPoSOutputScripts(u, Height[b]), u.root, u.cache, u.results, u.events, u.stakers, x)
          /\ FromIndex(x, u)
          /\ \A h \in RewardHeights(Height[b]) : Served(x, u, h)
    BY <1>5, <1>6, RewardScripts, Zenon
  <1>8. FromIndex(x, s) /\ \A h \in RewardHeights(Height[b]) : Served(x, s, h)
    BY <1>5, <1>7, Zenon DEF FromIndex, Served
  <1> QED BY <1>4, <1>5, <1>6, <1>7, <1>8, Zenon DEF cache, u

\* ConnectBlock has one of the three outcomes, and the scripts it leaves in the cache come
\* from there or from the stake index.
LEMMA ConnectBlockOutcome ==
  ASSUME tip \in Blocks, NEW s \in Stores, NEW b \in Blocks \ {Genesis}, Height[b] <= Height[tip] + 1,
         NEW fJustCheck \in BOOLEAN
  PROVE  \E x \in Scripts :
           /\ FromIndex(x, s)
           /\ \/ Refused(ConnectBlock(s, b, fJustCheck), s, x)
              \/ fJustCheck /\ Tested(ConnectBlock(s, b, fJustCheck), s, b, x)
              \/ ~fJustCheck /\ Connected(ConnectBlock(s, b, fJustCheck), s, b, x)
  <1> DEFINE r == ConnectBlock(s, b, fJustCheck)
             u == Executed(s, b, fJustCheck)
             e == Rewarded(s, b, fJustCheck)
             cache == IF fJustCheck THEN s.cache ELSE CacheWith(s, b)
             wrong == ~CheckReward(e, b) \/ (~fJustCheck /\ e.root # HeaderRoot[b])
  <1>1. r = IF b \in BadLate THEN [ok |-> FALSE, store |-> u]
            ELSE IF wrong THEN [ok |-> FALSE, store |-> e]
            ELSE IF fJustCheck
              THEN [ok |-> TRUE, store |-> [e EXCEPT !.root = HeaderRoot[Parent[b]]]]
            ELSE [ok |-> TRUE,
                  store |-> CommitResults(WriteStakeIndex(WriteHeightIndex(e, b), b))]
    BY Zenon DEF ConnectBlock
  <1>2. /\ Fields(u, ExecRoot(s.root, b), cache, s.results, s.events, s.stakers, s.scripts)
        /\ \E x \in Scripts :
             /\ Fields(e, ExecRoot(s.root, b), cache, s.results, s.events, s.stakers, x)
             /\ FromIndex(x, s)
    BY RewardedFields, Zenon
  <1> HIDE DEF r, u, e, cache
  <1>3. PICK x \in Scripts : Fields(e, ExecRoot(s.root, b), cache, s.results, s.events, s.stakers, x)
                             /\ FromIndex(x, s)
    BY <1>2, Zenon
  <1>4. /\ e \in Stores /\ e.root = ExecRoot(s.root, b) /\ e.cache = cache /\ e.results = s.results
        /\ e.events = s.events /\ e.stakers = s.stakers /\ e.scripts = x
    BY <1>3, Zenon DEF Fields
  <1>5. CASE b \in BadLate
    <2>1. s.scripts \in Scripts /\ FromIndex(s.scripts, s)
      BY FieldUpdates, Zenon DEF FromIndex
    <2>2. ~r.ok /\ r.store = u
      BY <1>1, <1>5, Zenon
    <2>3. Refused(r, s, s.scripts)
      BY <2>2, <1>2, Zenon DEF Refused, Fields
    <2> QED BY <2>1, <2>3, Zenon DEF r
  <1>6. CASE b \notin BadLate /\ wrong
    <2>1. ~r.ok /\ r.store = e
      BY <1>1, <1>6, Zenon
    <2>2. Refused(r, s, x)
      BY <2>1, <1>4, Zenon DEF Refused
    <2> QED BY <1>3, <2>2, Zenon DEF r
  <1>7. CASE b \notin BadLate /\ ~wrong /\ fJustCheck
    <2>1. r.ok /\ r.store = [e EXCEPT !.root = HeaderRoot[Parent[b]]]
      BY <1>1, <1>7, Zenon
    <2>2. HeaderRoot[Parent[b]] \in Seq(Blocks) /\ cache = s.cache
      BY <1>7, HeaderRootDef, AncestorsOfBlock, Zenon DEF cache
    <2>3. Fields([e EXCEPT !.root = HeaderRoot[Parent[b]]], HeaderRoot[Parent[b]], e.cache, e.results,
                 e.events, e.stakers, e.scripts)
      <3> e \in Stores /\ HeaderRoot[Parent[b]] \in Seq(Blocks)
        BY <1>4, <2>2, Zenon
      <3> QED BY FieldUpdates, Zenon
    <2>4. Tested(r, s, b, x)
      BY <2>1, <2>2, <2>3, <1>4, Zenon DEF Tested
    <2> QED BY <1>3, <1>7, <2>4, Zenon DEF r
  <1>8. CASE b \notin BadLate /\ ~wrong /\ ~fJustCheck
    <2>1. r.ok /\ r.store = CommitResults(WriteStakeIndex(WriteHeightIndex(e, b), b))
      BY <1>1, <1>8, Zenon
    <2>2. Fields(r.store, e.root, NoResults,
                 [t \in Txs |-> IF e.results[t] = NoBlock THEN e.cache[t] ELSE e.results[t]],
                 EventsWith(e, b), StakersWith(e, b), e.scripts)
      BY <2>1, <1>4, WrittenFields, Zenon
    <2>3. e.root = HeaderRoot[b] /\ cache = CacheWith(s, b)
      BY <1>8, Zenon DEF cache
    <2>4. EventsWith(e, b) = EventsWith(s, b) /\ StakersWith(e, b) = StakersWith(s, b)
      BY <1>4, Zenon DEF EventsWith, StakersWith
    <2>5. [t \in Txs |-> IF e.results[t] = NoBlock THEN e.cache[t] ELSE e.results[t]] = ResultsWith(s, b)
      BY <1>4, <2>3, Zenon DEF ResultsWith
    <2>6. Connected(r, s, b, x)
      BY <2>1, <2>2, <2>3, <2>4, <2>5, <1>4, Zenon DEF Connected
    <2> QED BY <1>3, <1>8, <2>6, Zenon DEF r
  <1> QED BY <1>5, <1>6, <1>7, <1>8, Zenon

\* On the right roots, ConnectBlock refuses a block only for what it contains or for
\* the script of a staker it has to pay.
LEMMA RefusedForScript ==
  ASSUME tip \in Blocks, NEW s \in Stores, NEW b \in Blocks \ {Genesis}, Height[b] <= Height[tip] + 1,
         b \notin Bad, s.root = HeaderRoot[Parent[b]], ~ConnectBlock(s, b, FALSE).ok
  PROVE  \E h \in RewardHeights(Height[b]), y \in MaybeBlock :
           /\ y # AtHeight(b, h)
           /\ y \in {s.scripts[AtHeight(tip, h)], s.stakers[h]}
              /\ (y = NoBlock => s.stakers[h] = NoBlock)
  <1> DEFINE r == ConnectBlock(s, b, FALSE)
             e == Rewarded(s, b, FALSE)
             wrong == ~CheckReward(e, b) \/ (~FALSE /\ e.root # HeaderRoot[b])
  <1>1. r = IF b \in BadLate THEN [ok |-> FALSE, store |-> Executed(s, b, FALSE)]
            ELSE IF wrong THEN [ok |-> FALSE, store |-> e]
            ELSE [ok |-> TRUE,
                  store |-> CommitResults(WriteStakeIndex(WriteHeightIndex(e, b), b))]
    BY Zenon DEF ConnectBlock
  <1>2. PICK x \in Scripts :
             /\ Fields(e, ExecRoot(s.root, b), CacheWith(s, b), s.results, s.events, s.stakers, x)
             /\ \A h \in RewardHeights(Height[b]) : Served(x, s, h)
    BY RewardedFields, Zenon
  <1>3. ~r.ok
    OBVIOUS
  <1> HIDE DEF r, e
  <1>4. wrong
    BY <1>1, <1>3, Zenon DEF Bad
  <1>5. e.root = HeaderRoot[b] /\ e.scripts = x
    BY <1>2, HeaderRootDef, Zenon DEF Fields, Bad
  <1>6. PICK h \in RewardHeights(Height[b]) : x[AtHeight(tip, h)] # AtHeight(b, h)
    BY <1>4, <1>5, Zenon DEF CheckReward
  <1>7. AtHeight(tip, h) \in Blocks
    <2>1. h \in Nat /\ h + Maturity < Height[b] /\ Maturity \in Nat /\ Height[b] \in Nat
          /\ Height[tip] \in Nat
      BY HeightsFacts, HeightDef, ContractsAssumption, Zenon DEF RewardHeights
    <2>2. h <= Height[tip]
      BY <2>1
    <2> QED BY <2>1, <2>2, AtHeightFacts, Zenon
  <1> DEFINE y == x[AtHeight(tip, h)]
  <1>8. y \in MaybeBlock /\ Served(x, s, h)
    BY <1>2, <1>7, Zenon DEF Scripts
  <1> QED BY <1>6, <1>8, Zenon DEF Served

\* Its result is a verdict and a store.
LEMMA ConnectBlockType ==
  ASSUME tip \in Blocks, NEW s \in Stores, NEW b \in Blocks \ {Genesis}, Height[b] <= Height[tip] + 1
  PROVE  ConnectBlock(s, b, FALSE) \in [ok : BOOLEAN, store : Stores]
  <1> DEFINE r == ConnectBlock(s, b, FALSE)
  <1>1. \E ok \in BOOLEAN : \E k : r = [ok |-> ok, store |-> k]
    BY Zenon DEF ConnectBlock
  <1>2. r.store \in Stores
    <2>1. \E x \in Scripts : Refused(r, s, x) \/ Connected(r, s, b, x)
      BY ConnectBlockOutcome, Zenon
    <2> HIDE DEF r
    <2> QED BY <2>1, Zenon DEF Refused, Connected, Fields
  <1> HIDE DEF r
  <1>3. r \in [ok : BOOLEAN, store : Stores]
    BY <1>1, <1>2
  <1> QED BY <1>3, Zenon DEF r

-----------------------------------------------------------------------------
(***************************************************************************)
(* Steps that execute contracts or look up rewards.                        *)
(***************************************************************************)

\* A block that may be connected is a child of the tip.
LEMMA ChildOfTip ==
  ASSUME Types, NEW b \in Blocks, Parent[b] = tip
  PROVE  /\ b \in Blocks \ {Genesis} /\ Height[b] = Height[tip] + 1 /\ Height[b] <= Height[tip] + 1
         /\ Height[b] \in Heights /\ Height[tip] \in Nat
  <1>1. b \in Blocks \ {Genesis}
    BY TreeAssumption, Zenon DEF Types
  <1>2. Height[b] = Height[tip] + 1 /\ Height[b] \in Heights /\ Height[tip] \in Nat
    BY <1>1, HeightDef, HeightsFacts, Zenon DEF Types
  <1> QED BY <1>1, <1>2

\* ConnectTip, to its end and without the flush at it.
LEMMA ConnectTipSound ==
  ASSUME StoreSound, NEW b \in Blocks, ConnectTip(b) \/ ConnectFlushFails(b)
  PROVE  StoreSound'
  <1> DEFINE r == ConnectBlock(store, b, FALSE)
  <1>1. Types /\ store \in Stores /\ tip \in Blocks /\ flushed \in Blocks /\ tainted \in Taints
    BY Zenon DEF StoreSound, Types
  <1>2. /\ Parent[b] = tip /\ coins = tip /\ r.ok /\ store' = r.store
        /\ coins' = b /\ tip' \in {tip, b} /\ flushed' \in {flushed, b}
        /\ tainted' = [tainted EXCEPT !.stakers = tainted.stakers \ {Height[b]}]
        /\ (Track(FALSE) /\ tip' = b) \/ Track(TRUE)
    BY Zenon DEF ConnectTip, ConnectFlushFails, MayConnect, FlushIfNeeded, Rewritten
  <1>3. b \in Blocks \ {Genesis} /\ Height[b] <= Height[tip] + 1 /\ Height[b] \in Heights
    BY <1>1, <1>2, ChildOfTip, Zenon
  <1>4. \E x \in Scripts : FromIndex(x, store) /\ (Refused(r, store, x) \/ Connected(r, store, b, x))
    BY <1>1, <1>3, ConnectBlockOutcome, Zenon
  <1> HIDE DEF r
  <1>5. PICK x \in Scripts : FromIndex(x, store) /\ Connected(r, store, b, x)
    BY <1>2, <1>4, Zenon DEF Refused
  <1>6. /\ tainted' \in Taints /\ tainted'.txs = tainted.txs /\ tainted'.events = tainted.events
        /\ tainted'.stakers = tainted.stakers \ {Height[b]}
    BY <1>1, <1>2 DEF Taints
  <1>7. /\ store' \in Stores /\ store'.root = HeaderRoot[b] /\ store'.stakers = StakersWith(store, b)
        /\ store'.scripts = x
    BY <1>2, <1>5, Zenon DEF Connected, Fields
  <1>8. Types' /\ tainted'.stakers \subseteq tainted.stakers
    BY <1>1, <1>2, <1>3, <1>6, <1>7, Zenon DEF Types
  <1>9. ReceiptsRight(store', coins', tainted'.txs, tainted'.events)
    <2>1. ReceiptsRight(store, Parent[b], tainted.txs, tainted.events)
      BY <1>2, Zenon DEF StoreSound
    <2>2. ReceiptsRight(r.store, b, tainted.txs, tainted.events)
      BY <2>1, <1>1, <1>3, <1>5, ConnectedReceipts, Zenon
    <2> QED BY <2>2, <1>2, <1>6, Zenon
  <1>10. StakersRight(store', b, tainted'.stakers) /\ StakersRight(store', tip, tainted'.stakers)
    <2>1. StakersRight(store, Parent[b], tainted.stakers) /\ store.stakers \in [Heights -> MaybeBlock]
      BY <1>1, <1>2, FieldUpdates, Zenon DEF StoreSound
    <2>2. StakersRight(store', b, tainted.stakers \ {Height[b]})
          /\ StakersRight(store', Parent[b], tainted.stakers \ {Height[b]})
      BY <2>1, <1>3, <1>7, StakerWritten, Zenon
    <2> QED BY <2>2, <1>2, <1>6, Zenon
  <1>11. ScriptsRight(store'.scripts)
    <2>1. ScriptsRight(store.scripts)
      BY Zenon DEF ScriptsRight
    <2> QED BY <2>1, <1>1, <1>5, <1>7, ScriptsFromIndex, Zenon DEF StoreSound
  <1>12. tip' = b => InStep(tip', coins', store')
    BY <1>2, <1>7, Zenon DEF InStep
  <1>13. StepSound(FALSE) \/ StepSound(TRUE)
    BY <1>2, <1>8, <1>9, <1>10, <1>11, <1>12, Zenon DEF StepSound
  <1> QED BY <1>13, StepKeepsSound, Zenon

\* A block that ConnectBlock refuses, and one that is only checked.
LEMMA RefusedSound ==
  ASSUME StoreSound, NEW b \in Blocks, ConnectInvalid(b) \/ TestBlockValidity(b)
  PROVE  StoreSound'
  <1>1. Types /\ store \in Stores /\ tip \in Blocks /\ store.root \in Seq(Blocks)
    BY FieldUpdates, Zenon DEF StoreSound, Types
  <1>2. PICK f \in BOOLEAN :
          LET r == ConnectBlock(store, b, f)
          IN /\ Parent[b] = tip /\ (~f => ~r.ok)
             /\ store' = IF r.ok THEN r.store ELSE Restored(r.store, store.root)
             /\ UNCHANGED <<tip, coins, flushed, tainted>> /\ Track(FALSE)
    <2>1. CASE ConnectInvalid(b)
      BY <2>1, Zenon DEF ConnectInvalid, MayConnect
    <2>2. CASE TestBlockValidity(b)
      BY <2>2, Zenon DEF TestBlockValidity
    <2> QED BY <2>1, <2>2, Zenon
  <1> DEFINE r == ConnectBlock(store, b, f)
  <1>3. b \in Blocks \ {Genesis} /\ Height[b] <= Height[tip] + 1
    BY <1>1, <1>2, ChildOfTip, Zenon
  <1>4. /\ Parent[b] = tip /\ (~f => ~r.ok)
        /\ store' = IF r.ok THEN r.store ELSE Restored(r.store, store.root)
    BY <1>2, Zenon
  <1>5. PICK x \in Scripts :
          /\ FromIndex(x, store)
          /\ \/ Refused(r, store, x)
             \/ f /\ Tested(r, store, b, x)
             \/ ~f /\ Connected(r, store, b, x)
    BY <1>1, <1>3, ConnectBlockOutcome, Zenon
  <1> HIDE DEF r
  <1>6. /\ store' \in Stores
        /\ store'.results = store.results /\ store'.events = store.events
        /\ store'.stakers = store.stakers /\ store'.scripts = x
        /\ store'.cache \in {NoResults, store.cache} /\ store'.root \in {store.root, HeaderRoot[tip]}
    <2>1. CASE Refused(r, store, x)
      <3>1. r.store \in Stores /\ store' = Restored(r.store, store.root)
        BY <2>1, <1>4, Zenon DEF Refused
      <3>2. Fields(store', store.root, NoResults, r.store.results, r.store.events, r.store.stakers,
                   r.store.scripts)
        BY <3>1, <1>1, <1>3, StoreOperations, Zenon
      <3> QED BY <2>1, <3>2, Zenon DEF Refused, Fields
    <2>2. CASE f /\ Tested(r, store, b, x)
      BY <2>2, <1>4, Zenon DEF Tested, Fields
    <2>3. CASE ~f /\ Connected(r, store, b, x)
      BY <2>3, <1>4, Zenon DEF Connected
    <2> QED BY <1>5, <2>1, <2>2, <2>3, Zenon
  <1> QED BY <1>2, <1>5, <1>6, ScriptsChange, Zenon

\* What ConnectBlock has written for a block when it fails lies above the tip, and its
\* events are known to be wrong.
LEMMA ConnectWriteFailsSound ==
  ASSUME StoreSound, NEW b \in Blocks, ConnectWriteFails(b)
  PROVE  StoreSound'
  <1> DEFINE e == Rewarded(store, b, FALSE)
             h == WriteHeightIndex(e, b)
             k == WriteStakeIndex(h, b)
  <1>1. Types /\ store \in Stores /\ tip \in Blocks /\ tainted \in Taints /\ store.root \in Seq(Blocks)
    BY FieldUpdates, Zenon DEF StoreSound, Types
  <1>2. /\ Parent[b] = tip /\ coins = tip
        /\ \E s \in {e, h, k} : store' = Restored(s, store.root)
        /\ tainted' = [tainted EXCEPT !.events = tainted.events \cup {Height[b]}]
        /\ UNCHANGED <<tip, coins, flushed>> /\ Track(FALSE)
    BY Zenon DEF ConnectWriteFails, MayConnect
  <1>3. b \in Blocks \ {Genesis} /\ Height[b] <= Height[tip] + 1 /\ Height[b] \in Heights
    BY <1>1, <1>2, ChildOfTip, Zenon
  <1>4. PICK x \in Scripts :
          /\ Fields(e, ExecRoot(store.root, b), CacheWith(store, b), store.results, store.events,
                    store.stakers, x)
          /\ FromIndex(x, store)
    BY <1>1, <1>3, RewardedFields, Zenon
  <1> HIDE DEF e
  <1>5. /\ e \in Stores /\ e.results = store.results /\ e.events = store.events
        /\ e.stakers = store.stakers /\ e.scripts = x
    BY <1>4, Zenon DEF Fields
  <1>6. /\ Fields(h, e.root, e.cache, e.results, EventsWith(e, b), e.stakers, e.scripts)
        /\ Fields(k, e.root, e.cache, e.results, EventsWith(e, b), StakersWith(e, b), e.scripts)
    BY <1>3, <1>5, WrittenFields, Zenon
  <1> HIDE DEF h, k
  <1>7. PICK s \in {e, h, k} : store' = Restored(s, store.root)
    BY <1>2, Zenon
  <1>8. /\ s \in Stores /\ s.results = store.results /\ s.scripts = x
        /\ s.events \in {store.events, EventsWith(e, b)}
        /\ s.stakers \in {store.stakers, StakersWith(e, b)}
    BY <1>5, <1>6, Zenon DEF Fields
  <1>9. Fields(store', store.root, NoResults, s.results, s.events, s.stakers, s.scripts)
    BY <1>1, <1>3, <1>7, <1>8, StoreOperations, Zenon
  <1>10. /\ store' \in Stores /\ store'.root = store.root /\ store'.cache = NoResults
         /\ store'.results = store.results /\ store'.scripts = x
         /\ store'.events \in {store.events, EventsWith(e, b)}
         /\ store'.stakers \in {store.stakers, StakersWith(store, b)}
    BY <1>5, <1>8, <1>9, Zenon DEF Fields, StakersWith
  <1>11. /\ tainted' \in Taints /\ tainted'.txs = tainted.txs
         /\ tainted'.events = tainted.events \cup {Height[b]}
         /\ tainted'.stakers = tainted.stakers
    BY <1>1, <1>2, <1>3 DEF Taints
  <1>12. Types' /\ tainted'.stakers \subseteq tainted.stakers
    BY <1>1, <1>2, <1>10, <1>11, Zenon DEF StoreSound, Types
  <1>13. ReceiptsRight(store', coins', tainted'.txs, tainted'.events)
    <2>1. \A t \in Txs : store'.cache[t] = NoBlock
      BY <1>10, Zenon DEF NoResults
    <2>2. store.events \in [Heights -> SUBSET Blocks]
      BY <1>1, FieldUpdates, Zenon
    <2>3. \A g \in Heights \ {Height[b]} : store'.events[g] = store.events[g]
      BY <1>5, <1>10, <2>2, <1>3, Zenon DEF EventsWith
    <2> QED BY <1>2, <1>10, <1>11, <2>1, <2>3, Zenon DEF StoreSound, ReceiptsRight
  <1>14. StakersRight(store', tip, tainted'.stakers)
    <2>1. StakersRight(store, tip, tainted.stakers) /\ store.stakers \in [Heights -> MaybeBlock]
      BY <1>1, FieldUpdates, Zenon DEF StoreSound
    <2>2. CASE store'.stakers = store.stakers
      BY <2>1, <2>2, <1>11, Zenon DEF StakersRight
    <2>3. CASE store'.stakers = StakersWith(store, b)
      <3>1. StakersRight(store', Parent[b], tainted.stakers \ {Height[b]})
        BY <2>1, <2>3, <1>2, <1>3, StakerWritten, Zenon
      <3> QED BY <3>1, <1>2, <1>11, Zenon DEF StakersRight
    <2> QED BY <2>2, <2>3, <1>10, Zenon
  <1>15. ScriptsRight(store'.scripts)
    <2>1. ScriptsRight(store.scripts)
      BY Zenon DEF ScriptsRight
    <2> QED BY <2>1, <1>1, <1>4, <1>10, ScriptsFromIndex, Zenon DEF StoreSound
  <1>16. InStep(tip, coins, store) => InStep(tip', coins', store')
    BY <1>2, <1>10, Zenon DEF InStep
  <1>17. StepSound(FALSE)
    BY <1>2, <1>12, <1>13, <1>14, <1>15, <1>16, Zenon DEF StepSound
  <1> QED BY <1>17, StepKeepsSound, Zenon

\* Scripts for a block that is made on the tip.
LEMMA CreateMPoSOutputsSound ==
  ASSUME StoreSound, CreateMPoSOutputs
  PROVE  StoreSound'
  <1>1. store \in Stores /\ tip \in Blocks
    BY Zenon DEF StoreSound, Types
  <1>2. /\ store' = GetMPoSOutputScripts(store, Height[tip] + 1)
        /\ UNCHANGED <<tip, coins, flushed, tainted>> /\ Track(FALSE)
    BY Zenon DEF CreateMPoSOutputs
  <1>3. Height[tip] + 1 \in Nat /\ Height[tip] + 1 <= Height[tip] + 1
    BY <1>1, HeightDef
  <1>4. PICK x \in Scripts :
          /\ Fields(store', store.root, store.cache, store.results, store.events, store.stakers, x)
          /\ FromIndex(x, store)
    BY <1>1, <1>2, <1>3, RewardScripts, Zenon
  <1>5. /\ store' \in Stores
        /\ store'.results = store.results /\ store'.events = store.events
           /\ store'.stakers = store.stakers
        /\ store'.scripts = x /\ store'.cache = store.cache /\ store'.root = store.root
    BY <1>4, Zenon DEF Fields
  <1> QED BY <1>2, <1>4, <1>5, ScriptsChange, Zenon

\* What VerifyDB has at level 4 when it has connected i of d blocks again, or failed to
Rechecked(d, i) == {h \in Heights : h > Height[tip] - d /\ h <= Height[tip] - d + i}
Verified(p, d, i) ==
  /\ ReceiptsRight(p.store, tip, tainted.txs, tainted.events)
  /\ StakersRight(p.store, tip, tainted.stakers)
  /\ ScriptsRight(p.store.scripts)
  /\ p.ok => /\ StakersRight(p.store, tip, tainted.stakers \ Rechecked(d, i))
             /\ i > 0 => p.store.root = HeaderRoot[Down(d - i)]

\* One block of them.
Reconnect(p, b) ==
  IF ~p.ok THEN p
  ELSE LET r == ConnectBlock(p.store, b, FALSE)
       IN IF r.ok THEN r ELSE [ok |-> FALSE, store |-> Restored(r.store, p.store.root)]

\* ... which keeps what VerifyDB has.
LEMMA ReconnectVerified ==
  ASSUME Types, NEW d \in Depths, NEW i \in 1..d, NEW p \in [ok : BOOLEAN, store : Stores]
  PROVE  /\ Reconnect(p, Down(d - i)) \in [ok : BOOLEAN, store : Stores]
         /\ Verified(p, d, i - 1) => Verified(Reconnect(p, Down(d - i)), d, i)
  <1> DEFINE b == Down(d - i)
             s == p.store
             r == ConnectBlock(s, b, FALSE)
             k == Restored(r.store, s.root)
             n == Reconnect(p, b)
             S == [ok : BOOLEAN, store : Stores]
  <1>1. tip \in Blocks /\ Height[tip] \in Nat /\ d \in 1..Height[tip] /\ s \in Stores
        /\ s.root \in Seq(Blocks)
    <2>1. tip \in Blocks /\ Height[tip] \in Nat /\ d \in 1..Height[tip]
      BY HeightDef, Zenon DEF Types, Depths
    <2>2. s \in Stores
      OBVIOUS
    <2> QED BY <2>1, <2>2, FieldUpdates, Zenon
  <1>2. d - i \in Nat /\ d - i <= Height[tip] /\ d - i < Height[tip]
    BY <1>1
  <1>3. b \in Ancestors[tip] /\ b \in Blocks \ {Genesis} /\ Height[b] = Height[tip] - (d - i)
    BY <1>2, DownIsBlock, Zenon
  <1>4. Height[b] <= Height[tip] + 1 /\ Height[b] = Height[tip] - d + i /\ Height[b] \in Heights
    <2>1. Height[b] \in Heights
      BY <1>3, HeightsFacts, Zenon
    <2> HIDE DEF b
    <2> QED BY <1>1, <1>3, <2>1
  <1>5. CASE ~p.ok
    <2>1. n = p
      BY <1>5, Zenon DEF Reconnect
    <2> HIDE DEF n
    <2> QED BY <1>5, <2>1, Zenon DEF Verified, n
  <1>6. CASE p.ok
    <2>1. n = IF r.ok THEN r ELSE [ok |-> FALSE, store |-> k]
      BY <1>6, Zenon DEF Reconnect
    <2>2. r \in S
      BY <1>1, <1>3, <1>4, ConnectBlockType, Zenon
    <2>3. PICK x \in Scripts : FromIndex(x, s) /\ (Refused(r, s, x) \/ Connected(r, s, b, x))
      BY <1>1, <1>3, <1>4, ConnectBlockOutcome, Zenon
    <2> HIDE DEF r, n, s, b
    <2>4. Fields(k, s.root, NoResults, r.store.results, r.store.events, r.store.stakers, r.store.scripts)
      <3>1. r.store \in Stores
        BY <2>2
      <3> QED BY <3>1, <1>1, <1>3, StoreOperations, Zenon
    <2> HIDE DEF k
    <2>5. k \in Stores /\ n \in S
      <3>1. k \in Stores
        BY <2>4, Zenon DEF Fields
      <3> QED BY <3>1, <2>1, <2>2
    <2>6. ASSUME Verified(p, d, i - 1) PROVE Verified(n, d, i)
      <3>1. /\ ReceiptsRight(s, tip, tainted.txs, tainted.events)
               /\ StakersRight(s, tip, tainted.stakers)
            /\ StakersRight(s, tip, tainted.stakers \ Rechecked(d, i - 1)) /\ ScriptsRight(s.scripts)
        BY <1>6, <2>6, Zenon DEF Verified, s
      <3>2. ScriptsRight(x)
        BY <3>1, <2>3, ScriptsFromIndex, Zenon
      <3>3. CASE Refused(r, s, x)
        <4>1. ~n.ok /\ n.store = k
          BY <3>3, <2>1, Zenon DEF Refused
        <4>2. /\ k.cache = NoResults /\ k.results = s.results /\ k.events = s.events
              /\ k.stakers = s.stakers /\ k.scripts = x
          BY <3>3, <2>4, Zenon DEF Fields, Refused
        <4>3. \A t \in Txs : k.cache[t] = NoBlock
          BY <4>2, Zenon DEF NoResults
        <4>4. ReceiptsRight(k, tip, tainted.txs, tainted.events)
              /\ StakersRight(k, tip, tainted.stakers)
          BY <3>1, <4>2, <4>3, Zenon DEF ReceiptsRight, StakersRight
        <4> QED BY <3>2, <4>1, <4>2, <4>4, Zenon DEF Verified
      <3>4. CASE Connected(r, s, b, x)
        <4>1. n = r /\ r.store.root = HeaderRoot[b] /\ r.store.stakers = StakersWith(s, b)
              /\ r.store.scripts = x
          BY <3>4, <2>1, Zenon DEF Connected, Fields
        <4>2. ReceiptsRight(r.store, tip, tainted.txs, tainted.events)
          BY <3>1, <3>4, <1>1, <1>3, ConnectedReceipts, Zenon
        <4>3. s.stakers \in [Heights -> MaybeBlock]
          BY <1>1, FieldUpdates, Zenon
        <4>4. StakersRight(r.store, tip, (tainted.stakers \ Rechecked(d, i - 1)) \ {Height[b]})
          BY <3>1, <4>1, <4>3, <1>1, <1>3, StakerWritten, Zenon
        <4>5. (tainted.stakers \ Rechecked(d, i - 1)) \ {Height[b]} = tainted.stakers \ Rechecked(d, i)
          <5>1. ASSUME NEW h \in Heights
                PROVE  h \in Rechecked(d, i) <=> h \in Rechecked(d, i - 1) \/ h = Height[b]
            BY <1>1, <1>4, HeightsFacts DEF Rechecked
          <5>2. tainted.stakers \subseteq Heights
            BY DEF Types, Taints
          <5> QED BY <5>1, <5>2, Zenon
        <4>6. StakersRight(r.store, tip, tainted.stakers)
          BY <4>4, Zenon DEF StakersRight
        <4> QED BY <3>2, <4>1, <4>2, <4>4, <4>5, <4>6, Zenon DEF Verified, b
      <3> QED BY <2>3, <3>3, <3>4, Zenon
    <2> QED BY <2>5, <2>6, Zenon DEF n, b
  <1> QED BY <1>5, <1>6, Zenon

\* All of them.
LEMMA ReconnectedVerified ==
  ASSUME Types, NEW d \in Depths, NEW s \in Stores, Verified([ok |-> TRUE, store |-> s], d, 0)
  PROVE  LET r == Reconnected(s, d) IN r \in [ok : BOOLEAN, store : Stores] /\ Verified(r, d, d)
  <1> DEFINE S == [ok : BOOLEAN, store : Stores]
             base == [ok |-> TRUE, store |-> s]
             q == [i \in 1..d |-> [p \in S |-> Reconnect(p, Down(d - i))]]
             rhs(f) == [i \in 0..d |-> IF i = 0 THEN base ELSE Reconnect(f[i - 1], Down(d - i))]
             done == CHOOSE f : f = rhs(f)
  <1>1. d \in Nat /\ d > 0
    <2>1. Height[tip] \in Nat
      BY HeightDef, Zenon DEF Types
    <2> QED BY <2>1 DEF Depths
  <1>2. base \in S
    OBVIOUS
  <1>3. ASSUME NEW i \in 1..d, NEW p \in S
        PROVE  /\ Reconnect(p, Down(d - i)) \in S
               /\ Verified(p, d, i - 1) => Verified(Reconnect(p, Down(d - i)), d, i)
    BY ReconnectVerified, Zenon
  <1> HIDE DEF S
  <1>4. q \in [1..d -> [S -> S]]
    BY <1>3, Zenon
  <1>5. PICK f \in [0..d -> S] : Loop(f, d, base, q)
    <2> HIDE DEF q, base
    <2> QED BY <1>1, <1>2, <1>4, LoopDefined, Zenon
  <1>6. f = rhs(f)
    <2>1. ASSUME NEW i \in 0..d PROVE f[i] = rhs(f)[i]
      <3>1. CASE i = 0
        BY <3>1, <1>5, Zenon DEF Loop
      <3>2. CASE i # 0
        <4>1. i \in 1..d /\ i - 1 \in 0..d
          BY <3>2, <1>1
        <4>2. f[i - 1] \in S /\ f[i] = q[i][f[i - 1]]
          BY <4>1, <1>5, Zenon DEF Loop
        <4> QED BY <4>1, <4>2, <3>2, Zenon
      <3> QED BY <3>1, <3>2, Zenon
    <2> QED BY <2>1, Zenon
  <1>7. done = rhs(done)
    BY <1>6, Zenon
  <1>8. Reconnected(s, d) = done[d]
    BY Zenon DEF Reconnected, Reconnect
  <1> HIDE DEF done
  <1>9. done[0] = base /\ \A i \in 1..d : done[i] = Reconnect(done[i - 1], Down(d - i))
    <2>1. 0 \in 0..d /\ \A i \in 1..d : i \in 0..d /\ i # 0
      BY <1>1
    <2> QED BY <1>7, <2>1, Zenon
  <1> DEFINE Good == {i \in 0..d : done[i] \in S /\ Verified(done[i], d, i)}
  <1>10. 0 \in Good
    <2>1. 0 \in 0..d
      BY <1>1
    <2> QED BY <2>1, <1>2, <1>9, Zenon
  <1>11. ASSUME NEW i \in 1..d, i - 1 \in Good PROVE i \in Good
    <2>1. i \in 0..d
      BY <1>1
    <2> QED BY <2>1, <1>3, <1>9, <1>11, Zenon
  <1>12. d \in Good
    <2>1. d \in 0..d
      BY <1>1
    <2> HIDE DEF Good
    <2> QED BY <1>1, <1>10, <1>11, <2>1, LoopInvariant, Zenon
  <1> QED BY <1>8, <1>12, Zenon DEF S

\* VerifyDB at level 4, to its end or to a block that does not connect.
LEMMA VerifyLevel4Sound ==
  ASSUME StoreSound, NEW d \in Depths, VerifyLevel4(d)
  PROVE  StoreSound'
  <1> DEFINE u == Disconnected(d)
             r == Reconnected(u, d)
             base == [ok |-> TRUE, store |-> u]
  <1>1. Types /\ store \in Stores /\ tainted \in Taints /\ tip \in Blocks /\ Height[tip] \in Nat
    BY HeightDef, Zenon DEF StoreSound, Types
  <1>2. /\ coins = tip /\ store' = r.store
        /\ tainted' = [tainted EXCEPT !.stakers = tainted.stakers \
             {h \in Heights : r.ok /\ h > Height[tip] - d /\ h <= Height[tip]}]
        /\ UNCHANGED <<tip, coins, flushed>> /\ Track(~r.ok)
    BY Zenon DEF VerifyLevel4
  <1>3. Fields(u, HeaderRoot[Parent[Down(d - 1)]], store.cache, store.results, store.events,
               store.stakers, store.scripts)
    BY <1>1, DisconnectedFields, Zenon
  <1> HIDE DEF u
  <1>4. /\ u \in Stores /\ u.cache = store.cache /\ u.results = store.results
           /\ u.events = store.events
        /\ u.stakers = store.stakers /\ u.scripts = store.scripts
    BY <1>3, Zenon DEF Fields
  <1>5. Verified(base, d, 0)
    <2>1. base.store = u /\ ~(0 > 0)
      OBVIOUS
    <2>2. Rechecked(d, 0) = {}
      <3>1. ASSUME NEW h \in Heights PROVE ~(h > Height[tip] - d /\ h <= Height[tip] - d + 0)
        BY <1>1, HeightsFacts DEF Depths
      <3> QED BY <3>1, Zenon DEF Rechecked
    <2> HIDE DEF base
    <2>3. ReceiptsRight(u, tip, tainted.txs, tainted.events) /\ StakersRight(u, tip, tainted.stakers)
      BY <1>2, <1>4, Zenon DEF StoreSound, ReceiptsRight, StakersRight
    <2>4. ScriptsRight(u.scripts) /\ StakersRight(u, tip, tainted.stakers \ {})
      BY <1>4, <2>3, Zenon DEF ScriptsRight, StakersRight
    <2> QED BY <2>1, <2>2, <2>3, <2>4, Zenon DEF Verified
  <1>6. r \in [ok : BOOLEAN, store : Stores] /\ Verified(r, d, d)
    BY <1>1, <1>4, <1>5, ReconnectedVerified, Zenon
  <1> HIDE DEF r
  <1>7. r.ok \in BOOLEAN /\ store' \in Stores
    BY <1>2, <1>6
  <1>8. /\ tainted' \in Taints /\ tainted'.txs = tainted.txs /\ tainted'.events = tainted.events
        /\ tainted'.stakers = tainted.stakers \
             {h \in Heights : r.ok /\ h > Height[tip] - d /\ h <= Height[tip]}
    <2> DEFINE w == tainted.stakers \ {h \in Heights : r.ok /\ h > Height[tip] - d /\ h <= Height[tip]}
    <2>1. w \in SUBSET Heights
      BY <1>1 DEF Taints
    <2>2. tainted' = [tainted EXCEPT !.stakers = w]
      BY <1>2, Zenon
    <2> HIDE DEF w
    <2>3. tainted' \in Taints /\ tainted'.txs = tainted.txs
          /\ tainted'.events = tainted.events /\ tainted'.stakers = w
      BY <1>1, <2>1, <2>2 DEF Taints
    <2> QED BY <2>3, Zenon DEF w
  <1>9. tainted'.stakers = IF r.ok THEN tainted.stakers \ Rechecked(d, d) ELSE tainted.stakers
    <2>1. Height[tip] - d + d = Height[tip]
      BY <1>1 DEF Depths
    <2>2. CASE r.ok
      BY <1>8, <2>1, <2>2, Zenon DEF Rechecked
    <2>3. CASE ~r.ok
      BY <1>8, <2>3, Zenon
    <2> QED BY <2>2, <2>3, Zenon
  <1>10. Types' /\ tainted'.stakers \subseteq tainted.stakers
    BY <1>1, <1>2, <1>7, <1>8, Zenon DEF Types
  <1>11. ReceiptsRight(store', coins', tainted'.txs, tainted'.events)
    BY <1>2, <1>6, <1>8, Zenon DEF Verified
  <1>12. StakersRight(store', tip, tainted'.stakers)
    BY <1>2, <1>6, <1>9, Zenon DEF Verified
  <1>13. ScriptsRight(store'.scripts)
    BY <1>2, <1>6, Zenon DEF Verified
  <1>14. r.ok => InStep(tip', coins', store')
    <2>1. d > 0 /\ d - d = 0 /\ 0 \in Nat /\ 0 <= Height[tip]
      BY <1>1 DEF Depths
    <2>2. Down(d - d) = tip
      BY <2>1, <1>1, DownIsBlock, Zenon
    <2> QED BY <2>1, <2>2, <1>2, <1>6, Zenon DEF Verified, InStep
  <1>15. StepSound(~r.ok)
    BY <1>2, <1>10, <1>11, <1>12, <1>13, <1>14, Zenon DEF StepSound
  <1>16. (~r.ok) \in BOOLEAN
    BY <1>7, Zenon
  <1> QED BY <1>15, <1>16, StepKeepsSound, Zenon

-----------------------------------------------------------------------------
(***************************************************************************)
(* What is proved.                                                         *)
(***************************************************************************)

\* StoreSound is inductive.
LEMMA StoreStaysSound == Spec => []StoreSound
  <1>1. Init => StoreSound
    <2> SUFFICES ASSUME Init PROVE StoreSound
      OBVIOUS
    <2>1. Genesis \in Blocks /\ Ancestors[Genesis] = {Genesis} /\ TxsOf[Genesis] = {}
          /\ Height[Genesis] = 0 /\ HeaderRoot[Genesis] = <<>>
      BY TreeAssumption, AncestorsOfBlock, ContractsAssumption, HeightDef, HeaderRootDef, Zenon
    <2>2. /\ tip = Genesis /\ coins = Genesis /\ flushed = Genesis /\ stale = {}
          /\ store = [root |-> <<>>, cache |-> NoResults, results |-> NoResults,
                      events |-> [h \in Heights |-> {}], stakers |-> [h \in Heights |-> NoBlock],
                      scripts |-> NoScripts]
          /\ tainted = [txs |-> {}, events |-> {}, stakers |-> {}]
      BY Zenon DEF Init
    <2>3. /\ <<>> \in Seq(Blocks) /\ NoResults \in Results /\ NoScripts \in Scripts
          /\ [h \in Heights |-> {}] \in [Heights -> SUBSET Blocks]
          /\ [h \in Heights |-> NoBlock] \in [Heights -> MaybeBlock]
      BY DEF NoResults, Results, NoScripts, Scripts, MaybeBlock
    <2>4. /\ store.root = <<>> /\ store.cache = NoResults /\ store.results = NoResults
          /\ store.events = [h \in Heights |-> {}] /\ store.scripts = NoScripts
      BY <2>2, Zenon
    <2>5. store \in Stores /\ tainted \in Taints
      BY <2>2, <2>3 DEF Stores, Taints
    <2>6. Types /\ RootsFollowTip
      BY <2>1, <2>2, <2>4, <2>5, Zenon DEF Types, RootsFollowTip, InStep
    <2>7. \A t \in Txs : WantedResult(Genesis, t) = NoBlock /\ store.results[t] = NoBlock
          /\ store.cache[t] = NoBlock
      BY <2>1, <2>4, Zenon DEF WantedResult, NoResults
    <2>8. \A h \in Heights : WantedEvents(Genesis, h) = {} /\ store.events[h] = {}
      BY <2>1, <2>4, Zenon DEF WantedEvents
    <2>9. \A h \in Heights : ~(h <= Height[Genesis])
      BY <2>1, HeightsFacts
    <2>10. \A b \in Blocks : store.scripts[b] = NoBlock
      BY <2>4, Zenon DEF NoScripts
    <2> QED BY <2>2, <2>6, <2>7, <2>8, <2>9, <2>10, Zenon DEF StoreSound, ReceiptsRight, StakersRight
  <1>2. StoreSound /\ [Next]_vars => StoreSound'
    <2> SUFFICES ASSUME StoreSound, [Next]_vars PROVE StoreSound'
      OBVIOUS
    <2>1. ASSUME NEW b \in Blocks, ConnectTip(b) \/ ConnectFlushFails(b) PROVE StoreSound'
      BY <2>1, ConnectTipSound, Zenon
    <2>2. ASSUME NEW b \in Blocks, ConnectInvalid(b) \/ TestBlockValidity(b) PROVE StoreSound'
      BY <2>2, RefusedSound, Zenon
    <2>3. ASSUME NEW b \in Blocks, ConnectWriteFails(b) PROVE StoreSound'
      BY <2>3, ConnectWriteFailsSound, Zenon
    <2>4. ASSUME Abort PROVE StoreSound'
      BY <2>4, OthersSound, Zenon
    <2>5. ASSUME NEW b \in Blocks, ConnectAsserts(b) \/ TestAsserts(b) PROVE StoreSound'
      BY <2>4, <2>5, Zenon DEF ConnectAsserts, TestAsserts
    <2>6. ASSUME DisconnectTip \/ DisconnectFails \/ DisconnectFlushFails PROVE StoreSound'
      BY <2>6, DisconnectTipSound, Zenon
    <2>7. ASSUME DisconnectAsserts \/ VerifyAsserts PROVE StoreSound'
      BY <2>4, <2>7, Zenon DEF DisconnectAsserts, VerifyAsserts
    <2>8. ASSUME CreateMPoSOutputs PROVE StoreSound'
      BY <2>8, CreateMPoSOutputsSound, Zenon
    <2>9. ASSUME NEW d \in Depths, VerifyLevel3(d) \/ VerifyCutShort(d) PROVE StoreSound'
      BY <2>9, VerifySound, Zenon
    <2>10. ASSUME NEW d \in Depths, VerifyLevel4(d) PROVE StoreSound'
      BY <2>10, VerifyLevel4Sound, Zenon
    <2>11. ASSUME \/ \E t \in Txs : GetResult(t)
                  \/ FlushStateToDisk \/ StartShutdown \/ UNCHANGED vars
           PROVE  StoreSound'
      BY <2>11, OthersSound, Zenon
    <2>12. ASSUME Stop \/ Crash PROVE StoreSound'
      BY <2>12, RestartSound, Zenon
    <2> QED BY <2>1, <2>2, <2>3, <2>5, <2>6, <2>7, <2>8, <2>9, <2>10, <2>11, <2>12, Zenon DEF Next
  <1> QED BY <1>1, <1>2, PTL DEF Spec

\* Whenever cs_main is free, globalState has the roots of the tip's header and the coins
\* are the tip's, unless a step that failed half way has left them behind: what
\* ConnectTip, DisconnectTip, TestBlockValidity, VerifyDB and AppInitMain do to the
\* roots is undone or completed, in any tree of blocks and for any number of failures.
THEOREM RootsAlwaysFollowTip == Spec => []RootsFollowTip
  <1>1. StoreSound => RootsFollowTip
    BY Zenon DEF StoreSound
  <1> QED BY <1>1, StoreStaysSound, PTL

\* Receipts and events by height are those of the chain of the coins, but for what a
\* crash or a failure has left wrong, and the cache serves no receipt that the database
\* does not hold: deleteResults, EraseHeightIndex and commitResults keep up with
\* reorganisations.
THEOREM ReceiptsAlwaysFollowChain == Spec => []ReceiptsFollowChain
  <1>1. StoreSound => ReceiptsFollowChain
    BY Zenon DEF StoreSound, ReceiptsRight, ReceiptsFollowChain
  <1> QED BY <1>1, StoreStaysSound, PTL

\* The stake index, though nothing is erased from it, has the staker of the chain of the
\* coins at every height, and scriptsMap, though nothing empties it, pays the staker of
\* the very block, but for what a crash has left wrong.
THEOREM StakersAlwaysFollowChain == Spec => []StakersFollowChain
  <1>1. StoreSound => StakersFollowChain
    BY Zenon DEF StoreSound, StakersRight, StakersFollowChain
  <1> QED BY <1>1, StoreStaysSound, PTL

\* InvalidBlockFound marks no valid block while the roots are right, unless a staker
\* that the block has to pay was left wrong by a crash: CheckReward and the comparison
\* of the roots depend on nothing else.
THEOREM OnlyBadBlocksAreMarked == Spec => OnlyBadBlocksFail
  <1> DEFINE Excused(b) == skewed \/ \E h \in RewardHeights(Height[b]) :
                                       h \in tainted.stakers \/ AtHeight(b, h) \in stale
             Marks == \A b \in (failed' \ failed) \ Bad : Excused(b)
  <1>1. ASSUME StoreSound, NEW b \in Blocks, ConnectInvalid(b), b \notin Bad PROVE Excused(b)
    <2> SUFFICES ASSUME ~skewed PROVE \E h \in RewardHeights(Height[b]) :
                                        h \in tainted.stakers \/ AtHeight(b, h) \in stale
      BY Zenon
    <2>1. Types /\ tip \in Blocks /\ store \in Stores /\ store.root = HeaderRoot[tip]
      BY <1>1, Zenon DEF StoreSound, Types, RootsFollowTip, InStep
    <2>2. Parent[b] = tip /\ ~ConnectBlock(store, b, FALSE).ok
      BY <1>1, Zenon DEF ConnectInvalid, MayConnect
    <2>3. /\ b \in Blocks \ {Genesis} /\ Height[b] <= Height[tip] + 1
          /\ Height[b] = Height[tip] + 1 /\ Height[tip] \in Nat
      BY <2>1, <2>2, ChildOfTip, Zenon
    <2>4. PICK h \in RewardHeights(Height[b]), y \in MaybeBlock :
            /\ y # AtHeight(b, h)
            /\ y \in {store.scripts[AtHeight(tip, h)], store.stakers[h]}
            /\ y = NoBlock => store.stakers[h] = NoBlock
      BY <1>1, <2>1, <2>2, <2>3, RefusedForScript, Zenon
    <2>5. h \in Heights /\ h \in Nat /\ h <= Height[tip]
      <3>1. h \in Heights /\ h \in Nat /\ h + Maturity < Height[b] /\ Maturity \in Nat
        BY HeightsFacts, ContractsAssumption, Zenon DEF RewardHeights
      <3> QED BY <3>1, <2>3
    <2>6. /\ AtHeight(tip, h) = AtHeight(b, h) /\ AtHeight(b, h) \in Blocks
          /\ AtHeight(b, h) # NoBlock
      <3>1. tip \in Ancestors[b]
        BY <2>2, <2>3, AncestorsOfBlock, Zenon
      <3>2. AtHeight(tip, h) = AtHeight(b, h)
        BY <2>5, <3>1, AtHeightOfAncestor, Zenon
      <3>3. AtHeight(tip, h) \in Blocks
        BY <2>1, <2>5, AtHeightFacts, Zenon
      <3> QED BY <3>2, <3>3, TreeAssumption, Zenon
    <2>7. h \notin tainted.stakers => store.stakers[h] = AtHeight(b, h)
      BY <1>1, <2>5, <2>6, Zenon DEF StoreSound, StakersRight
    <2>8. AtHeight(b, h) \notin stale => store.scripts[AtHeight(b, h)] \in {AtHeight(b, h), NoBlock}
      BY <1>1, <2>6, Zenon DEF StoreSound
    <2> QED BY <2>4, <2>6, <2>7, <2>8, Zenon
  <1>2. StoreSound /\ [Next]_vars => [Marks]_vars
    <2> SUFFICES ASSUME StoreSound, Next PROVE Marks
      BY Zenon
    <2>1. CASE \E b \in Blocks : ConnectInvalid(b)
      <3>1. PICK b \in Blocks : ConnectInvalid(b)
        BY <2>1, Zenon
      <3>2. failed' \ failed \subseteq {b}
        BY <3>1, Zenon DEF ConnectInvalid
      <3> HIDE DEF Excused
      <3> QED BY <3>1, <3>2, <1>1, Zenon
    <2>2. CASE ~\E b \in Blocks : ConnectInvalid(b)
      <3>1. failed' \subseteq failed
        BY <2>2, Zenon DEF Next, ConnectTip, ConnectWriteFails, ConnectFlushFails, ConnectAsserts,
           TestBlockValidity, TestAsserts, DisconnectTip, DisconnectFails, DisconnectFlushFails,
           DisconnectAsserts, CreateMPoSOutputs, GetResult, VerifyLevel3, VerifyLevel4, VerifyCutShort,
           VerifyAsserts, FlushStateToDisk, StartShutdown, Stop, Crash, Abort
      <3> QED BY <3>1, Zenon
    <2> QED BY <2>1, <2>2, Zenon
  <1>3. OnlyBadBlocksFail <=> [][Marks]_vars
    BY DEF OnlyBadBlocksFail
  <1> HIDE DEF Marks
  <1> QED BY <1>2, <1>3, StoreStaysSound, PTL DEF Spec
=============================================================================
