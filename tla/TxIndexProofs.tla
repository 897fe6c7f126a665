---------------------------- MODULE TxIndexProofs ----------------------------
(***************************************************************************)
(* Proofs about TxIndex, for every tree of blocks and any bounds.          *)
(***************************************************************************)
EXTENDS TxIndex, BlockTreeProofs

MaybeBlock == Blocks \cup {NoBlock}
CallbackRecord == [kind : {"connected", "flushed"}, block : Blocks]

\* Types of the variables that TypeOK leaves out; ThreadSync indexes a block
MoreTypes ==
  /\ spc = "indexing" => pindex # NoBlock
  /\ queue \in Seq(CallbackRecord)
  /\ batch \in [blocks : SUBSET (Blocks \ {Genesis}), last : BOOLEAN]

\* What has reached the disk is never ahead of what the node reads
DiskBehind == disk.indexed \subseteq mem.indexed

\* The flag of the older version is set only while nothing has begun, on the
\* chain that its entries belong to
LegacyUntouched ==
  legacy => spc = "start" /\ flushed = tip /\ Entries(tip) \subseteq old

\* Between its two writes, a batch is in the new database, and synced
BatchWritten ==
  spc = "erase" => /\ batch.blocks \subseteq disk.indexed
                   /\ batch.last => batch.blocks = old

\* The best block of a synced index is backed like its locator
BestBacked == synced => Entries(best) \subseteq mem.indexed \cup mem.claimed

IndexInv ==
  /\ TypeOK /\ MoreTypes
  /\ DiskBehind /\ LegacyUntouched /\ BatchWritten /\ BestBacked
  /\ MigrationLosesNothing /\ LocatorBacked

-----------------------------------------------------------------------------
(***************************************************************************)
(* The tree                                                                *)
(***************************************************************************)

\* GetAncestor (chain.cpp): ancestors are blocks, and their ancestors are among
\* those of the descendant.
LEMMA ChainFacts ==
  ASSUME NEW b \in MaybeBlock
  PROVE  /\ Anc(b) \subseteq Blocks /\ Entries(b) \subseteq Blocks \ {Genesis}
         /\ \A a \in Anc(b) : Anc(a) \subseteq Anc(b) /\ Entries(a) \subseteq Entries(b)
  <1>1. CASE b = NoBlock
    BY <1>1 DEF Anc, Entries
  <1>2. CASE b # NoBlock
    <2>1. b \in Blocks /\ Anc(b) = Ancestors[b]
      BY <1>2 DEF MaybeBlock, Anc
    <2>2. \A a \in Ancestors[b] : a \in Blocks /\ Ancestors[a] \subseteq Ancestors[b]
      BY <2>1, AncestorsOfAncestors, Zenon
    <2>3. \A a \in Anc(b) : Anc(a) \subseteq Anc(b)
      BY <2>1, <2>2, TreeAssumption DEF Anc
    <2> QED BY <2>1, <2>2, <2>3 DEF Entries
  <1> QED BY <1>1, <1>2

\* A block adds itself to the entries of its parent.
LEMMA EntriesOfBlock ==
  ASSUME NEW b \in Blocks
  PROVE  /\ Parent[b] \in MaybeBlock
         /\ Anc(b) = {b} \cup Anc(Parent[b])
         /\ Entries(b) = ({b} \ {Genesis}) \cup Entries(Parent[b])
  <1>1. /\ Parent[b] \in MaybeBlock /\ (Parent[b] = NoBlock <=> b = Genesis)
        /\ b # NoBlock
    BY TreeAssumption DEF MaybeBlock
  <1>2. Ancestors[b] = {b} \cup (IF b = Genesis THEN {} ELSE Ancestors[Parent[b]])
    BY AncestorsDef, Zenon
  <1>3. Anc(b) = {b} \cup Anc(Parent[b])
    BY <1>1, <1>2 DEF Anc
  <1> QED BY <1>1, <1>3 DEF Entries

\* FindFork (chain.cpp) returns the last block that the two chains have in common.
LEMMA FindForkIsLast ==
  ASSUME TypeOK, NEW b \in MaybeBlock
  PROVE  FindFork(b) \in MaybeBlock /\ Anc(FindFork(b)) = Anc(b) \cap Anc(tip)
  <1> DEFINE common == Anc(b) \cap Anc(tip)
  <1>1. tip \in MaybeBlock
    BY DEF TypeOK, MaybeBlock
  <1>2. CASE common = {}
    BY <1>2 DEF FindFork, Anc, MaybeBlock
  <1>3. CASE common # {}
    <2>1. b \in Blocks /\ tip \in Blocks /\ common = Ancestors[b] \cap Ancestors[tip]
      BY <1>1, <1>3, TreeAssumption DEF Anc, MaybeBlock
    <2>2. \A d \in common : Anc(d) \subseteq common
      BY <1>1, ChainFacts, Zenon
    <2>3. \E d \in common : common \subseteq Anc(d)
      <3>1. PICK d \in Ancestors[b] \cap Ancestors[tip] :
              Ancestors[b] \cap Ancestors[tip] = Ancestors[d]
        BY <2>1, LastCommonAncestor, Zenon
      <3>2. d # NoBlock
        BY <2>1, AncestorsOfAncestors, TreeAssumption, Zenon
      <3> QED BY <2>1, <3>1, <3>2, Zenon DEF Anc
    <2>4. FindFork(b) \in common /\ common \subseteq Anc(FindFork(b))
      BY <1>3, <2>3 DEF FindFork
    <2>5. Anc(b) \subseteq Blocks
      BY ChainFacts, Zenon
    <2> QED BY <2>2, <2>4, <2>5, Zenon DEF MaybeBlock
  <1> QED BY <1>2, <1>3

\* So it is on the chain of the block it is given.
LEMMA FindForkIsBelow ==
  ASSUME TypeOK, NEW b \in MaybeBlock
  PROVE  FindFork(b) \in MaybeBlock /\ Entries(FindFork(b)) \subseteq Entries(b)
  BY FindForkIsLast, Zenon DEF Entries

\* NextSyncBlock (index/base.cpp) returns a block of the active chain, or none.
LEMMA NextSyncBlockInChain ==
  ASSUME TypeOK, NEW b
  PROVE  NextSyncBlock(b) \in MaybeBlock
  <1>1. Anc(tip) \subseteq Blocks
    BY ChainFacts DEF TypeOK, MaybeBlock
  <1> QED BY <1>1 DEF NextSyncBlock, MaybeBlock

\* It adds itself to the entries of a block that the last one has already.
LEMMA NextSyncBlockEntries ==
  ASSUME TypeOK, NEW b \in MaybeBlock, NextSyncBlock(b) # NoBlock
  PROVE  LET n == NextSyncBlock(b) IN n \in Blocks /\ Entries(n) \subseteq {n} \cup Entries(b)
  <1> DEFINE n == NextSyncBlock(b)
             after == {c \in Anc(tip) : Parent[c] = FindFork(b)}
  <1>1. n \in after
    BY DEF NextSyncBlock
  <1>2. n \in Blocks /\ Parent[n] = FindFork(b)
    BY <1>1, NextSyncBlockInChain DEF MaybeBlock
  <1> HIDE DEF n
  <1>3. Entries(n) = ({n} \ {Genesis}) \cup Entries(FindFork(b))
    BY <1>2, EntriesOfBlock
  <1>4. Entries(FindFork(b)) \subseteq Entries(b)
    BY FindForkIsBelow
  <1>5. n \in Blocks /\ Entries(n) \subseteq {n} \cup Entries(b)
    BY <1>2, <1>3, <1>4
  <1> QED BY <1>5 DEF n

\* A block that BlockConnected (index/base.cpp) does not ignore adds itself to entries
\* that the best block has already.
LEMMA ConnectedEntries ==
  ASSUME NEW b \in Blocks, best \in MaybeBlock, ConnectsToBest(b)
  PROVE  /\ Entries(b) = ({b} \ {Genesis}) \cup Entries(Parent[b])
         /\ Entries(Parent[b]) \subseteq Entries(best)
  <1>1. Entries(b) = ({b} \ {Genesis}) \cup Entries(Parent[b])
    BY EntriesOfBlock
  <1>2. CASE best = NoBlock
    <2>1. Parent[b] = NoBlock
      BY <1>2, TreeAssumption DEF ConnectsToBest
    <2> QED BY <1>1, <2>1 DEF Entries, Anc
  <1>3. CASE best # NoBlock
    <2>1. Parent[b] \in Anc(best) \cup {NoBlock}
      BY <1>3 DEF ConnectsToBest
    <2>2. Entries(NoBlock) = {}
      BY SMTT(40) DEF Entries, Anc
    <2> QED BY <1>1, <2>1, <2>2, ChainFacts
  <1> QED BY <1>2, <1>3

\* What ActivateBestChainStep's connect trace is: each block follows its parent, the
\* first one a block of the chain, and the last one is the new tip.
IsPath(path, n) ==
  /\ path \in Seq(Blocks) /\ path # <<>> /\ path[Len(path)] = n
  /\ Parent[path[1]] \in Anc(tip) \cup {NoBlock}
  /\ tip = NoBlock => path[1] = Genesis
  /\ \A i \in 1..(Len(path) - 1) : Parent[path[i + 1]] = path[i]

\* The path to a block that is not in the chain is one.
LEMMA PathLeads ==
  ASSUME TypeOK, NEW n \in Blocks, HeightOf(n) = HeightOf(tip) + 1
  PROVE  IsPath(Path(n), n)
  <1> DEFINE fork == FindFork(n)
             f == HeightOf(fork)
             k == Height[n] - f
             At(i) == CHOOSE b \in Anc(n) : Height[b] = f + i
  <1>1. /\ tip \in MaybeBlock /\ n \in MaybeBlock /\ n # NoBlock /\ Anc(n) = Ancestors[n]
        /\ Height \in [Blocks -> Nat] /\ Ancestors[n] \subseteq Blocks /\ n \in Ancestors[n]
    BY TreeAssumption, HeightDef, AncestorsOfAncestors, Zenon DEF TypeOK, MaybeBlock, Anc
  <1>2. fork \in MaybeBlock /\ Anc(fork) = Anc(n) \cap Anc(tip)
    BY <1>1, FindForkIsLast, Zenon
  <1>3. /\ fork = NoBlock => f = -1
        /\ fork # NoBlock => fork \in Blocks /\ f = Height[fork] /\ f \in Nat
                            /\ fork \in Ancestors[n] /\ fork \in Anc(tip)
    <2>1. fork # NoBlock => fork \in Anc(fork) /\ fork \in Blocks
      BY <1>2, AncestorsOfAncestors, Zenon DEF Anc, MaybeBlock
    <2> QED BY <1>1, <1>2, <2>1 DEF HeightOf
  <1>4. f < Height[n]
    <2>1. CASE fork = NoBlock
      BY <2>1, <1>1, <1>3
    <2>2. CASE fork # NoBlock
      <3>1. tip \in Blocks /\ fork \in Ancestors[tip]
        BY <2>2, <1>1, <1>3, Zenon DEF Anc, MaybeBlock
      <3>2. Height[fork] <= Height[tip] /\ Height[n] = Height[tip] + 1 /\ Height[tip] \in Nat
        <4>1. tip # NoBlock
          BY <3>1, TreeAssumption, Zenon
        <4> QED BY <3>1, <4>1, <1>1, AncestorIsLower DEF HeightOf
      <3> QED BY <2>2, <1>3, <3>2
    <2> QED BY <2>1, <2>2
  <1>5. f \in Int /\ f >= -1 /\ Height[n] \in Nat /\ k \in Nat /\ k >= 1
    BY <1>1, <1>3, <1>4
  <1> HIDE DEF f, fork
  <1>6. ASSUME NEW i \in 1..k PROVE At(i) \in Ancestors[n] /\ Height[At(i)] = f + i
    <2>1. f + i \in Nat /\ f + i <= Height[n]
      BY <1>5
    <2>2. \E a \in Anc(n) : Height[a] = f + i
      <3>1. PICK h : h = f + i
        OBVIOUS
      <3>2. h \in Nat /\ h <= Height[n]
        BY <2>1, <3>1, Zenon
      <3>3. \E a \in Ancestors[n] : Height[a] = h
        BY <3>2, AncestorAtHeight, Zenon
      <3> QED BY <1>1, <3>1, <3>3, Zenon
    <2> QED BY <1>1, <2>2, Zenon
  <1>7. Path(n) = [i \in 1..k |-> At(i)]
    BY Zenon DEF Path, f, fork
  <1> HIDE DEF At
  <1>8. Path(n) \in [1..k -> Blocks] /\ \A i \in 1..k : Path(n)[i] = At(i)
    BY <1>1, <1>6, <1>7, Zenon
  <1>9. Path(n) \in Seq(Blocks) /\ Len(Path(n)) = k /\ Path(n) # <<>>
    <2> HIDE DEF k
    <2> QED BY <1>5, <1>8
  <1>10. 1 \in 1..k /\ k \in 1..k
    BY <1>5
  <1>11. At(k) = n
    <2>1. At(k) \in Ancestors[n] /\ Height[At(k)] = Height[n]
      BY <1>5, <1>6, <1>10
    <2> QED BY <2>1, <1>1, LowerIsAncestor
  <1>12. Parent[At(1)] \in Anc(tip) \cup {NoBlock} /\ (tip = NoBlock => At(1) = Genesis)
    <2>1. At(1) \in Ancestors[n] /\ Height[At(1)] = f + 1 /\ At(1) \in Blocks
      BY <1>1, <1>6, <1>10, Zenon
    <2>2. CASE fork = NoBlock
      <3>1. At(1) = Genesis
        BY <2>1, <2>2, <1>1, <1>3, HeightDef, AncestorsOfBlock
      <3> QED BY <3>1, TreeAssumption, Zenon
    <2>3. CASE fork # NoBlock
      <3>1. At(1) # Genesis
        BY <2>1, <2>3, <1>3, HeightDef
      <3>2. Parent[At(1)] \in Blocks /\ Parent[At(1)] \in Ancestors[n] /\ Height[Parent[At(1)]] = f
        BY <2>1, <3>1, <1>5, HeightDef, AncestorsOfBlock, AncestorsOfAncestors
      <3>3. Parent[At(1)] = fork
        BY <2>3, <3>2, <1>1, <1>3, LowerIsAncestor
      <3> QED BY <2>3, <3>3, <1>3, Zenon DEF Anc
    <2> QED BY <2>2, <2>3, Zenon
  <1>13. ASSUME NEW i \in 1..(k - 1) PROVE Parent[At(i + 1)] = At(i)
    <2>1. i \in 1..k /\ i + 1 \in 1..k
      BY <1>5
    <2>2. /\ At(i) \in Ancestors[n] /\ Height[At(i)] = f + i
          /\ At(i + 1) \in Ancestors[n] /\ Height[At(i + 1)] = f + (i + 1)
      BY <1>6, <2>1, Zenon
    <2>3. At(i + 1) # Genesis
      BY <2>2, <1>5, HeightDef
    <2>4. Parent[At(i + 1)] \in Ancestors[n] /\ Height[Parent[At(i + 1)]] = f + i
      BY <2>2, <2>3, <1>1, <1>5, HeightDef, AncestorsOfBlock, AncestorsOfAncestors
    <2> QED BY <2>2, <2>4, <1>1, LowerIsAncestor
  <1> QED
    <2> HIDE DEF k
    <2>1. \A i \in 1..(k - 1) : i \in 1..k /\ i + 1 \in 1..k
      BY <1>5
    <2> QED BY <1>8, <1>9, <1>10, <1>11, <1>12, <1>13, <2>1, Zenon DEF IsPath

\* BlockConnected is called for every block of it, in order.
LEMMA ConnectsOf ==
  ASSUME NEW path \in Seq(Blocks)
  PROVE  /\ Connects(path) \in Seq(CallbackRecord) /\ Len(Connects(path)) = Len(path)
         /\ \A i \in 1..Len(path) : Connects(path)[i] = [kind |-> "connected", block |-> path[i]]
  <1>1. Len(path) \in Nat /\ \A i \in 1..Len(path) : path[i] \in Blocks
    OBVIOUS
  <1>2. Connects(path) = [i \in 1..Len(path) |-> [kind |-> "connected", block |-> path[i]]]
    BY Zenon DEF Connects
  <1>3. \A i \in 1..Len(path) : [kind |-> "connected", block |-> path[i]] \in CallbackRecord
    BY <1>1 DEF CallbackRecord
  <1>4. Connects(path) \in [1..Len(path) -> CallbackRecord]
    BY <1>2, <1>3, Zenon
  <1>5. Connects(path) \in Seq(CallbackRecord) /\ Len(Connects(path)) = Len(path)
    BY <1>1, <1>4
  <1> QED BY <1>2, <1>5, Zenon

-----------------------------------------------------------------------------
(***************************************************************************)
(* Writes.  What a database backs are the blocks that it has indexed or    *)
(* that ThreadSync has claimed.                                            *)
(***************************************************************************)

Backed(db) == db.indexed \cup db.claimed

\* WriteBlock (index/txindex.cpp) backs the block and loses nothing.
LEMMA WriteBlockBacks ==
  ASSUME mem \in Database, NEW b \in Blocks, WriteBlock(b)
  PROVE  /\ mem' \in Database /\ mem'.locator = mem.locator
         /\ mem.indexed \subseteq mem'.indexed
         /\ Backed(mem) \cup ({b} \ {Genesis}) \subseteq Backed(mem')
  BY Zenon DEF WriteBlock, Database, Backed

\* WriteBestBlock (index/base.cpp) backs the locator it writes, by a claim.
LEMMA WriteBestBlockBacks ==
  ASSUME TypeOK, NEW b \in MaybeBlock, WriteBestBlock(b)
  PROVE  /\ mem' \in Database /\ mem'.indexed = mem.indexed
         /\ Entries(mem'.locator) \cup Entries(b) \subseteq Backed(mem')
  <1> DEFINE l == LocatorOf(b)
  <1>1. l \in MaybeBlock /\ Entries(b) \subseteq Entries(l)
    BY DEF LocatorOf, TypeOK, MaybeBlock, Entries, Anc
  <1>2. Entries(l) \subseteq Blocks \ {Genesis}
    BY <1>1, ChainFacts
  <1>3. mem \in Database
    BY DEF TypeOK
  <1>4. mem' = [mem EXCEPT !.locator = l,
                           !.claimed = mem.claimed \cup (Entries(l) \ mem.indexed)]
    BY <1>3 DEF WriteBestBlock, Database
  <1> HIDE DEF l
  <1> QED BY <1>1, <1>2, <1>3, <1>4, Zenon DEF Database, Backed, MaybeBlock

-----------------------------------------------------------------------------
(***************************************************************************)
(* The chain                                                               *)
(***************************************************************************)

\* Whatever happens to the chain leaves the databases alone, and happens only
\* once Init has returned.
LEMMA ChainMovesKeep ==
  ASSUME IndexInv, NEW newTip \in MaybeBlock, NEW callbacks \in Seq(CallbackRecord),
         ChainMoves(newTip, callbacks), flushed' \in MaybeBlock
  PROVE  IndexInv'
  <1>1. /\ tip' = newTip /\ queue' = queue \o callbacks /\ spc # "start"
        /\ UNCHANGED <<synced, best, spc, pindex, batch, stopping, mem, disk, old, marker, legacy>>
    BY DEF ChainMoves, Initialising, syncVars, oldVars
  <1>2. ~legacy
    BY <1>1 DEF IndexInv, LegacyUntouched
  <1>3. TypeOK'
    BY <1>1 DEF IndexInv, TypeOK, MaybeBlock
  <1>4. MoreTypes'
    BY <1>1 DEF IndexInv, MoreTypes
  <1> QED BY <1>1, <1>2, <1>3, <1>4 DEF IndexInv, DiskBehind, LegacyUntouched, BatchWritten,
            BestBacked, MigrationLosesNothing, LocatorBacked

\* The steps of ActivateBestChain, InvalidateBlock and FlushStateToDisk.
LEMMA ChainKeeps ==
  ASSUME IndexInv,
         \/ \E n \in Blocks : \/ ActivateBestChainStep(n)
                              \/ \E c \in Blocks : FlushInConnectTip(n, c)
         \/ DisconnectTip \/ FlushStateToDisk
  PROVE  IndexInv'
  <1>0. TypeOK /\ tip \in MaybeBlock /\ flushed \in MaybeBlock
    BY DEF IndexInv, TypeOK, MaybeBlock
  <1>00. \A b \in Blocks : Flushes(b) \in Seq(CallbackRecord)
    BY DEF Flushes, CallbackRecord
  <1>1. ASSUME NEW n \in Blocks, ActivateBestChainStep(n)
        PROVE  IndexInv'
    <2>1. /\ ChainMoves(n, Connects(Path(n))) /\ flushed' = flushed
          /\ HeightOf(n) = HeightOf(tip) + 1
      BY <1>1, Zenon DEF ActivateBestChainStep
    <2>2. Connects(Path(n)) \in Seq(CallbackRecord)
      BY <1>0, <2>1, PathLeads, ConnectsOf, Zenon DEF IsPath
    <2> QED BY <1>0, <2>1, <2>2, ChainMovesKeep, Zenon DEF MaybeBlock
  <1>2. ASSUME NEW n \in Blocks, NEW c \in Blocks, FlushInConnectTip(n, c)
        PROVE  IndexInv'
    <2>1. /\ ChainMoves(n, Flushes(Parent[c]) \o Connects(Path(n)))
          /\ flushed' = c /\ c # Genesis /\ HeightOf(n) = HeightOf(tip) + 1
      BY <1>2, Zenon DEF FlushInConnectTip
    <2>2. Parent[c] \in Blocks
      BY <2>1, TreeAssumption
    <2>3. /\ Flushes(Parent[c]) \in Seq(CallbackRecord)
          /\ Connects(Path(n)) \in Seq(CallbackRecord)
      BY <1>0, <1>00, <2>1, <2>2, PathLeads, ConnectsOf, Zenon DEF IsPath
    <2>4. Flushes(Parent[c]) \o Connects(Path(n)) \in Seq(CallbackRecord)
      BY <2>3
    <2> QED BY <2>1, <2>4, ChainMovesKeep, Zenon DEF MaybeBlock
  <1>3. CASE DisconnectTip
    <2>1. tip \in Blocks /\ tip # Genesis
      BY <1>0, <1>3 DEF DisconnectTip, MaybeBlock
    <2>2. Parent[tip] \in Blocks
      BY <2>1, TreeAssumption
    <2>3. <<>> \in Seq(CallbackRecord) /\ Flushes(tip) \in Seq(CallbackRecord)
      BY <1>00, <2>1
    <2>4. CASE ChainMoves(Parent[tip], <<>>) /\ flushed' = flushed
      BY <1>0, <2>2, <2>3, <2>4, ChainMovesKeep, Zenon DEF MaybeBlock
    <2>5. CASE ChainMoves(Parent[tip], Flushes(tip)) /\ flushed' = Parent[tip]
      BY <2>2, <2>3, <2>5, ChainMovesKeep DEF MaybeBlock
    <2> QED BY <1>3, <2>4, <2>5 DEF DisconnectTip
  <1>4. CASE FlushStateToDisk
    <2>1. tip \in Blocks /\ ChainMoves(tip, Flushes(tip)) /\ flushed' = tip
      BY <1>0, <1>4 DEF FlushStateToDisk, MaybeBlock
    <2> QED BY <1>00, <2>1, ChainMovesKeep DEF MaybeBlock
  <1> QED BY <1>1, <1>2, <1>3, <1>4

-----------------------------------------------------------------------------
(***************************************************************************)
(* Start                                                                   *)
(***************************************************************************)

\* MigrateData (txdb.cpp, index/txindex.cpp): the marker before the flag, the new
\* database before the old one, and the marker erased with the last batch.
LEMMA MigrationKeeps ==
  ASSUME IndexInv,
         \/ MigrateMarker \/ MigrateFlag \/ MigrateOld
         \/ \E S \in SUBSET old, last \in BOOLEAN : MigrateNew(S, last)
  PROVE  IndexInv'
  <1>0. TypeOK /\ mem \in Database /\ disk \in Database /\ old \subseteq Blocks \ {Genesis}
    BY DEF IndexInv, TypeOK
  <1>1. CASE MigrateMarker
    <2>1. /\ legacy /\ marker' = {tip}
          /\ UNCHANGED <<tip, flushed, queue, synced, best, spc, pindex, batch, stopping, mem,
                         disk, old, legacy>>
      BY <1>1 DEF MigrateMarker, chainVars, syncVars
    <2>2. TypeOK' /\ MoreTypes'
      BY <2>1 DEF IndexInv, TypeOK, MoreTypes
    <2> QED BY <2>1, <2>2 DEF IndexInv, DiskBehind, LegacyUntouched, BatchWritten, BestBacked,
              MigrationLosesNothing, LocatorBacked
  <1>2. CASE MigrateFlag
    <2>1. /\ marker = {tip} /\ legacy' = FALSE
          /\ UNCHANGED <<tip, flushed, queue, synced, best, spc, pindex, batch, stopping, mem,
                         disk, old, marker>>
      BY <1>2 DEF MigrateFlag, chainVars, syncVars
    <2>2. TypeOK' /\ MoreTypes'
      BY <2>1, Zenon DEF IndexInv, TypeOK, MoreTypes
    <2> QED BY <2>1, <2>2 DEF IndexInv, DiskBehind, LegacyUntouched, BatchWritten, BestBacked,
              MigrationLosesNothing, LocatorBacked
  <1>3. CASE MigrateOld
    <2>1. /\ spc = "erase" /\ old' = old \ batch.blocks
          /\ marker' = (IF batch.last THEN {} ELSE marker)
          /\ spc' \in {"off", "start"}
          /\ UNCHANGED <<tip, flushed, queue, synced, best, pindex, batch, stopping, mem, disk,
                         legacy>>
      BY <1>3 DEF MigrateOld, chainVars
    <2>2. ~synced /\ ~legacy
      BY <2>1 DEF IndexInv, TypeOK, LegacyUntouched
    <2>3. TypeOK' /\ MoreTypes'
      BY <2>1, <2>2 DEF IndexInv, TypeOK, MoreTypes
    <2>4. batch.blocks \subseteq disk.indexed /\ (batch.last => old' = {})
      BY <2>1 DEF IndexInv, BatchWritten
    <2>5. MigrationLosesNothing'
      BY <2>1, <2>2, <2>4 DEF IndexInv, MigrationLosesNothing
    <2> QED BY <2>1, <2>2, <2>3, <2>5 DEF IndexInv, DiskBehind, LegacyUntouched,
              BatchWritten, BestBacked, LocatorBacked
  <1>4. ASSUME NEW S \in SUBSET old, NEW last \in BOOLEAN, MigrateNew(S, last)
        PROVE  IndexInv'
    <2> DEFINE m == CHOOSE b \in marker : TRUE
    <2>1. /\ spc = "start" /\ ~legacy /\ marker # {} /\ spc' = "erase"
          /\ last => S = old
          /\ mem' = [mem EXCEPT !.indexed = mem.indexed \cup S,
                                !.locator = IF last THEN m ELSE mem.locator,
                                !.claimed = mem.claimed \ S]
          /\ disk' = mem' /\ batch' = [blocks |-> S, last |-> last]
          /\ UNCHANGED <<tip, flushed, queue, synced, best, pindex, stopping, old, marker, legacy>>
      BY <1>0, <1>4, Zenon DEF MigrateNew, chainVars, oldVars, Database
    <2>2. m \in marker /\ m \in Blocks \cup {NoBlock} /\ ~synced
      BY <2>1 DEF IndexInv, TypeOK
    <2> HIDE DEF m
    <2>3. /\ mem' \in Database
          /\ mem'.indexed = mem.indexed \cup S /\ mem'.claimed = mem.claimed \ S
          /\ mem'.locator = IF last THEN m ELSE mem.locator
      BY <1>0, <2>1, <2>2, Zenon DEF Database
    <2>4. TypeOK'
      BY <2>1, <2>2, <2>3 DEF IndexInv, TypeOK
    <2>5. MoreTypes'
      BY <1>0, <2>1 DEF IndexInv, MoreTypes
    <2>6. disk.indexed \subseteq disk'.indexed
      BY <2>1, <2>3 DEF IndexInv, DiskBehind
    <2>7. MigrationLosesNothing'
      BY <2>1, <2>6 DEF IndexInv, MigrationLosesNothing
    <2>8. Entries(mem'.locator) \subseteq mem'.indexed \cup mem'.claimed
      <3>1. CASE last
        BY <2>1, <2>2, <2>3, <2>6, <3>1 DEF IndexInv, MigrationLosesNothing, DiskBehind
      <3>2. CASE ~last
        BY <2>3, <3>2 DEF IndexInv, LocatorBacked
      <3> QED BY <3>1, <3>2
    <2>9. LocatorBacked' /\ DiskBehind'
      BY <2>1, <2>8 DEF LocatorBacked, DiskBehind
    <2>10. BatchWritten' /\ LegacyUntouched' /\ BestBacked'
      BY <2>1, <2>2, <2>3 DEF BatchWritten, LegacyUntouched, BestBacked
    <2> QED BY <2>4, <2>5, <2>7, <2>9, <2>10 DEF IndexInv
  <1> QED BY <1>1, <1>2, <1>3, <1>4

\* Init (index/base.cpp) starts from a block that the locator backs.
LEMMA InitIndexKeeps ==
  ASSUME IndexInv, InitIndex
  PROVE  IndexInv'
  <1>1. /\ spc = "start" /\ ~legacy /\ best' = FindFork(mem.locator)
        /\ synced' = (best' = tip) /\ pindex' = best'
        /\ spc' = (IF synced' THEN "off" ELSE "loop")
        /\ UNCHANGED <<tip, flushed, queue, batch, stopping, mem, disk, old, marker, legacy>>
    BY DEF InitIndex, chainVars, oldVars
  <1>2. mem.locator \in MaybeBlock
    BY DEF IndexInv, TypeOK, Database, MaybeBlock
  <1>3. best' \in MaybeBlock /\ Entries(best') \subseteq Entries(mem.locator)
    BY <1>1, <1>2, FindForkIsBelow DEF IndexInv
  <1>4. synced' \in BOOLEAN
    BY <1>1
  <1>5. TypeOK'
    BY <1>1, <1>3, <1>4 DEF IndexInv, TypeOK, MaybeBlock
  <1>6. MoreTypes'
    BY <1>1 DEF IndexInv, MoreTypes
  <1>7. Entries(mem.locator) \subseteq mem.indexed \cup mem.claimed
    BY DEF IndexInv, LocatorBacked
  <1>8. BestBacked'
    BY <1>1, <1>3, <1>7 DEF BestBacked
  <1> QED BY <1>1, <1>5, <1>6, <1>8 DEF IndexInv, DiskBehind, LegacyUntouched, BatchWritten,
            MigrationLosesNothing, LocatorBacked

-----------------------------------------------------------------------------
(***************************************************************************)
(* ThreadSync, the callbacks, stops and crashes                            *)
(***************************************************************************)

\* A step that grows the database in use, and neither the disk nor what the
\* older version has left, keeps everything but types and backing.
LEMMA GrowingKeeps ==
  ASSUME IndexInv, UNCHANGED <<tip, flushed, disk, old, marker, legacy>>,
         spc \notin {"start", "erase"}, spc' # "erase",
         TypeOK', MoreTypes', mem.indexed \subseteq mem'.indexed,
         Entries(mem'.locator) \subseteq Backed(mem'),
         synced' => Entries(best') \subseteq Backed(mem')
  PROVE  IndexInv'
  <1>1. ~legacy
    BY DEF IndexInv, LegacyUntouched
  <1>2. LocatorBacked'
    BY DEF IndexInv, LocatorBacked, Backed
  <1> QED BY <1>1, <1>2 DEF IndexInv, DiskBehind, LegacyUntouched, BatchWritten, BestBacked,
            MigrationLosesNothing, Backed

\* ThreadSync (index/base.cpp), at each point where it may be interrupted.
LEMMA ThreadSyncKeeps ==
  ASSUME IndexInv, ThreadSync
  PROVE  IndexInv'
  <1>0. /\ TypeOK /\ mem \in Database /\ pindex \in MaybeBlock
        /\ Entries(mem.locator) \subseteq Backed(mem)
    BY DEF IndexInv, TypeOK, MaybeBlock, LocatorBacked, Backed
  <1>00. /\ spc \in {"loop", "indexing"} /\ ~synced
         /\ UNCHANGED <<tip, flushed, queue, batch, disk, old, marker, legacy>>
    BY <1>0 DEF ThreadSync, SyncInterrupted, SyncDone, SyncNext, SyncIndex, SyncFails,
                chainVars, oldVars, TypeOK
  <1>01. (spc' = "indexing" => pindex' # NoBlock) => MoreTypes'
    BY <1>00, SMTT(40) DEF IndexInv, MoreTypes
  <1>1. CASE SyncInterrupted \/ SyncDone
    <2>1. /\ WriteBestBlock(pindex) /\ spc' = "off" /\ UNCHANGED <<pindex, stopping>>
          /\ \/ synced' = FALSE /\ best' = best
             \/ synced' = TRUE /\ best' = pindex
      BY <1>1, <1>00, <1>0 DEF SyncInterrupted, SyncDone, TypeOK
    <2>2. /\ mem' \in Database /\ mem'.indexed = mem.indexed
          /\ Entries(mem'.locator) \cup Entries(pindex) \subseteq Backed(mem')
      BY <1>0, <2>1, WriteBestBlockBacks
    <2>3. TypeOK'
      BY <1>0, <1>00, <2>1, <2>2, Zenon DEF TypeOK
    <2> QED BY <1>00, <1>01, <2>1, <2>2, <2>3, GrowingKeeps
  <1>2. CASE SyncNext
    <2>1. /\ pindex' = NextSyncBlock(pindex) /\ pindex' # NoBlock /\ spc' = "indexing"
          /\ WriteBestBlock(pindex') \/ mem' = mem
          /\ UNCHANGED <<synced, best, stopping>>
      BY <1>2 DEF SyncNext
    <2>2. pindex' \in MaybeBlock
      BY <1>0, <2>1, NextSyncBlockInChain
    <2>3. /\ mem' \in Database /\ mem.indexed \subseteq mem'.indexed
          /\ Entries(mem'.locator) \subseteq Backed(mem')
      <3>1. CASE mem' = mem
        BY <1>0, <3>1
      <3>2. CASE WriteBestBlock(pindex')
        BY <1>0, <2>2, <3>2, WriteBestBlockBacks
      <3> QED BY <2>1, <3>1, <3>2
    <2>4. TypeOK'
      BY <1>0, <1>00, <2>1, <2>2, <2>3 DEF TypeOK, MaybeBlock
    <2> QED BY <1>00, <1>01, <2>1, <2>3, <2>4, GrowingKeeps
  <1>3. CASE SyncIndex
    <2>1. WriteBlock(pindex) /\ spc' = "loop" /\ UNCHANGED <<synced, best, pindex, stopping>>
      BY <1>3 DEF SyncIndex
    <2>2. /\ mem' \in Database /\ mem.indexed \subseteq mem'.indexed
          /\ mem'.locator = mem.locator /\ Backed(mem) \subseteq Backed(mem')
      BY <1>0, <1>3, <2>1, WriteBlockBacks DEF IndexInv, MoreTypes, MaybeBlock, SyncIndex
    <2>3. TypeOK'
      BY <1>0, <1>00, <2>1, <2>2 DEF TypeOK
    <2> QED BY <1>0, <1>00, <1>01, <2>1, <2>2, <2>3, GrowingKeeps
  <1>4. CASE SyncFails
    <2>1. spc' = "off" /\ stopping' = TRUE /\ UNCHANGED <<synced, best, pindex, mem>>
      BY <1>4 DEF SyncFails
    <2>2. TypeOK'
      BY <1>0, <1>00, <2>1 DEF TypeOK
    <2> QED BY <1>0, <1>00, <1>01, <2>1, <2>2, GrowingKeeps
  <1> QED BY <1>1, <1>2, <1>3, <1>4 DEF ThreadSync

\* BlockConnected (index/base.cpp) indexes a block on an ancestor of the best one.
LEMMA BlockConnectedKeeps ==
  ASSUME IndexInv, BlockConnected
  PROVE  IndexInv'
  <1> DEFINE b == Head(queue).block
  <1>0. /\ TypeOK /\ mem \in Database /\ best \in MaybeBlock
        /\ Entries(mem.locator) \subseteq Backed(mem)
        /\ synced => Entries(best) \subseteq Backed(mem)
    BY DEF IndexInv, TypeOK, MaybeBlock, LocatorBacked, BestBacked, Backed
  <1>1. /\ spc \notin {"start", "erase"} /\ queue # <<>> /\ queue' = Tail(queue)
        /\ UNCHANGED <<tip, flushed, synced, spc, pindex, batch, disk, old, marker, legacy>>
    BY DEF BlockConnected, Initialising, oldVars
  <1>2. queue \in Seq(CallbackRecord)
    BY DEF IndexInv, MoreTypes
  <1>3. b \in Blocks /\ queue' \in Seq(CallbackRecord)
    <2>1. Head(queue) \in CallbackRecord /\ Tail(queue) \in Seq(CallbackRecord)
      BY <1>1, <1>2
    <2> QED BY <1>1, <2>1 DEF CallbackRecord
  <1>4. MoreTypes'
    BY <1>1, <1>3 DEF IndexInv, MoreTypes
  <1>5. CASE stopping' \in BOOLEAN /\ UNCHANGED <<best, mem>>
    <2>1. TypeOK'
      BY <1>0, <1>1, <1>5 DEF TypeOK
    <2> QED BY <1>0, <1>1, <1>4, <1>5, <2>1, GrowingKeeps
  <1>6. CASE synced /\ ConnectsToBest(b) /\ WriteBlock(b) /\ best' = b /\ UNCHANGED stopping
    <2>1. /\ mem' \in Database /\ mem.indexed \subseteq mem'.indexed
          /\ mem'.locator = mem.locator /\ Backed(mem) \subseteq Backed(mem')
          /\ {b} \ {Genesis} \subseteq Backed(mem')
      BY <1>0, <1>3, <1>6, WriteBlockBacks
    <2>2. TypeOK'
      BY <1>0, <1>1, <1>3, <1>6, <2>1 DEF TypeOK
    <2>3. /\ Entries(b) = ({b} \ {Genesis}) \cup Entries(Parent[b])
          /\ Entries(Parent[b]) \subseteq Entries(best)
      BY <1>0, <1>3, <1>6, ConnectedEntries
    <2>5. Entries(best') \subseteq Backed(mem')
      BY <1>0, <1>6, <2>1, <2>3 DEF Backed
    <2> QED BY <1>0, <1>1, <1>4, <2>1, <2>2, <2>5, GrowingKeeps
  <1>7. \/ stopping' \in BOOLEAN /\ UNCHANGED <<best, mem>>
        \/ synced /\ ConnectsToBest(b) /\ WriteBlock(b) /\ best' = b /\ UNCHANGED stopping
    BY <1>0, Zenon DEF BlockConnected, TypeOK
  <1> QED BY <1>5, <1>6, <1>7

\* ChainStateFlushed (index/base.cpp) moves the locator to ancestors of the best
\* block only.
LEMMA ChainStateFlushedKeeps ==
  ASSUME IndexInv, ChainStateFlushed
  PROVE  IndexInv'
  <1> DEFINE b == Head(queue).block
  <1>0. /\ TypeOK /\ mem \in Database /\ best \in MaybeBlock
        /\ Entries(mem.locator) \subseteq Backed(mem)
        /\ synced => Entries(best) \subseteq Backed(mem)
    BY DEF IndexInv, TypeOK, MaybeBlock, LocatorBacked, BestBacked, Backed
  <1>1. /\ spc \notin {"start", "erase"} /\ queue # <<>> /\ queue' = Tail(queue)
        /\ mem' = IF synced /\ b \in Anc(best) THEN [mem EXCEPT !.locator = b] ELSE mem
        /\ UNCHANGED <<tip, flushed, synced, best, spc, pindex, batch, stopping, disk, old,
                       marker, legacy>>
    BY DEF ChainStateFlushed, Initialising, oldVars, syncVars
  <1>2. queue \in Seq(CallbackRecord)
    BY DEF IndexInv, MoreTypes
  <1>3. b \in Blocks /\ queue' \in Seq(CallbackRecord)
    <2>1. Head(queue) \in CallbackRecord /\ Tail(queue) \in Seq(CallbackRecord)
      BY <1>1, <1>2
    <2> QED BY <1>1, <2>1 DEF CallbackRecord
  <1>4. MoreTypes'
    BY <1>1, <1>3 DEF IndexInv, MoreTypes
  <1>5. /\ mem' \in Database /\ mem'.indexed = mem.indexed /\ Backed(mem') = Backed(mem)
        /\ mem'.locator = IF synced /\ b \in Anc(best) THEN b ELSE mem.locator
    BY <1>0, <1>1, <1>3, SMTT(40) DEF Database, Backed
  <1>6. Entries(mem'.locator) \subseteq Backed(mem')
    <2>1. CASE synced /\ b \in Anc(best)
      BY <1>0, <1>5, <2>1, ChainFacts
    <2>2. CASE ~(synced /\ b \in Anc(best))
      BY <1>0, <1>5, <2>2
    <2> QED BY <2>1, <2>2
  <1>7. TypeOK'
    BY <1>0, <1>1, <1>5 DEF TypeOK
  <1> QED BY <1>0, <1>1, <1>4, <1>5, <1>6, <1>7, GrowingKeeps

\* Stops and crashes: the next process starts from what is on disk.
LEMMA RestartKeeps ==
  ASSUME IndexInv, Stop \/ Crash
  PROVE  IndexInv'
  <1> DEFINE empty == [blocks |-> {}, last |-> FALSE]
  <1>1. PICK coins \in {tip, flushed}, db \in {mem, disk} : Restart(coins, db)
    BY DEF Stop, Crash
  <1>2. /\ tip' \in {coins, NoBlock} /\ flushed' = tip' /\ queue' = <<>>
        /\ synced' = FALSE /\ best' = NoBlock /\ spc' = "start" /\ pindex' = NoBlock
        /\ batch' = empty /\ stopping' = FALSE /\ mem' = db /\ disk' = db
        /\ UNCHANGED <<old, marker, legacy>>
    BY <1>1 DEF Restart, oldVars
  <1>3. empty \in [blocks : SUBSET (Blocks \ {Genesis}), last : BOOLEAN]
    OBVIOUS
  <1>4. TypeOK'
    BY <1>2, Zenon DEF IndexInv, TypeOK
  <1>5. MoreTypes'
    <2>1. <<>> \in Seq(CallbackRecord)
      OBVIOUS
    <2> QED BY <1>2, <1>3, <2>1 DEF MoreTypes
  <1>6. disk.indexed \subseteq db.indexed
    BY DEF IndexInv, DiskBehind
  <1>7. MigrationLosesNothing'
    BY <1>2, <1>6 DEF IndexInv, MigrationLosesNothing
  <1>8. Entries(NoBlock) = {}
    BY DEF Entries, Anc
  <1>9. LegacyUntouched'
    BY <1>2, <1>8 DEF IndexInv, LegacyUntouched
  <1>10. LocatorBacked'
    BY <1>2 DEF IndexInv, LocatorBacked
  <1> QED BY <1>2, <1>4, <1>5, <1>7, <1>9, <1>10 DEF IndexInv, DiskBehind, BatchWritten,
            BestBacked

\* Writes that reach the disk late, and a request to stop.
LEMMA OthersKeep ==
  ASSUME IndexInv, Writeback \/ RequestShutdown \/ UNCHANGED vars
  PROVE  IndexInv'
  <1>1. /\ UNCHANGED <<tip, flushed, queue, synced, best, spc, pindex, batch, mem, old, marker,
                       legacy>>
        /\ disk' \in {disk, mem} /\ stopping' \in BOOLEAN
    BY Zenon DEF IndexInv, TypeOK, Writeback, RequestShutdown, vars, chainVars, syncVars, oldVars
  <1>2. TypeOK' /\ MoreTypes'
    BY <1>1 DEF IndexInv, TypeOK, MoreTypes
  <1>3. disk.indexed \subseteq disk'.indexed /\ disk'.indexed \subseteq mem.indexed
    BY <1>1 DEF IndexInv, DiskBehind
  <1>4. MigrationLosesNothing' /\ BatchWritten'
    BY <1>1, <1>3 DEF IndexInv, MigrationLosesNothing, BatchWritten
  <1>5. LocatorBacked'
    BY <1>1 DEF IndexInv, LocatorBacked
  <1> QED BY <1>1, <1>2, <1>3, <1>4, <1>5 DEF IndexInv, DiskBehind, LegacyUntouched, BestBacked

\* A node that is first started with -txindex, with or without an older index.
LEMMA InitKeeps ==
  ASSUME Init
  PROVE  IndexInv
  <1> DEFINE empty == [blocks |-> {}, last |-> FALSE]
  <1>1. tip \in MaybeBlock /\ Entries(tip) \subseteq Blocks \ {Genesis}
    BY ChainFacts, IndexAssumption DEF Init, MaybeBlock
  <1>2. mem \in Database /\ disk = mem /\ mem.locator = NoBlock
    BY DEF Init, Database
  <1>3. TypeOK
    BY <1>1, <1>2, Zenon DEF Init, TypeOK, MaybeBlock
  <1>4. MoreTypes
    <2>1. <<>> \in Seq(CallbackRecord) /\ empty \in [blocks : SUBSET (Blocks \ {Genesis}), last : BOOLEAN]
      OBVIOUS
    <2> QED BY <2>1 DEF Init, MoreTypes
  <1>5. Entries(NoBlock) = {}
    BY DEF Entries, Anc
  <1>6. LocatorBacked /\ DiskBehind
    BY <1>2, <1>5 DEF LocatorBacked, DiskBehind
  <1> QED BY <1>3, <1>4, <1>6 DEF Init, IndexInv, LegacyUntouched, BatchWritten, BestBacked,
            MigrationLosesNothing

\* Every step of the chain, of the index and of the processes keeps the invariant.
LEMMA StepKeeps ==
  ASSUME IndexInv, [Next]_vars
  PROVE  IndexInv'
  BY ChainKeeps, MigrationKeeps, InitIndexKeeps, ThreadSyncKeeps, BlockConnectedKeeps,
     ChainStateFlushedKeeps, RestartKeeps, OthersKeep DEF Next, Start, Callback

\* However callbacks, reorganisations, flushes, stops and crashes interleave, the
\* index database, in use or after a power failure, has every block under its
\* locator that ThreadSync has not itself claimed ahead (index/base.cpp).
THEOREM LocatorIsBacked == Spec => []LocatorBacked
  <1>1. IndexInv => LocatorBacked
    BY DEF IndexInv
  <1> QED BY <1>1, InitKeeps, StepKeeps, PTL DEF Spec

\* A crash at any point of TxIndexDB::MigrateData loses no entry of the older
\* index, and the next start finds the entries left behind (index/txindex.cpp).
THEOREM MigrationIsSafe == Spec => []MigrationLosesNothing
  <1>1. IndexInv => MigrationLosesNothing
    BY DEF IndexInv
  <1> QED BY <1>1, InitKeeps, StepKeeps, PTL DEF Spec

-----------------------------------------------------------------------------
(***************************************************************************)
(* The callbacks lead the index to the tip.  DisconnectTip calls none, and *)
(* ThreadSync may finish while callbacks from before are still waiting, so *)
(* the best block need not be on the chain; but from each block in the     *)
(* queue the ones after it lead on, and from the best block too.           *)
(***************************************************************************)

\* BlockConnected of b is not ignored when the best block is x
FollowsOn(x, b) == IF x = NoBlock THEN b = Genesis ELSE Parent[b] \in Anc(x) \cup {NoBlock}

\* A callback of q from position p on moves the index away from x
MovesOn(q, x, p) ==
  \E j \in 1..Len(q) : p <= j /\ q[j].kind = "connected" /\ FollowsOn(x, q[j].block)

\* ... or x has the chain that ends with t
Reaches(q, t, x, p) == Anc(t) \subseteq Anc(x) \/ MovesOn(q, x, p)

\* Each of the callbacks q is on the way to t
LeadsOn(q, t) ==
  \A i \in 1..Len(q) : q[i].kind = "connected" => Reaches(q, t, q[i].block, i + 1)

Follows ==
  /\ LeadsOn(queue, tip)
  /\ synced /\ ~stopping => Reaches(queue, tip, best, 1)

\* Callbacks that lead on from every chain that has the tip
LeadsTo(q, t) ==
  /\ LeadsOn(q, t)
  /\ \A x \in MaybeBlock : Anc(tip) \subseteq Anc(x) => Reaches(q, t, x, 1)

\* What is put into the queue with a move of the tip leads to the new one.
LEMMA AppendFollows ==
  ASSUME IndexInv, Follows, NEW t \in MaybeBlock, NEW cbs \in Seq(CallbackRecord), LeadsTo(cbs, t),
         ChainMoves(t, cbs)
  PROVE  Follows'
  <1>1. queue \in Seq(CallbackRecord) /\ tip \in MaybeBlock /\ best \in MaybeBlock
    BY DEF IndexInv, MoreTypes, TypeOK, MaybeBlock
  <1>2. queue' = queue \o cbs /\ tip' = t /\ UNCHANGED <<synced, best, stopping>>
    BY DEF ChainMoves, syncVars
  <1> DEFINE n == Len(queue)
             m == Len(cbs)
             q == queue'
  <1>3. /\ n \in Nat /\ m \in Nat /\ Len(q) = n + m
        /\ \A i \in 1..n : q[i] = queue[i] /\ queue[i].block \in Blocks
        /\ \A i \in 1..m : q[n + i] = cbs[i]
    <2>1. \A i \in 1..n : queue[i] \in CallbackRecord
      BY <1>1
    <2> QED BY <1>1, <1>2, <2>1 DEF CallbackRecord
  <1> HIDE DEF n, m, q
  <1>4. ASSUME NEW x, NEW p \in Nat, MovesOn(queue, x, p) PROVE MovesOn(q, x, p)
    <2>1. PICK j \in 1..n : /\ p <= j /\ queue[j].kind = "connected"
                            /\ FollowsOn(x, queue[j].block)
      BY <1>4, Zenon DEF MovesOn, n
    <2>2. j \in 1..Len(q) /\ q[j] = queue[j]
      BY <1>3
    <2> QED BY <2>1, <2>2, Zenon DEF MovesOn
  <1>5. ASSUME NEW x, NEW p \in Nat, MovesOn(cbs, x, p) PROVE MovesOn(q, x, n + p)
    <2>1. PICK j \in 1..m : p <= j /\ cbs[j].kind = "connected" /\ FollowsOn(x, cbs[j].block)
      BY <1>5, Zenon DEF MovesOn, m
    <2>2. n + j \in 1..Len(q) /\ n + p <= n + j /\ q[n + j] = cbs[j]
      BY <1>3, <2>1
    <2> QED BY <2>1, <2>2, Zenon DEF MovesOn
  <1>6. ASSUME NEW x, NEW p \in Nat, NEW r \in Nat, p <= r, MovesOn(q, x, r)
        PROVE  MovesOn(q, x, p)
    BY <1>6, <1>3 DEF MovesOn
  <1>7. ASSUME NEW x \in MaybeBlock, NEW p \in Nat, p <= n + 1, Reaches(queue, tip, x, p)
        PROVE  Reaches(q, t, x, p)
    <2>1. CASE MovesOn(queue, x, p)
      BY <1>4, <2>1, Zenon DEF Reaches
    <2>2. CASE Anc(tip) \subseteq Anc(x)
      <3>1. Reaches(cbs, t, x, 1)
        BY <2>2, Zenon DEF LeadsTo
      <3>2. MovesOn(cbs, x, 1) => MovesOn(q, x, p)
        BY <1>3, <1>5, <1>6, <1>7
      <3> QED BY <3>1, <3>2, Zenon DEF Reaches
    <2> QED BY <1>7, <2>1, <2>2, Zenon DEF Reaches
  <1>8. ASSUME NEW i \in 1..Len(q), q[i].kind = "connected"
        PROVE  Reaches(q, t, q[i].block, i + 1)
    <2>1. CASE i \in 1..n
      <3>1. /\ Reaches(queue, tip, queue[i].block, i + 1) /\ q[i] = queue[i]
            /\ queue[i].block \in MaybeBlock
        BY <1>3, <1>8, <2>1, Zenon DEF Follows, LeadsOn, MaybeBlock, n
      <3>2. i + 1 \in Nat /\ i + 1 <= n + 1
        BY <1>3, <2>1
      <3> QED BY <1>7, <3>1, <3>2, Zenon
    <2>2. CASE i \notin 1..n
      <3>1. PICK k \in 1..m : i = n + k
        <4>1. i - n \in 1..m /\ i = n + (i - n)
          BY <1>3, <2>2
        <4> QED BY <4>1, Zenon
      <3>2. q[i] = cbs[k] /\ cbs[k].kind = "connected"
        BY <1>3, <1>8, <3>1, Zenon
      <3>3. Reaches(cbs, t, cbs[k].block, k + 1)
        BY <3>2, Zenon DEF LeadsTo, LeadsOn, m
      <3>4. k + 1 \in Nat /\ n + (k + 1) = i + 1
        BY <1>3, <3>1
      <3> QED BY <3>2, <3>3, <3>4, <1>5, Zenon DEF Reaches
    <2> QED BY <2>1, <2>2, Zenon
  <1>9. ASSUME synced', ~stopping' PROVE Reaches(q, t, best, 1)
    <2>1. Reaches(queue, tip, best, 1)
      BY <1>2, <1>9 DEF Follows
    <2>2. 1 \in Nat /\ 1 <= n + 1
      BY <1>3
    <2> QED BY <1>1, <1>7, <2>1, <2>2, Zenon
  <1> QED BY <1>2, <1>8, <1>9, Zenon DEF Follows, LeadsOn, q

\* BlockConnected of a path leads to its last block.
LEMMA PathLeadsTo ==
  ASSUME TypeOK, NEW n \in Blocks, NEW path, IsPath(path, n)
  PROVE  LeadsTo(Connects(path), n)
  <1> DEFINE k == Len(path)
             q == Connects(path)
  <1>1. /\ path \in Seq(Blocks) /\ k \in Nat /\ 1 \in 1..k /\ path[k] = n
        /\ \A i \in 1..k : path[i] \in Blocks
    BY DEF IsPath
  <1>2. Len(q) = k /\ \A i \in 1..k : q[i].kind = "connected" /\ q[i].block = path[i]
    <2>1. /\ Len(q) = k
          /\ \A i \in 1..k : q[i] = [kind |-> "connected", block |-> path[i]]
      BY <1>1, ConnectsOf, Zenon
    <2> HIDE DEF k, q
    <2> QED BY <2>1
  <1> HIDE DEF k, q
  <1>3. ASSUME NEW i \in 1..Len(q) PROVE Reaches(q, n, q[i].block, i + 1)
    <2>1. CASE i = k
      BY <1>1, <1>2, <2>1, Zenon DEF Reaches
    <2>2. CASE i # k
      <3>1. i \in 1..(k - 1) /\ i \in 1..k /\ i + 1 \in 1..Len(q) /\ i + 1 \in 1..k /\ i + 1 <= i + 1
        BY <1>1, <1>2, <2>2
      <3>2. Parent[path[i + 1]] = path[i] /\ path[i] \in Blocks /\ path[i] # NoBlock
        BY <1>1, <3>1, TreeAssumption, Zenon DEF IsPath, k
      <3>3. path[i] \in Anc(path[i])
        BY <3>2, AncestorsOfAncestors, Zenon DEF Anc
      <3>4. FollowsOn(q[i].block, q[i + 1].block)
        BY <3>1, <3>2, <3>3, <1>2, Zenon DEF FollowsOn
      <3> QED BY <3>1, <3>4, <1>2, Zenon DEF Reaches, MovesOn
    <2> QED BY <2>1, <2>2, Zenon
  <1>4. ASSUME NEW x \in MaybeBlock, Anc(tip) \subseteq Anc(x)
        PROVE  Reaches(q, n, x, 1)
    <2>1. 1 \in 1..Len(q) /\ 1 <= 1 /\ q[1].kind = "connected" /\ q[1].block = path[1]
      BY <1>1, <1>2
    <2>2. FollowsOn(x, path[1])
      <3>1. CASE x = NoBlock
        <4>1. tip = NoBlock
          <5>1. tip \in Blocks => tip \in Anc(tip) /\ tip # NoBlock
            BY AncestorsOfAncestors, TreeAssumption, Zenon DEF Anc
          <5> QED BY <1>4, <3>1, <5>1 DEF Anc, TypeOK
        <4> QED BY <3>1, <4>1, Zenon DEF FollowsOn, IsPath
      <3>2. CASE x # NoBlock
        BY <1>4, <3>2, Zenon DEF FollowsOn, IsPath
      <3> QED BY <3>1, <3>2, Zenon
    <2> QED BY <2>1, <2>2, Zenon DEF Reaches, MovesOn
  <1> QED BY <1>3, <1>4, Zenon DEF LeadsTo, LeadsOn, q

\* A callback with the flush before it changes nothing about that.
LEMMA FlushFirstLeads ==
  ASSUME NEW b \in Blocks, NEW t, NEW q \in Seq(CallbackRecord), LeadsTo(q, t)
  PROVE  LeadsTo(Flushes(b) \o q, t)
  <1> DEFINE r == Flushes(b) \o q
             n == Len(q)
  <1>1. /\ n \in Nat /\ Len(r) = n + 1 /\ r[1].kind = "flushed"
        /\ \A i \in 1..n : r[i + 1] = q[i]
    BY DEF Flushes
  <1> HIDE DEF r, n
  <1>2. ASSUME NEW x, NEW p \in Nat, NEW s \in Nat, s <= p + 1, Reaches(q, t, x, p)
        PROVE  Reaches(r, t, x, s)
    <2>1. CASE MovesOn(q, x, p)
      <3>1. PICK j \in 1..n : p <= j /\ q[j].kind = "connected" /\ FollowsOn(x, q[j].block)
        BY <2>1, Zenon DEF MovesOn, n
      <3>2. j + 1 \in 1..Len(r) /\ s <= j + 1 /\ r[j + 1] = q[j]
        BY <1>1, <1>2, <3>1
      <3> QED BY <3>1, <3>2, Zenon DEF Reaches, MovesOn
    <2> QED BY <1>2, <2>1, Zenon DEF Reaches
  <1>3. ASSUME NEW i \in 1..Len(r), r[i].kind = "connected"
        PROVE  Reaches(r, t, r[i].block, i + 1)
    <2>0. i # 1
      BY <1>1, <1>3
    <2>1. PICK k \in 1..n : i = k + 1
      <3>1. i - 1 \in 1..n /\ i = (i - 1) + 1
        BY <1>1, <2>0
      <3> QED BY <3>1, Zenon
    <2>2. r[i] = q[k] /\ q[k].kind = "connected"
      BY <1>1, <1>3, <2>1, Zenon
    <2>3. Reaches(q, t, q[k].block, k + 1)
      BY <2>2, Zenon DEF LeadsTo, LeadsOn, n
    <2>4. k + 1 \in Nat /\ i + 1 \in Nat /\ i + 1 <= (k + 1) + 1
      BY <1>1, <2>1
    <2> QED BY <1>2, <2>2, <2>3, <2>4, Zenon
  <1>4. ASSUME NEW x \in MaybeBlock, Anc(tip) \subseteq Anc(x)
        PROVE  Reaches(r, t, x, 1)
    <2>1. Reaches(q, t, x, 1)
      BY <1>4, Zenon DEF LeadsTo
    <2>2. 1 \in Nat /\ 1 <= 1 + 1
      OBVIOUS
    <2> QED BY <1>2, <2>1, <2>2, Zenon
  <1> QED BY <1>3, <1>4, Zenon DEF LeadsTo, LeadsOn, r

\* DisconnectTip and FlushStateToDisk call no BlockConnected, and need none.
LEMMA NoConnectLeads ==
  ASSUME NEW t, Anc(t) \subseteq Anc(tip)
  PROVE  LeadsTo(<<>>, t)
  <1>1. LeadsOn(<<>>, t)
    BY DEF LeadsOn
  <1> QED BY <1>1 DEF LeadsTo, Reaches

\* ActivateBestChainStep, InvalidateBlock and FlushStateToDisk.
LEMMA ChainFollows ==
  ASSUME IndexInv, Follows,
         \/ \E n \in Blocks : \/ ActivateBestChainStep(n)
                             \/ \E c \in Blocks : FlushInConnectTip(n, c)
         \/ DisconnectTip \/ FlushStateToDisk
  PROVE  Follows'
  <1>1. TypeOK /\ tip \in MaybeBlock
    BY DEF IndexInv, TypeOK, MaybeBlock
  <1>2. ASSUME NEW n \in Blocks, HeightOf(n) = HeightOf(tip) + 1
        PROVE  Connects(Path(n)) \in Seq(CallbackRecord) /\ LeadsTo(Connects(Path(n)), n)
    BY <1>1, <1>2, PathLeads, PathLeadsTo, ConnectsOf, Zenon DEF IsPath
  <1>3. ASSUME NEW b \in Blocks, NEW t, NEW q \in Seq(CallbackRecord), LeadsTo(q, t)
        PROVE  /\ Flushes(b) \o q \in Seq(CallbackRecord)
               /\ LeadsTo(Flushes(b) \o q, t)
    <2>1. Flushes(b) \in Seq(CallbackRecord)
      BY DEF Flushes, CallbackRecord
    <2>2. Flushes(b) \o q \in Seq(CallbackRecord)
      BY <2>1
    <2> QED BY <1>3, <2>2, FlushFirstLeads, Zenon
  <1>4. ASSUME NEW n \in Blocks, ActivateBestChainStep(n) PROVE Follows'
    BY <1>2, <1>4, AppendFollows, Zenon DEF ActivateBestChainStep, MaybeBlock
  <1>5. ASSUME NEW n \in Blocks, NEW c \in Blocks, FlushInConnectTip(n, c) PROVE Follows'
    <2>1. c # Genesis
      BY <1>5, Zenon DEF FlushInConnectTip
    <2>2. Parent[c] \in Blocks
      BY <2>1, TreeAssumption
    <2> QED BY <1>2, <1>3, <1>5, <2>2, AppendFollows, Zenon DEF FlushInConnectTip, MaybeBlock
  <1>6. ASSUME NEW b \in Blocks, NEW t \in MaybeBlock, Anc(t) \subseteq Anc(tip)
        PROVE  /\ ChainMoves(t, <<>>) => Follows'
               /\ ChainMoves(t, Flushes(b)) => Follows'
    <2>1. <<>> \in Seq(CallbackRecord) /\ LeadsTo(<<>>, t)
      BY <1>6, NoConnectLeads
    <2>2. Flushes(b) \o <<>> = Flushes(b)
      BY DEF Flushes
    <2>3. Flushes(b) \in Seq(CallbackRecord) /\ LeadsTo(Flushes(b), t)
      BY <1>3, <2>1, <2>2, Zenon
    <2> QED BY <2>1, <2>3, AppendFollows, Zenon
  <1>7. CASE DisconnectTip
    <2>1. tip \in Blocks /\ tip # Genesis /\ tip # NoBlock
      BY <1>1, <1>7 DEF DisconnectTip, MaybeBlock
    <2>2. Parent[tip] \in MaybeBlock /\ Anc(Parent[tip]) \subseteq Anc(tip)
      BY <2>1, TreeAssumption, EntriesOfBlock DEF MaybeBlock
    <2> QED BY <1>6, <1>7, <2>1, <2>2, Zenon DEF DisconnectTip
  <1>8. CASE FlushStateToDisk
    <2>1. tip \in Blocks
      BY <1>1, <1>8 DEF FlushStateToDisk, MaybeBlock
    <2> QED BY <1>1, <1>6, <1>8, <2>1, Zenon DEF FlushStateToDisk
  <1> QED BY <1>4, <1>5, <1>7, <1>8, Zenon

\* The first callback is taken: what waited behind it now waits in its place.
LEMMA TailLeads ==
  ASSUME NEW q \in Seq(CallbackRecord), q # <<>>, NEW t, LeadsOn(q, t)
  PROVE  /\ LeadsOn(Tail(q), t)
         /\ \A x : Reaches(q, t, x, 2) => Reaches(Tail(q), t, x, 1)
  <1> DEFINE r == Tail(q)
             n == Len(q)
  <1>1. n \in Nat /\ Len(r) = n - 1 /\ \A i \in 1..(n - 1) : r[i] = q[i + 1]
    OBVIOUS
  <1> HIDE DEF r, n
  <1>2. ASSUME NEW x, NEW p \in Nat \ {0}, Reaches(q, t, x, p + 1)
        PROVE  Reaches(r, t, x, p)
    <2>1. CASE MovesOn(q, x, p + 1)
      <3>1. PICK j \in 1..n : /\ p + 1 <= j /\ q[j].kind = "connected"
                              /\ FollowsOn(x, q[j].block)
        BY <2>1, Zenon DEF MovesOn, n
      <3>2. j - 1 \in 1..(n - 1) /\ j - 1 \in 1..Len(r) /\ p <= j - 1 /\ (j - 1) + 1 = j
        BY <1>1, <3>1
      <3>3. r[j - 1] = q[j]
        BY <1>1, <3>2, Zenon
      <3> QED BY <3>1, <3>2, <3>3, Zenon DEF Reaches, MovesOn
    <2> QED BY <1>2, <2>1, Zenon DEF Reaches
  <1>3. ASSUME NEW i \in 1..Len(r), r[i].kind = "connected"
        PROVE  Reaches(r, t, r[i].block, i + 1)
    <2>1. i \in 1..(n - 1) /\ i + 1 \in 1..n /\ i + 1 \in Nat \ {0}
      BY <1>1
    <2>2. r[i] = q[i + 1]
      BY <1>1, <2>1, Zenon
    <2>3. Reaches(q, t, q[i + 1].block, (i + 1) + 1)
      BY <1>3, <2>1, <2>2, Zenon DEF LeadsOn, n
    <2> QED BY <1>2, <2>1, <2>2, <2>3, Zenon
  <1>4. ASSUME NEW x, Reaches(q, t, x, 2) PROVE Reaches(r, t, x, 1)
    <2>1. 1 \in Nat \ {0} /\ 1 + 1 = 2
      OBVIOUS
    <2> QED BY <1>2, <1>4, <2>1
  <1> QED BY <1>3, <1>4, Zenon DEF LeadsOn, r

\* A callback that does not move the index is not the one that moves it on.
LEMMA SkipsHead ==
  ASSUME NEW q \in Seq(CallbackRecord), NEW t, NEW x, Reaches(q, t, x, 1),
         q[1].kind = "connected" => ~FollowsOn(x, q[1].block)
  PROVE  Reaches(q, t, x, 2)
  <1>1. CASE MovesOn(q, x, 1)
    <2>1. PICK j \in 1..Len(q) : q[j].kind = "connected" /\ FollowsOn(x, q[j].block)
      BY <1>1, Zenon DEF MovesOn
    <2>2. j # 1
      BY <2>1, Zenon
    <2>3. 2 <= j
      BY <2>2
    <2> QED BY <2>1, <2>3, Zenon DEF Reaches, MovesOn
  <1> QED BY <1>1, Zenon DEF Reaches

\* BlockConnected and ChainStateFlushed.
LEMMA CallbackFollows ==
  ASSUME IndexInv, Follows, Callback
  PROVE  Follows'
  <1>1. queue \in Seq(CallbackRecord) /\ synced \in BOOLEAN /\ stopping \in BOOLEAN
    BY DEF IndexInv, MoreTypes, TypeOK
  <1>2. queue # <<>> /\ queue' = Tail(queue) /\ tip' = tip /\ synced' = synced
    BY DEF Callback, BlockConnected, ChainStateFlushed, syncVars
  <1>3. Head(queue) = queue[1] /\ 1 \in 1..Len(queue) /\ 1 + 1 = 2
    BY <1>1, <1>2
  <1>4. /\ LeadsOn(queue', tip')
        /\ \A x : Reaches(queue, tip, x, 2) => Reaches(queue', tip', x, 1)
    BY <1>1, <1>2, TailLeads, Zenon DEF Follows
  <1>5. ASSUME synced', ~stopping' PROVE Reaches(queue, tip, best', 2)
    <2>1. CASE ChainStateFlushed
      <3>1. ~stopping /\ synced /\ best' = best /\ queue[1].kind = "flushed"
        BY <1>2, <1>3, <1>5, <2>1 DEF ChainStateFlushed, syncVars
      <3>2. queue[1].kind # "connected"
        BY <3>1
      <3> QED BY <1>1, <3>1, <3>2, SkipsHead, Zenon DEF Follows
    <2>2. CASE BlockConnected
      <3>0. queue[1].kind = "connected"
        BY <1>3, <2>2, Zenon DEF BlockConnected
      <3>1. CASE best' = queue[1].block
        BY <1>3, <3>0, <3>1 DEF Follows, LeadsOn
      <3>2. CASE best' # queue[1].block
        <4>1. ~ConnectsToBest(queue[1].block) /\ stopping' = (stopping \/ (synced /\ best = NoBlock))
              /\ best' = best
          BY <1>2, <1>3, <1>5, <2>2, <3>2 DEF BlockConnected
        <4>2. ~stopping /\ synced
          BY <1>2, <1>5, <4>1, Zenon
        <4>3. ~FollowsOn(best, queue[1].block)
          BY <4>1, Zenon DEF ConnectsToBest, FollowsOn
        <4> QED BY <1>1, <4>1, <4>2, <4>3, SkipsHead, Zenon DEF Follows
      <3> QED BY <3>1, <3>2, Zenon
    <2> QED BY <2>1, <2>2, Zenon DEF Callback
  <1> QED BY <1>4, <1>5, Zenon DEF Follows

\* ThreadSync stops at a block that has the chain: NextSyncBlock has no other
\* reason to return none.
LEMMA NoNextSyncBlock ==
  ASSUME TypeOK, NEW b \in MaybeBlock, NextSyncBlock(b) = NoBlock
  PROVE  Anc(tip) \subseteq Anc(b)
  <1> DEFINE fork == FindFork(b)
             after == {c \in Anc(tip) : Parent[c] = fork}
             left == Anc(tip) \ Anc(b)
  <1>1. tip \in MaybeBlock
    BY DEF TypeOK, MaybeBlock
  <1>2. fork \in MaybeBlock /\ Anc(fork) = Anc(b) \cap Anc(tip)
    BY <1>1, FindForkIsLast, Zenon
  <1>3. Anc(tip) \subseteq Blocks /\ Height \in [Blocks -> Nat]
    BY <1>1, ChainFacts, HeightDef, Zenon
  <1>4. after = {}
    <2>1. ASSUME NEW c \in after PROVE FALSE
      <3>1. (CHOOSE d \in after : TRUE) \in after
        BY <2>1, Zenon
      <3>2. after # {} /\ NextSyncBlock(b) = CHOOSE d \in after : TRUE
        BY <2>1, Zenon DEF NextSyncBlock
      <3> QED BY <1>3, <3>1, <3>2, TreeAssumption
    <2> QED BY <2>1, Zenon
  <1>5. ASSUME left # {} PROVE FALSE
    <2>1. PICK d \in left : Parent[d] \notin left
      <3>1. left \in SUBSET Blocks
        BY <1>3, Zenon
      <3> QED BY <1>5, <3>1, WellFoundedAssumption, Zenon
    <2>2. d \in Blocks /\ d \in Anc(tip) /\ d \notin Anc(b) /\ Parent[d] # fork
      BY <1>3, <1>4, <2>1, Zenon
    <2>3. tip \in Blocks /\ Anc(tip) = Ancestors[tip]
      BY <1>1, <2>2 DEF Anc, MaybeBlock
    <2> HIDE DEF fork
    <2>4. CASE d = Genesis
      <3>1. b = NoBlock
        BY <2>2, <2>4, GenesisIsAncestor DEF Anc, MaybeBlock
      <3>2. Anc(fork) = {}
        BY <1>2, <3>1 DEF Anc
      <3>3. fork = NoBlock
        BY <1>2, <3>2, AncestorsOfAncestors DEF Anc, MaybeBlock
      <3> QED BY <2>2, <2>4, <3>3, TreeAssumption
    <2>5. CASE d # Genesis
      <3> DEFINE p == Parent[d]
      <3>1. p \in Blocks /\ Ancestors[d] = {d} \cup Ancestors[p] /\ p \in Ancestors[d]
        BY <2>2, <2>5, AncestorsOfBlock, Zenon
      <3>2. p \in Anc(tip)
        <4>1. Ancestors[d] \subseteq Ancestors[tip]
          BY <2>2, <2>3, AncestorsOfAncestors, Zenon
        <4> QED BY <2>3, <3>1, <4>1
      <3>3. p \in Anc(fork)
        BY <1>2, <2>1, <3>2, Zenon
      <3>4. fork \in Blocks /\ Anc(fork) = Ancestors[fork] /\ fork \in Ancestors[fork]
        <4>1. fork # NoBlock
          BY <3>3, Zenon DEF Anc
        <4> QED BY <1>2, <4>1, AncestorsOfAncestors, Zenon DEF Anc, MaybeBlock
      <3>5. fork \in Ancestors[tip] /\ fork # d /\ d \notin Ancestors[fork]
        BY <1>2, <2>2, <2>3, <3>4, Zenon
      <3>6. fork \in Ancestors[p]
        BY <2>2, <2>3, <3>1, <3>5, AncestorsAreChain, Zenon
      <3>7. Height[fork] <= Height[p] /\ (fork # p => Height[fork] < Height[p])
        BY <3>1, <3>6, AncestorIsLower, Zenon
      <3>8. Height[p] <= Height[fork]
        BY <3>3, <3>4, AncestorIsLower, Zenon
      <3>9. Height[p] \in Nat /\ Height[fork] \in Nat
        BY <1>3, <3>1, <3>4, Zenon
      <3>10. fork = p
        BY <3>7, <3>8, <3>9
      <3> QED BY <2>2, <3>10, Zenon
    <2> QED BY <2>4, <2>5, Zenon
  <1> QED BY <1>5, Zenon

\* BaseIndex::Init and ThreadSync: when either says that the index is synced, the
\* best block has the chain.
LEMMA SyncFollows ==
  ASSUME IndexInv, Follows, Start \/ ThreadSync
  PROVE  Follows'
  <1>1. TypeOK /\ pindex \in MaybeBlock /\ synced \in BOOLEAN
    BY DEF IndexInv, TypeOK, MaybeBlock
  <1>2. queue' = queue /\ tip' = tip
    BY DEF Start, ThreadSync, MigrateMarker, MigrateFlag, MigrateNew, MigrateOld, InitIndex,
           SyncInterrupted, SyncDone, SyncNext, SyncIndex, SyncFails, chainVars
  <1>3. CASE InitIndex
    BY <1>2, <1>3 DEF InitIndex, Follows, Reaches
  <1>4. CASE SyncDone
    <2>1. best' = pindex /\ Anc(tip) \subseteq Anc(pindex)
      BY <1>1, <1>4, NoNextSyncBlock, Zenon DEF SyncDone
    <2> QED BY <1>2, <2>1 DEF Follows, Reaches
  <1>5. CASE ~InitIndex /\ ~SyncDone
    <2>1. synced' = synced /\ best' = best
      BY <1>5 DEF Start, ThreadSync, MigrateMarker, MigrateFlag, MigrateNew, MigrateOld,
             SyncInterrupted, SyncNext, SyncIndex, SyncFails, syncVars
    <2>2. stopping' = stopping \/ stopping' = TRUE
      BY <1>5 DEF Start, ThreadSync, MigrateMarker, MigrateFlag, MigrateNew, MigrateOld,
             SyncInterrupted, SyncNext, SyncIndex, SyncFails
    <2> QED BY <1>2, <2>1, <2>2 DEF Follows
  <1> QED BY <1>3, <1>4, <1>5, Zenon

\* Every step keeps the index on its way to the tip; a new process starts anew.
LEMMA StepFollows ==
  ASSUME IndexInv, Follows, [Next]_vars
  PROVE  Follows'
  <1>1. CASE Writeback \/ RequestShutdown \/ UNCHANGED vars
    <2>1. /\ queue' = queue /\ tip' = tip /\ synced' = synced /\ best' = best
          /\ ~stopping' => ~stopping
      BY <1>1 DEF Writeback, RequestShutdown, vars, chainVars, syncVars
    <2> QED BY <2>1 DEF Follows
  <1>2. CASE Stop \/ Crash
    <2>1. queue' = <<>> /\ synced' = FALSE
      BY <1>2 DEF Stop, Crash, Restart
    <2> QED BY <2>1 DEF Follows, LeadsOn
  <1> QED BY <1>1, <1>2, ChainFollows, CallbackFollows, SyncFollows, Zenon DEF Next

-----------------------------------------------------------------------------
(***************************************************************************)
(* What this process has indexed.  Claims do not count: only what Init     *)
(* took from the locator may be missing.                                   *)
(***************************************************************************)

Has == mem.indexed \cup lost

InStep ==
  /\ spc = "loop" => Entries(pindex) \subseteq Has
  /\ spc = "indexing" => Entries(pindex) \ {pindex} \subseteq Has
  /\ synced => Entries(best) \subseteq Has

\* ThreadSync (index/base.cpp) leaves no gap behind it.
LEMMA ThreadSyncInStep ==
  ASSUME IndexInv, InStep, ThreadSync
  PROVE  InStep'
  <1>0. TypeOK /\ mem \in Database /\ pindex \in MaybeBlock
    BY DEF IndexInv, TypeOK, MaybeBlock
  <1>1. ~synced /\ lost' = lost
    BY <1>0 DEF ThreadSync, SyncInterrupted, SyncDone, SyncNext, SyncIndex, SyncFails, TypeOK
  <1>2. CASE SyncInterrupted \/ SyncFails
    BY <1>1, <1>2 DEF SyncInterrupted, SyncFails, InStep
  <1>3. CASE SyncDone
    <2>1. spc = "loop" /\ WriteBestBlock(pindex) /\ best' = pindex /\ spc' = "off"
      BY <1>3 DEF SyncDone
    <2>2. mem'.indexed = mem.indexed
      BY <1>0, <2>1, WriteBestBlockBacks
    <2> QED BY <1>1, <2>1, <2>2 DEF InStep, Has
  <1>4. CASE SyncNext
    <2>1. /\ spc = "loop" /\ spc' = "indexing" /\ synced' = synced
          /\ pindex' = NextSyncBlock(pindex) /\ NextSyncBlock(pindex) # NoBlock
          /\ WriteBestBlock(pindex') \/ mem' = mem
      BY <1>4 DEF SyncNext
    <2>2. pindex' \in Blocks /\ Entries(pindex') \subseteq {pindex'} \cup Entries(pindex)
      BY <1>0, <2>1, NextSyncBlockEntries
    <2>3. mem'.indexed = mem.indexed
      BY <1>0, <2>1, <2>2, WriteBestBlockBacks DEF MaybeBlock
    <2>4. Entries(pindex) \subseteq Has /\ Has' = Has
      BY <1>1, <2>1, <2>3 DEF InStep, Has
    <2>5. Entries(pindex)' \ {pindex'} \subseteq Has'
      BY <2>2, <2>4 DEF Entries, Anc
    <2> QED BY <1>1, <2>1, <2>5 DEF InStep
  <1>5. CASE SyncIndex
    <2>1. /\ spc = "indexing" /\ spc' = "loop" /\ WriteBlock(pindex)
          /\ UNCHANGED <<pindex, synced>>
      BY <1>5 DEF SyncIndex
    <2>2. mem'.indexed = mem.indexed \cup ({pindex} \ {Genesis})
      BY <1>0, <2>1 DEF WriteBlock, Database
    <2>3. Entries(pindex) \ {pindex} \subseteq mem.indexed \cup lost /\ Genesis \notin Entries(pindex)
      BY <2>1 DEF InStep, Has, Entries
    <2>4. Entries(pindex) \subseteq mem'.indexed \cup lost
      BY <2>2, <2>3
    <2> QED BY <1>1, <2>1, <2>4 DEF InStep, Has, Entries, Anc
  <1> QED BY <1>2, <1>3, <1>4, <1>5 DEF ThreadSync

\* Nor do the callbacks that take over from it.
LEMMA CallbackInStep ==
  ASSUME IndexInv, InStep, Callback
  PROVE  InStep'
  <1>0. TypeOK /\ mem \in Database /\ best \in MaybeBlock
    BY DEF IndexInv, TypeOK, MaybeBlock
  <1>1. UNCHANGED <<synced, spc, pindex, lost>>
    BY DEF Callback, BlockConnected, ChainStateFlushed, syncVars
  <1>2. CASE ChainStateFlushed
    <2>1. mem'.indexed = mem.indexed /\ best' = best
      BY <1>0, <1>2 DEF ChainStateFlushed, Database, syncVars
    <2> QED BY <1>1, <2>1 DEF InStep, Has, Entries, Anc
  <1>3. CASE BlockConnected
    <2> DEFINE b == Head(queue).block
    <2>1. \/ UNCHANGED <<best, mem>>
          \/ synced /\ ConnectsToBest(b) /\ WriteBlock(b) /\ best' = b
      BY <1>3, Zenon DEF BlockConnected
    <2>2. b \in Blocks
      <3>1. queue \in Seq(CallbackRecord) /\ queue # <<>>
        BY <1>3 DEF IndexInv, MoreTypes, BlockConnected
      <3>2. Head(queue) \in CallbackRecord
        BY <3>1
      <3> QED BY <3>2 DEF CallbackRecord
    <2> HIDE DEF b
    <2>3. CASE UNCHANGED <<best, mem>>
      BY <1>1, <2>3 DEF InStep, Has, Entries, Anc
    <2>4. CASE synced /\ ConnectsToBest(b) /\ WriteBlock(b) /\ best' = b
      <3>1. mem'.indexed = mem.indexed \cup ({b} \ {Genesis})
        BY <1>0, <2>4 DEF WriteBlock, Database
      <3>2. Entries(b) \subseteq ({b} \ {Genesis}) \cup Entries(best)
        BY <1>0, <2>2, <2>4, ConnectedEntries
      <3>3. Entries(best) \subseteq mem.indexed \cup lost /\ spc = "off"
        BY <1>0, <2>4 DEF InStep, Has, TypeOK
      <3>4. Entries(b) \subseteq mem'.indexed \cup lost
        BY <3>1, <3>2, <3>3
      <3> QED BY <1>1, <2>4, <3>3, <3>4 DEF InStep, Has, Entries, Anc
    <2> QED BY <2>1, <2>3, <2>4
  <1> QED BY <1>2, <1>3 DEF Callback

\* Every step keeps the process in step; Init (index/base.cpp) starts from the locator.
LEMMA StepInStep ==
  ASSUME IndexInv, InStep, [Next]_vars
  PROVE  InStep'
  <1>1. ASSUME UNCHANGED <<syncVars, mem>>
        PROVE  InStep'
    BY <1>1 DEF InStep, Has, Entries, Anc, syncVars
  <1>2. CASE \/ \E n \in Blocks : \/ ActivateBestChainStep(n)
                                  \/ \E c \in Blocks : FlushInConnectTip(n, c)
             \/ DisconnectTip \/ FlushStateToDisk
    BY <1>1, <1>2 DEF ActivateBestChainStep, FlushInConnectTip, DisconnectTip,
                      FlushStateToDisk, ChainMoves
  <1>3. CASE Writeback \/ RequestShutdown \/ MigrateMarker \/ MigrateFlag \/ UNCHANGED vars
    BY <1>1, <1>3 DEF Writeback, RequestShutdown, MigrateMarker, MigrateFlag, vars
  <1>4. CASE MigrateOld \/ \E S \in SUBSET old, last \in BOOLEAN : MigrateNew(S, last)
    <2>1. spc' \in {"start", "erase", "off"} /\ synced' = synced /\ ~synced
      BY <1>4 DEF MigrateOld, MigrateNew, IndexInv, TypeOK
    <2> QED BY <2>1 DEF InStep
  <1>5. CASE InitIndex
    <2>1. /\ pindex' = best' /\ lost' = Entries(best') \ mem.indexed /\ mem' = mem
          /\ spc' \in {"off", "loop"}
      BY <1>5 DEF InitIndex
    <2>2. Entries(best') \subseteq mem'.indexed \cup lost'
      BY <2>1
    <2> QED BY <2>1, <2>2 DEF InStep, Has, Entries, Anc
  <1>6. CASE Stop \/ Crash
    BY <1>6 DEF Stop, Crash, Restart, InStep
  <1> QED BY <1>2, <1>3, <1>4, <1>5, <1>6, ThreadSyncInStep, CallbackInStep DEF Next, Start

\* BlockUntilSyncedToCurrentChain: once the callbacks have run, a synced index has
\* every block of the chain, whatever reorganisations, flushes, stops and crashes
\* came before and whatever ThreadSync had left to do when they did, except blocks
\* that the locator found at the start of the process promised falsely.
THEOREM DrainedIndexIsComplete == Spec => []DrainedIndexHasChain
  <1>1. Init => IndexInv /\ Follows /\ InStep
    <2>1. Init => Follows
      BY DEF Init, Follows, LeadsOn
    <2>2. Init => InStep
      BY DEF Init, InStep
    <2> QED BY <2>1, <2>2, InitKeeps
  <1>2. IndexInv /\ Follows /\ InStep /\ [Next]_vars => (IndexInv /\ Follows /\ InStep)'
    BY StepKeeps, StepFollows, StepInStep
  <1>3. IndexInv /\ Follows /\ InStep => DrainedIndexHasChain
    <2> SUFFICES ASSUME Follows, InStep, synced, ~stopping, queue = <<>>
                 PROVE  /\ Anc(tip) \subseteq Anc(best)
                        /\ Entries(tip) \subseteq mem.indexed \cup lost
      BY DEF DrainedIndexHasChain
    <2>1. Reaches(<<>>, tip, best, 1)
      BY DEF Follows
    <2>2. Anc(tip) \subseteq Anc(best)
      BY <2>1 DEF Reaches, MovesOn
    <2>3. Entries(best) \subseteq mem.indexed \cup lost
      BY DEF InStep, Has
    <2> QED BY <2>2, <2>3, Zenon DEF Entries
  <1> QED BY <1>1, <1>2, <1>3, PTL DEF Spec
==============================================================================
