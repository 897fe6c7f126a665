------------------------- MODULE ChainstateDBProofs -------------------------
(***************************************************************************)
(* Proofs about ChainstateDB, for any tree of blocks, any number of block  *)
(* files and any number of crashes.                                        *)
(***************************************************************************)
EXTENDS ChainstateDB, BlockTreeProofs

MaybeBlock == Blocks \cup {NoBlock}
Both == {HAVE_DATA, HAVE_UNDO}

\* The index ix has data and undo data of the whole chain of b
Complete(ix, b) == \A a \in ChainOf(b) \ {Genesis} : Both \subseteq ix[a]

\* Types of what is on disk or says where it is
Types ==
  /\ phase \in Phases
  /\ nFile \in [Blocks -> Nat] /\ lastFile \in Nat /\ diskLast \in Nat
  /\ index \in [Blocks -> Status] /\ diskIndex \in [Blocks -> Status] /\ dirty \subseteq Blocks
  /\ tip \in MaybeBlock /\ best \in MaybeBlock
  /\ heads = <<>> \/ heads \in Blocks \X MaybeBlock

\* The node and its coin database only ever refer to blocks that the index they
\* rely on has completely
ChainsComplete ==
  /\ phase \in {"down", "aborted"} => tip = NoBlock
  /\ Complete(index, tip)
  /\ Complete(diskIndex, best)
  /\ heads # <<>> => Complete(diskIndex, heads[1]) /\ Complete(diskIndex, heads[2])
  /\ phase = "flushcoins" => tip # NoBlock /\ Complete(diskIndex, tip)

\* setDirtyBlockIndex is all that the index on disk does not have
DirtyExact ==
  phase # "down" =>
    /\ \A b \in Blocks : diskIndex[b] \subseteq index[b]
    /\ \A b \in Blocks \ (dirty \cup {Genesis}) : index[b] = diskIndex[b]

\* Block data that is not fsynced is in the last block file
FilesBehind ==
  /\ phase # "down" => \A b \in Blocks \ {Genesis} :
       HAVE_DATA \in index[b] => <<b, HAVE_DATA>> \in synced \/ nFile[b] = lastFile
  /\ phase = "flushindex" => \A b \in Blocks \ {Genesis} :
       HAVE_DATA \in index[b] => <<b, HAVE_DATA>> \in synced

DiskInv == Types /\ ChainsComplete /\ DirtyExact /\ FilesBehind /\ IndexedBlocksAreSynced

-----------------------------------------------------------------------------
(***************************************************************************)
(* Chains                                                                  *)
(***************************************************************************)

\* pprev: the chain of a block is its own and that of its parent.
LEMMA ChainOfBlock ==
  /\ ChainOf(NoBlock) = {}
  /\ \A b \in Blocks : /\ Parent[b] \in MaybeBlock
                       /\ ChainOf(b) = {b} \cup ChainOf(Parent[b])
                       /\ ChainOf(b) \subseteq Blocks
  <1>1. ChainOf(NoBlock) = {}
    BY DEF ChainOf
  <1>2. ASSUME NEW b \in Blocks
        PROVE  /\ Parent[b] \in MaybeBlock /\ ChainOf(b) = {b} \cup ChainOf(Parent[b])
               /\ ChainOf(b) \subseteq Blocks
    <2>1. /\ b # NoBlock /\ Parent[b] \in MaybeBlock
          /\ Parent[b] = NoBlock <=> b = Genesis
      BY TreeAssumption DEF MaybeBlock
    <2>2. /\ Ancestors[b] = {b} \cup (IF b = Genesis THEN {} ELSE Ancestors[Parent[b]])
          /\ Ancestors[b] \subseteq Blocks
      BY AncestorsDef, AncestorsOfAncestors, Zenon
    <2> QED BY <2>1, <2>2 DEF ChainOf
  <1> QED BY <1>1, <1>2

\* An index that has more is as complete.
LEMMA CompleteGrows ==
  ASSUME NEW ix, NEW jx, NEW b \in MaybeBlock, Complete(ix, b),
         \A a \in Blocks \ {Genesis} : Both \subseteq ix[a] => Both \subseteq jx[a]
  PROVE  Complete(jx, b)
  BY ChainOfBlock DEF Complete, MaybeBlock

\* Whatever is complete below a block is complete below its parent.
LEMMA CompleteBelow ==
  ASSUME NEW ix, NEW b \in Blocks, Complete(ix, b)
  PROVE  Complete(ix, Parent[b])
  BY ChainOfBlock DEF Complete

\* FlushBlockFile adds what is in the last file, and drops nothing.
LEMMA FlushBlockFileSyncs ==
  ASSUME Types
  PROVE  /\ synced \subseteq FlushBlockFile
         /\ \A b \in Blocks : nFile[b] = lastFile /\ HAVE_DATA \in index[b] =>
              <<b, HAVE_DATA>> \in FlushBlockFile
  BY DEF FlushBlockFile

-----------------------------------------------------------------------------
(***************************************************************************)
(* Blocks and the tip                                                      *)
(***************************************************************************)

\* A new block goes to the last file, or to the next one after a flush of the last.
LEMMA AcceptBlockKeeps ==
  ASSUME DiskInv, NEW b \in Blocks \ {Genesis}, AcceptBlock(b)
  PROVE  DiskInv'
  <1>0. Types /\ index \in [Blocks -> Status] /\ nFile \in [Blocks -> Nat] /\ lastFile \in Nat
    BY DEF DiskInv, Types
  <1>1. /\ phase = "running" /\ index[b] = {} /\ index' = [index EXCEPT ![b] = {HAVE_DATA}]
        /\ dirty' = dirty \cup {b}
        /\ UNCHANGED <<phase, diskIndex, diskLast, tip, best, heads>>
    BY DEF AcceptBlock, diskIndexVars, dbVars
  <1>2. /\ index' \in [Blocks -> Status] /\ index'[b] = {HAVE_DATA}
        /\ \A c \in Blocks : c # b => index'[c] = index[c]
    BY <1>0, <1>1 DEF Status
  <1>3. PICK f \in Nat : lastFile' = f /\ nFile' = [nFile EXCEPT ![b] = f]
    BY <1>0 DEF AcceptBlock
  <1>4. /\ nFile' \in [Blocks -> Nat] /\ nFile'[b] = lastFile'
        /\ \A c \in Blocks : c # b => nFile'[c] = nFile[c]
    BY <1>0, <1>3
  <1>5. \/ lastFile' = lastFile /\ synced' = synced \ {<<b, HAVE_DATA>>, <<b, HAVE_UNDO>>}
        \/ synced' = FlushBlockFile \ {<<b, HAVE_DATA>>, <<b, HAVE_UNDO>>}
    BY DEF AcceptBlock
  <1>6. diskIndex[b] = {}
    BY <1>1 DEF DiskInv, DirtyExact
  <1>7. \A c \in Blocks : c # b /\ <<c, HAVE_DATA>> \in synced => <<c, HAVE_DATA>> \in synced'
    BY <1>0, <1>5, FlushBlockFileSyncs, SMTT(40)
  <1>8. Types'
    BY <1>1, <1>2, <1>3, <1>4, SMTT(40) DEF DiskInv, Types
  <1>9. ChainsComplete'
    <2>1. \A a \in Blocks \ {Genesis} : Both \subseteq index[a] => Both \subseteq index'[a]
      BY <1>1, <1>2 DEF Both
    <2>2. Complete(index', tip)
      BY <2>1, CompleteGrows DEF DiskInv, Types, ChainsComplete
    <2> QED BY <1>1, <2>2 DEF DiskInv, ChainsComplete, Complete
  <1>10. DirtyExact'
    BY <1>1, <1>2, <1>6, SMTT(40) DEF DiskInv, DirtyExact
  <1>11. ASSUME NEW c \in Blocks \ {Genesis}, HAVE_DATA \in index'[c]
         PROVE  <<c, HAVE_DATA>> \in synced' \/ nFile'[c] = lastFile'
    <2>1. CASE c = b
      BY <1>4, <2>1
    <2>2. CASE c # b
      <3>1. <<c, HAVE_DATA>> \in synced \/ nFile[c] = lastFile
        BY <1>1, <1>2, <1>11, <2>2, SMTT(40) DEF DiskInv, FilesBehind
      <3>2. <<c, HAVE_DATA>> # <<b, HAVE_DATA>> /\ <<c, HAVE_DATA>> # <<b, HAVE_UNDO>>
        BY <2>2
      <3>3. HAVE_DATA \in index[c]
        BY <1>2, <1>11, <2>2, SMTT(40)
      <3> QED BY <1>0, <1>4, <1>5, <1>7, <2>2, <3>1, <3>2, <3>3, FlushBlockFileSyncs, SMTT(40)
    <2> QED BY <2>1, <2>2
  <1>12. FilesBehind'
    BY <1>1, <1>11 DEF FilesBehind
  <1>13. IndexedBlocksAreSynced'
    BY <1>1, <1>6, <1>7, SMTT(40) DEF DiskInv, IndexedBlocksAreSynced
  <1> QED BY <1>8, <1>9, <1>10, <1>12, <1>13, SMTT(40) DEF DiskInv

\* ConnectBlock leaves the undo data of the new tip in the index.
LEMMA ConnectTipKeeps ==
  ASSUME DiskInv, NEW b \in Blocks, ConnectTip(b)
  PROVE  DiskInv'
  <1>0. index \in [Blocks -> Status] /\ dirty \subseteq Blocks
    BY DEF DiskInv, Types
  <1>1. /\ phase = "running" /\ Parent[b] = tip /\ HAVE_DATA \in index[b] /\ tip' = b
        /\ phase' \in {"running", "flushfiles"}
        /\ UNCHANGED <<nFile, lastFile, diskIndex, diskLast, best, heads>>
    BY DEF ConnectTip, FlushIfNeeded, diskIndexVars, dbVars
  <1>2. /\ index' \in [Blocks -> Status] /\ dirty \subseteq dirty' /\ dirty' \subseteq Blocks
        /\ \A c \in Blocks : /\ index[c] \subseteq index'[c]
                             /\ index'[c] # index[c] => c = b /\ c \in dirty'
                             /\ HAVE_DATA \in index'[c] => HAVE_DATA \in index[c]
        /\ b # Genesis => HAVE_UNDO \in index'[b]
        /\ \A c : <<c, HAVE_DATA>> \in synced => <<c, HAVE_DATA>> \in synced'
    <2>1. CASE b = Genesis \/ HAVE_UNDO \in index[b]
      BY <1>0, <2>1 DEF ConnectTip, indexVars
    <2>2. CASE ~(b = Genesis \/ HAVE_UNDO \in index[b])
      <3>1. /\ index' = [index EXCEPT ![b] = @ \cup {HAVE_UNDO}] /\ dirty' = dirty \cup {b}
            /\ synced' = synced \ {<<b, HAVE_UNDO>>}
        BY <2>2 DEF ConnectTip
      <3>2. \A c : <<c, HAVE_DATA>> # <<b, HAVE_UNDO>>
        BY DEF HAVE_DATA, HAVE_UNDO
      <3>3. /\ index' \in [Blocks -> Status] /\ index'[b] = index[b] \cup {HAVE_UNDO}
            /\ \A c \in Blocks : c # b => index'[c] = index[c]
        BY <1>0, <3>1, SMTT(40) DEF Status
      <3> QED BY <1>0, <1>1, <3>1, <3>2, <3>3, SMTT(40)
    <2> QED BY <2>1, <2>2
  <1>3. Types'
    BY <1>1, <1>2 DEF DiskInv, Types, Phases, MaybeBlock
  <1>4. Complete(index', b)
    <2>1. Complete(index', tip)
      BY <1>2, CompleteGrows DEF DiskInv, Types, ChainsComplete
    <2>2. b # Genesis => Both \subseteq index'[b]
      BY <1>1, <1>2, SMTT(40) DEF Both
    <2> QED BY <1>1, <2>1, <2>2, ChainOfBlock, SMTT(40) DEF Complete
  <1>5. ChainsComplete'
    BY <1>1, <1>4, SMTT(40) DEF DiskInv, ChainsComplete, Complete
  <1>6. DirtyExact'
    BY <1>1, <1>2, SMTT(40) DEF DiskInv, DirtyExact
  <1>7. FilesBehind'
    BY <1>1, <1>2 DEF DiskInv, FilesBehind
  <1>8. IndexedBlocksAreSynced'
    BY <1>1, <1>2 DEF DiskInv, IndexedBlocksAreSynced
  <1> QED BY <1>3, <1>5, <1>6, <1>7, <1>8, SMTT(40) DEF DiskInv

\* DisconnectTip, and the decision to flush, leave the files and the index alone.
LEMMA TipStepsKeep ==
  ASSUME DiskInv, DisconnectTip \/ \E d \in BOOLEAN : FlushStateToDisk(d)
  PROVE  DiskInv'
  <1>1. /\ phase = "running" /\ phase' \in {"running", "flushfiles"}
        /\ tip' = tip \/ (tip \in Blocks /\ tip' = Parent[tip])
        /\ UNCHANGED <<nFile, lastFile, synced, index, dirty, diskIndex, diskLast, best, heads>>
    BY DEF DiskInv, Types, MaybeBlock, DisconnectTip, FlushStateToDisk, FlushIfNeeded, fileVars,
           indexVars, diskIndexVars, dbVars
  <1>2. tip' \in MaybeBlock /\ Complete(index, tip')
    BY <1>1, ChainOfBlock, CompleteBelow, SMTT(40) DEF DiskInv, Types, ChainsComplete
  <1>3. Types'
    BY <1>1, <1>2, SMTT(40) DEF DiskInv, Types, Phases
  <1>4. ChainsComplete'
    BY <1>1, <1>2 DEF DiskInv, ChainsComplete, Complete
  <1> QED BY <1>1, <1>3, <1>4, SMTT(40) DEF DiskInv, DirtyExact, FilesBehind, IndexedBlocksAreSynced

-----------------------------------------------------------------------------
(***************************************************************************)
(* FlushStateToDisk                                                        *)
(***************************************************************************)

\* First the files: the index may now name whatever they hold.
LEMMA FlushFilesKeeps ==
  ASSUME DiskInv, FlushFiles
  PROVE  DiskInv'
  <1>1. /\ phase = "flushfiles" /\ phase' = "flushindex" /\ synced' = FlushBlockFile
        /\ UNCHANGED <<nFile, lastFile, index, dirty, diskIndex, diskLast, tip, best, heads>>
    BY DEF FlushFiles, indexVars, diskIndexVars, dbVars
  <1>2. synced \subseteq synced'
    BY <1>1, FlushBlockFileSyncs DEF DiskInv
  <1>3. Types'
    BY <1>1 DEF DiskInv, Types, Phases
  <1>4. ChainsComplete'
    BY <1>1 DEF DiskInv, ChainsComplete, Complete
  <1>5. \A b \in Blocks \ {Genesis} : HAVE_DATA \in index[b] => <<b, HAVE_DATA>> \in synced'
    BY <1>1, <1>2, FlushBlockFileSyncs DEF DiskInv, FilesBehind
  <1> QED BY <1>1, <1>2, <1>3, <1>4, <1>5, SMTT(40)
       DEF DiskInv, DirtyExact, FilesBehind, IndexedBlocksAreSynced

\* Then the index: the index on disk has everything that the coins may name.
LEMMA WriteBatchSyncKeeps ==
  ASSUME DiskInv, WriteBatchSync
  PROVE  DiskInv'
  <1>0. index \in [Blocks -> Status] /\ diskIndex \in [Blocks -> Status] /\ lastFile \in Nat
    BY DEF DiskInv, Types
  <1>1. /\ phase = "flushindex"
        /\ phase' = (IF full /\ tip # NoBlock THEN "flushcoins" ELSE "running")
        /\ diskIndex' = [b \in Blocks |-> IF b \in dirty THEN index[b] ELSE diskIndex[b]]
        /\ diskLast' = lastFile /\ dirty' = {}
        /\ UNCHANGED <<nFile, lastFile, synced, index, tip, best, heads>>
    BY DEF WriteBatchSync, fileVars, dbVars
  <1>2. /\ diskIndex' \in [Blocks -> Status]
        /\ \A b \in Blocks : diskIndex[b] \subseteq diskIndex'[b] /\ diskIndex'[b] \subseteq index[b]
        /\ \A b \in Blocks \ {Genesis} : diskIndex'[b] = index[b]
    BY <1>0, <1>1, SMTT(40) DEF DiskInv, DirtyExact
  <1>3. Types'
    BY <1>0, <1>1, <1>2, SMTT(40) DEF DiskInv, Types, Phases
  <1>4. \A b \in MaybeBlock : Complete(diskIndex, b) => Complete(diskIndex', b)
    BY <1>2, CompleteGrows, SMTT(40)
  <1>5. Complete(diskIndex', tip)
    BY <1>2, CompleteGrows DEF DiskInv, Types, ChainsComplete
  <1>6. heads # <<>> => heads[1] \in MaybeBlock /\ heads[2] \in MaybeBlock
    BY DEF DiskInv, Types, MaybeBlock
  <1>7. ChainsComplete'
    <2>1. Complete(diskIndex', best)
      BY <1>4 DEF DiskInv, Types, ChainsComplete
    <2>2. heads # <<>> => Complete(diskIndex', heads[1]) /\ Complete(diskIndex', heads[2])
      BY <1>4, <1>6 DEF DiskInv, ChainsComplete
    <2>3. Complete(index, tip)
      BY DEF DiskInv, ChainsComplete
    <2> QED BY <1>1, <1>5, <2>1, <2>2, <2>3, SMTT(40) DEF ChainsComplete, Complete
  <1>8. DirtyExact'
    BY <1>1, <1>2, SMTT(40) DEF DirtyExact
  <1>9. FilesBehind'
    BY <1>1 DEF DiskInv, FilesBehind
  <1>10. IndexedBlocksAreSynced'
    BY <1>1, <1>2, SMTT(40) DEF DiskInv, FilesBehind, IndexedBlocksAreSynced
  <1> QED BY <1>3, <1>7, <1>8, <1>9, <1>10, SMTT(40) DEF DiskInv

\* Last the coins: the markers name the tip and where the flush began.
LEMMA WriteCoinsKeeps ==
  ASSUME DiskInv, WriteFinalBatch \/ \E entries \in SUBSET Changed : WritePartialBatch(entries)
  PROVE  DiskInv'
  <1>1. /\ phase = "flushcoins" /\ phase' \in {"flushcoins", "running"}
        /\ \/ best' = NoBlock /\ heads' = <<tip, OldTip>>
           \/ best' = tip /\ heads' = <<>>
        /\ UNCHANGED <<nFile, lastFile, synced, index, dirty, diskIndex, diskLast, tip>>
    BY DEF WriteFinalBatch, WritePartialBatch, fileVars, indexVars, diskIndexVars
  <1>2. OldTip \in MaybeBlock /\ Complete(diskIndex, OldTip)
    <2>1. CASE best = NoBlock /\ Len(heads) = 2
      <3>1. heads # <<>>
        BY <2>1
      <3> QED BY <2>1, <3>1 DEF OldTip, DiskInv, Types, ChainsComplete
    <2>2. CASE ~(best = NoBlock /\ Len(heads) = 2)
      BY <2>2 DEF OldTip, DiskInv, Types, ChainsComplete
    <2> QED BY <2>1, <2>2
  <1>3. tip \in Blocks /\ Complete(diskIndex, tip)
    BY <1>1 DEF DiskInv, Types, MaybeBlock, ChainsComplete
  <1>4. Types'
    BY <1>1, <1>2, <1>3, SMTT(40) DEF DiskInv, Types, Phases, MaybeBlock
  <1>5. Complete(diskIndex, NoBlock)
    BY ChainOfBlock DEF Complete
  <1>6. Complete(diskIndex', best') /\ Complete(index', tip')
    BY <1>1, <1>3, <1>5, SMTT(40) DEF DiskInv, ChainsComplete, Complete
  <1>7. heads' # <<>> => Complete(diskIndex', heads'[1]) /\ Complete(diskIndex', heads'[2])
    BY <1>1, <1>2, <1>3, SMTT(40) DEF Complete
  <1>8. ChainsComplete'
    <2>1. tip # NoBlock
      BY <1>3, TreeAssumption
    <2>2. phase' \notin {"down", "aborted"} /\ tip' = tip /\ diskIndex' = diskIndex
      BY <1>1, SMTT(40)
    <2> QED BY <1>3, <1>6, <1>7, <2>1, <2>2, SMTT(40) DEF ChainsComplete, Complete
  <1> QED BY <1>1, <1>4, <1>8, SMTT(40) DEF DiskInv, DirtyExact, FilesBehind, IndexedBlocksAreSynced

-----------------------------------------------------------------------------
(***************************************************************************)
(* Crashes and starts                                                      *)
(***************************************************************************)

\* A crash leaves what is on disk.
LEMMA CrashKeeps ==
  ASSUME DiskInv, Crash
  PROVE  DiskInv'
  <1>1. /\ phase' = "down" /\ index' = [b \in Blocks |-> {}] /\ dirty' = {}
        /\ nFile' = [b \in Blocks |-> IF diskIndex[b] = {} THEN 0 ELSE nFile[b]]
        /\ tip' = NoBlock /\ UNCHANGED <<lastFile, synced, diskIndex, diskLast, best, heads>>
    BY DEF Crash, diskIndexVars, dbVars
  <1>2. index' \in [Blocks -> Status] /\ nFile' \in [Blocks -> Nat]
    BY <1>1 DEF DiskInv, Types, Status
  <1>3. Types'
    BY <1>1, <1>2 DEF DiskInv, Types, Phases, MaybeBlock
  <1>4. Complete(index', NoBlock)
    BY ChainOfBlock DEF Complete
  <1>5. ChainsComplete'
    BY <1>1, <1>4, Zenon DEF DiskInv, ChainsComplete, Complete
  <1> QED BY <1>1, <1>3, <1>5, SMTT(40)
       DEF DiskInv, DirtyExact, FilesBehind, IndexedBlocksAreSynced

\* A start loads the index that the coins on disk refer to.
LEMMA StartKeeps ==
  ASSUME DiskInv, StartConsistent \/ StartReplay \/ StartAborts
  PROVE  DiskInv'
  <1>0. phase = "down" /\ tip = NoBlock /\ diskIndex \in [Blocks -> Status] /\ Genesis \in Blocks
    BY TreeAssumption, SMTT(40) DEF DiskInv, Types, ChainsComplete, StartConsistent, StartReplay, StartAborts,
                          LoadBlockIndex
  <1>1. /\ index' = LoadedIndex /\ dirty' \subseteq {Genesis} /\ lastFile' = diskLast
        /\ UNCHANGED <<nFile, synced, diskIndex, diskLast, best, heads>>
    BY DEF StartConsistent, StartReplay, StartAborts, LoadBlockIndex, diskIndexVars, dbVars
  <1>2. \/ phase' = "running" /\ tip' = best
        \/ phase' = "flushcoins" /\ tip' = heads[1] /\ heads # <<>>
        \/ phase' = "aborted" /\ tip' = NoBlock
    BY <1>0 DEF StartConsistent, StartReplay, StartAborts
  <1>3. /\ index' \in [Blocks -> Status]
        /\ \A b \in Blocks : diskIndex[b] \subseteq index'[b]
        /\ \A b \in Blocks \ {Genesis} : index'[b] = diskIndex[b]
    BY <1>0, <1>1 DEF LoadedIndex, Status
  <1>4. tip' \in MaybeBlock /\ (phase' = "flushcoins" => tip' \in Blocks)
    BY <1>2 DEF DiskInv, Types, MaybeBlock
  <1>5. Types'
    BY <1>0, <1>1, <1>2, <1>3, <1>4, SMTT(40) DEF DiskInv, Types, Phases
  <1>6. Complete(diskIndex, tip')
    <2>1. Complete(diskIndex, NoBlock)
      BY ChainOfBlock DEF Complete
    <2> QED BY <1>2, <2>1, SMTT(40) DEF DiskInv, ChainsComplete
  <1>7. Complete(index', tip')
    BY <1>3, <1>4, <1>6, CompleteGrows, SMTT(40)
  <1>8. ChainsComplete'
    BY <1>1, <1>2, <1>4, <1>6, <1>7, TreeAssumption, SMTT(40) DEF DiskInv, ChainsComplete, Complete
  <1>9. DirtyExact'
    BY <1>1, <1>3, SMTT(40) DEF DirtyExact
  <1>10. FilesBehind'
    BY <1>1, <1>2, <1>3, SMTT(40) DEF DiskInv, FilesBehind, IndexedBlocksAreSynced
  <1> QED BY <1>1, <1>5, <1>8, <1>9, <1>10 DEF DiskInv, IndexedBlocksAreSynced

\* -reindex-chainstate wipes the coins, which then refer to nothing.
LEMMA ReindexKeeps ==
  ASSUME DiskInv, ReindexChainstate
  PROVE  DiskInv'
  <1>1. /\ phase = "aborted" /\ phase' = "running" /\ best' = NoBlock /\ heads' = <<>>
        /\ UNCHANGED <<nFile, lastFile, synced, index, dirty, diskIndex, diskLast, tip>>
    BY DEF ReindexChainstate, fileVars, indexVars, diskIndexVars
  <1>2. Complete(diskIndex, NoBlock)
    BY ChainOfBlock DEF Complete
  <1>3. Types'
    BY <1>1, SMTT(40) DEF DiskInv, Types, Phases, MaybeBlock
  <1>4. ChainsComplete'
    BY <1>1, <1>2, SMTT(40) DEF DiskInv, ChainsComplete, Complete
  <1> QED BY <1>1, <1>3, <1>4, SMTT(40) DEF DiskInv, DirtyExact, FilesBehind, IndexedBlocksAreSynced

-----------------------------------------------------------------------------
(***************************************************************************)
(* Theorems                                                                *)
(***************************************************************************)

\* A data directory that does not exist yet refers to no block.
LEMMA InitHolds ==
  ASSUME Init
  PROVE  DiskInv
  <1>1. Types
    BY DEF Init, Types, Phases, Status, MaybeBlock
  <1>2. ChainsComplete
    BY ChainOfBlock DEF Init, ChainsComplete, Complete
  <1> QED BY <1>1, <1>2 DEF Init, DiskInv, DirtyExact, FilesBehind, IndexedBlocksAreSynced

\* Every step keeps the invariant.
LEMMA StepKeeps ==
  ASSUME DiskInv, [Next]_vars
  PROVE  DiskInv'
  <1>1. CASE UNCHANGED vars
    <2>1. UNCHANGED <<phase, nFile, lastFile, synced, index, dirty, diskIndex, diskLast, tip, best,
                      heads>>
      BY <1>1 DEF vars, fileVars, indexVars, diskIndexVars, dbVars
    <2> QED BY <2>1 DEF DiskInv, Types, ChainsComplete, Complete, DirtyExact, FilesBehind,
              IndexedBlocksAreSynced
  <1>2. CASE Next
    BY <1>2, AcceptBlockKeeps, ConnectTipKeeps, TipStepsKeep, FlushFilesKeeps, WriteBatchSyncKeeps,
       WriteCoinsKeeps, CrashKeeps, StartKeeps, ReindexKeeps, SMTT(40) DEF Next
  <1> QED BY <1>1, <1>2, SMTT(40)

\* However FlushStateToDisk, new block files and crashes interleave, the index
\* database never names block data that has not been through FileCommit.
THEOREM IndexedBlocksStaySynced == Spec => []IndexedBlocksAreSynced
  <1>1. DiskInv => IndexedBlocksAreSynced
    BY SMTT(40) DEF DiskInv
  <1> QED BY <1>1, InitHolds, StepKeeps, PTL DEF Spec

\* No crash, not even one in the middle of a replay, leaves a data directory whose
\* coins name a block that LoadBlockIndex would not find or could not read.
THEOREM StartsAlwaysLoad == Spec => []AlwaysLoadable
  <1>1. DiskInv => AlwaysLoadable
    <2> SUFFICES ASSUME DiskInv PROVE ~CannotLoad
      BY DEF AlwaysLoadable
    <2>0. diskIndex \in [Blocks -> Status] /\ Genesis \in Blocks
      BY TreeAssumption DEF DiskInv, Types
    <2>1. /\ \A b \in Blocks : diskIndex[b] \subseteq LoadedIndex[b]
          /\ HAVE_DATA \in LoadedIndex[Genesis]
      BY <2>0, SMTT(40) DEF LoadedIndex
    <2>2. ASSUME NEW b \in Blocks, Complete(diskIndex, b) PROVE LoadedIndex[b] # {}
      <3>1. CASE b = Genesis
        BY <2>1, <3>1, SMTT(40)
      <3>2. CASE b # Genesis
        BY <2>1, <2>2, <3>2, ChainOfBlock, SMTT(40) DEF Complete, Both
      <3> QED BY <3>1, <3>2, SMTT(40)
    <2>3. heads = <<>> /\ best # NoBlock => LoadedIndex[best] # {}
      BY <2>2 DEF DiskInv, Types, MaybeBlock, ChainsComplete
    <2>4. heads # <<>> => HeadsKnown
      BY <2>2 DEF DiskInv, Types, MaybeBlock, ChainsComplete, HeadsKnown
    <2>5. heads # <<>> => CanRollForward
      <3> SUFFICES ASSUME heads # <<>>,
                          NEW b \in ChainOf(heads[1]) \ (ChainOf(heads[2]) \cup {Genesis})
                   PROVE  HAVE_DATA \in LoadedIndex[b]
        BY DEF CanRollForward
      <3>1. heads[1] \in Blocks /\ Complete(diskIndex, heads[1])
        BY DEF DiskInv, Types, ChainsComplete
      <3>2. b \in Blocks /\ Both \subseteq diskIndex[b]
        BY <3>1, ChainOfBlock, SMTT(40) DEF Complete
      <3> QED BY <2>1, <3>2, SMTT(40) DEF Both
    <2> QED BY <2>3, <2>4, <2>5, SMTT(40) DEF CannotLoad
  <1> QED BY <1>1, InitHolds, StepKeeps, PTL DEF Spec

\* A running node has the undo data of every block that DisconnectTip may be
\* asked to undo, whatever was lost in crashes before.
THEOREM UndoIsNeverMissing == Spec => []UndoForWholeChain
  <1>1. DiskInv => UndoForWholeChain
    BY DEF DiskInv, ChainsComplete, Complete, Both, UndoForWholeChain
  <1> QED BY <1>1, InitHolds, StepKeeps, PTL DEF Spec

-----------------------------------------------------------------------------
(***************************************************************************)
(* The coins: what the loops over a block's transactions compute           *)
(***************************************************************************)

LOCAL W == INSTANCE WellFoundedInduction

\* What holds before a loop and is kept by every step of it holds after each.
LEMMA LoopInvariant ==
  ASSUME NEW n \in Nat, NEW S, 0 \in S, \A i \in 1..n : i - 1 \in S => i \in S
  PROVE  \A i \in 0..n : i \in S
  <1> DEFINE Wrong == {i \in 0..n : i \notin S}
  <1>1. Wrong \subseteq Nat
    OBVIOUS
  <1>2. SUFFICES ASSUME Wrong # {} PROVE FALSE
    BY Zenon
  <1>3. PICK i \in Wrong : \A j \in Wrong : ~(<<j, i>> \in W!OpToRel(<, Nat))
    BY <1>1, <1>2, W!NatLessThanWellFounded, W!WFMin, Zenon
  <1>4. \A j \in Wrong : ~(j < i)
    BY <1>1, <1>3, Zenon DEF W!OpToRel
  <1>5. i \in 1..n /\ i - 1 \in 0..n /\ i - 1 < i
    OBVIOUS
  <1> QED BY <1>4, <1>5, Zenon

\* A loop over n transactions, from base: the i-th takes minus[i] away and adds plus[i]
Steps(f, n, base, minus, plus) ==
  f[0] = base /\ \A i \in 1..n : f[i] = (f[i - 1] \ minus[i]) \cup plus[i]

\* Its result is determined by the steps.
LEMMA StepsDetermine ==
  ASSUME NEW n \in Nat, NEW base, NEW minus, NEW plus, NEW f, NEW g,
         Steps(f, n, base, minus, plus), Steps(g, n, base, minus, plus)
  PROVE  f[n] = g[n]
  <1> DEFINE Same == {i \in 0..n : f[i] = g[i]}
  <1>1. 0 \in Same
    <2>1. 0 \in 0..n
      OBVIOUS
    <2> QED BY <2>1, Zenon DEF Steps
  <1>2. ASSUME NEW i \in 1..n, i - 1 \in Same PROVE i \in Same
    <2>1. i \in 0..n
      OBVIOUS
    <2> QED BY <2>1, <1>2, Zenon DEF Steps
  <1>3. n \in 0..n
    OBVIOUS
  <1> HIDE DEF Same
  <1>4. n \in Same
    BY <1>1, <1>2, <1>3, LoopInvariant, Zenon
  <1> QED BY <1>4, Zenon DEF Same

\* The outputs and inputs of a block, one transaction after the other.
LEMMA UpToFacts ==
  ASSUME NEW b \in Blocks
  PROVE  /\ Len(Txs[b]) \in Nat
         /\ CreatedUpTo(b, 0) = {} /\ SpentUpTo(b, 0) = {}
         /\ \A i \in 1..Len(Txs[b]) :
              /\ CreatedUpTo(b, i) = CreatedUpTo(b, i - 1) \cup Txs[b][i].out
              /\ SpentUpTo(b, i) = SpentUpTo(b, i - 1) \cup Txs[b][i].in
              /\ CreatedUpTo(b, i) \subseteq CreatedBy(b)
  <1>1. Len(Txs[b]) \in Nat
    BY TxsAssumption
  <1>2. \A j : j \notin 1..0
    OBVIOUS
  <1>3. CreatedUpTo(b, 0) = {} /\ SpentUpTo(b, 0) = {}
    BY <1>2, Zenon DEF CreatedUpTo, SpentUpTo
  <1>4. ASSUME NEW i \in 1..Len(Txs[b])
        PROVE  /\ CreatedUpTo(b, i) = CreatedUpTo(b, i - 1) \cup Txs[b][i].out
               /\ SpentUpTo(b, i) = SpentUpTo(b, i - 1) \cup Txs[b][i].in
               /\ CreatedUpTo(b, i) \subseteq CreatedBy(b)
    <2>1. \A j : j \in 1..i <=> j \in 1..(i - 1) \/ j = i
      BY <1>1
    <2>2. \A j : j \in 1..i => j \in 1..Len(Txs[b])
      BY <1>1
    <2>3. CreatedUpTo(b, i) = CreatedUpTo(b, i - 1) \cup Txs[b][i].out
      BY <2>1, Zenon DEF CreatedUpTo
    <2>4. SpentUpTo(b, i) = SpentUpTo(b, i - 1) \cup Txs[b][i].in
      BY <2>1, Zenon DEF SpentUpTo
    <2>5. CreatedUpTo(b, i) \subseteq CreatedBy(b)
      BY <2>2, Zenon DEF CreatedBy, CreatedUpTo
    <2> QED BY <2>3, <2>4, <2>5, Zenon
  <1> QED BY <1>1, <1>3, <1>4, Zenon

\* A block adds its outputs and inputs to those of its parent's chain.
LEMMA ChainTotals ==
  /\ CreatedAt(NoBlock) = {} /\ SpentAt(NoBlock) = {}
  /\ CreatedAt(Genesis) = {} /\ SpentAt(Genesis) = {}
  /\ \A b \in Blocks \ {Genesis} : /\ CreatedAt(b) = CreatedAt(Parent[b]) \cup CreatedBy(b)
                                   /\ SpentAt(b) = SpentAt(Parent[b]) \cup SpentBy(b)
  <1>1. ChainOf(NoBlock) \ {Genesis} = {} /\ ChainOf(Genesis) \ {Genesis} = {}
    BY ChainOfBlock, TreeAssumption, Zenon
  <1>2. ASSUME NEW b \in Blocks \ {Genesis}
        PROVE  ChainOf(b) \ {Genesis} = (ChainOf(Parent[b]) \ {Genesis}) \cup {b}
    BY ChainOfBlock, Zenon
  <1>3. ASSUME NEW b \in Blocks \ {Genesis} PROVE CreatedAt(b) = CreatedAt(Parent[b]) \cup CreatedBy(b)
    <2>1. \A x : x \in CreatedAt(b) <=> \E a \in (ChainOf(Parent[b]) \ {Genesis}) \cup {b} : x \in CreatedBy(a)
      BY <1>2, Zenon DEF CreatedAt
    <2>2. \A x : x \in CreatedAt(Parent[b]) <=> \E a \in ChainOf(Parent[b]) \ {Genesis} : x \in CreatedBy(a)
      BY Zenon DEF CreatedAt
    <2> QED BY <2>1, <2>2, Zenon
  <1>4. ASSUME NEW b \in Blocks \ {Genesis} PROVE SpentAt(b) = SpentAt(Parent[b]) \cup SpentBy(b)
    <2>1. \A x : x \in SpentAt(b) <=> \E a \in (ChainOf(Parent[b]) \ {Genesis}) \cup {b} : x \in SpentBy(a)
      BY <1>2, Zenon DEF SpentAt
    <2>2. \A x : x \in SpentAt(Parent[b]) <=> \E a \in ChainOf(Parent[b]) \ {Genesis} : x \in SpentBy(a)
      BY Zenon DEF SpentAt
    <2> QED BY <2>1, <2>2, Zenon
  <1>5. /\ CreatedAt(NoBlock) = {} /\ SpentAt(NoBlock) = {}
        /\ CreatedAt(Genesis) = {} /\ SpentAt(Genesis) = {}
    BY <1>1, Zenon DEF CreatedAt, SpentAt
  <1> QED BY <1>3, <1>4, <1>5, Zenon

\* HaveInputs: nothing is spent that was not made before on the chain.
LEMMA SpentWasCreated ==
  ASSUME NEW b \in MaybeBlock
  PROVE  SpentAt(b) \subseteq CreatedAt(b)
  <1> SUFFICES ASSUME NEW x \in SpentAt(b) PROVE x \in CreatedAt(b)
    BY Zenon
  <1>1. PICK a \in ChainOf(b) \ {Genesis} : x \in SpentBy(a)
    BY Zenon DEF SpentAt
  <1>2. b \in Blocks /\ a \in Blocks \ {Genesis} /\ ChainOf(a) \subseteq ChainOf(b)
    <2>1. b \in Blocks
      BY <1>1, ChainOfBlock, Zenon DEF MaybeBlock
    <2>2. a \in Blocks \ {Genesis}
      BY <1>1, <2>1, ChainOfBlock, Zenon
    <2> QED BY <1>1, <2>1, <2>2, AncestorsOfAncestors, TreeAssumption, Zenon DEF ChainOf
  <1>3. PICK i \in 1..Len(Txs[a]) : x \in Txs[a][i].in
    BY <1>1, Zenon DEF SpentBy, SpentUpTo
  <1>4. x \in CreatedAt(Parent[a]) \cup CreatedUpTo(a, i - 1)
    BY <1>2, <1>3, ValidAssumption, Zenon
  <1>5. CreatedUpTo(a, i - 1) \subseteq CreatedBy(a)
    BY <1>2, UpToFacts, Zenon
  <1>6. CreatedAt(a) = CreatedAt(Parent[a]) \cup CreatedBy(a)
    BY <1>2, ChainTotals, Zenon
  <1>7. x \in CreatedAt(a)
    BY <1>4, <1>5, <1>6, Zenon
  <1> QED BY <1>2, <1>7, Zenon DEF CreatedAt

\* The coins after the first i transactions of b, from set
CoinsAfter(set, b, i) == (set \cup CreatedUpTo(b, i)) \ SpentUpTo(b, i)

\* A transaction takes its inputs away and adds its outputs, from whichever set; from
\* the set of the parent, its inputs were there and its outputs were not.
LEMMA TransactionStep ==
  ASSUME NEW b \in Blocks \ {Genesis}, NEW i \in 1..Len(Txs[b])
  PROVE  /\ \A set : CoinsAfter(set, b, i) =
                       (CoinsAfter(set, b, i - 1) \ Txs[b][i].in) \cup Txs[b][i].out
         /\ Txs[b][i].in \subseteq CoinsAfter(UtxoAt(Parent[b]), b, i - 1)
         /\ Txs[b][i].out \cap CoinsAfter(UtxoAt(Parent[b]), b, i - 1) = {}
         /\ Txs[b][i].out \cap SpentAt(Parent[b]) = {}
  <1> DEFINE p == Parent[b]
  <1>1. /\ Txs[b][i].in \subseteq (CreatedAt(p) \cup CreatedUpTo(b, i - 1))
                                    \ (SpentAt(p) \cup SpentUpTo(b, i - 1))
        /\ Txs[b][i].out \cap (CreatedAt(p) \cup CreatedUpTo(b, i - 1)) = {}
    BY ValidAssumption, Zenon
  <1>2. p \in MaybeBlock /\ SpentAt(p) \subseteq CreatedAt(p)
    BY ChainOfBlock, SpentWasCreated, Zenon
  <1>3. ASSUME NEW x \in SpentUpTo(b, i) PROVE x \in CreatedAt(p) \cup CreatedUpTo(b, i - 1)
    <2>1. PICK j \in 1..i : x \in Txs[b][j].in
      BY <1>3, Zenon DEF SpentUpTo
    <2>2. j \in 1..Len(Txs[b]) /\ \A k : k \in 1..(j - 1) => k \in 1..(i - 1)
      BY UpToFacts
    <2>3. x \in CreatedAt(p) \cup CreatedUpTo(b, j - 1)
      BY <2>1, <2>2, ValidAssumption, Zenon
    <2> QED BY <2>2, <2>3, Zenon DEF CreatedUpTo
  <1>4. Txs[b][i].out \cap SpentUpTo(b, i) = {}
    BY <1>1, <1>3, Zenon
  <1>5. /\ CreatedUpTo(b, i) = CreatedUpTo(b, i - 1) \cup Txs[b][i].out
        /\ SpentUpTo(b, i) = SpentUpTo(b, i - 1) \cup Txs[b][i].in
    BY UpToFacts, Zenon
  <1> HIDE DEF p
  <1>6. \A set : CoinsAfter(set, b, i) =
                   (CoinsAfter(set, b, i - 1) \ Txs[b][i].in) \cup Txs[b][i].out
    BY <1>4, <1>5 DEF CoinsAfter
  <1>7. Txs[b][i].in \subseteq CoinsAfter(UtxoAt(p), b, i - 1)
    BY <1>1, Zenon DEF CoinsAfter, UtxoAt
  <1>8. Txs[b][i].out \cap CoinsAfter(UtxoAt(p), b, i - 1) = {}
    BY <1>1, Zenon DEF CoinsAfter, UtxoAt
  <1>9. Txs[b][i].out \cap SpentAt(p) = {}
    BY <1>1, <1>2, Zenon
  <1> QED BY <1>6, <1>7, <1>8, <1>9, Zenon DEF p

\* ConnectBlock and RollforwardBlock add what the block makes and does not spend, and
\* take away what it spends, from whichever set they are applied to.
LEMMA ApplyBlockIs ==
  ASSUME NEW set, NEW b \in Blocks \ {Genesis}
  PROVE  ApplyBlock(set, b) = (set \cup CreatedBy(b)) \ SpentBy(b)
  <1> DEFINE n == Len(Txs[b])
             g == [i \in 0..n |-> CoinsAfter(set, b, i)]
             minus == [i \in 1..n |-> Txs[b][i].in]
             plus == [i \in 1..n |-> Txs[b][i].out]
             f == CHOOSE f : f = [i \in 0..Len(Txs[b]) |->
                    IF i = 0 THEN set ELSE (f[i - 1] \ Txs[b][i].in) \cup Txs[b][i].out]
  <1>0. n \in Nat
    BY UpToFacts, Zenon
  <1>1. g[0] = set
    <2>1. CoinsAfter(set, b, 0) = set /\ 0 \in 0..n
      BY <1>0, UpToFacts DEF CoinsAfter
    <2> QED BY <2>1, Zenon
  <1>2. ASSUME NEW i \in 1..n PROVE g[i] = (g[i - 1] \ Txs[b][i].in) \cup Txs[b][i].out
    <2>1. i \in 0..n /\ i - 1 \in 0..n
      BY <1>0
    <2>2. CoinsAfter(set, b, i) = (CoinsAfter(set, b, i - 1) \ Txs[b][i].in) \cup Txs[b][i].out
      BY TransactionStep, Zenon
    <2> QED BY <2>1, <2>2, Zenon
  <1>3. \A i \in 0..n : i # 0 => i \in 1..n
    BY <1>0
  <1>4. \A i \in 0..n : g[i] = IF i = 0 THEN set ELSE (g[i - 1] \ Txs[b][i].in) \cup Txs[b][i].out
    <2> HIDE DEF g, n
    <2> QED BY <1>1, <1>2, <1>3, Zenon
  <1>5. g = [i \in 0..Len(Txs[b]) |->
               IF i = 0 THEN set ELSE (g[i - 1] \ Txs[b][i].in) \cup Txs[b][i].out]
    BY <1>4, Zenon
  <1>6. f = [i \in 0..Len(Txs[b]) |->
               IF i = 0 THEN set ELSE (f[i - 1] \ Txs[b][i].in) \cup Txs[b][i].out]
    <2> HIDE DEF g
    <2> QED BY <1>5, Zenon
  <1>7. ApplyBlock(set, b) = f[n]
    BY Zenon DEF ApplyBlock
  <1> HIDE DEF f, g
  <1>8. Steps(f, n, set, minus, plus)
    <2>1. 0 \in 0..n /\ \A i \in 1..n : i \in 0..n /\ i # 0
      BY <1>0
    <2>2. f[0] = set
      BY <1>6, <2>1, Zenon
    <2>3. ASSUME NEW i \in 1..n PROVE f[i] = (f[i - 1] \ minus[i]) \cup plus[i]
      BY <1>6, <2>1, Zenon
    <2> QED BY <2>2, <2>3, Zenon DEF Steps
  <1>9. Steps(g, n, set, minus, plus)
    BY <1>1, <1>2, Zenon DEF Steps
  <1> HIDE DEF minus, plus, n
  <1>10. f[n] = g[n]
    BY <1>0, <1>8, <1>9, StepsDetermine
  <1>11. g[n] = CoinsAfter(set, b, n) /\ n = Len(Txs[b])
    <2>1. n \in 0..n
      BY <1>0
    <2> QED BY <2>1, Zenon DEF g, n
  <1> QED BY <1>7, <1>10, <1>11, Zenon DEF CoinsAfter, CreatedBy, SpentBy

\* ConnectBlock makes of the unspent outputs of the parent those of the block.
LEMMA UtxoOfBlock ==
  ASSUME NEW b \in Blocks \ {Genesis}
  PROVE  UtxoAt(b) = (UtxoAt(Parent[b]) \cup CreatedBy(b)) \ SpentBy(b)
  <1>1. /\ CreatedAt(b) = CreatedAt(Parent[b]) \cup CreatedBy(b)
        /\ SpentAt(b) = SpentAt(Parent[b]) \cup SpentBy(b)
    BY ChainTotals, Zenon
  <1>2. CreatedBy(b) \cap SpentAt(Parent[b]) = {}
    <2>1. ASSUME NEW x \in CreatedBy(b) PROVE x \notin SpentAt(Parent[b])
      <3>1. PICK i \in 1..Len(Txs[b]) : x \in Txs[b][i].out
        BY Zenon DEF CreatedBy, CreatedUpTo
      <3>2. Txs[b][i].out \cap SpentAt(Parent[b]) = {}
        BY TransactionStep, Zenon
      <3> QED BY <3>1, <3>2, Zenon
    <2> QED BY <2>1, Zenon
  <1> QED BY <1>1, <1>2 DEF UtxoAt

\* DisconnectBlock, from the last transaction to the first, makes of the unspent
\* outputs of the block those of its parent: also of outputs spent inside the block.
LEMMA UndoBlockIs ==
  ASSUME NEW b \in Blocks \ {Genesis}
  PROVE  UndoBlock(UtxoAt(b), b) = UtxoAt(Parent[b])
  <1> DEFINE n == Len(Txs[b])
             set == UtxoAt(b)
             C(i) == CoinsAfter(UtxoAt(Parent[b]), b, i)
             g == [k \in 0..n |-> C(n - k)]
             minus == [k \in 1..n |-> Txs[b][n + 1 - k].out]
             plus == [k \in 1..n |-> Txs[b][n + 1 - k].in]
             f == CHOOSE f : f = [k \in 0..n |->
                    IF k = 0 THEN set
                    ELSE (f[k - 1] \ Txs[b][n + 1 - k].out) \cup Txs[b][n + 1 - k].in]
  <1>0. n \in Nat
    BY UpToFacts, Zenon
  <1>1. g[0] = set
    <2>1. C(n) = set
      BY UtxoOfBlock, Zenon DEF CoinsAfter, CreatedBy, SpentBy
    <2>2. 0 \in 0..n /\ n - 0 = n
      BY <1>0
    <2> HIDE DEF C, n, set
    <2> QED BY <2>1, <2>2, Zenon
  <1>2. ASSUME NEW k \in 1..n
        PROVE  g[k] = (g[k - 1] \ Txs[b][n + 1 - k].out) \cup Txs[b][n + 1 - k].in
    <2> DEFINE i == n + 1 - k
    <2>1. k \in 0..n /\ k - 1 \in 0..n /\ i \in 1..n /\ n - k = i - 1 /\ n - (k - 1) = i
      BY <1>0
    <2>2. /\ C(i) = (C(i - 1) \ Txs[b][i].in) \cup Txs[b][i].out
          /\ Txs[b][i].in \subseteq C(i - 1) /\ Txs[b][i].out \cap C(i - 1) = {}
      BY <2>1, TransactionStep, Zenon
    <2>3. g[k] = C(i - 1) /\ g[k - 1] = C(i)
      <3> HIDE DEF C, n, i
      <3> QED BY <2>1, Zenon
    <2> HIDE DEF C, n, g, i
    <2>4. C(i - 1) = (C(i) \ Txs[b][i].out) \cup Txs[b][i].in
      BY <2>2
    <2> QED BY <2>3, <2>4, Zenon DEF i
  <1>3. \A k \in 0..n : k # 0 => k \in 1..n
    BY <1>0
  <1>4. \A k \in 0..n : g[k] = IF k = 0 THEN set
                               ELSE (g[k - 1] \ Txs[b][n + 1 - k].out) \cup Txs[b][n + 1 - k].in
    <2> HIDE DEF g, n, set
    <2> QED BY <1>1, <1>2, <1>3, Zenon
  <1>5. g = [k \in 0..n |-> IF k = 0 THEN set
                            ELSE (g[k - 1] \ Txs[b][n + 1 - k].out) \cup Txs[b][n + 1 - k].in]
    <2> HIDE DEF n, set, C
    <2> QED BY <1>4, Zenon
  <1>6. f = [k \in 0..n |-> IF k = 0 THEN set
                            ELSE (f[k - 1] \ Txs[b][n + 1 - k].out) \cup Txs[b][n + 1 - k].in]
    <2> HIDE DEF g, n, set
    <2> QED BY <1>5, Zenon
  <1>7. UndoBlock(set, b) = f[n]
    <2> HIDE DEF set
    <2> QED BY Zenon DEF UndoBlock
  <1> HIDE DEF f, g, set
  <1>8. Steps(f, n, set, minus, plus)
    <2>1. 0 \in 0..n /\ \A k \in 1..n : k \in 0..n /\ k # 0
      BY <1>0
    <2> HIDE DEF n
    <2>2. f[0] = set
      BY <1>6, <2>1, Zenon
    <2>3. ASSUME NEW k \in 1..n PROVE f[k] = (f[k - 1] \ minus[k]) \cup plus[k]
      BY <1>6, <2>1, Zenon
    <2> QED BY <2>2, <2>3, Zenon DEF Steps
  <1>9. Steps(g, n, set, minus, plus)
    <2> HIDE DEF n
    <2> QED BY <1>1, <1>2, Zenon DEF Steps
  <1> HIDE DEF minus, plus, n
  <1>10. f[n] = g[n]
    BY <1>0, <1>8, <1>9, StepsDetermine
  <1>11. g[n] = C(0)
    <2>1. n \in 0..n /\ n - n = 0
      BY <1>0
    <2> HIDE DEF C
    <2> QED BY <2>1, Zenon DEF g
  <1>12. C(0) = UtxoAt(Parent[b])
    BY UpToFacts DEF CoinsAfter
  <1> QED BY <1>7, <1>10, <1>11, <1>12, Zenon DEF set

\* Every coin is as b or as c has it
Mixed(set, b, c) ==
  /\ UtxoAt(b) \cap UtxoAt(c) \subseteq set
  /\ set \subseteq UtxoAt(b) \cup UtxoAt(c)

\* ReplayBlocks: however much of an interrupted flush from old to new reached the
\* database, rolling the blocks above old forward ends with the coins of new.
LEMMA RollForwardIs ==
  ASSUME NEW new \in Blocks, NEW old \in ChainOf(new) \cup {NoBlock}, NEW set,
         Mixed(set, new, old)
  PROVE  RollForward(set, old, new) = UtxoAt(new)
  <1> DEFINE S == SUBSET (set \cup UNION {CreatedBy(b) : b \in Blocks})
             q == [b \in Blocks |-> [s \in S |-> IF b = old THEN set ELSE ApplyBlock(s, b)]]
             rolled == CHOOSE rolled : rolled = [b \in Blocks |->
                         IF b = Genesis \/ b = old THEN set ELSE ApplyBlock(rolled[Parent[b]], b)]
  <1>1. ASSUME NEW s \in S, NEW b \in Blocks PROVE ApplyBlock(s, b) \in S
    <2>1. CASE b = Genesis
      BY <2>1, Zenon DEF ApplyBlock
    <2>2. CASE b # Genesis
      <3>1. ApplyBlock(s, b) = (s \cup CreatedBy(b)) \ SpentBy(b)
        BY <2>2, ApplyBlockIs, Zenon
      <3>2. ASSUME NEW x \in ApplyBlock(s, b) PROVE x \in set \cup UNION {CreatedBy(c) : c \in Blocks}
        BY <3>1, Zenon
      <3> QED BY <3>2, Zenon
    <2> QED BY <2>1, <2>2, Zenon
  <1>2. set \in S
    BY Zenon
  <1>3. q \in [Blocks -> [S -> S]]
    <2> HIDE DEF S
    <2> QED BY <1>1, <1>2, Zenon
  <1>4. PICK f \in [Blocks -> S] : AlongChain(f, set, q)
    <2> HIDE DEF S, q
    <2> QED BY <1>2, <1>3, DefinedAlongChain, Zenon
  <1>5. ASSUME NEW b \in Blocks
        PROVE  f[b] = IF b = Genesis \/ b = old THEN set ELSE ApplyBlock(f[Parent[b]], b)
    <2>1. f[b] = IF b = Genesis THEN set ELSE q[b][f[Parent[b]]]
      BY <1>4, Zenon DEF AlongChain
    <2>2. b # Genesis => f[Parent[b]] \in S
      <3> HIDE DEF S, q
      <3> QED BY AncestorsOfBlock, Zenon
    <2> HIDE DEF S
    <2> QED BY <2>1, <2>2, Zenon
  <1>6. f = [b \in Blocks |-> IF b = Genesis \/ b = old THEN set
                              ELSE ApplyBlock(f[Parent[b]], b)]
    <2> HIDE DEF S, q
    <2> QED BY <1>5, Zenon
  <1>7. rolled = [b \in Blocks |-> IF b = Genesis \/ b = old THEN set
                                   ELSE ApplyBlock(rolled[Parent[b]], b)]
    <2> HIDE DEF S, q
    <2> QED BY <1>6, Zenon
  <1>8. RollForward(set, old, new) = rolled[new]
    BY Zenon DEF RollForward
  <1> HIDE DEF rolled, S, q
  <1>9. old = NoBlock \/ old \in Ancestors[new]
    BY TreeAssumption, Zenon DEF ChainOf
  <1> DEFINE Above(b) == b \in Ancestors[new] /\ (old = NoBlock \/ old \in Ancestors[b])
             Wrong == {b \in Blocks : Above(b) /\ ~Mixed(rolled[b], b, new)}
  <1>10. Mixed(set, old, new)
    BY Zenon DEF Mixed
  <1>11. ASSUME NEW b \in Wrong, Parent[b] \notin Wrong PROVE FALSE
    <2>1. CASE b = old
      BY <2>1, <1>7, <1>10, Zenon
    <2>2. CASE b # old /\ b = Genesis
      <3>1. old = NoBlock
        <4>1. Ancestors[b] = {Genesis}
          BY <2>2, AncestorsOfBlock, TreeAssumption, Zenon
        <4> QED BY <2>2, <4>1, Zenon
      <3>2. UtxoAt(Genesis) = UtxoAt(NoBlock)
        BY ChainTotals, Zenon DEF UtxoAt
      <3>3. rolled[b] = set
        BY <2>2, <1>7, Zenon
      <3> QED BY <2>2, <3>1, <3>2, <3>3, <1>10, Zenon DEF Mixed
    <2>3. CASE b # old /\ b # Genesis
      <3> DEFINE p == Parent[b]
      <3>1. p \in Blocks /\ Above(p)
        <4>1. p \in Blocks /\ Ancestors[b] = {b} \cup Ancestors[p] /\ p \in Ancestors[b]
          BY <2>3, AncestorsOfBlock, Zenon
        <4>2. p \in Ancestors[new]
          BY <4>1, AncestorsOfAncestors, Zenon
        <4> QED BY <4>1, <4>2, <2>3, Zenon
      <3>2. Mixed(rolled[p], p, new)
        BY <3>1, <1>11, Zenon
      <3>3. rolled[b] = (rolled[p] \cup CreatedBy(b)) \ SpentBy(b)
        BY <1>7, <2>3, ApplyBlockIs, Zenon
      <3>4. UtxoAt(b) = (UtxoAt(p) \cup CreatedBy(b)) \ SpentBy(b)
        BY <2>3, UtxoOfBlock, Zenon
      <3> HIDE DEF p
      <3>5. Mixed(rolled[b], b, new)
        BY <3>2, <3>3, <3>4 DEF Mixed
      <3> QED BY <3>5, Zenon
    <2> QED BY <2>1, <2>2, <2>3, Zenon
  <1>12. Wrong = {}
    <2> HIDE DEF Above
    <2> QED BY <1>11, WellFoundedAssumption, Zenon
  <1>13. Mixed(rolled[new], new, new)
    BY <1>9, <1>12, AncestorsOfAncestors, Zenon
  <1> QED BY <1>8, <1>13, Zenon DEF Mixed

\* ConnectTip makes of the coins of the parent's chain those of the block's.
LEMMA ApplyBlockFits ==
  ASSUME NEW b \in Blocks
  PROVE  ApplyBlock(UtxoAt(Parent[b]), b) = UtxoAt(b)
  <1>1. CASE b = Genesis
    <2>1. Parent[b] = NoBlock /\ UtxoAt(Genesis) = {} /\ UtxoAt(NoBlock) = {}
      BY <1>1, ChainTotals, TreeAssumption, Zenon DEF UtxoAt
    <2> QED BY <1>1, <2>1, Zenon DEF ApplyBlock
  <1>2. CASE b # Genesis
    <2>1. ApplyBlock(UtxoAt(Parent[b]), b) = (UtxoAt(Parent[b]) \cup CreatedBy(b)) \ SpentBy(b)
      BY <1>2, ApplyBlockIs, Zenon
    <2>2. UtxoAt(b) = (UtxoAt(Parent[b]) \cup CreatedBy(b)) \ SpentBy(b)
      BY <1>2, UtxoOfBlock, Zenon
    <2> QED BY <2>1, <2>2, Zenon
  <1> QED BY <1>1, <1>2, Zenon

-----------------------------------------------------------------------------
(***************************************************************************)
(* The coins: memory, database and markers                                 *)
(***************************************************************************)

\* The markers are there only during a flush to the tip that they name
FlushNamed ==
  /\ phase \in {"down", "aborted"} => tip = NoBlock /\ coins = {}
  /\ heads # <<>> => best = NoBlock
  /\ heads # <<>> /\ phase \notin {"down", "aborted"} => phase = "flushcoins" /\ heads[1] = tip

CoinsInv == DiskInv /\ FlushNamed /\ MemoryMatchesTip /\ MarkersTellTheTruth

\* Without DB_HEAD_BLOCKS the markers have one answer, with it two.
LEMMA MarkersMixed ==
  ASSUME heads # <<>>
  PROVE  MarkersTellTheTruth <=> Mixed(db, heads[1], heads[2])
  BY DEF MarkersTellTheTruth, Mixed

\* Steps that write neither coins nor markers.
LEMMA CoinsApart ==
  ASSUME CoinsInv, DiskInv', UNCHANGED <<tip, coins, db, best, heads>>,
         phase \notin {"down", "aborted", "flushcoins"}, phase' # "down", phase' # "aborted"
  PROVE  CoinsInv'
  BY DEF CoinsInv, FlushNamed, MemoryMatchesTip, MarkersTellTheTruth

\* The tip and pcoinsTip move together.
LEMMA TipMoves ==
  ASSUME CoinsInv, DiskInv', DisconnectTip \/ \E b \in Blocks : ConnectTip(b)
  PROVE  CoinsInv'
  <1>1. /\ phase = "running" /\ phase' \in {"running", "flushfiles"}
        /\ UNCHANGED <<db, best, heads>>
    BY DEF DisconnectTip, ConnectTip, FlushIfNeeded, dbVars
  <1>2. coins = UtxoAt(tip) /\ heads = <<>>
    BY <1>1 DEF CoinsInv, MemoryMatchesTip, FlushNamed
  <1>3. coins' = UtxoAt(tip')
    <2>1. CASE DisconnectTip
      <3>1. tip \in Blocks \ {Genesis} /\ coins' = UndoBlock(coins, tip) /\ tip' = Parent[tip]
        BY <2>1, SMTT(40) DEF DisconnectTip, CoinsInv, DiskInv, Types, MaybeBlock
      <3> QED BY <1>2, <3>1, UndoBlockIs, Zenon
    <2>2. ASSUME NEW b \in Blocks, ConnectTip(b) PROVE coins' = UtxoAt(tip')
      <3>1. Parent[b] = tip /\ coins' = ApplyBlock(coins, b) /\ tip' = b
        BY <2>2 DEF ConnectTip
      <3> QED BY <1>2, <3>1, ApplyBlockFits, Zenon
    <2> QED BY <2>1, <2>2, SMTT(40)
  <1>4. MarkersTellTheTruth'
    BY <1>1, <1>2 DEF CoinsInv, MarkersTellTheTruth
  <1> QED BY <1>1, <1>2, <1>3, <1>4, SMTT(40) DEF CoinsInv, FlushNamed, MemoryMatchesTip

\* Each batch of CCoinsViewDB::BatchWrite, of whichever entries, leaves every coin
\* as the tip or as the block where the flush began has it; the last, as the tip.
LEMMA BatchesTell ==
  ASSUME CoinsInv, DiskInv',
         WriteFinalBatch \/ \E entries \in SUBSET Changed : WritePartialBatch(entries)
  PROVE  CoinsInv'
  <1>1. phase = "flushcoins" /\ coins = UtxoAt(tip) /\ UNCHANGED <<tip, coins>>
    BY DEF WriteFinalBatch, WritePartialBatch, CoinsInv, MemoryMatchesTip
  <1>2. Mixed(db, tip, OldTip)
    <2>1. CASE heads = <<>>
      <3>1. OldTip = best
        BY <2>1 DEF OldTip
      <3> QED BY <2>1, <3>1 DEF CoinsInv, MarkersTellTheTruth, Mixed
    <2>2. CASE heads # <<>>
      <3>1. best = NoBlock /\ heads[1] = tip /\ Len(heads) = 2
        BY <1>1, <2>2 DEF CoinsInv, FlushNamed, DiskInv, Types
      <3>2. OldTip = heads[2]
        BY <3>1, SMTT(40) DEF OldTip
      <3> QED BY <2>2, <3>1, <3>2, MarkersMixed, SMTT(40) DEF CoinsInv
    <2> QED BY <2>1, <2>2
  <1>3. CASE WriteFinalBatch
    <2>1. /\ phase' = "running" /\ db' = WriteBatch(Changed) /\ best' = tip /\ heads' = <<>>
      BY <1>3 DEF WriteFinalBatch
    <2>2. db' = coins
      BY <2>1 DEF WriteBatch, Changed
    <2> QED BY <1>1, <2>1, <2>2, SMTT(40) DEF CoinsInv, FlushNamed, MemoryMatchesTip, MarkersTellTheTruth
  <1>4. ASSUME NEW entries \in SUBSET Changed, WritePartialBatch(entries)
        PROVE  CoinsInv'
    <2>1. /\ phase' = phase /\ db' = WriteBatch(entries) /\ best' = NoBlock
          /\ heads' = <<tip, OldTip>>
      BY <1>4 DEF WritePartialBatch
    <2>2. Mixed(db', tip, OldTip)
      BY <1>1, <1>2, <2>1, SMTT(40) DEF WriteBatch, Mixed
    <2>3. heads' # <<>> /\ heads'[1] = tip /\ heads'[2] = OldTip
      BY <2>1, SMTT(40)
    <2>4. MarkersTellTheTruth'
      BY <1>1, <2>2, <2>3, SMTT(40) DEF MarkersTellTheTruth, Mixed, UtxoAt
    <2>5. FlushNamed' /\ MemoryMatchesTip'
      BY <1>1, <2>1, <2>3, SMTT(40) DEF FlushNamed, MemoryMatchesTip
    <2> QED BY <2>4, <2>5, SMTT(40) DEF CoinsInv
  <1> QED BY <1>3, <1>4

\* A crash keeps the database and its markers.  A start finds in them what it
\* takes for its tip; -reindex-chainstate starts from nothing.
LEMMA RestartsTell ==
  ASSUME CoinsInv, DiskInv',
         Crash \/ StartConsistent \/ StartReplay \/ StartAborts \/ ReindexChainstate
  PROVE  CoinsInv'
  <1>0. UtxoAt(NoBlock) = {}
    BY ChainTotals, Zenon DEF UtxoAt
  <1>1. CASE Crash \/ StartAborts
    <2>1. /\ phase' \in {"down", "aborted"} /\ tip' = NoBlock /\ coins' = {}
          /\ UNCHANGED <<db, best, heads>>
      BY <1>1 DEF Crash, StartAborts, LoadBlockIndex, dbVars, CoinsInv, FlushNamed
    <2> QED BY <2>1, SMTT(40) DEF CoinsInv, FlushNamed, MemoryMatchesTip, MarkersTellTheTruth
  <1>2. CASE StartConsistent
    <2>1. /\ phase' = "running" /\ heads = <<>> /\ tip' = best /\ coins' = db
          /\ UNCHANGED <<db, best, heads>>
      BY <1>2, SMTT(40) DEF StartConsistent, LoadBlockIndex, dbVars
    <2> QED BY <2>1, SMTT(40) DEF CoinsInv, FlushNamed, MemoryMatchesTip, MarkersTellTheTruth
  <1>3. CASE StartReplay
    <2>1. /\ phase' = "flushcoins" /\ heads # <<>> /\ tip' = heads[1] /\ ~NeedsRollback
          /\ coins' = RollForward(db, heads[2], heads[1]) /\ UNCHANGED <<db, best, heads>>
      BY <1>3, SMTT(40) DEF StartReplay, LoadBlockIndex, dbVars
    <2>2. heads[1] \in Blocks /\ heads[2] \in ChainOf(heads[1]) \cup {NoBlock}
      BY <2>1 DEF NeedsRollback, CoinsInv, DiskInv, Types
    <2>3. Mixed(db, heads[1], heads[2])
      BY <2>1, MarkersMixed, SMTT(40) DEF CoinsInv
    <2>4. coins' = UtxoAt(heads[1])
      BY <2>1, <2>2, <2>3, RollForwardIs, Zenon
    <2> QED BY <2>1, <2>4, SMTT(40) DEF CoinsInv, FlushNamed, MemoryMatchesTip, MarkersTellTheTruth
  <1>4. CASE ReindexChainstate
    <2>1. /\ phase = "aborted" /\ phase' = "running" /\ db' = {} /\ best' = NoBlock
          /\ heads' = <<>> /\ UNCHANGED <<tip, coins>>
      BY <1>4 DEF ReindexChainstate
    <2> QED BY <1>0, <2>1, ZenonT(40) DEF CoinsInv, FlushNamed, MemoryMatchesTip, MarkersTellTheTruth
  <1> QED BY <1>1, <1>2, <1>3, <1>4, SMTT(40)

\* Every step keeps the coins and their markers.
LEMMA CoinsStepKeeps ==
  ASSUME CoinsInv, [Next]_vars
  PROVE  CoinsInv'
  <1>0. DiskInv'
    BY StepKeeps DEF CoinsInv
  <1>1. CASE \/ \E b \in Blocks \ {Genesis} : AcceptBlock(b)
             \/ \E d \in BOOLEAN : FlushStateToDisk(d)
             \/ FlushFiles
    <2>1. /\ UNCHANGED <<tip, coins, db, best, heads>> /\ phase \in {"running", "flushfiles"}
          /\ phase' \in {"running", "flushfiles", "flushindex"}
      BY <1>1 DEF AcceptBlock, FlushStateToDisk, FlushFiles, dbVars
    <2> QED BY <1>0, <2>1, CoinsApart, SMTT(40)
  <1>2. CASE WriteBatchSync
    <2>1. /\ UNCHANGED <<tip, coins, db, best, heads>> /\ phase = "flushindex"
          /\ phase' \in {"running", "flushcoins"}
      BY <1>2, SMTT(40) DEF WriteBatchSync, dbVars
    <2> QED BY <1>0, <2>1, CoinsApart, SMTT(40)
  <1>3. CASE UNCHANGED vars
    BY <1>0, <1>3, SMTT(40) DEF vars, dbVars, CoinsInv, FlushNamed, MemoryMatchesTip, MarkersTellTheTruth
  <1> QED BY <1>0, <1>1, <1>2, <1>3, TipMoves, BatchesTell, RestartsTell DEF Next

\* Whenever the process dies, between whichever batches of however many flushes
\* and replays, the coin database is what DB_BEST_BLOCK and DB_HEAD_BLOCKS say
\* (CCoinsViewDB::BatchWrite), and pcoinsTip is the set of the tip's chain.
THEOREM MarkersAreTrue == Spec => [](MarkersTellTheTruth /\ MemoryMatchesTip)
  <1>1. Init => CoinsInv
    <2> SUFFICES ASSUME Init PROVE CoinsInv
      OBVIOUS
    <2>1. UtxoAt(NoBlock) = {}
      BY ChainTotals, Zenon DEF UtxoAt
    <2> QED BY <2>1, InitHolds, Zenon DEF Init, CoinsInv, FlushNamed, MemoryMatchesTip, MarkersTellTheTruth
  <1>2. CoinsInv /\ [Next]_vars => CoinsInv'
    BY CoinsStepKeeps
  <1>3. CoinsInv => MarkersTellTheTruth /\ MemoryMatchesTip
    BY DEF CoinsInv
  <1> QED BY <1>1, <1>2, <1>3, PTL DEF Spec
=============================================================================
