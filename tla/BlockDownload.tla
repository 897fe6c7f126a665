---------------------------- MODULE BlockDownload ----------------------------
(***************************************************************************)
(* Block download: what net_processing.cpp knows of each peer's chain, the *)
(* blocks that are in flight, and how CleanBlockIndex takes deleted blocks *)
(* out of both.                                                            *)
(*                                                                         *)
(* One thread handles the messages of all peers and sends to them; another *)
(* removes peers, and a third cleans the index.  A handler is one step for *)
(* every critical section of cs_main that reads a pointer an earlier one   *)
(* has left in a local variable; that pointer is msg.block.                *)
(*                                                                         *)
(* The node has left initial block download; peers are full nodes that     *)
(* have witnesses, serve compact blocks and are not whitelisted, and no    *)
(* two blocks share their proof of stake.  The time of a block is later    *)
(* than that of its parent and not in the future; the tip, since initial   *)
(* download is over, has nMinimumChainWork.  Every caller of               *)
(* MarkBlockAsInFlight names the index entry, so                           *)
(* nBlocksInFlightValidHeaders is nBlocksInFlight.  The choice of the tip  *)
(* is that of ChainState, in one step.                                     *)
(***************************************************************************)
EXTENDS BlockTree, Sequences

CONSTANTS
  Bad,             \* the blocks that ContextualCheckBlock rejects
  Peers,           \* node ids, which are never used twice
  Announces,       \* the blocks a peer announces; it has their ancestors
  Honest,          \* the peers that stay, and send the blocks they are asked for, and
                   \* only those, in time
  NoPeer,
  MaxInTransit,    \* MAX_BLOCKS_IN_TRANSIT_PER_PEER
  Window,          \* BLOCK_DOWNLOAD_WINDOW
  MinBlocksToKeep, \* MIN_BLOCKS_TO_KEEP
  CheckpointSpan   \* nCheckpointSpan

ASSUME DownloadAssumption ==
  /\ Bad \subseteq Blocks \ {Genesis}
  /\ IsFiniteSet(Peers) /\ NoPeer \notin Peers
  /\ Announces \in [Peers -> SUBSET (Blocks \ {Genesis})]
  /\ Honest \subseteq Peers
  /\ \A p \in Honest : \A b \in Announces[p] : Ancestors[b] \cap Bad = {}
  /\ MaxInTransit \in Nat \ {0} /\ Window \in Nat \ {0} /\ CheckpointSpan \in Nat
  /\ MinBlocksToKeep \in Nat

VARIABLES
  index,     \* mapBlockIndex
  haveData,  \* BLOCK_HAVE_DATA
  failed,    \* BLOCK_FAILED_VALID
  tip,       \* chainActive.Tip()
  status,    \* of a peer: not yet connected, up, fDisconnect, removed
  node,      \* mapNodeState: what a peer has announced
  flight,    \* mapBlocksInFlight, the peers' queues and the counters
  msg,       \* the handler of the message that is being processed
  doomed     \* CleanBlockIndex: indexNeedErase

chainVars == <<index, haveData, failed, tip>>
vars == <<chainVars, status, node, flight, msg, doomed>>

-----------------------------------------------------------------------------
ActiveChain == Ancestors[tip]
AtHeight(b, h) == CHOOSE c \in Ancestors[b] : Height[c] = h
Highest(set) == CHOOSE b \in set : \A c \in set : Height[c] <= Height[b]

\* HaveTxsDownloaded()
Linked == {b \in haveData : Ancestors[b] \subseteq haveData}

\* Checkpoints::AutoSelectSyncCheckpoint()
SyncCheckpoint ==
  AtHeight(tip, IF Height[tip] > CheckpointSpan THEN Height[tip] - CheckpointSpan ELSE 0)

-----------------------------------------------------------------------------
(***************************************************************************)
(* Blocks in flight                                                        *)
(***************************************************************************)

Idle == [pc |-> "idle", peer |-> NoPeer, block |-> NoBlock]

NewNode == [best |-> NoBlock, unknown |-> NoBlock, common |-> NoBlock]

NothingInFlight ==
  [from |-> [b \in Blocks |-> NoPeer],       \* mapBlocksInFlight
   queue |-> [p \in Peers |-> <<>>],         \* vBlocksInFlight
   count |-> [p \in Peers |-> 0],            \* nBlocksInFlight
   peers |-> 0]                              \* nPeersWithValidatedDownloads

\* vBlocksInFlight.erase of the entry for b
Erase(q, b) ==
  LET k == CHOOSE i \in 1..Len(q) : q[i].hash = b
  IN  [i \in 1..(Len(q) - 1) |-> IF i < k THEN q[i] ELSE q[i + 1]]

\* Mutant of MarkBlockAsReceived: the last block is looked for before it is counted
MarkBlockAsReceivedEarly(f, b) ==
  LET p == f.from[b]
  IN  IF p = NoPeer THEN f
      ELSE [from |-> [f.from EXCEPT ![b] = NoPeer],
            queue |-> [f.queue EXCEPT ![p] = Erase(@, b)],
            count |-> [f.count EXCEPT ![p] = @ - 1],
            peers |-> IF f.count[p] = 0 THEN f.peers - 1 ELSE f.peers]

MarkBlockAsReceived(f, b) ==
  LET p == f.from[b]
  IN  IF p = NoPeer THEN f
      ELSE [from |-> [f.from EXCEPT ![b] = NoPeer],
            queue |-> [f.queue EXCEPT ![p] = Erase(@, b)],
            count |-> [f.count EXCEPT ![p] = @ - 1],
            peers |-> IF f.count[p] = 1 THEN f.peers - 1 ELSE f.peers]

MarkBlockAsInFlight(f, p, b, isPartial) ==
  LET g == MarkBlockAsReceived(f, b)
  IN  IF f.from[b] = p THEN f
      ELSE [from |-> [g.from EXCEPT ![b] = p],
            queue |-> [g.queue EXCEPT ![p] = Append(@, [hash |-> b, partial |-> isPartial])],
            count |-> [g.count EXCEPT ![p] = @ + 1],
            peers |-> IF g.count[p] = 0 THEN g.peers + 1 ELSE g.peers]

\* getdata for a set of blocks on the way to `last`, the lowest first
Request(f, p, last, set) ==
  LET after[h \in 0..Height[last]] ==
        IF h = 0 THEN f
        ELSE IF AtHeight(last, h) \in set
             THEN MarkBlockAsInFlight(after[h - 1], p, AtHeight(last, h), FALSE)
             ELSE after[h - 1]
  IN  IF set = {} THEN f ELSE after[Height[last]]

\* MarkBlockAsReceived for a set of blocks, in the order in which RemoveBlockIndex
\* comes to them
ReceivedAll(f, set) ==
  LET n == Cardinality(set)
      order == CHOOSE s \in [1..n -> set] : \A b \in set : \E i \in 1..n : s[i] = b
      after[i \in 0..n] == IF i = 0 THEN f ELSE MarkBlockAsReceived(after[i - 1], order[i])
  IN  after[n]

\* The blocks in p's queue; one of them, b, is there as a compact block
Listed(f, p) == {f.queue[p][i].hash : i \in 1..Len(f.queue[p])}
Partial(p, b) == \E i \in 1..Len(flight.queue[p]) : flight.queue[p][i] = [hash |-> b, partial |-> TRUE]

\* The entry for b in p's queue gets a partialBlock
AsPartial(f, p, b) ==
  LET q == f.queue[p]
      partial(e) == IF e.hash = b THEN [hash |-> b, partial |-> TRUE] ELSE e
  IN  [f EXCEPT !.queue[p] = [i \in 1..Len(q) |-> partial(q[i])]]

\* FinalizeNode: nothing is in flight from p any more
Released(f, p) ==
  [from |-> [b \in Blocks |-> IF b \in Listed(f, p) THEN NoPeer ELSE f.from[b]],
   queue |-> [f.queue EXCEPT ![p] = <<>>],
   count |-> [f.count EXCEPT ![p] = 0],
   peers |-> IF f.count[p] # 0 THEN f.peers - 1 ELSE f.peers]

-----------------------------------------------------------------------------
(***************************************************************************)
(* What a peer has                                                         *)
(***************************************************************************)

\* The peer has announced b, which is in the index
Better(n, b) ==
  IF n.best = NoBlock \/ Height[b] >= Height[n.best] THEN [n EXCEPT !.best = b] ELSE n

ProcessBlockAvailability(n) ==
  IF n.unknown \in index THEN [Better(n, n.unknown) EXCEPT !.unknown = NoBlock] ELSE n

UpdateBlockAvailability(n, b) ==
  LET m == ProcessBlockAvailability(n)
  IN  IF b \in index THEN Better(m, b) ELSE [m EXCEPT !.unknown = b]

\* LastCommonAncestor
LastCommon(b, c) == Highest(Ancestors[b] \cap Ancestors[c])

\* Mutant of NewCommon: a block whose ancestors are not all here counts
NewCommonUnlinked(common, seen) == Highest({common} \cup (seen \cap haveData))

\* How far pindexLastCommonBlock moves over the blocks seen
NewCommon(common, seen) == Highest({common} \cup (seen \cap Linked))

\* FindNextBlocksToDownload for a peer with state n: what it finds on the way
\* from pindexLastCommonBlock to pindexBestKnownBlock
FindNextBlocksToDownload(n, limit) ==
  LET guess == IF n.common = NoBlock THEN tip ELSE n.common
      common == LastCommon(guess, n.best)
      windowEnd == Height[common] + Window
      path == {b \in Ancestors[n.best] \ Ancestors[common] : Height[b] <= windowEnd + 1}
      missing(b) == b \notin haveData \cup ActiveChain
      wanted(b) == missing(b) /\ flight.from[b] = NoPeer
      below(b) == path \cap Ancestors[Parent[b]]
      stops(b) == b \in failed \/ (wanted(b) /\ Height[b] > windowEnd)
      seen == {b \in path : /\ \A c \in below(b) \cup {b} : ~stops(c)
                            /\ Cardinality({c \in below(b) : wanted(c)}) < limit}
  IN  IF n.best = NoBlock \/ Height[n.best] <= Height[tip]
      THEN [common |-> n.common, blocks |-> {}]
      ELSE [common |-> NewCommon(common, seen),
            blocks |-> {b \in seen : wanted(b)}]

-----------------------------------------------------------------------------
(***************************************************************************)
(* Headers and blocks reach the index                                      *)
(***************************************************************************)

\* The checkpoint test of AcceptBlockHeader and ProcessNetBlock; a block's time
\* grows with its height
NotTooOld(b) == Parent[b] = tip \/ Height[b] >= Height[SyncCheckpoint]

\* Checkpoints::CheckSync
AboveCheckpoint(b) == Height[b] > Height[SyncCheckpoint]

\* AcceptBlockHeader of b, whose parent is known
HeaderAcceptable(b) ==
  IF b \in index THEN b \notin failed
  ELSE Parent[b] \notin failed /\ NotTooOld(b) /\ AboveCheckpoint(b)

\* ProcessNewBlockHeaders adds the headers above `from` and up to `last`, until
\* one is not acceptable
Accepted(from, last) ==
  {b \in Ancestors[last] \ Ancestors[from] :
     \A c \in Ancestors[b] \ Ancestors[from] : HeaderAcceptable(c)}

\* ProcessNetBlock and the critical section of ProcessNewBlock: the header, then
\* CheckBlock, which a mutated copy does not pass, then AcceptBlock, which takes
\* only a block above the checkpoint that it lacks, and one that was not asked
\* for only if it has more work than the tip and is not fTooFarAhead.  BlockChecked has the sender of a
\* mutated or invalid block banned, unless it was a compact block.
ProcessNetBlock(p, b, requested, mutated, compact) ==
  LET accepted == Parent[b] \in index /\ HeaderAcceptable(b)
      processed == accepted /\ NotTooOld(b)
      stored == /\ processed /\ ~mutated
                /\ AboveCheckpoint(b) /\ b \notin haveData
                /\ requested \/ Height[b] \in (Height[tip] + 1)..(Height[tip] + MinBlocksToKeep)
      banned == (processed /\ mutated) \/ (stored /\ b \in Bad)
  IN  /\ index' = IF accepted THEN index \cup {b} ELSE index
      /\ haveData' = IF stored /\ b \notin Bad THEN haveData \cup {b} ELSE haveData
      /\ failed' = IF stored /\ b \in Bad THEN failed \cup {b} ELSE failed
      /\ status' = IF banned /\ ~compact THEN [status EXCEPT ![p] = "closing"] ELSE status
      /\ UNCHANGED tip

-----------------------------------------------------------------------------
(***************************************************************************)
(* The message handler                                                     *)
(***************************************************************************)

\* The next message is one of p's
Receives(p) == msg = Idle /\ status[p] = "up"

Has(p) == UNION {Ancestors[b] : b \in Announces[p]} \ {Genesis}

Connect(p) ==
  /\ status[p] = "new"
  /\ status' = [status EXCEPT ![p] = "up"]
  /\ node' = [node EXCEPT ![p] = NewNode]
  /\ UNCHANGED <<chainVars, flight, msg, doomed>>

Inv(p, b) ==
  /\ Receives(p) /\ b \in Announces[p]
  /\ node' = [node EXCEPT ![p] = UpdateBlockAvailability(@, b)]
  /\ UNCHANGED <<chainVars, status, flight, msg, doomed>>

\* ProcessHeadersMessage: headers up to `last` that do not connect ...
UnconnectingHeaders(p, last) ==
  /\ Receives(p) /\ last \in Announces[p]
  /\ Parent[last] \notin index
  /\ node' = [node EXCEPT ![p] = UpdateBlockAvailability(@, last)]
  /\ UNCHANGED <<chainVars, status, flight, msg, doomed>>

\* ... and those above `from` that do
ProcessNetBlockHeaders(p, from, last) ==
  /\ index' = index \cup Accepted(from, last)
  /\ msg' = IF last \in Accepted(from, last)
            THEN [pc |-> "headers", peer |-> p, block |-> last] ELSE Idle
  /\ UNCHANGED <<haveData, failed, tip, status, node, flight, doomed>>

Headers(p, from, last) ==
  /\ Receives(p) /\ last \in Announces[p]
  /\ from \in Ancestors[Parent[last]] \cap index
  /\ ProcessNetBlockHeaders(p, from, last)

\* The blocks to fetch directly on the way to `last`, none if it is too far
DirectFetch(last) ==
  LET wanted == {b \in Ancestors[last] \ (ActiveChain \cup haveData) : flight.from[b] = NoPeer}
      n == Cardinality(wanted)
  IN  IF n <= MaxInTransit \/ (n = MaxInTransit + 1 /\ \E b \in wanted : Parent[b] \in ActiveChain)
      THEN wanted ELSE {}

\* The first n blocks of a set
Lowest(set, n) == {b \in set : Cardinality({c \in set : Height[c] < Height[b]}) < n}

\* The rest of ProcessHeadersMessage; whether the node is close enough to the
\* tip's time to fetch directly is left open
HeadersDone(direct) ==
  LET p == msg.peer
      room == MaxInTransit - flight.count[p]
  IN  /\ msg.pc = "headers"
      /\ node' = [node EXCEPT ![p] = UpdateBlockAvailability(@, msg.block)]
      /\ flight' = IF direct /\ msg.block \notin failed /\ Height[tip] <= Height[msg.block]
                   THEN Request(flight, p, msg.block, Lowest(DirectFetch(msg.block), room))
                   ELSE flight
      /\ msg' = Idle
      /\ UNCHANGED <<chainVars, status, doomed>>

\* A block message.  Between taking b out of flight and storing it, no other
\* thread can put it in flight again.
Block(p, b, mutated) ==
  /\ Receives(p) /\ b \in Has(p)
  /\ p \in Honest => ~mutated /\ flight.from[b] = p
  /\ flight' = MarkBlockAsReceived(flight, b)
  /\ ProcessNetBlock(p, b, flight.from[b] # NoPeer, mutated, FALSE)
  /\ UNCHANGED <<node, msg, doomed>>

\* A compact block: its header ...
CmpctBlock(p, b) ==
  /\ Receives(p) /\ b \in Announces[p]
  /\ Parent[b] \in index
  /\ HeaderAcceptable(b)
  /\ index' = index \cup {b}
  /\ msg' = [pc |-> "cmpct", peer |-> p, block |-> b]
  /\ UNCHANGED <<haveData, failed, tip, status, node, flight, doomed>>

\* Nothing is left to do for the compact block
CmpctIgnored(direct) ==
  LET b == msg.block
  IN  \/ b \in haveData \/ Height[b] <= Height[tip]
      \/ flight.from[b] = NoPeer /\ ~direct
      \/ flight.from[b] # NoPeer /\ Height[b] > Height[tip] + 2
      \/ flight.from[b] = msg.peer /\ Partial(msg.peer, b)

\* It is in flight from this peer, or may be put in flight
CmpctOurs ==
  \/ flight.from[msg.block] = NoPeer /\ flight.count[msg.peer] < MaxInTransit
  \/ flight.from[msg.block] = msg.peer

\* ... and the rest of its handler.  InitData finds it invalid, or leaves it in
\* flight, to be completed by a blocktxn, an empty one if nothing is missing, or,
\* if it failed, by a block.  One that is in flight from another peer, or that
\* this one has no room for, is used if it is complete as it is.
CmpctDone(direct, read) ==
  LET p == msg.peer
      b == msg.block
      near == Height[b] <= Height[tip] + 2
      put == IF flight.from[b] = p THEN AsPartial(flight, p, b)
             ELSE MarkBlockAsInFlight(flight, p, b, TRUE)
  IN  /\ msg.pc = "cmpct"
      /\ p \in Honest => read # "invalid"
      /\ node' = [node EXCEPT ![p] = UpdateBlockAvailability(@, b)]
      /\ \/ /\ CmpctIgnored(direct)
            /\ msg' = Idle
            /\ UNCHANGED <<flight, status>>
         \/ /\ ~CmpctIgnored(direct) /\ ~near
            /\ msg' = [msg EXCEPT !.pc = "revert"]
            /\ UNCHANGED <<flight, status>>
         \/ /\ ~CmpctIgnored(direct) /\ near /\ CmpctOurs
            /\ flight' = IF read = "invalid" THEN MarkBlockAsReceived(put, b) ELSE put
            /\ status' = IF read = "invalid" THEN [status EXCEPT ![p] = "closing"] ELSE status
            /\ msg' = Idle
         \/ /\ ~CmpctIgnored(direct) /\ near /\ ~CmpctOurs
            /\ msg' = IF read = "complete" THEN [msg EXCEPT !.pc = "reconstructed"] ELSE Idle
            /\ UNCHANGED <<flight, status>>
      /\ UNCHANGED <<chainVars, doomed>>

\* fRevertToHeaderProcessing: the header of a block that is too far ahead is treated as
\* an announcement, and looked up by its hash again
CmpctReverts ==
  LET p == msg.peer
      b == msg.block
  IN  /\ msg.pc = "revert"
      /\ \/ Parent[b] \in index /\ ProcessNetBlockHeaders(p, Parent[b], b)
         \/ /\ Parent[b] \notin index
            /\ node' = [node EXCEPT ![p] = UpdateBlockAvailability(@, b)]
            /\ msg' = Idle
            /\ UNCHANGED <<chainVars, status, flight, doomed>>

\* A compact block in flight from another peer was complete: pindex is looked
\* at again after ProcessNetBlock
Reconstructed ==
  /\ msg.pc = "reconstructed"
  /\ ProcessNetBlock(msg.peer, msg.block, TRUE, FALSE, TRUE)
  /\ flight' = IF msg.block \in haveData' THEN MarkBlockAsReceived(flight, msg.block) ELSE flight
  /\ msg' = Idle
  /\ UNCHANGED <<node, doomed>>

\* The transactions that were missing in a compact block; one that FillBlock
\* could not complete is asked for in full and stays in flight
BlockTxn(p, b, read) ==
  /\ Receives(p) /\ b \in Has(p)
  /\ flight.from[b] = p /\ Partial(p, b)
  /\ read \in {"invalid", "complete"}
  /\ p \in Honest => read # "invalid"
  /\ flight' = MarkBlockAsReceived(flight, b)
  /\ IF read = "invalid"
     THEN status' = [status EXCEPT ![p] = "closing"] /\ UNCHANGED chainVars
     ELSE ProcessNetBlock(p, b, TRUE, FALSE, TRUE)
  /\ UNCHANGED <<node, msg, doomed>>

-----------------------------------------------------------------------------
(***************************************************************************)
(* SendMessages                                                            *)
(***************************************************************************)

\* It asks p for blocks
SendGetData(p) ==
  LET n == ProcessBlockAvailability(node[p])
  IN  /\ Receives(p)
      /\ flight.count[p] < MaxInTransit
      /\ \E found \in {FindNextBlocksToDownload(n, MaxInTransit - flight.count[p])} :
           /\ node' = [node EXCEPT ![p] = [n EXCEPT !.common = found.common]]
           /\ flight' = Request(flight, p, n.best, found.blocks)
      /\ UNCHANGED <<chainVars, status, msg, doomed>>

\* It disconnects a peer that has not sent the first block of its queue, b, for too
\* long; nStallingSince only makes it so sooner for one that keeps the window of
\* the others from moving
Timeout(p, b) ==
  /\ Receives(p) /\ p \notin Honest
  /\ flight.queue[p] # <<>> /\ b = Head(flight.queue[p]).hash
  /\ status' = [status EXCEPT ![p] = "closing"]
  /\ UNCHANGED <<chainVars, node, flight, msg, doomed>>

-----------------------------------------------------------------------------
(***************************************************************************)
(* The other threads                                                       *)
(***************************************************************************)

\* A peer goes away, or has misbehaved too often
Disconnect(p) ==
  /\ status[p] = "up" /\ p \notin Honest
  /\ status' = [status EXCEPT ![p] = "closing"]
  /\ UNCHANGED <<chainVars, node, flight, msg, doomed>>

\* FinalizeNode, when nobody handles a message of p
FinalizeNode(p) ==
  /\ status[p] = "closing" /\ msg.peer # p
  /\ status' = [status EXCEPT ![p] = "gone"]
  /\ node' = [node EXCEPT ![p] = NewNode]
  /\ flight' = Released(flight, p)
  /\ UNCHANGED <<chainVars, msg, doomed>>

\* ActivateBestChain: a linked block with more work than the tip
ActivateBestChain ==
  /\ \E b \in Linked : /\ Height[b] > Height[tip]
                       /\ \A c \in Linked : Height[c] <= Height[b]
                       /\ tip' = b
  /\ UNCHANGED <<index, haveData, failed, status, node, flight, msg, doomed>>

\* CleanBlockIndex selects: NeedToEraseBlockIndex ...
CleanSelect ==
  /\ doomed = {} /\ Height[tip] > CheckpointSpan
  /\ doomed' = {b \in index \ ActiveChain :
                  AtHeight(tip, Height[tip] - CheckpointSpan - 1) \notin Ancestors[b]}
  /\ doomed' # {}
  /\ UNCHANGED <<chainVars, status, node, flight, msg>>

\* Mutant of Forgotten: only pindexBestKnownBlock is looked at
ForgottenBest(n, set) == [n EXCEPT !.best = IF @ \in set THEN NoBlock ELSE @]

\* RemoveNetBlockIndex for a set of blocks, in the state of a peer
Forgotten(n, set) ==
  [n EXCEPT !.best = IF @ \in set THEN NoBlock ELSE @, !.common = IF @ \in set THEN NoBlock ELSE @]

\* ... and deletes, in a later critical section: RemoveBlockIndex, which takes the
\* blocks out of flight and out of the states of the peers
CleanErase ==
  /\ doomed # {}
  /\ index' = index \ doomed
  /\ haveData' = haveData \ doomed
  /\ failed' = failed \ doomed
  /\ flight' = ReceivedAll(flight, doomed \cap index)
  /\ node' = [p \in Peers |-> Forgotten(node[p], doomed)]
  /\ doomed' = {}
  /\ UNCHANGED <<tip, status, msg>>

-----------------------------------------------------------------------------
\* Neither the tip nor a pprev nor the local variable of the handler points to a
\* deleted entry.  Where one does, the program reads freed memory and the model stops.
Defined ==
  /\ tip \in index
  /\ \A b \in index \ {Genesis} : Parent[b] \in index
  /\ msg.pc # "revert" => msg.block \in index \cup {NoBlock}

Init ==
  /\ index = {Genesis} /\ haveData = {Genesis} /\ failed = {} /\ tip = Genesis
  /\ status = [p \in Peers |-> "new"]
  /\ node = [p \in Peers |-> NewNode]
  /\ flight = NothingInFlight
  /\ msg = Idle
  /\ doomed = {}

\* What p sends and is sent
Talk(p) ==
  \/ Connect(p) \/ SendGetData(p) \/ Disconnect(p) \/ FinalizeNode(p)
  \/ \E b \in Blocks :
       \/ Inv(p, b) \/ CmpctBlock(p, b) \/ Timeout(p, b)
       \/ \E mutated \in BOOLEAN : Block(p, b, mutated)
       \/ \E read \in {"invalid", "complete"} : BlockTxn(p, b, read)
       \/ UnconnectingHeaders(p, b)
       \/ \E from \in {Genesis, Parent[b]} : Headers(p, from, b)

Next ==
  /\ Defined
  /\ \/ \E p \in Peers : Talk(p)
     \/ \E direct \in BOOLEAN :
          \/ HeadersDone(direct)
          \/ \E read \in {"invalid", "incomplete", "complete"} : CmpctDone(direct, read)
     \/ CmpctReverts \/ Reconstructed \/ ActivateBestChain \/ CleanSelect \/ CleanErase

\* The message thread finishes what it has begun ...
Handler ==
  \/ CmpctReverts \/ Reconstructed
  \/ \E direct \in BOOLEAN :
       \/ HeadersDone(direct)
       \/ \E read \in {"incomplete", "complete"} : CmpctDone(direct, read)

\* ... an honest peer answers the request it has had for longest ...
Answer(p) ==
  /\ flight.queue[p] # <<>>
  /\ LET b == Head(flight.queue[p]).hash
     IN  Block(p, b, FALSE) \/ BlockTxn(p, b, "complete")

\* ... every peer gets its turn in SendMessages, and leaves once it is told to
Fairness ==
  /\ WF_vars(Defined /\ Handler)
  /\ WF_vars(Defined /\ ActivateBestChain)
  /\ \A p \in Honest : /\ SF_vars(Defined /\ SendGetData(p))
                       /\ SF_vars(Defined /\ Answer(p))
  /\ \A p \in Peers \ Honest : /\ WF_vars(Defined /\ FinalizeNode(p))
                               /\ \A b \in Has(p) : SF_vars(Defined /\ Timeout(p, b))

Spec == Init /\ [][Next]_vars /\ Fairness

TypeOK ==
  /\ Genesis \in index /\ index \subseteq Blocks
  /\ haveData \subseteq index /\ failed \subseteq index /\ tip \in Blocks
  /\ status \in [Peers -> {"new", "up", "closing", "gone"}]
  /\ node \in [Peers -> [best : Blocks \cup {NoBlock}, unknown : Blocks \cup {NoBlock},
                         common : Blocks \cup {NoBlock}]]
  /\ flight.from \in [Blocks -> Peers \cup {NoPeer}]
  /\ flight.queue \in [Peers -> Seq([hash : Blocks, partial : BOOLEAN])]
  /\ flight.count \in [Peers -> Int] /\ flight.peers \in Int
  /\ msg \in [pc : {"idle", "headers", "cmpct", "revert", "reconstructed"},
              peer : Peers \cup {NoPeer}, block : Blocks \cup {NoBlock}]
  /\ doomed \subseteq Blocks

\* mapBlocksInFlight and the queues of the connected peers list the same blocks,
\* each once, and both counters count them: what FinalizeNode asserts when the
\* last peer has left
DownloadsExact ==
  /\ \A p \in Peers :
       /\ Listed(flight, p) = {b \in Blocks : flight.from[b] = p}
       /\ flight.count[p] = Len(flight.queue[p])
       /\ Cardinality(Listed(flight, p)) = Len(flight.queue[p])
       /\ flight.queue[p] # <<>> => status[p] \in {"up", "closing"}
  /\ flight.peers = Cardinality({p \in Peers : flight.queue[p] # <<>>})

\* No state of a peer and no queued block points to an entry of the block index
\* that CleanBlockIndex has deleted
PeersPointToIndex ==
  \A p \in Peers :
    /\ {node[p].best, node[p].common} \subseteq index \cup {NoBlock}
    /\ Listed(flight, p) \subseteq index

\* What a peer that stays and answers has announced is downloaded and connected,
\* whatever the others have been asked for and do not send.  Blocks that a fork
\* lacks at or below the synchronized checkpoint are asked for and refused.
Fetches ==
  \A p \in Honest : \A b \in Announces[p] :
    node[p].best = b ~> \/ Height[tip] >= Height[b]
                        \/ \E c \in Ancestors[b] \ haveData : Height[c] <= Height[SyncCheckpoint]
                        \/ ~Defined
=============================================================================
