----------------------------- MODULE ChainState -----------------------------
(***************************************************************************)
(* The block tree and the choice of the active chain: CChainState of       *)
(* validation.cpp, and CleanBlockIndex of net_processing.cpp.              *)
(*                                                                         *)
(* Everything below runs under cs_main, but three operations give it up    *)
(* half way: ActivateBestChain (serialised by m_cs_chainstate) between two *)
(* steps, InvalidateBlock after each block it disconnects, CleanBlockIndex *)
(* between selecting and deleting.  What one of them keeps in a local      *)
(* variable across that gap is a variable here: abc, inv and doomed.       *)
(*                                                                         *)
(* A block's contents are two facts, whether ContextualCheckBlock and      *)
(* whether ConnectBlock accept it.  The node is not pruned, so BLOCK_HAVE_ *)
(* DATA, nTx > 0 and BLOCK_VALID_TRANSACTIONS are one set, haveData.       *)
(***************************************************************************)
EXTENDS BlockTree

CONSTANTS
  Proof,           \* GetBlockProof, a function on Blocks
  Address,         \* the address of a block's CBlockIndex, a function on Blocks
  BadBody,         \* the blocks that ContextualCheckBlock rejects
  BadConnect,      \* the blocks that ConnectBlock rejects
  CheckpointSpan,  \* nCheckpointSpan
  Requests,        \* what else than blocks and headers reaches the node
  Targets,         \* the blocks that the operator's requests name
  MaxPrecious,     \* bound on preciousblock calls at one tip work
  MaxSequence      \* bound on sequence ids: from there on nothing is cleaned

AllRequests == {"precious", "invalidate", "reconsider", "restart", "clean"}

ASSUME ParametersAssumption ==
  /\ Proof \in [Blocks -> Nat \ {0}]
  /\ Address \in [Blocks -> Nat]
  /\ \A b, c \in Blocks : Address[b] = Address[c] => b = c
  /\ BadBody \subseteq Blocks \ {Genesis}
  /\ BadConnect \subseteq Blocks \ {Genesis}
  /\ CheckpointSpan \in Nat
  /\ Requests \subseteq AllRequests
  /\ Targets \subseteq Blocks \ {Genesis}
  /\ MaxPrecious \in Nat /\ MaxSequence \in Nat

VARIABLES
  known,         \* mapBlockIndex
  haveData,      \* BLOCK_HAVE_DATA
  linked,        \* HaveTxsDownloaded(): nChainTx > 0
  scripts,       \* BLOCK_VALID_SCRIPTS reached
  failedValid,   \* BLOCK_FAILED_VALID
  failedChild,   \* BLOCK_FAILED_CHILD
  failedBlocks,  \* m_failed_blocks
  unlinked,      \* mapBlocksUnlinked; b stands for the pair <<Parent[b], b>>
  candidates,    \* setBlockIndexCandidates
  seq,           \* nSequenceId
  nextSeq,       \* nBlockSequenceId
  revSeq,        \* nBlockReverseSequenceId
  preciousWork,  \* nLastPreciousChainwork
  tip,           \* chainActive.Tip()
  pending,       \* a caller is about to run ActivateBestChain
  abc,           \* ActivateBestChain and its locals
  inv,           \* InvalidateBlock and its locals
  doomed,        \* CleanBlockIndex: indexNeedErase
  archive,       \* entries of the block tree database without one in memory
  forgotten      \* history: cleared by reconsiderblock, not made candidates since

flagVars == <<failedValid, failedChild, failedBlocks, forgotten>>
treeVars == <<known, haveData, linked, scripts, unlinked>>
orderVars == <<seq, nextSeq, revSeq, preciousWork>>
vars == <<treeVars, flagVars, candidates, orderVars, tip, pending, abc, inv, doomed, archive>>

-----------------------------------------------------------------------------
\* CBlockIndex: nChainWork, which never changes
Work ==
  LET W[b \in Blocks] == Proof[b] + (IF b = Genesis THEN 0 ELSE W[Parent[b]])
  IN [b \in Blocks |-> W[b]]

ActiveChain == Ancestors[tip]
Failed == failedValid \cup failedChild

\* CBlockIndexWorkComparator(a, b): a sorts before b, so b is preferred
Worse(s, a, b) ==
  \/ Work[a] < Work[b]
  \/ Work[a] = Work[b] /\ s[a] > s[b]
  \/ Work[a] = Work[b] /\ s[a] = s[b] /\ Address[a] > Address[b]

BestOf(set) == CHOOSE b \in set : \A c \in set \ {b} : Worse(seq, c, b)

\* PruneBlockIndexCandidates
PruneBlockIndexCandidates(set, s, t) == {b \in set : ~Worse(s, b, t)}

\* A thread other than ActivateBestChain can take cs_main
csMainFree == abc.pc \in {"idle", "unlocked"}

Idle == [pc |-> "idle", most |-> NoBlock, start |-> NoBlock, old |-> NoBlock,
         new |-> NoBlock, connected |-> FALSE]

\* assert(!setBlockIndexCandidates.empty()) in PruneBlockIndexCandidates failed;
\* cs_main is never free again
Aborted == [Idle EXCEPT !.pc = "aborted"]

\* An entry was deleted that something still points to; what the code does next
\* is undefined and is not followed
Undefined == [Idle EXCEPT !.pc = "undefined"]

NotInvalidating == [pc |-> "none", target |-> NoBlock, mark |-> NoBlock]

-----------------------------------------------------------------------------
\* A node that has connected the genesis block
Init ==
  /\ known = {Genesis}
  /\ haveData = {Genesis}
  /\ linked = {Genesis}
  /\ scripts = {Genesis}
  /\ unlinked = {}
  /\ failedValid = {}
  /\ failedChild = {}
  /\ failedBlocks = {}
  /\ forgotten = {}
  /\ candidates = {Genesis}
  /\ seq = [b \in Blocks |-> IF b = Genesis THEN 1 ELSE 0]
  /\ nextSeq = 2
  /\ revSeq = -1
  /\ preciousWork = 0
  /\ tip = Genesis
  /\ pending = FALSE
  /\ abc = Idle
  /\ inv = NotInvalidating
  /\ doomed = {}
  /\ archive = {}

-----------------------------------------------------------------------------
(***************************************************************************)
(* Headers and blocks                                                      *)
(***************************************************************************)

\* Checkpoints::AutoSelectSyncCheckpoint()->nHeight
SyncCheckpointHeight ==
  IF Height[tip] > CheckpointSpan THEN Height[tip] - CheckpointSpan ELSE 0

\* AcceptBlockHeader's search of m_failed_blocks, skipped below a block that
\* was once valid
FailedAncestors(b) ==
  IF b \in scripts THEN {} ELSE failedBlocks \cap Ancestors[b]

\* A header whose signature, time, stake and proof are in order is accepted
\* unless its parent is unknown or known to be invalid, or it is not above the
\* synchronized checkpoint (ContextualCheckBlockHeader).
HeaderAcceptable(b) ==
  /\ Parent[b] \in known \ Failed
  /\ Height[b] > SyncCheckpointHeight
  /\ FailedAncestors(Parent[b]) = {}

\* AcceptBlockHeader adds the header (AddToBlockIndex), or, when it descends
\* from a failed block, marks the blocks in between and rejects it.
AcceptBlockHeader(b) ==
  /\ csMainFree
  /\ b \notin known
  /\ Parent[b] \in known \ Failed
  /\ Height[b] > SyncCheckpointHeight
  /\ \/ /\ HeaderAcceptable(b)
        /\ known' = known \cup {b}
        /\ UNCHANGED failedChild
     \/ \E f \in FailedAncestors(Parent[b]) :
          /\ failedChild' = failedChild \cup (Ancestors[Parent[b]] \ Ancestors[f])
          /\ UNCHANGED known
  /\ UNCHANGED <<haveData, linked, scripts, unlinked, failedValid, failedBlocks,
                 forgotten, candidates, orderVars, tip, pending, abc, inv, doomed, archive>>

\* Mutant of NewlyLinked: the queue is not processed recursively
NewlyLinkedChildren(b) == {c \in unlinked \cup {b} : c = b \/ Parent[c] = b}

\* The blocks that ReceivedBlockTransactions links when b, whose parent is
\* linked, arrives: b and what waited for it in mapBlocksUnlinked
NewlyLinked(b) ==
  {c \in unlinked \cup {b} : b \in Ancestors[c] /\ Ancestors[c] \ Ancestors[b] \subseteq unlinked}

\* Its queue is breadth first; the order of siblings is that of their arrival
\* and is left open.
Numberings(set) ==
  {n \in [set -> nextSeq..(nextSeq + Cardinality(set) - 1)] :
     \A c, d \in set : /\ n[c] = n[d] => c = d
                       /\ Height[c] < Height[d] => n[c] < n[d]}

\* Mutant of ReceivedBlockTransactions: only the new block becomes a candidate
ReceivedOnlyNew(b) ==
  /\ haveData' = haveData \cup {b}
  /\ IF Parent[b] \in linked
     THEN /\ linked' = linked \cup NewlyLinked(b)
          /\ unlinked' = unlinked \ NewlyLinked(b)
          /\ nextSeq' = nextSeq + Cardinality(NewlyLinked(b))
          /\ \E n \in Numberings(NewlyLinked(b)) :
               seq' = [c \in Blocks |-> IF c \in NewlyLinked(b) THEN n[c] ELSE seq[c]]
          /\ candidates' = candidates \cup {c \in {b} : ~Worse(seq', c, tip)}
     ELSE /\ unlinked' = IF Parent[b] \in Failed THEN unlinked ELSE unlinked \cup {b}
          /\ UNCHANGED <<linked, candidates, seq, nextSeq>>

ReceivedBlockTransactions(b) ==
  /\ haveData' = haveData \cup {b}
  /\ IF Parent[b] \in linked
     THEN /\ linked' = linked \cup NewlyLinked(b)
          /\ unlinked' = unlinked \ NewlyLinked(b)
          /\ nextSeq' = nextSeq + Cardinality(NewlyLinked(b))
          /\ \E n \in Numberings(NewlyLinked(b)) :
               seq' = [c \in Blocks |-> IF c \in NewlyLinked(b) THEN n[c] ELSE seq[c]]
          /\ candidates' = candidates \cup {c \in NewlyLinked(b) : ~Worse(seq', c, tip)}
     ELSE /\ unlinked' = IF Parent[b] \in Failed THEN unlinked ELSE unlinked \cup {b}
          /\ UNCHANGED <<linked, candidates, seq, nextSeq>>

\* ProcessNewBlock up to its call of ActivateBestChain: AcceptBlock for a block
\* that was asked for or has more work than the tip.
AcceptBlock(b) ==
  /\ csMainFree
  /\ IF b \in known THEN b \notin Failed ELSE HeaderAcceptable(b)
  /\ b \notin haveData
  /\ Height[b] > SyncCheckpointHeight
  /\ known' = known \cup {b}
  /\ IF b \in BadBody
     THEN /\ failedValid' = failedValid \cup {b}
          /\ UNCHANGED <<haveData, linked, unlinked, candidates, seq, nextSeq, pending>>
     ELSE /\ ReceivedBlockTransactions(b)
          /\ pending' = TRUE
          /\ UNCHANGED failedValid
  /\ UNCHANGED <<scripts, failedChild, failedBlocks, forgotten, revSeq, preciousWork,
                 tip, abc, inv, doomed, archive>>

-----------------------------------------------------------------------------
(***************************************************************************)
(* ActivateBestChain.  pc = "find" and "step": inside the critical section *)
(* of cs_main, before FindMostWorkChain and in ActivateBestChainStep;      *)
(* "unlocked": between two critical sections, pindexMostWork kept.         *)
(***************************************************************************)

\* LOCK(m_cs_chainstate), LOCK(cs_main)
ABCEnter ==
  /\ abc.pc = "idle" /\ pending
  /\ abc' = [Idle EXCEPT !.pc = "find", !.start = tip]
  /\ pending' = FALSE
  /\ UNCHANGED <<treeVars, flagVars, candidates, orderVars, tip, inv, doomed, archive>>

\* The next critical section of the same call
ABCRelock ==
  /\ abc.pc = "unlocked"
  /\ abc' = [abc EXCEPT !.pc = "find", !.start = tip, !.connected = FALSE]
  /\ UNCHANGED <<treeVars, flagVars, candidates, orderVars, tip, pending, inv, doomed, archive>>

\* Mutant of Unlock: one critical section per call
UnlockReturns(a) == Idle

\* The end of a critical section: return, or once more around the outer loop
Unlock(a) ==
  IF a.connected /\ a.new # a.most
  THEN [Idle EXCEPT !.pc = "unlocked", !.most = a.most, !.new = a.new]
  ELSE Idle

\* Mutant of AfterStep: cs_main is given up after every step
AfterStepUnlocks(a, t) == Unlock([a EXCEPT !.new = t, !.connected = TRUE])

\* The end of a step: not before forward progress is cs_main given up
AfterStep(a, t) ==
  LET b == [a EXCEPT !.new = t, !.connected = TRUE, !.old = NoBlock, !.pc = "find"]
  IN  IF Worse(seq, t, a.start) THEN b ELSE Unlock(b)

\* What FindMostWorkChain walks from a candidate, down to the active chain
PathTo(b) == Ancestors[b] \ ActiveChain

\* Mutant of Unusable: the path is not looked at
UnusableNone == {}

Unusable == {b \in candidates : PathTo(b) \cap Failed # {}}

\* On the path of an unusable candidate: the part at and above its first failed block
FailedPart(b) ==
  {c \in PathTo(b) : \A d \in Failed \cap PathTo(b) : Height[d] <= Height[c]}

\* FindMostWorkChain: the best candidate; an unusable one is removed with the
\* failed part of its path, whose blocks become BLOCK_FAILED_CHILD.  Its loop
\* in one step: only descendants of failed blocks are marked, so which
\* candidates are unusable does not change on the way.
FindMostWorkChain ==
  LET usable == candidates \ Unusable
      best == IF usable = {} THEN NoBlock ELSE BestOf(usable)
      tried == {b \in Unusable : best = NoBlock \/ Worse(seq, best, b)}
      removed == UNION {FailedPart(b) : b \in tried}
      found == [abc EXCEPT !.most = IF abc.most = NoBlock THEN best ELSE abc.most]
  IN  /\ abc.pc = "find"
      /\ IF abc.most = NoBlock
         THEN /\ candidates' = candidates \ removed
              /\ failedChild' = failedChild \cup (removed \ Failed)
         ELSE UNCHANGED <<candidates, failedChild>>
      /\ abc' = IF found.most \in {NoBlock, tip} THEN Unlock(found)
                ELSE [found EXCEPT !.pc = "step", !.old = tip]
      /\ UNCHANGED <<treeVars, failedValid, failedBlocks, forgotten, orderVars, tip, pending,
                     inv, doomed, archive>>

\* ActivateBestChainStep: down to the fork
DisconnectTip ==
  /\ abc.pc = "step"
  /\ tip \notin Ancestors[abc.most]
  /\ tip' = Parent[tip]
  /\ abc' = IF Parent[tip] = abc.most THEN AfterStep(abc, Parent[tip]) ELSE abc
  /\ UNCHANGED <<treeVars, flagVars, candidates, orderVars, pending, inv, doomed, archive>>

\* vpindexToConnect: the block after the tip on the way to pindexMostWork
ToConnect(b) == abc.pc = "step" /\ b \in Ancestors[abc.most] /\ Parent[b] = tip

\* ConnectTip of a valid block, PruneBlockIndexCandidates, and the test whether
\* this step is done.  RaiseValidity leaves a block marked failed alone.
ConnectTip(b) ==
  /\ ToConnect(b)
  /\ b \notin BadConnect
  /\ tip' = b
  /\ scripts' = scripts \cup ({b} \ Failed)
  /\ candidates' = PruneBlockIndexCandidates(candidates, seq, b)
  /\ abc' = IF candidates' = {} THEN Aborted
            ELSE IF Work[b] > Work[abc.old] \/ b = abc.most THEN AfterStep(abc, b) ELSE abc
  /\ UNCHANGED <<known, haveData, linked, unlinked, flagVars, orderVars, pending, inv,
                 doomed, archive>>

\* ConnectTip of an invalid block: InvalidBlockFound, and pindexMostWork is wiped
ConnectTipFails(b) ==
  /\ ToConnect(b)
  /\ b \in BadConnect
  /\ failedValid' = failedValid \cup {b}
  /\ failedBlocks' = failedBlocks \cup {b}
  /\ candidates' = candidates \ {b}
  /\ abc' = AfterStep([abc EXCEPT !.most = NoBlock], tip)
  /\ UNCHANGED <<treeVars, failedChild, forgotten, orderVars, tip, pending, inv, doomed, archive>>

-----------------------------------------------------------------------------
(***************************************************************************)
(* The requests of the operator (rpc/blockchain.cpp)                       *)
(***************************************************************************)

\* preciousblock: PreciousBlock up to its call of ActivateBestChain
PreciousBlock(b) ==
  LET r == IF Work[tip] > preciousWork THEN -1 ELSE revSeq
  IN  /\ "precious" \in Requests
      /\ csMainFree
      /\ b \in known
      /\ Work[b] >= Work[tip]
      /\ r >= -MaxPrecious
      /\ preciousWork' = Work[tip]
      /\ revSeq' = r - 1
      /\ seq' = [seq EXCEPT ![b] = r]
      /\ candidates' =
           IF b \in haveData \ Failed /\ b \in linked
           THEN PruneBlockIndexCandidates(candidates \cup {b}, seq', tip)
           ELSE candidates \ {b}
      /\ abc' = IF b \in haveData \ Failed /\ b \in linked /\ candidates' = {} THEN Aborted ELSE abc
      /\ pending' = TRUE
      /\ UNCHANGED <<treeVars, flagVars, nextSeq, tip, inv, doomed, archive>>

\* invalidateblock: looks the block up and calls InvalidateBlock
InvalidateBlock(b) ==
  /\ "invalidate" \in Requests
  /\ csMainFree
  /\ inv = NotInvalidating
  /\ b \in known
  /\ inv' = [pc |-> "walk", target |-> b, mark |-> b]
  /\ UNCHANGED <<treeVars, flagVars, candidates, orderVars, tip, pending, abc, doomed, archive>>

\* One turn of its loop, after which it lets go of cs_main.  The condition under
\* which to_mark_failed becomes BLOCK_FAILED_CHILD is the code's.
InvalidateWalk ==
  /\ csMainFree
  /\ inv.pc = "walk"
  /\ inv.target \in ActiveChain
  /\ tip' = Parent[tip]
  /\ IF Parent[tip] = inv.mark /\ inv.mark \in failedValid
     THEN /\ failedValid' = (failedValid \cup {tip}) \ {inv.mark}
          /\ failedChild' = failedChild \cup {inv.mark}
     ELSE /\ failedValid' = failedValid \cup {tip}
          /\ UNCHANGED failedChild
  /\ candidates' = (candidates \ {tip}) \cup {Parent[tip]}
  /\ inv' = [inv EXCEPT !.mark = tip]
  /\ UNCHANGED <<treeVars, failedBlocks, forgotten, orderVars, pending, abc, doomed, archive>>

\* The turn that finds pindex outside the active chain ends the loop, and lets
\* go of cs_main like the others
InvalidateLeave ==
  /\ csMainFree
  /\ inv.pc = "walk"
  /\ inv.target \notin ActiveChain
  /\ inv' = [inv EXCEPT !.pc = "mark"]
  /\ UNCHANGED <<treeVars, flagVars, candidates, orderVars, tip, pending, abc, doomed, archive>>

\* Mutant of Refill: nothing
RefillNothing(mark) == {}

\* The blocks that InvalidateBlock adds to the candidates at its end
Refill(mark) ==
  {b \in (haveData \cap linked) \ (Failed \cup {mark}) : ~Worse(seq, b, tip)}

\* What InvalidateBlock ends with, in a critical section of its own, and the RPC's
\* call of ActivateBestChain.  When to_mark_failed is in the active chain, "something
\* is interfering": ActivateBestChain has connected it again meanwhile.
InvalidateFinish ==
  /\ csMainFree
  /\ inv.pc = "mark"
  /\ IF inv.mark \in ActiveChain
     THEN UNCHANGED <<failedValid, failedBlocks, candidates>>
     ELSE /\ failedValid' = failedValid \cup {inv.mark}
          /\ failedBlocks' = failedBlocks \cup {inv.mark}
          /\ candidates' = (candidates \ {inv.mark}) \cup Refill(inv.mark)
  /\ inv' = NotInvalidating
  /\ pending' = TRUE
  /\ UNCHANGED <<treeVars, failedChild, forgotten, orderVars, tip, abc, doomed, archive>>

\* The blocks that ResetBlockFailureFlags adds to the candidates
Reconsidered(below) ==
  {c \in below \cap Failed \cap haveData \cap linked : Worse(seq, tip, c)}

\* reconsiderblock: ResetBlockFailureFlags, then ActivateBestChain
ResetBlockFailureFlags(b) ==
  LET below == {c \in known : b \in Ancestors[c]}
      cleared == below \cup Ancestors[b]
  IN  /\ "reconsider" \in Requests
      /\ csMainFree
      /\ b \in known
      /\ failedValid' = failedValid \ cleared
      /\ failedChild' = failedChild \ cleared
      /\ failedBlocks' = failedBlocks \ cleared
      /\ candidates' = candidates \cup Reconsidered(below)
      /\ forgotten' = (forgotten \cup ((Ancestors[b] \ {b}) \cap Failed)) \ candidates'
      /\ pending' = TRUE
      /\ UNCHANGED <<treeVars, orderVars, tip, abc, inv, doomed, archive>>

-----------------------------------------------------------------------------
(***************************************************************************)
(* CleanBlockIndex and restarts                                            *)
(***************************************************************************)

\* NeedToEraseBlockIndex: off the active chain, not above pindexCheck
NeedToEraseBlockIndex(b, check) == b \notin ActiveChain /\ check \notin Ancestors[b]

\* CleanBlockIndex selects, and waits for the validation queue without cs_main ...
CleanSelect ==
  /\ "clean" \in Requests
  /\ csMainFree
  /\ doomed = {}
  /\ nextSeq <= MaxSequence
  /\ \E check \in ActiveChain :
       /\ Height[check] = Height[tip] - CheckpointSpan - 1
       /\ doomed' = {b \in known : NeedToEraseBlockIndex(b, check)}
  /\ doomed' # {}
  /\ UNCHANGED <<treeVars, flagVars, candidates, orderVars, tip, pending, abc, inv, archive>>

\* A block's persistent status
Status(b) ==
  [block |-> b, data |-> b \in haveData, scripts |-> b \in scripts,
   failedValid |-> b \in failedValid, failedChild |-> b \in failedChild]

\* What holds a pointer to an entry, if the entries in set are left
PointedTo(set) == {Parent[b] : b \in set} \cup {tip, abc.most, inv.target, inv.mark}

\* ... then deletes: RemoveBlockIndex.  The entries stay in the block tree database
\* if they were ever flushed to it, which matters where there are restarts.
CleanErase ==
  /\ csMainFree
  /\ doomed # {}
  /\ known' = known \ doomed
  /\ haveData' = haveData \ doomed
  /\ linked' = linked \ doomed
  /\ scripts' = scripts \ doomed
  /\ unlinked' = {b \in unlinked : b \notin doomed /\ Parent[b] \notin doomed}
  /\ failedValid' = failedValid \ doomed
  /\ failedChild' = failedChild \ doomed
  /\ failedBlocks' = failedBlocks \ doomed
  /\ candidates' = candidates \ doomed
  /\ seq' = [b \in Blocks |-> IF b \in doomed THEN 0 ELSE seq[b]]
  /\ forgotten' = forgotten \ doomed
  /\ archive' \in {archive} \cup {archive \cup {Status(b) : b \in doomed \cap known} :
                                  r \in Requests \cap {"restart"}}
  /\ abc' = IF PointedTo(known \ doomed) \cap doomed # {} THEN Undefined ELSE abc
  /\ doomed' = {}
  /\ UNCHANGED <<nextSeq, revSeq, preciousWork, tip, pending, inv>>

\* A shutdown, which flushes the index and the coins, and the next start:
\* LoadBlockIndex, LoadChainTip, and ThreadImport's call of ActivateBestChain.
\* Sequence ids and m_failed_blocks are not persistent.
Restart ==
  LET entries == {Status(b) : b \in known} \cup {e \in archive : e.block \notin known}
      with(P(_)) == {e.block : e \in {f \in entries : P(f)}}
      all == with(LAMBDA e : TRUE)
      data == with(LAMBDA e : e.data)
      valid == with(LAMBDA e : e.failedValid)
      child == with(LAMBDA e : e.failedChild)
      chained == {b \in data : Ancestors[b] \subseteq data}
      failed == {b \in all : Ancestors[b] \cap (valid \cup child) # {}}
  IN  /\ "restart" \in Requests
      /\ csMainFree /\ inv = NotInvalidating /\ doomed = {}
      /\ known' = all
      /\ haveData' = data
      /\ linked' = chained
      /\ scripts' = with(LAMBDA e : e.scripts)
      /\ unlinked' = data \ chained
      /\ failedValid' = valid
      /\ failedChild' = child \cup (failed \ valid)
      /\ failedBlocks' = {}
      /\ forgotten' = {}
      /\ seq' = [b \in Blocks |-> 0]
      /\ nextSeq' = 1
      /\ revSeq' = -1
      /\ preciousWork' = 0
      /\ candidates' = PruneBlockIndexCandidates(chained \ failed, seq', tip)
      /\ abc' = IF candidates' = {} THEN Aborted ELSE Idle
      /\ pending' = TRUE
      /\ archive' = {}
      /\ UNCHANGED <<tip, inv, doomed>>

Next ==
  \/ \E b \in Blocks \ {Genesis} :
       AcceptBlockHeader(b) \/ AcceptBlock(b) \/ ConnectTip(b) \/ ConnectTipFails(b)
  \/ ABCEnter \/ ABCRelock \/ FindMostWorkChain \/ DisconnectTip
  \/ \E b \in Targets : PreciousBlock(b) \/ InvalidateBlock(b) \/ ResetBlockFailureFlags(b)
  \/ InvalidateWalk \/ InvalidateLeave \/ InvalidateFinish
  \/ CleanSelect \/ CleanErase
  \/ Restart

Spec == Init /\ [][Next]_vars

\* A caller of ActivateBestChain waits for nobody but the other holders of the
\* two locks, which all let go.
Fairness ==
  /\ WF_vars(ABCEnter) /\ WF_vars(ABCRelock) /\ WF_vars(FindMostWorkChain)
  /\ WF_vars(DisconnectTip)
  /\ WF_vars(\E b \in Blocks : ConnectTip(b) \/ ConnectTipFails(b))

FairSpec == Spec /\ Fairness

-----------------------------------------------------------------------------
(***************************************************************************)
(* Properties                                                              *)
(***************************************************************************)

\* Every variable has the type its declaration in the code gives it.
TypeOK ==
  /\ {known, haveData, linked, scripts, failedValid, failedChild, failedBlocks,
      unlinked, candidates, doomed, forgotten} \subseteq SUBSET Blocks
  /\ seq \in [Blocks -> Int]
  /\ nextSeq \in Nat /\ revSeq \in Int /\ preciousWork \in Nat
  /\ tip \in Blocks
  /\ pending \in BOOLEAN
  /\ abc \in [pc : {"idle", "unlocked", "find", "step", "aborted", "undefined"},
              most : Blocks \cup {NoBlock}, start : Blocks \cup {NoBlock},
              old : Blocks \cup {NoBlock}, new : Blocks \cup {NoBlock}, connected : BOOLEAN]
  /\ inv \in [pc : {"none", "walk", "mark"}, target : Blocks \cup {NoBlock}, mark : Blocks \cup {NoBlock}]

NoInvalidAncestor(b) == Ancestors[b] \cap failedValid = {}

\* CheckBlockIndex: whenever cs_main is free, a block that sorts at least as
\* good as the tip, is valid and has the data of all its parents "must be in
\* setBlockIndexCandidates", and no block that sorts worse than the tip, or some
\* ancestor of which has never been seen, is in it.
CandidatesExact ==
  csMainFree =>
    /\ \A b \in linked : ~Worse(seq, b, tip) /\ NoInvalidAncestor(b) => b \in candidates
    /\ \A b \in candidates : b \in linked /\ ~Worse(seq, b, tip)

\* The assertion of PruneBlockIndexCandidates: "Either the current tip or a
\* successor of it we're working towards is left in setBlockIndexCandidates."
PruneAssertion == abc.pc # "aborted"

\* CheckBlockIndex: what entries record about their ancestors is true.  nChainTx
\* is set for exactly the blocks whose ancestors all have data, mapBlocksUnlinked
\* holds exactly the blocks with data that wait for a parent's (those below an
\* invalid block may be missing), and "the failed mask cannot be set for blocks
\* without invalid parents", whatever order blocks arrive in and fail in.
AncestryExact ==
  /\ linked = {b \in haveData : Ancestors[b] \subseteq haveData}
  /\ unlinked \subseteq haveData \ linked
  /\ \A b \in haveData \ linked : NoInvalidAncestor(b) => b \in unlinked
  /\ \A b \in Failed : ~NoInvalidAncestor(b)

\* "We absolutely may not unlock cs_main until we've made forward progress"
\* (ActivateBestChain): a critical section ends with a tip that is not worse
\* than the one it began with, also when the blocks it tried were invalid and
\* it had to find its way back.
ForwardProgress ==
  [][~csMainFree /\ csMainFree' => ~Worse(seq, tip', abc.start)]_vars

\* No caller of ActivateBestChain or InvalidateBlock is left
Settled == abc.pc = "idle" /\ ~pending /\ inv = NotInvalidating

\* When all calls have returned, no chain with all its data and without a block
\* marked invalid has more work than the active one: ActivateBestChain, which is
\* called once per request and drops cs_main on the way, does not miss a block that
\* arrives in between.
SettledOnBest ==
  Settled => \A b \in linked : Ancestors[b] \cap Failed = {} => Work[b] <= Work[tip]

\* reconsiderblock's help has it "reconsider [...] for activation" the block, "its
\* ancestors and its descendants".  ResetBlockFailureFlags clears the marks of
\* ancestors without making them candidates, and those blocks are the only ones a
\* node can miss: with invalidateblock, reconsiderblock, preciousblock, arriving
\* blocks and the deletion of side branches interleaved with ActivateBestChain, no
\* other usable chain has more work than the active one when all calls have returned.
SettledUnlessForgotten ==
  Settled => \A b \in linked \ forgotten : Ancestors[b] \cap Failed = {} => Work[b] <= Work[tip]

\* Nor is a candidate left that FindMostWorkChain would prefer to the tip, in its
\* order: by work, and between chains of equal work by arrival or by preciousblock.
\* A call that kept an old pindexMostWork while it did not hold cs_main has looked
\* again before it returned.
NoCandidateLeft ==
  Settled => \A b \in candidates : PathTo(b) \cap Failed = {} => ~Worse(seq, tip, b)

\* The node settles again and again: ActivateBestChain's loops end.
Settles == []<>Settled

\* "We only want to mark the last disconnected block as BLOCK_FAILED_VALID; its
\* children need to be BLOCK_FAILED_CHILD instead." (InvalidateBlock)
OneFailedValidPerBranch ==
  \A b \in failedValid : Ancestors[Parent[b]] \cap failedValid = {}

\* CleanBlockIndex deletes no CBlockIndex that something still points to: another
\* entry's pprev, the active chain, pindexMostWork or what InvalidateBlock keeps.
\* CheckBlockIndex, which walks the tree along these pointers: "Check that we
\* actually traversed the entire map."
NoDanglingPointers == abc.pc # "undefined"
=============================================================================
