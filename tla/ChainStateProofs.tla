-------------------------- MODULE ChainStateProofs --------------------------
(***************************************************************************)
(* Proofs about ChainState, for every tree of blocks: what CheckBlockIndex *)
(* asserts, and that ActivateBestChain ends on the best chain, of a node   *)
(* whose operator makes no requests.                                       *)
(***************************************************************************)
EXTENDS ChainState, BlockTreeProofs

-----------------------------------------------------------------------------
(***************************************************************************)
(* Finite sets of blocks                                                   *)
(***************************************************************************)

-----------------------------------------------------------------------------
(***************************************************************************)
(* The order of the candidates                                             *)
(***************************************************************************)

\* nChainWork (AddToBlockIndex): a block's is its parent's and its own proof, so that
\* it grows along a chain.
LEMMA WorkDef ==
  /\ Work \in [Blocks -> Nat]
  /\ \A b \in Blocks : \A a \in Ancestors[b] : Work[a] <= Work[b] /\ (a # b => Work[a] < Work[b])
  <1>1. PICK g \in [Blocks -> Nat] : \A b \in Blocks :
          g[b] = Proof[b] + (IF b = Genesis THEN 0 ELSE g[Parent[b]])
    BY SumAlongChain, ParametersAssumption, Zenon
  <1>2. g = [b \in Blocks |-> Proof[b] + (IF b = Genesis THEN 0 ELSE g[Parent[b]])]
    BY <1>1, Zenon
  <1>3. Work = [b \in Blocks |-> Proof[b] + (IF b = Genesis THEN 0 ELSE Work[Parent[b]])]
    <2> DEFINE W == CHOOSE W : W = [b \in Blocks |->
                                      Proof[b] + (IF b = Genesis THEN 0 ELSE W[Parent[b]])]
    <2>1. W = [b \in Blocks |-> Proof[b] + (IF b = Genesis THEN 0 ELSE W[Parent[b]])]
      BY <1>2, Zenon
    <2>2. Work = [b \in Blocks |-> W[b]]
      BY Zenon DEF Work
    <2> HIDE DEF W
    <2> QED BY <2>1, <2>2, TreeAssumption, Zenon
  <1> DEFINE Wrong == {b \in Blocks : Work[b] \notin Nat}
  <1>4. ASSUME NEW b \in Wrong, Parent[b] \notin Wrong PROVE FALSE
    BY <1>3, <1>4, AncestorsOfBlock, ParametersAssumption
  <1>5. Wrong = {}
    BY <1>4, WellFoundedAssumption, Zenon
  <1>6. Work \in [Blocks -> Nat]
    BY <1>3, <1>5, Zenon
  <1>7. \A b \in Blocks \ {Genesis} : Work[Parent[b]] < Work[b]
    BY <1>3, <1>6, AncestorsOfBlock, ParametersAssumption
  <1> QED BY <1>6, <1>7, GrowsAlongChain, Zenon

\* CBlockIndexWorkComparator is a strict total order.
LEMMA WorseIsOrder ==
  ASSUME NEW s \in [Blocks -> Int], NEW a \in Blocks, NEW b \in Blocks, NEW c \in Blocks
  PROVE  /\ ~Worse(s, a, a)
         /\ a # b => Worse(s, a, b) \/ Worse(s, b, a)
         /\ ~(Worse(s, a, b) /\ Worse(s, b, a))
         /\ Worse(s, a, b) /\ Worse(s, b, c) => Worse(s, a, c)
         /\ Worse(s, a, b) => Work[a] <= Work[b]
         /\ Work[a] < Work[b] => Worse(s, a, b)
  BY WorkDef, ParametersAssumption DEF Worse

\* The blocks are finitely many, as the steps use it: they can be counted, and of a set
\* of blocks that is not empty, setBlockIndexCandidates.rbegin() is the best
FinitelyMany ==
  /\ \A set \in SUBSET Blocks : Cardinality(set) \in Nat
  /\ \A s \in [Blocks -> Int], set \in SUBSET Blocks :
       set # {} => \E b \in set : \A c \in set \ {b} : Worse(s, c, b)

-----------------------------------------------------------------------------
(***************************************************************************)
(* The inductive invariant                                                 *)
(***************************************************************************)

MaybeBlock == Blocks \cup {NoBlock}
Activation == [pc : {"idle", "unlocked", "find", "step", "aborted"}, most : MaybeBlock,
               start : MaybeBlock, old : MaybeBlock, new : MaybeBlock, connected : BOOLEAN]

\* TypeOK of a node that nobody disturbs, one variable at a time
Types ==
  /\ known \subseteq Blocks /\ haveData \subseteq Blocks /\ linked \subseteq Blocks
  /\ scripts \subseteq Blocks /\ failedValid \subseteq Blocks /\ failedChild \subseteq Blocks
  /\ failedBlocks \subseteq Blocks /\ unlinked \subseteq Blocks /\ candidates \subseteq Blocks
  /\ doomed \subseteq Blocks
  /\ seq \in [Blocks -> Int] /\ nextSeq \in Nat /\ revSeq \in Int /\ preciousWork \in Nat
  /\ tip \in Blocks /\ pending \in BOOLEAN /\ abc \in Activation
  /\ inv \in [pc : {"none", "walk", "mark"}, target : MaybeBlock, mark : MaybeBlock]

\* The members of CChainState have the types of their declarations.
LEMMA TypeFacts == Types /\ forgotten = {} => TypeOK
  <1>1. Activation \subseteq [pc : {"idle", "unlocked", "find", "step", "aborted", "undefined"},
                              most : MaybeBlock, start : MaybeBlock, old : MaybeBlock,
                              new : MaybeBlock, connected : BOOLEAN]
    BY DEF Activation
  <1>2. {} \subseteq Blocks
    OBVIOUS
  <1> QED BY <1>1, <1>2, Zenon DEF TypeOK, Types, MaybeBlock

\* Nobody calls preciousblock, invalidateblock or reconsiderblock, and -cleanblockindex,
\* which is on by default, has been turned off
Undisturbed == Requests \subseteq {"restart"}

NothingElse == archive = {} /\ doomed = {} /\ forgotten = {} /\ inv = NotInvalidating

\* What a header, a body and a failure leave in an entry
EntriesSound ==
  /\ haveData \subseteq known /\ Failed \subseteq known
  /\ \A b \in known : Ancestors[b] \subseteq known
  /\ haveData \cap BadBody = {}
  /\ failedValid \subseteq BadBody \cup BadConnect
  /\ failedBlocks \subseteq failedValid \cap linked
  /\ \A b \in Failed : ~NoInvalidAncestor(b)

\* What waits for a parent's data; a block that waits in no list waits for one
\* that is marked invalid and will never come
WaitingSound ==
  /\ linked = {b \in haveData : Ancestors[b] \subseteq haveData}
  /\ unlinked \subseteq haveData \ linked
  /\ \A b \in haveData \ linked : b \in unlinked \/ Parent[b] \in Failed
  /\ \A b \in Failed \cap haveData :
       b \in linked \/ \E f \in Failed \cap Ancestors[b] : f \notin haveData

\* A block that was connected, with all its ancestors
Connected(b) == b \in linked /\ Ancestors[b] \cap BadConnect = {}

InSection == abc.pc \in {"find", "step"}

\* The better of the tip and the one that ActivateBestChain has taken cs_main with:
\* what setBlockIndexCandidates is kept up to date with
Best == IF InSection /\ Worse(seq, tip, abc.start) THEN abc.start ELSE tip

CandidatesFollowBest ==
  /\ \A b \in linked : ~Worse(seq, b, Best) /\ NoInvalidAncestor(b) => b \in candidates
  /\ \A b \in candidates : b \in linked /\ ~Worse(seq, b, Best)

\* The tip is below pindexMostWork
OnTheWay == tip \in Ancestors[abc.most] /\ tip # abc.most

\* Where ActivateBestChain is, pindexMostWork leads further
ActivationSound ==
  /\ PruneAssertion
  /\ Connected(tip)
  /\ abc.pc = "idle" => abc = Idle
  /\ abc.most # NoBlock => abc.most \in linked /\ NoInvalidAncestor(abc.most)
  /\ abc.pc = "unlocked" /\ abc.most # NoBlock => OnTheWay
  /\ InSection => /\ abc.start \in Blocks /\ Connected(abc.start)
                  /\ abc.most # NoBlock => ~Worse(seq, abc.most, abc.start)
  /\ abc.pc = "find" => /\ tip = abc.start \/ Worse(seq, tip, abc.start)
                        /\ abc.most # NoBlock => OnTheWay
                        /\ abc.connected => abc.new = tip
  /\ abc.pc = "step" => /\ abc.most # NoBlock /\ abc.old \in Blocks
                        /\ tip = abc.start \/ Worse(seq, tip, abc.start) \/ OnTheWay

NoneHeavierThan(b) == \A c \in linked : NoInvalidAncestor(c) => Work[c] <= Work[b]

\* What ActivateBestChain aims at, or has reached, is best but for what a caller is
\* about to activate
BestUnlessPending ==
  ~pending => /\ abc.most # NoBlock => NoneHeavierThan(abc.most)
              /\ abc.pc = "idle" => NoneHeavierThan(tip)

ChainInv ==
  /\ Types /\ NothingElse /\ EntriesSound /\ WaitingSound
  /\ ActivationSound /\ CandidatesFollowBest /\ BestUnlessPending

-----------------------------------------------------------------------------
(***************************************************************************)
(* Every step keeps it                                                     *)
(***************************************************************************)

\* What m_cs_chainstate protects and the candidates stay sound in a step that does
\* not touch them.
LEMMA ActivationUntouched ==
  ASSUME ActivationSound, CandidatesFollowBest, BestUnlessPending,
         UNCHANGED <<linked, failedValid, candidates, seq, tip, abc, pending>>
  PROVE  ActivationSound' /\ CandidatesFollowBest' /\ BestUnlessPending'
  <1>1. ActivationSound'
    BY Zenon DEF ActivationSound, PruneAssertion, Connected, NoInvalidAncestor, InSection, OnTheWay
  <1>2. CandidatesFollowBest'
    BY Zenon DEF CandidatesFollowBest, NoInvalidAncestor, Best, InSection
  <1>3. BestUnlessPending'
    BY Zenon DEF BestUnlessPending, NoneHeavierThan, NoInvalidAncestor
  <1> QED BY <1>1, <1>2, <1>3, Zenon

\* The same of the entries of mapBlockIndex.
LEMMA EntriesUntouched ==
  ASSUME EntriesSound, WaitingSound, UNCHANGED <<known, haveData, linked, unlinked, flagVars>>
  PROVE  EntriesSound' /\ WaitingSound'
  <1>1. UNCHANGED <<failedValid, failedChild, failedBlocks>>
    BY Zenon DEF flagVars
  <1>2. EntriesSound'
    BY <1>1, Zenon DEF EntriesSound, Failed, NoInvalidAncestor
  <1>3. WaitingSound'
    BY <1>1, Zenon DEF WaitingSound, Failed
  <1> QED BY <1>2, <1>3, Zenon

\* AcceptBlockHeader adds a header whose ancestors are known, or marks only blocks
\* between an invalid one and the header it refuses.
LEMMA HeaderStep ==
  ASSUME ChainInv, NEW b \in Blocks \ {Genesis}, AcceptBlockHeader(b)
  PROVE  ChainInv'
  <1> USE DEF ChainInv
  <1>1. Types
    BY Zenon
  <1>2. /\ UNCHANGED <<haveData, linked, unlinked, failedValid, failedBlocks, candidates, seq,
                       tip, pending, abc, inv, doomed, archive, forgotten, scripts, nextSeq, revSeq,
                       preciousWork>>
        /\ Parent[b] \in known
    BY Zenon DEF AcceptBlockHeader, orderVars
  <1>3. ActivationSound' /\ CandidatesFollowBest' /\ BestUnlessPending' /\ NothingElse'
    <2>1. NothingElse'
      BY <1>2, Zenon DEF NothingElse
    <2> QED BY <2>1, <1>2, ActivationUntouched, Zenon
  <1>4. Parent[b] \in Blocks /\ Ancestors[b] = {b} \cup Ancestors[Parent[b]]
    BY AncestorsOfBlock, Zenon
  <1>5. CASE known' = known \cup {b} /\ UNCHANGED failedChild
    <2>1. Types'
      BY <1>1, <1>2, <1>5, Zenon DEF Types
    <2>2. EntriesSound'
      BY <1>2, <1>4, <1>5, Zenon DEF EntriesSound, Failed, NoInvalidAncestor
    <2>3. WaitingSound'
      BY <1>2, <1>5, Zenon DEF WaitingSound, Failed
    <2> QED BY <1>3, <2>1, <2>2, <2>3, Zenon
  <1>6. CASE /\ UNCHANGED known
             /\ \E f \in FailedAncestors(Parent[b]) :
                  failedChild' = failedChild \cup (Ancestors[Parent[b]] \ Ancestors[f])
    <2>1. PICK f \in failedBlocks \cap Ancestors[Parent[b]] :
            failedChild' = failedChild \cup (Ancestors[Parent[b]] \ Ancestors[f])
      BY <1>6, Zenon DEF FailedAncestors
    <2> DEFINE Marked == Ancestors[Parent[b]] \ Ancestors[f]
    <2>2. Ancestors[Parent[b]] \subseteq known /\ f \in failedValid \cap linked
      BY <1>2, <2>1, Zenon DEF EntriesSound
    <2>3. \A c \in Marked : f \in Ancestors[c]
      BY <1>4, <2>1, AncestorsAreChain, Zenon
    <2>4. Types'
      BY <1>1, <1>2, <1>6, <2>1, <2>2, Zenon DEF Types
    <2>5. Failed' = Failed \cup Marked
      BY <1>2, <2>1, Zenon DEF Failed
    <2>6. EntriesSound'
      <3>1. \A c \in Failed' : ~NoInvalidAncestor(c)
        BY <2>2, <2>3, <2>5, Zenon DEF EntriesSound, NoInvalidAncestor
      <3> HIDE DEF Marked
      <3>2. Failed' \subseteq known
        BY <2>2, <2>5, Zenon DEF EntriesSound, Marked
      <3> QED BY <1>2, <1>6, <3>1, <3>2, Zenon DEF EntriesSound, NoInvalidAncestor
    <2>7. ASSUME NEW c \in Marked \cap haveData, c \notin linked
          PROVE  \E g \in Marked \cap Ancestors[c] : g \notin haveData
      <3>1. c \in Blocks /\ Ancestors[c] \subseteq Ancestors[Parent[b]]
        BY <1>4, AncestorsOfAncestors, Zenon
      <3>2. PICK g \in Ancestors[c] : g \notin haveData
        BY <2>7, <1>1, Zenon DEF WaitingSound, Types
      <3>3. Ancestors[f] \subseteq haveData
        BY <2>2, Zenon DEF WaitingSound
      <3> QED BY <3>1, <3>2, <3>3, Zenon
    <2>8. WaitingSound'
      <3> HIDE DEF Marked
      <3>1. \A c \in Failed' \cap haveData :
              c \in linked \/ \E g \in Failed' \cap Ancestors[c] : g \notin haveData
        BY <2>5, <2>7, Zenon DEF WaitingSound
      <3> QED BY <1>2, <2>5, <3>1, Zenon DEF WaitingSound
    <2> QED BY <1>3, <2>4, <2>6, <2>8, Zenon
  <1> QED BY <1>5, <1>6, Zenon DEF AcceptBlockHeader

\* A block that AcceptBlock takes has known ancestors, and it is not marked.
LEMMA AcceptableBlock ==
  ASSUME ChainInv, NEW b \in Blocks \ {Genesis}, AcceptBlock(b)
  PROVE  /\ Parent[b] \in Blocks /\ Ancestors[b] = {b} \cup Ancestors[Parent[b]]
         /\ Ancestors[Parent[b]] \subseteq Blocks
         /\ b \notin Failed /\ b \notin haveData
         /\ known' = known \cup {b} /\ Ancestors[b] \subseteq known'
         /\ \A c \in linked : b \notin Ancestors[c]
         /\ ~InSection
         /\ UNCHANGED <<failedChild, failedBlocks, scripts, tip, abc, inv, doomed, archive, forgotten,
                        revSeq, preciousWork>>
  <1>1. Parent[b] \in Blocks /\ Ancestors[b] = {b} \cup Ancestors[Parent[b]]
    BY AncestorsOfBlock, Zenon
  <1>2. /\ b \notin haveData /\ known' = known \cup {b}
        /\ UNCHANGED <<failedChild, failedBlocks, scripts, tip, abc, inv, doomed, archive, forgotten,
                       revSeq, preciousWork>>
        /\ ~InSection
    BY Zenon DEF AcceptBlock, csMainFree, InSection
  <1>3. b \notin Failed /\ Ancestors[b] \subseteq known'
    <2>1. CASE b \in known
      BY <1>2, <2>1, Zenon DEF AcceptBlock, ChainInv, EntriesSound
    <2>2. CASE b \notin known
      <3>1. Parent[b] \in known
        BY <2>2, Zenon DEF AcceptBlock, HeaderAcceptable
      <3> QED BY <1>1, <1>2, <2>2, <3>1, Zenon DEF ChainInv, EntriesSound
    <2> QED BY <2>1, <2>2, Zenon
  <1>4. \A c \in linked : b \notin Ancestors[c]
    BY <1>2, Zenon DEF ChainInv, WaitingSound
  <1> QED BY <1>1, <1>2, <1>3, <1>4, AncestorsOfAncestors, Zenon

\* A block whose body AcceptBlock refuses has no descendant that is linked: nothing
\* that could be connected becomes invalid.
LEMMA BodyRejected ==
  ASSUME ChainInv, NEW b \in Blocks \ {Genesis}, AcceptBlock(b), b \in BadBody
  PROVE  ChainInv'
  <1> USE DEF ChainInv
  <1>1. /\ UNCHANGED <<haveData, linked, unlinked, candidates, seq, nextSeq, pending>>
        /\ failedValid' = failedValid \cup {b}
    BY Zenon DEF AcceptBlock
  <1>2. /\ b \notin Failed /\ b \notin haveData /\ b \in Ancestors[b]
        /\ known' = known \cup {b} /\ Ancestors[b] \subseteq known'
        /\ \A c \in linked : b \notin Ancestors[c]
        /\ ~InSection
        /\ UNCHANGED <<failedChild, failedBlocks, scripts, tip, abc, inv, doomed, archive, forgotten,
                       revSeq, preciousWork>>
    BY AcceptableBlock, AncestorsOfAncestors, Zenon
  <1>3. Failed' = Failed \cup {b}
    BY <1>1, <1>2, Zenon DEF Failed
  <1>4. \A c \in linked : NoInvalidAncestor(c)' <=> NoInvalidAncestor(c)
    BY <1>1, <1>2, Zenon DEF NoInvalidAncestor
  <1>5. Types' /\ NothingElse'
    BY <1>1, <1>2, Zenon DEF Types, NothingElse
  <1>6. EntriesSound'
    <2>1. \A c \in Failed' : ~NoInvalidAncestor(c)'
      BY <1>1, <1>2, <1>3, Zenon DEF EntriesSound, NoInvalidAncestor
    <2>2. \A c \in known' : Ancestors[c] \subseteq known'
      BY <1>2, Zenon DEF EntriesSound
    <2>3. failedValid' \subseteq BadBody \cup BadConnect
      BY <1>1, Zenon DEF EntriesSound
    <2> QED BY <1>1, <1>2, <1>3, <2>1, <2>2, <2>3, Zenon DEF EntriesSound
  <1>7. WaitingSound'
    BY <1>1, <1>2, <1>3, Zenon DEF WaitingSound
  <1>8. ActivationSound'
    BY <1>1, <1>2, <1>4, Zenon DEF ActivationSound, PruneAssertion, Connected, InSection, OnTheWay
  <1>9. CandidatesFollowBest'
    BY <1>1, <1>2, <1>4, Zenon DEF CandidatesFollowBest, Best, InSection
  <1>10. BestUnlessPending'
    BY <1>1, <1>2, <1>4, Zenon DEF BestUnlessPending, NoneHeavierThan
  <1> QED BY <1>5, <1>6, <1>7, <1>8, <1>9, <1>10, Zenon

\* ReceivedBlockTransactions links exactly the blocks that have all data now.  One
\* that waits for b in no list waits for a marked block as well, which is not b.
LEMMA LinkedByArrival ==
  ASSUME ChainInv, NEW b \in Blocks \ {Genesis}, AcceptBlock(b), b \notin BadBody,
         Parent[b] \in linked
  PROVE  /\ linked \cup NewlyLinked(b)
              = {c \in haveData \cup {b} : Ancestors[c] \subseteq haveData \cup {b}}
         /\ NewlyLinked(b) \cap linked = {} /\ NewlyLinked(b) \subseteq unlinked \cup {b}
         /\ b \in NewlyLinked(b)
  <1> USE DEF ChainInv
  <1>1. /\ b \notin Failed /\ b \notin haveData /\ b \in Ancestors[b]
        /\ Parent[b] \in Blocks /\ Ancestors[b] = {b} \cup Ancestors[Parent[b]]
        /\ \A c \in linked : b \notin Ancestors[c]
        /\ Ancestors[Parent[b]] \subseteq haveData
    BY AcceptableBlock, AncestorsOfAncestors, Zenon DEF WaitingSound
  <1>2. NewlyLinked(b) \cap linked = {} /\ b \in NewlyLinked(b)
    BY <1>1, Zenon DEF NewlyLinked, WaitingSound
  <1>3. ASSUME NEW c \in NewlyLinked(b)
        PROVE  c \in haveData \cup {b} /\ Ancestors[c] \subseteq haveData \cup {b}
    BY <1>1, <1>3, Zenon DEF NewlyLinked, WaitingSound
  <1>4. ASSUME NEW c \in haveData \cup {b}, Ancestors[c] \subseteq haveData \cup {b}, c \notin linked
        PROVE  c \in NewlyLinked(b)
    <2>1. c \in Blocks /\ c \in Ancestors[c] /\ Ancestors[c] \subseteq Blocks
      BY AncestorsOfAncestors, Zenon DEF Types
    <2>2. b \in Ancestors[c]
      BY <1>1, <1>4, <2>1, Zenon DEF WaitingSound
    <2>3. ASSUME NEW d \in Ancestors[c], d \notin Ancestors[b] PROVE d \in unlinked
      <3>1. b \in Ancestors[d] /\ d # b /\ d \in Blocks /\ d \in haveData
        BY <1>1, <1>4, <2>1, <2>2, <2>3, AncestorsAreChain, Zenon
      <3>2. d # Genesis
        BY <1>1, <3>1, AncestorsOfBlock, Zenon
      <3>3. /\ Parent[d] \in Blocks /\ b \in Ancestors[Parent[d]]
            /\ Parent[d] \in Ancestors[c] /\ Ancestors[Parent[d]] \subseteq Ancestors[c]
        BY <2>1, <3>1, <3>2, AncestorsOfBlock, AncestorsOfAncestors
      <3>4. Parent[d] \notin Failed
        <4>1. SUFFICES ASSUME Parent[d] \in Failed PROVE FALSE
          BY Zenon
        <4>2. Parent[d] \in haveData \ linked
          BY <1>1, <1>4, <3>3, <4>1, Zenon
        <4>3. PICK f \in Failed \cap Ancestors[Parent[d]] : f \notin haveData
          BY <4>1, <4>2, Zenon DEF WaitingSound
        <4> QED BY <1>1, <1>4, <3>3, <4>3, Zenon
      <3>5. d \notin linked
        BY <1>1, <3>1, Zenon
      <3> QED BY <3>1, <3>4, <3>5, Zenon DEF WaitingSound
    <2>4. c \in unlinked \cup {b}
      <3>1. CASE c \in Ancestors[Parent[b]]
        <4>1. c \in haveData /\ Ancestors[c] \subseteq haveData
          BY <1>1, <3>1, AncestorsOfAncestors, Zenon
        <4> QED BY <1>4, <4>1, Zenon DEF WaitingSound
      <3> QED BY <1>1, <2>1, <2>3, <3>1, Zenon
    <2> QED BY <2>2, <2>3, <2>4, Zenon DEF NewlyLinked
  <1>5. linked \subseteq {c \in haveData \cup {b} : Ancestors[c] \subseteq haveData \cup {b}}
    BY Zenon DEF WaitingSound
  <1> QED BY <1>2, <1>3, <1>4, <1>5, Zenon DEF NewlyLinked

\* Numbers are given to the blocks that become linked, and to them only.
LEMMA SequenceNumbers ==
  ASSUME FinitelyMany, ChainInv, NEW set \in SUBSET Blocks, set \cap linked = {}, NEW n \in Numberings(set),
         seq' = [c \in Blocks |-> IF c \in set THEN n[c] ELSE seq[c]],
         nextSeq' = nextSeq + Cardinality(set)
  PROVE  /\ seq' \in [Blocks -> Int] /\ nextSeq' \in Nat
         /\ \A c \in linked : seq'[c] = seq[c]
  <1>1. Cardinality(set) \in Nat
    BY Zenon DEF FinitelyMany
  <1>2. nextSeq \in Nat /\ seq \in [Blocks -> Int] /\ linked \subseteq Blocks
    BY Zenon DEF ChainInv, Types
  <1>3. \A c \in set : n[c] \in Int
    BY <1>1, <1>2 DEF Numberings
  <1> QED BY <1>1, <1>2, <1>3

\* A block that arrives after its ancestors' data: it and what waited for it are
\* linked, numbered and, unless they are worse than the tip, candidates.
LEMMA BodyLinked ==
  ASSUME FinitelyMany, ChainInv, NEW b \in Blocks \ {Genesis}, AcceptBlock(b), b \notin BadBody,
         Parent[b] \in linked
  PROVE  ChainInv'
  <1> USE DEF ChainInv
  <1>1. /\ haveData' = haveData \cup {b} /\ pending' = TRUE /\ UNCHANGED failedValid
        /\ linked' = linked \cup NewlyLinked(b) /\ unlinked' = unlinked \ NewlyLinked(b)
        /\ candidates' = candidates \cup {c \in NewlyLinked(b) : ~Worse(seq', c, tip)}
    BY Zenon DEF AcceptBlock, ReceivedBlockTransactions
  <1>2. /\ b \notin Failed /\ b \notin haveData /\ b \in Ancestors[b]
        /\ known' = known \cup {b} /\ Ancestors[b] \subseteq known'
        /\ ~InSection
        /\ UNCHANGED <<failedChild, failedBlocks, scripts, tip, abc, inv, doomed, archive, forgotten,
                       revSeq, preciousWork>>
    BY AcceptableBlock, AncestorsOfAncestors, Zenon
  <1>3. /\ linked' = {c \in haveData' : Ancestors[c] \subseteq haveData'}
        /\ NewlyLinked(b) \cap linked = {} /\ NewlyLinked(b) \subseteq unlinked \cup {b}
        /\ b \in NewlyLinked(b)
    BY <1>1, LinkedByArrival, Zenon
  <1>4. NewlyLinked(b) \in SUBSET Blocks
    BY <1>3, Zenon DEF Types
  <1>5. PICK n \in Numberings(NewlyLinked(b)) :
          seq' = [c \in Blocks |-> IF c \in NewlyLinked(b) THEN n[c] ELSE seq[c]]
    BY Zenon DEF AcceptBlock, ReceivedBlockTransactions
  <1>6. /\ seq' \in [Blocks -> Int] /\ nextSeq' \in Nat
        /\ \A c \in linked : seq'[c] = seq[c]
    <2>1. nextSeq' = nextSeq + Cardinality(NewlyLinked(b))
      BY Zenon DEF AcceptBlock, ReceivedBlockTransactions
    <2> QED BY <1>3, <1>4, <1>5, <2>1, SequenceNumbers, Zenon
  <1>7. Failed' = Failed /\ \A c : NoInvalidAncestor(c)' <=> NoInvalidAncestor(c)
    BY <1>1, <1>2, Zenon DEF Failed, NoInvalidAncestor
  <1>8. Types'
    BY <1>1, <1>2, <1>3, <1>4, <1>6, Zenon DEF Types
  <1>9. EntriesSound'
    BY <1>1, <1>2, <1>7, Zenon DEF EntriesSound
  <1>10. WaitingSound'
    <2>1. unlinked' \subseteq haveData' \ linked'
      BY <1>1, <1>2, <1>3, Zenon DEF WaitingSound
    <2>2. \A c \in haveData' \ linked' : c \in unlinked' \/ Parent[c] \in Failed'
      BY <1>1, <1>2, <1>3, <1>7 DEF WaitingSound
    <2>3. \A c \in Failed' \cap haveData' :
            c \in linked' \/ \E f \in Failed' \cap Ancestors[c] : f \notin haveData'
      BY <1>1, <1>2, <1>7 DEF WaitingSound
    <2> QED BY <1>3, <2>1, <2>2, <2>3, Zenon DEF WaitingSound
  <1>11. ActivationSound'
    BY <1>1, <1>2, <1>7, Zenon DEF ActivationSound, PruneAssertion, Connected, InSection, OnTheWay
  <1>12. \A c \in linked : Worse(seq', c, tip) <=> Worse(seq, c, tip)
    BY <1>6, Zenon DEF ActivationSound, Connected, Worse
  <1>13. Best = tip /\ Best' = tip
    BY <1>2, Zenon DEF Best, InSection
  <1>14. CandidatesFollowBest'
    BY <1>1, <1>2, <1>7, <1>12, <1>13, Zenon DEF CandidatesFollowBest
  <1>15. BestUnlessPending' /\ NothingElse'
    BY <1>1, <1>2, Zenon DEF BestUnlessPending, NothingElse
  <1> QED BY <1>8, <1>9, <1>10, <1>11, <1>14, <1>15, Zenon

\* A block that arrives before a parent's data: it waits.
LEMMA BodyWaits ==
  ASSUME ChainInv, NEW b \in Blocks \ {Genesis}, AcceptBlock(b), b \notin BadBody,
         Parent[b] \notin linked
  PROVE  ChainInv'
  <1> USE DEF ChainInv
  <1>1. /\ haveData' = haveData \cup {b} /\ pending' = TRUE
        /\ unlinked' = IF Parent[b] \in Failed THEN unlinked ELSE unlinked \cup {b}
        /\ UNCHANGED <<linked, candidates, seq, nextSeq, failedValid>>
    BY Zenon DEF AcceptBlock, ReceivedBlockTransactions
  <1>2. /\ b \notin Failed /\ b \notin haveData /\ b \in Ancestors[b] /\ Parent[b] \in Blocks
        /\ Ancestors[b] = {b} \cup Ancestors[Parent[b]]
        /\ known' = known \cup {b} /\ Ancestors[b] \subseteq known'
        /\ ~InSection
        /\ UNCHANGED <<failedChild, failedBlocks, scripts, tip, abc, inv, doomed, archive, forgotten,
                       revSeq, preciousWork>>
    BY AcceptableBlock, AncestorsOfAncestors, Zenon
  <1>3. Failed' = Failed /\ \A c : NoInvalidAncestor(c)' <=> NoInvalidAncestor(c)
    BY <1>1, <1>2, Zenon DEF Failed, NoInvalidAncestor
  <1>4. \E y \in Ancestors[b] : y \notin haveData'
    <2>1. PICK y \in Ancestors[Parent[b]] : y \notin haveData
      BY <1>2, AncestorsOfAncestors, Zenon DEF WaitingSound
    <2>2. b \notin Ancestors[Parent[b]]
      BY <1>2, AncestorIsLower, HeightDef
    <2> QED BY <1>1, <1>2, <2>1, <2>2, Zenon
  <1>5. linked = {c \in haveData' : Ancestors[c] \subseteq haveData'}
    <2>1. ASSUME NEW c \in haveData', Ancestors[c] \subseteq haveData' PROVE c \in linked
      <3>1. c \in Blocks
        BY <1>1, <2>1, Zenon DEF Types
      <3>2. b \notin Ancestors[c]
        BY <1>4, <2>1, <3>1, AncestorsOfAncestors, Zenon
      <3> QED BY <1>1, <2>1, <3>1, <3>2, AncestorsOfAncestors, Zenon DEF WaitingSound
    <2> QED BY <1>1, <2>1, Zenon DEF WaitingSound
  <1>6. b \notin linked
    BY <1>2, Zenon DEF WaitingSound
  <1>7. Types'
    BY <1>1, <1>2, Zenon DEF Types
  <1>8. EntriesSound'
    BY <1>1, <1>2, <1>3, Zenon DEF EntriesSound
  <1>9. WaitingSound'
    <2>1. unlinked' \subseteq haveData' \ linked'
      BY <1>1, <1>6, Zenon DEF WaitingSound
    <2>2. \A c \in haveData' \ linked' : c \in unlinked' \/ Parent[c] \in Failed'
      BY <1>1, <1>3, Zenon DEF WaitingSound
    <2>3. \A c \in Failed' \cap haveData' :
            c \in linked' \/ \E f \in Failed' \cap Ancestors[c] : f \notin haveData'
      BY <1>1, <1>2, <1>3 DEF WaitingSound
    <2> QED BY <1>1, <1>5, <2>1, <2>2, <2>3, Zenon DEF WaitingSound
  <1>10. ActivationSound'
    BY <1>1, <1>2, <1>3, Zenon DEF ActivationSound, PruneAssertion, Connected, InSection, OnTheWay
  <1>11. CandidatesFollowBest'
    BY <1>1, <1>2, <1>3, Zenon DEF CandidatesFollowBest, Best, InSection
  <1>12. BestUnlessPending' /\ NothingElse'
    BY <1>1, <1>2, Zenon DEF BestUnlessPending, NothingElse
  <1> QED BY <1>7, <1>8, <1>9, <1>10, <1>11, <1>12, Zenon

\* A block below another one sorts before it.
LEMMA BelowIsWorse ==
  ASSUME NEW s \in [Blocks -> Int], NEW b \in Blocks, NEW a \in Ancestors[b]
  PROVE  /\ a \in Blocks /\ ~Worse(s, b, a)
         /\ a # b => Worse(s, a, b)
  <1>1. a \in Blocks
    BY AncestorsOfAncestors, Zenon
  <1>2. a # b => Worse(s, a, b)
    BY <1>1, WorkDef, WorseIsOrder, Zenon
  <1> QED BY <1>1, <1>2, WorseIsOrder

\* ActivateBestChain takes its locks and notes the tip.
LEMMA EnterStep ==
  ASSUME ChainInv, ABCEnter \/ ABCRelock
  PROVE  ChainInv'
  <1> USE DEF ChainInv
  <1>1. UNCHANGED <<known, haveData, linked, scripts, unlinked, failedValid, failedChild,
                    failedBlocks, candidates, seq, nextSeq, revSeq, preciousWork, tip, inv,
                    doomed, archive, forgotten>>
    BY Zenon DEF ABCEnter, ABCRelock, treeVars, flagVars, orderVars
  <1>2. EntriesSound' /\ WaitingSound' /\ NothingElse'
    <2>1. NothingElse'
      BY <1>1, Zenon DEF NothingElse
    <2>2. UNCHANGED flagVars
      BY <1>1, Zenon DEF flagVars
    <2> QED BY <1>1, <2>1, <2>2, EntriesUntouched, Zenon
  <1>3. Failed' = Failed /\ \A c : NoInvalidAncestor(c)' <=> NoInvalidAncestor(c)
    BY <1>1, Zenon DEF Failed, NoInvalidAncestor
  <1>4. ~Worse(seq, tip, tip) /\ tip \in Blocks /\ abc \in Activation
    BY WorseIsOrder, Zenon DEF Types
  <1>5. /\ abc'.pc = "find" /\ abc'.start = tip /\ abc'.connected = FALSE
        /\ abc' \in Activation /\ pending' \in BOOLEAN
        /\ abc.pc \in {"idle", "unlocked"}
        /\ \/ abc'.most = NoBlock
           \/ /\ abc.pc = "unlocked" /\ abc.most # NoBlock /\ abc'.most = abc.most
              /\ pending' = pending
    <2>1. CASE ABCEnter
      BY <1>4, <2>1, Zenon DEF ABCEnter, Idle, Activation, MaybeBlock
    <2>2. CASE ABCRelock
      BY <1>4, <2>2, Zenon DEF ABCRelock, Activation, MaybeBlock, Types
    <2> QED BY <2>1, <2>2, Zenon
  <1>6. Types'
    BY <1>1, <1>5, Zenon DEF Types
  <1>7. abc'.most # NoBlock => OnTheWay /\ OnTheWay' /\ ~Worse(seq, abc.most, tip)
    <2>1. abc'.most # NoBlock => OnTheWay /\ OnTheWay'
      BY <1>1, <1>5, Zenon DEF ActivationSound, OnTheWay
    <2>2. abc'.most # NoBlock => abc.most \in Blocks /\ seq \in [Blocks -> Int]
      BY <1>5, Zenon DEF ActivationSound, Types
    <2> QED BY <2>1, <2>2, BelowIsWorse, Zenon DEF OnTheWay
  <1>8. ActivationSound'
    BY <1>1, <1>3, <1>4, <1>5, <1>7, Zenon
    DEF ActivationSound, PruneAssertion, Connected, InSection, Worse
  <1>9. Best = tip /\ Best' = tip
    BY <1>1, <1>4, <1>5, Zenon DEF Best, InSection
  <1>10. CandidatesFollowBest'
    BY <1>1, <1>3, <1>9, Zenon DEF CandidatesFollowBest
  <1>11. BestUnlessPending'
    BY <1>1, <1>3, <1>5 DEF BestUnlessPending, NoneHeavierThan
  <1> QED BY <1>2, <1>6, <1>8, <1>10, <1>11, Zenon

\* ActivateBestChainStep disconnects towards a better chain: until something is
\* connected again the tip is worse than the one the critical section began with.
LEMMA DisconnectStep ==
  ASSUME ChainInv, DisconnectTip
  PROVE  ChainInv' /\ abc' = abc
  <1> USE DEF ChainInv
  <1>1. /\ UNCHANGED <<known, haveData, linked, scripts, unlinked, failedValid, failedChild,
                       failedBlocks, candidates, seq, nextSeq, revSeq, preciousWork, pending, inv,
                       doomed, archive, forgotten>>
        /\ tip' = Parent[tip] /\ abc.pc = "step" /\ tip \notin Ancestors[abc.most]
        /\ abc' = IF Parent[tip] = abc.most THEN AfterStep(abc, Parent[tip]) ELSE abc
    BY Zenon DEF DisconnectTip, treeVars, flagVars, orderVars
  <1>2. /\ tip \in Blocks /\ seq \in [Blocks -> Int] /\ linked \subseteq Blocks
        /\ abc.start \in Blocks /\ abc.most \in linked /\ ~Worse(seq, abc.most, abc.start)
        /\ tip = abc.start \/ Worse(seq, tip, abc.start)
        /\ Connected(tip)
    BY <1>1, Zenon DEF ActivationSound, InSection, OnTheWay, Types
  <1>3. tip # Genesis
    BY <1>1, <1>2, GenesisIsAncestor, Zenon
  <1>4. /\ Parent[tip] \in Blocks /\ Parent[tip] \in Ancestors[tip] /\ Parent[tip] # tip
        /\ Ancestors[Parent[tip]] \subseteq Ancestors[tip]
    <2>1. /\ Parent[tip] \in Blocks /\ Parent[tip] \in Ancestors[tip]
          /\ Ancestors[Parent[tip]] \subseteq Ancestors[tip]
      BY <1>2, <1>3, AncestorsOfBlock, Zenon
    <2> QED BY <1>2, <1>3, <2>1, HeightDef
  <1>5. Worse(seq, Parent[tip], abc.start)
    BY <1>2, <1>4, BelowIsWorse, WorseIsOrder, Zenon
  <1>6. abc' = abc
    BY <1>1, <1>2, <1>5, Zenon
  <1>7. EntriesSound' /\ WaitingSound' /\ NothingElse'
    <2>1. NothingElse'
      BY <1>1, Zenon DEF NothingElse
    <2>2. UNCHANGED flagVars
      BY <1>1, Zenon DEF flagVars
    <2> QED BY <1>1, <2>1, <2>2, EntriesUntouched, Zenon
  <1>8. \A c : NoInvalidAncestor(c)' <=> NoInvalidAncestor(c)
    BY <1>1, Zenon DEF NoInvalidAncestor
  <1>9. Types'
    BY <1>1, <1>4, <1>6, Zenon DEF Types
  <1>10. Parent[tip] \in linked
    BY <1>2, <1>4, AncestorsOfAncestors, Zenon DEF Connected, WaitingSound
  <1>11. ActivationSound'
    <2>1. Connected(tip)'
      BY <1>1, <1>2, <1>4, <1>10, Zenon DEF Connected
    <2>2. Worse(seq, tip, abc.start)' /\ ~Worse(seq, abc.most, abc.start)'
      BY <1>1, <1>2, <1>5, <1>6, Zenon DEF Worse
    <2>3. Connected(abc.start)'
      BY <1>1, <1>6, Zenon DEF ActivationSound, Connected, InSection
    <2> QED BY <1>1, <1>6, <1>8, <2>1, <2>2, <2>3, Zenon DEF ActivationSound, PruneAssertion, InSection
  <1>12. Best = abc.start /\ Best' = abc.start
    BY <1>1, <1>2, <1>5, <1>6, Zenon DEF Best, InSection
  <1>13. CandidatesFollowBest'
    BY <1>1, <1>8, <1>12, Zenon DEF CandidatesFollowBest
  <1>14. BestUnlessPending'
    BY <1>1, <1>6, <1>8, Zenon DEF BestUnlessPending, NoneHeavierThan
  <1> QED BY <1>6, <1>7, <1>9, <1>11, <1>13, <1>14, Zenon

\* A connected block has no ancestor that is marked invalid.
LEMMA ConnectedIsValid ==
  ASSUME ChainInv, NEW b \in Blocks, Connected(b)
  PROVE  NoInvalidAncestor(b)
  BY Zenon DEF ChainInv, Connected, NoInvalidAncestor, EntriesSound, WaitingSound

\* FindMostWorkChain passes over a candidate just when it has an invalid ancestor.
LEMMA UsableIsValid ==
  ASSUME ChainInv, NEW b \in candidates
  PROVE  b \notin Unusable <=> NoInvalidAncestor(b)
  <1> USE DEF ChainInv
  <1>1. b \in Blocks /\ tip \in Blocks
    BY Zenon DEF Types
  <1>2. NoInvalidAncestor(tip)
    BY <1>1, ConnectedIsValid, Zenon DEF ActivationSound
  <1>3. ASSUME b \notin Unusable PROVE NoInvalidAncestor(b)
    <2>1. PathTo(b) \cap Failed = {}
      BY <1>3, Zenon DEF Unusable
    <2> QED BY <1>2, <2>1, Zenon DEF PathTo, ActiveChain, Failed, NoInvalidAncestor
  <1>4. ASSUME b \in Unusable PROVE ~NoInvalidAncestor(b)
    <2>1. PICK d \in Failed : d \in Ancestors[b]
      BY <1>4, Zenon DEF Unusable, PathTo
    <2> QED BY <1>1, <2>1, AncestorsOfAncestors DEF EntriesSound, NoInvalidAncestor
  <1> QED BY <1>3, <1>4, Zenon

\* What it removes with such a candidate is linked and has an invalid ancestor.
LEMMA RemovedIsInvalid ==
  ASSUME ChainInv, NEW b \in Unusable, NEW r \in FailedPart(b)
  PROVE  r \in linked /\ ~NoInvalidAncestor(r)
  <1> USE DEF ChainInv
  <1>1. b \in linked /\ b \in Blocks
    BY Zenon DEF Unusable, CandidatesFollowBest, Types
  <1>2. r \in Ancestors[b] /\ r \in Blocks /\ Ancestors[r] \subseteq Ancestors[b] /\ r \in Ancestors[r]
    BY <1>1, AncestorsOfAncestors, Zenon DEF FailedPart, PathTo
  <1>3. PICK d \in Failed \cap PathTo(b) : TRUE
    BY Zenon DEF Unusable
  <1>4. d \in Ancestors[b] /\ Height[d] <= Height[r]
    BY <1>3, Zenon DEF FailedPart, PathTo
  <1>5. d \in Ancestors[r]
    BY <1>1, <1>2, <1>4, LowerIsAncestor, Zenon
  <1>6. ~NoInvalidAncestor(r)
    BY <1>2, <1>3, <1>5, AncestorsOfAncestors DEF EntriesSound, NoInvalidAncestor
  <1> QED BY <1>1, <1>2, <1>6, Zenon DEF WaitingSound

\* Of the usable candidates, among which is the tip that the critical section began
\* with, FindMostWorkChain returns one that no valid block with all its data beats.
LEMMA MostWorkChain ==
  ASSUME FinitelyMany, ChainInv, abc.pc = "find"
  PROVE  LET usable == candidates \ Unusable IN
         /\ usable # {} /\ BestOf(usable) \in usable
         /\ ~Worse(seq, BestOf(usable), abc.start)
         /\ NoneHeavierThan(BestOf(usable))
         /\ Best = abc.start
  <1> USE DEF ChainInv
  <1> DEFINE usable == candidates \ Unusable
             best == BestOf(usable)
  <1>1. /\ seq \in [Blocks -> Int] /\ candidates \subseteq Blocks /\ linked \subseteq Blocks
        /\ abc.start \in Blocks /\ Connected(abc.start) /\ tip \in Blocks
        /\ tip = abc.start \/ Worse(seq, tip, abc.start)
    BY Zenon DEF Types, ActivationSound, InSection
  <1>2. Best = abc.start
    BY <1>1, Zenon DEF Best, InSection
  <1>3. abc.start \in usable
    <2>1. NoInvalidAncestor(abc.start) /\ ~Worse(seq, abc.start, abc.start)
      BY <1>1, ConnectedIsValid, WorseIsOrder, Zenon
    <2>2. abc.start \in candidates
      BY <1>1, <1>2, <2>1, Zenon DEF CandidatesFollowBest, Connected
    <2> QED BY <2>1, <2>2, UsableIsValid, Zenon
  <1>4. best \in usable /\ \A c \in usable \ {best} : Worse(seq, c, best)
    <2>1. \E c \in usable : \A d \in usable \ {c} : Worse(seq, d, c)
      BY <1>1, <1>3, Zenon DEF FinitelyMany
    <2> HIDE DEF usable
    <2> QED BY <2>1, Zenon DEF BestOf
  <1>5. ~Worse(seq, best, abc.start)
    <2>1. best \in Blocks
      BY <1>1, <1>4, Zenon
    <2> HIDE DEF best, usable
    <2> QED BY <1>1, <1>3, <1>4, <2>1, WorseIsOrder
  <1>6. ASSUME NEW c \in linked, NoInvalidAncestor(c) PROVE Work[c] <= Work[best]
    <2>1. best \in Blocks /\ c \in Blocks
      BY <1>1, <1>4, Zenon
    <2>2. CASE Worse(seq, c, abc.start)
      <3> HIDE DEF best, usable
      <3> QED BY <1>1, <1>3, <1>4, <2>1, <2>2, WorseIsOrder, WorkDef, Zenon
    <2>3. CASE ~Worse(seq, c, abc.start)
      <3>1. c \in usable
        BY <1>2, <1>6, <2>3, UsableIsValid, Zenon DEF CandidatesFollowBest
      <3> HIDE DEF best, usable
      <3> QED BY <1>1, <1>4, <2>1, <3>1, WorseIsOrder, WorkDef
    <2> QED BY <2>2, <2>3, Zenon
  <1> QED BY <1>2, <1>3, <1>4, <1>5, <1>6, Zenon DEF NoneHeavierThan

\* FindMostWorkChain: what ActivateBestChain aims at was chosen in an earlier
\* critical section ...
LEMMA FindAgainStep ==
  ASSUME ChainInv, FindMostWorkChain, abc.most # NoBlock
  PROVE  ChainInv' /\ abc'.pc = "step"
  <1> USE DEF ChainInv
  <1>1. /\ UNCHANGED <<known, haveData, linked, scripts, unlinked, failedValid, failedChild,
                       failedBlocks, candidates, seq, nextSeq, revSeq, preciousWork, tip,
                       pending, inv, doomed, archive, forgotten>>
        /\ abc.pc = "find"
    BY Zenon DEF FindMostWorkChain, treeVars, orderVars
  <1>2. abc \in Activation /\ tip \in Blocks /\ OnTheWay /\ abc.most # tip
    BY <1>1, Zenon DEF Types, ActivationSound, OnTheWay
  <1>3. /\ abc'.pc = "step" /\ abc'.old = tip /\ abc'.most = abc.most /\ abc'.start = abc.start
        /\ abc' \in Activation
    <2>1. [abc EXCEPT !.most = abc.most] = abc
      BY <1>2, Zenon DEF Activation
    <2>2. abc' = [abc EXCEPT !.pc = "step", !.old = tip]
      BY <1>2, <2>1, Zenon DEF FindMostWorkChain
    <2> QED BY <1>2, <2>2, Zenon DEF Activation, MaybeBlock
  <1>4. EntriesSound' /\ WaitingSound' /\ NothingElse'
    <2>1. NothingElse'
      BY <1>1, Zenon DEF NothingElse
    <2>2. UNCHANGED flagVars
      BY <1>1, Zenon DEF flagVars
    <2> QED BY <1>1, <2>1, <2>2, EntriesUntouched, Zenon
  <1>5. \A c : NoInvalidAncestor(c)' <=> NoInvalidAncestor(c)
    BY <1>1, Zenon DEF NoInvalidAncestor
  <1>6. Types'
    BY <1>1, <1>3, Zenon DEF Types
  <1>7. ActivationSound'
    BY <1>1, <1>2, <1>3, <1>5, Zenon
    DEF ActivationSound, PruneAssertion, InSection, Connected, OnTheWay, Worse
  <1>8. CandidatesFollowBest'
    BY <1>1, <1>3, <1>5, Zenon DEF CandidatesFollowBest, Best, InSection
  <1>9. BestUnlessPending'
    BY <1>1, <1>3, <1>5, Zenon DEF BestUnlessPending, NoneHeavierThan
  <1> QED BY <1>3, <1>4, <1>6, <1>7, <1>8, <1>9, Zenon

\* ... or it is chosen now, and the call returns when it is the tip.
LEMMA FindFirstStep ==
  ASSUME FinitelyMany, ChainInv, FindMostWorkChain, abc.most = NoBlock
  PROVE  ChainInv' /\ (abc'.pc = "step" \/ tip = abc.start)
  <1> USE DEF ChainInv
  <1> DEFINE best == BestOf(candidates \ Unusable)
  <1>1. /\ UNCHANGED <<known, haveData, linked, scripts, unlinked, failedValid,
                       failedBlocks, seq, nextSeq, revSeq, preciousWork, tip, pending, inv,
                       doomed, archive, forgotten>>
        /\ abc.pc = "find"
    BY Zenon DEF FindMostWorkChain, treeVars, orderVars
  <1>2. /\ candidates \ Unusable # {} /\ best \in candidates \ Unusable
        /\ ~Worse(seq, best, abc.start) /\ NoneHeavierThan(best) /\ Best = abc.start
    BY <1>1, MostWorkChain, Zenon
  <1>3. PICK tried \in SUBSET Unusable :
          LET removed == UNION {FailedPart(b) : b \in tried} IN
          /\ candidates' = candidates \ removed
          /\ failedChild' = failedChild \cup (removed \ Failed)
    <2> DEFINE bst == IF candidates \ Unusable = {} THEN NoBlock ELSE best
               tried == {b \in Unusable : bst = NoBlock \/ Worse(seq, bst, b)}
    <2>1. tried \in SUBSET Unusable
      BY Zenon
    <2>2. LET removed == UNION {FailedPart(b) : b \in tried} IN
          /\ candidates' = candidates \ removed
          /\ failedChild' = failedChild \cup (removed \ Failed)
      BY Zenon DEF FindMostWorkChain
    <2> HIDE DEF tried
    <2> QED BY <2>1, <2>2, Zenon
  <1> DEFINE removed == UNION {FailedPart(b) : b \in tried}
  <1>4. \A r \in removed : r \in linked /\ ~NoInvalidAncestor(r)
    BY RemovedIsInvalid, Zenon
  <1>5. candidates' = candidates \ removed /\ Failed' = Failed \cup removed
    BY <1>1, <1>3, Zenon DEF Failed
  <1>6. /\ best \in Blocks /\ best \in linked /\ NoInvalidAncestor(best) /\ best # NoBlock
        /\ tip \in Blocks /\ abc.start \in Blocks /\ seq \in [Blocks -> Int] /\ abc \in Activation
        /\ tip = abc.start \/ Worse(seq, tip, abc.start)
        /\ abc.connected => abc.new = tip
    <2>1. best \in candidates /\ NoInvalidAncestor(best)
      BY <1>2, UsableIsValid, Zenon
    <2> HIDE DEF best
    <2> QED BY <1>1, <2>1, TreeAssumption, Zenon DEF CandidatesFollowBest, Types, ActivationSound, InSection
  <1>7. abc' = IF best = tip THEN Unlock([abc EXCEPT !.most = best])
               ELSE [[abc EXCEPT !.most = best] EXCEPT !.pc = "step", !.old = tip]
    <2> DEFINE found == [abc EXCEPT !.most = best]
    <2>1. found.most = best
      BY <1>6, Zenon DEF Activation
    <2>2. abc' = IF found.most \in {NoBlock, tip} THEN Unlock(found)
                 ELSE [found EXCEPT !.pc = "step", !.old = tip]
      BY <1>2, Zenon DEF FindMostWorkChain
    <2> HIDE DEF found
    <2>3. abc' = IF best = tip THEN Unlock(found) ELSE [found EXCEPT !.pc = "step", !.old = tip]
      BY <1>6, <2>1, <2>2, Zenon
    <2> QED BY <2>3, Zenon DEF found
  <1> HIDE DEF removed, best
  <1>8. /\ abc' \in Activation
        /\ \/ best = tip /\ tip = abc.start /\ abc' = Idle
           \/ /\ best # tip /\ abc'.pc = "step" /\ abc'.most = best /\ abc'.old = tip
              /\ abc'.start = abc.start
    <2>1. CASE best = tip
      <3>1. abc' = Idle
        BY <1>6, <1>7, <2>1, Zenon DEF Unlock, Activation
      <3> QED BY <1>2, <1>6, <2>1, <3>1, Zenon DEF Idle, Activation, MaybeBlock
    <2>2. CASE best # tip
      BY <1>6, <1>7, <2>2, Zenon DEF Activation, MaybeBlock
    <2> QED BY <2>1, <2>2, Zenon
  <1>9. \A c : NoInvalidAncestor(c)' <=> NoInvalidAncestor(c)
    BY <1>1, Zenon DEF NoInvalidAncestor
  <1>10. Types'
    BY <1>1, <1>3, <1>4, <1>5, <1>8, Zenon DEF Types, removed
  <1>11. EntriesSound'
    BY <1>1, <1>4, <1>5, <1>9, Zenon DEF EntriesSound, WaitingSound
  <1>12. WaitingSound'
    BY <1>1, <1>4, <1>5, Zenon DEF WaitingSound
  <1>13. Best' = abc.start
    BY <1>1, <1>2, <1>6, <1>8 DEF Best, InSection, Idle
  <1>14. CandidatesFollowBest'
    BY <1>1, <1>2, <1>4, <1>5, <1>9, <1>13, Zenon DEF CandidatesFollowBest
  <1>15. ActivationSound'
    <2>1. Connected(tip)' /\ Connected(abc.start)
      BY <1>1, Zenon DEF ActivationSound, Connected, InSection
    <2>2. CASE abc' = Idle
      BY <2>1, <2>2, Zenon DEF ActivationSound, PruneAssertion, InSection, Idle
    <2>3. CASE /\ abc'.pc = "step" /\ abc'.most = best /\ abc'.old = tip
               /\ abc'.start = abc.start
      <3>1. Connected(abc.start)' /\ ~Worse(seq, abc.most, abc.start)'
        BY <1>1, <1>2, <2>1, <2>3, Zenon DEF Connected, Worse
      <3>2. (tip = abc.start \/ Worse(seq, tip, abc.start))'
        BY <1>1, <1>6, <2>3, Zenon DEF Worse
      <3> QED BY <1>1, <1>6, <1>9, <2>1, <2>3, <3>1, <3>2, Zenon
              DEF ActivationSound, PruneAssertion, InSection
    <2> QED BY <1>8, <2>2, <2>3, Zenon
  <1>16. BestUnlessPending' /\ NothingElse'
    BY <1>1, <1>2, <1>8, <1>9 DEF BestUnlessPending, NoneHeavierThan, NothingElse, Idle
  <1> QED BY <1>8, <1>10, <1>11, <1>12, <1>14, <1>15, <1>16, Zenon

\* The block that ActivateBestChainStep connects next lies between the tip and
\* pindexMostWork, which is a candidate.
LEMMA NextToConnect ==
  ASSUME ChainInv, NEW b \in Blocks \ {Genesis}, ToConnect(b)
  PROVE  /\ abc.pc = "step" /\ abc.most \in linked /\ abc.most \in Blocks /\ abc.start \in Blocks
         /\ b \in Ancestors[abc.most] /\ b \in linked /\ Ancestors[b] = {b} \cup Ancestors[tip]
         /\ Worse(seq, tip, b) /\ ~Worse(seq, abc.most, b) /\ ~Worse(seq, abc.most, abc.start)
         /\ abc.most \in candidates
         /\ tip \in Blocks /\ abc \in Activation /\ seq \in [Blocks -> Int]
  <1> USE DEF ChainInv
  <1>1. abc.pc = "step" /\ b \in Ancestors[abc.most] /\ Parent[b] = tip
    BY Zenon DEF ToConnect
  <1>2. /\ abc.most \in linked /\ abc.most \in Blocks /\ NoInvalidAncestor(abc.most)
        /\ abc.start \in Blocks /\ ~Worse(seq, abc.most, abc.start)
        /\ tip \in Blocks /\ abc \in Activation /\ seq \in [Blocks -> Int]
    BY <1>1, Zenon DEF ActivationSound, InSection, Types
  <1>3. Ancestors[b] = {b} \cup Ancestors[tip] /\ tip \in Ancestors[b] /\ tip # b
    BY <1>1, AncestorsOfBlock, HeightDef
  <1>4. b \in linked
    BY <1>1, <1>2, AncestorsOfAncestors, Zenon DEF WaitingSound
  <1>5. Worse(seq, tip, b) /\ ~Worse(seq, abc.most, b)
    BY <1>1, <1>2, <1>3, BelowIsWorse, Zenon
  <1>6. abc.most \in candidates
    <2>1. tip \in Ancestors[abc.most]
      BY <1>1, <1>2, <1>3, AncestorsOfAncestors, Zenon
    <2>2. ~Worse(seq, abc.most, tip)
      BY <1>2, <2>1, BelowIsWorse, Zenon
    <2>3. ~Worse(seq, abc.most, Best)
      BY <1>2, <2>2, Zenon DEF Best
    <2> QED BY <1>2, <2>3, Zenon DEF CandidatesFollowBest
  <1> QED BY <1>1, <1>2, <1>3, <1>4, <1>5, <1>6, Zenon

\* ConnectTip of a valid block: pindexMostWork stays in the pruned candidates, and
\* cs_main is given up only for a tip that is not worse than the first one.
LEMMA ConnectStep ==
  ASSUME ChainInv, NEW b \in Blocks \ {Genesis}, ConnectTip(b)
  PROVE  ChainInv' /\ (InSection' \/ ~Worse(seq, tip', abc.start))
  <1> USE DEF ChainInv
  <1>1. /\ UNCHANGED <<known, haveData, linked, unlinked, failedValid, failedChild, failedBlocks,
                       seq, nextSeq, revSeq, preciousWork, pending, inv, doomed, archive, forgotten>>
        /\ tip' = b /\ b \notin BadConnect /\ scripts' = scripts \cup ({b} \ Failed)
        /\ candidates' = {c \in candidates : ~Worse(seq, c, b)}
    BY Zenon DEF ConnectTip, flagVars, orderVars, PruneBlockIndexCandidates
  <1>2. /\ abc.pc = "step" /\ abc.most \in linked /\ abc.most \in Blocks /\ abc.start \in Blocks
        /\ b \in Ancestors[abc.most] /\ b \in linked /\ Ancestors[b] = {b} \cup Ancestors[tip]
        /\ Worse(seq, tip, b) /\ ~Worse(seq, abc.most, b) /\ ~Worse(seq, abc.most, abc.start)
        /\ abc.most \in candidates
        /\ tip \in Blocks /\ abc \in Activation /\ seq \in [Blocks -> Int]
    BY NextToConnect, Zenon DEF ConnectTip
  <1>3. abc.most # NoBlock /\ abc.most \in candidates'
    BY <1>1, <1>2, TreeAssumption, Zenon
  <1>4. /\ abc' \in Activation
        /\ \/ b # abc.most /\ abc' = abc
           \/ /\ Worse(seq, b, abc.start) /\ b # abc.most
              /\ abc'.pc = "find" /\ abc'.most = abc.most /\ abc'.start = abc.start
              /\ abc'.new = b
           \/ /\ ~Worse(seq, b, abc.start) /\ b # abc.most
              /\ abc'.pc = "unlocked" /\ abc'.most = abc.most
           \/ ~Worse(seq, b, abc.start) /\ b = abc.most /\ abc' = Idle
    <2>1. CASE Work[b] > Work[abc.old] \/ b = abc.most
      <3> DEFINE a == [abc EXCEPT !.new = b, !.connected = TRUE, !.old = NoBlock, !.pc = "find"]
      <3>1. abc' = IF Worse(seq, b, abc.start) THEN a ELSE Unlock(a)
        BY <1>3, <2>1, Zenon DEF ConnectTip, AfterStep
      <3>2. /\ a \in Activation /\ a.pc = "find" /\ a.most = abc.most /\ a.start = abc.start
            /\ a.new = b /\ a.connected = TRUE
        BY <1>2, Zenon DEF Activation, MaybeBlock
      <3> HIDE DEF a
      <3>3. CASE Worse(seq, b, abc.start)
        BY <1>2, <3>1, <3>2, <3>3, Zenon
      <3>4. CASE ~Worse(seq, b, abc.start) /\ b # abc.most
        BY <1>2, <3>1, <3>2, <3>4, Zenon DEF Unlock, Idle, Activation, MaybeBlock
      <3>5. CASE ~Worse(seq, b, abc.start) /\ b = abc.most
        BY <1>2, <3>1, <3>2, <3>5, Zenon DEF Unlock, Idle, Activation, MaybeBlock
      <3> QED BY <3>3, <3>4, <3>5, Zenon
    <2>2. CASE ~(Work[b] > Work[abc.old] \/ b = abc.most)
      BY <1>2, <1>3, <2>2, Zenon DEF ConnectTip
    <2> QED BY <2>1, <2>2, Zenon
  <1>5. \A c : NoInvalidAncestor(c)' <=> NoInvalidAncestor(c)
    BY <1>1, Zenon DEF NoInvalidAncestor
  <1>6. EntriesSound' /\ WaitingSound' /\ NothingElse'
    <2>1. NothingElse'
      BY <1>1, Zenon DEF NothingElse
    <2>2. UNCHANGED flagVars
      BY <1>1, Zenon DEF flagVars
    <2> QED BY <1>1, <2>1, <2>2, EntriesUntouched, Zenon
  <1>7. Types'
    BY <1>1, <1>4, Zenon DEF Types
  <1>8. Connected(b)' /\ Connected(abc.start)
    BY <1>1, <1>2, Zenon DEF ActivationSound, Connected, InSection
  <1>9. Best' = IF Worse(seq, b, abc.start) THEN abc.start ELSE b
    <2>1. Worse(seq, b, abc.start) => InSection'
      BY <1>2, <1>4, Zenon DEF InSection
    <2>2. InSection' => abc'.start = abc.start
      <3>1. Idle.pc = "idle"
        BY Zenon DEF Idle
      <3>2. abc'.pc \in {"idle", "unlocked"} \/ abc'.start = abc.start
        BY <1>4, <3>1, Zenon
      <3> QED BY <3>2, Zenon DEF InSection
    <2> QED BY <1>1, <2>1, <2>2, Zenon DEF Best
  <1>10. CandidatesFollowBest'
    <2>1. Best \in Blocks /\ Best' \in Blocks
      BY <1>2, <1>9, Zenon DEF Best
    <2>2. ASSUME NEW c \in linked
          PROVE  ~Worse(seq, c, Best') <=> ~Worse(seq, c, Best) /\ ~Worse(seq, c, b)
      <3>1. c \in Blocks
        BY Zenon DEF Types
      <3>2. CASE Worse(seq, b, abc.start)
        <4>1. Best = abc.start /\ Best' = abc.start
          BY <1>2, <1>9, <3>2, WorseIsOrder, Zenon DEF Best, InSection
        <4> QED BY <1>2, <3>1, <3>2, <4>1, WorseIsOrder, Zenon
      <3>3. CASE ~Worse(seq, b, abc.start)
        <4>1. Best' = b /\ (Best = b \/ Worse(seq, Best, b))
          BY <1>2, <1>9, <3>3, WorseIsOrder, Zenon DEF Best
        <4> QED BY <1>2, <2>1, <3>1, <4>1, WorseIsOrder, Zenon
      <3> QED BY <3>2, <3>3, Zenon
    <2> QED BY <1>1, <1>5, <2>2, Zenon DEF CandidatesFollowBest
  <1>11. ActivationSound'
    <2>1. abc'.most # NoBlock => abc'.most = abc.most
      BY <1>4 DEF Idle
    <2>2. NoInvalidAncestor(abc.most)
      BY <1>3, Zenon DEF ActivationSound
    <2>3. b # abc.most => (abc'.most = abc.most => OnTheWay')
      BY <1>1, <1>2, Zenon DEF OnTheWay
    <2>4. InSection' => abc'.start = abc.start /\ abc'.most = abc.most
      BY <1>4 DEF InSection, Idle
    <2>5. PruneAssertion'
      BY <1>2, <1>4 DEF PruneAssertion, Idle
    <2>6. InSection' => Connected(abc.start)' /\ ~Worse(seq, abc.most, abc.start)'
      BY <1>1, <1>2, <1>8, <2>4, Zenon DEF Connected, Worse
    <2>7. abc'.pc = "find" => Worse(seq, tip, abc.start)' /\ abc'.new = tip' /\ OnTheWay'
      <3> SUFFICES ASSUME abc'.pc = "find"
                   PROVE  Worse(seq, tip, abc.start)' /\ abc'.new = tip' /\ OnTheWay'
        BY Zenon
      <3>1. /\ Worse(seq, b, abc.start) /\ b # abc.most
            /\ abc'.most = abc.most /\ abc'.start = abc.start /\ abc'.new = b
        BY <1>2, <1>4 DEF Idle
      <3>2. Worse(seq, tip, abc.start)' /\ abc'.new = tip'
        BY <1>1, <3>1, Zenon DEF Worse
      <3> QED BY <2>3, <3>1, <3>2, Zenon
    <2>8. abc'.pc = "step" => abc' = abc /\ OnTheWay'
      BY <1>4, <2>3 DEF Idle
    <2>9. abc'.pc = "idle" => abc' = Idle
      BY <1>2, <1>4, Zenon
    <2>10. abc'.pc = "unlocked" => OnTheWay'
      BY <1>2, <1>4, <2>3 DEF Idle
    <2>11. abc.old \in Blocks
      BY <1>2, Zenon DEF ActivationSound
    <2> QED BY <1>1, <1>2, <1>3, <1>5, <1>8, <2>1, <2>2, <2>4, <2>5, <2>6, <2>7, <2>8, <2>9,
               <2>10, <2>11, Zenon DEF ActivationSound
  <1>12. BestUnlessPending'
    BY <1>1, <1>2, <1>3, <1>4, <1>5 DEF BestUnlessPending, NoneHeavierThan, Idle
  <1> QED BY <1>1, <1>2, <1>4, <1>6, <1>7, <1>10, <1>11, <1>12, Zenon DEF InSection

\* ConnectTip of an invalid block: pindexMostWork is wiped, and the next one is
\* looked for in the same critical section while the tip is worse than the first.
LEMMA FailStep ==
  ASSUME ChainInv, NEW b \in Blocks \ {Genesis}, ConnectTipFails(b)
  PROVE  ChainInv' /\ (InSection' \/ ~Worse(seq, tip', abc.start))
  <1> USE DEF ChainInv
  <1>1. /\ UNCHANGED <<known, haveData, linked, scripts, unlinked, failedChild, seq, nextSeq, revSeq,
                       preciousWork, tip, pending, inv, doomed, archive, forgotten>>
        /\ b \in BadConnect /\ failedValid' = failedValid \cup {b}
        /\ failedBlocks' = failedBlocks \cup {b} /\ candidates' = candidates \ {b}
    BY Zenon DEF ConnectTipFails, treeVars, orderVars
  <1>2. /\ abc.pc = "step" /\ abc.start \in Blocks /\ b \in linked /\ tip \in Blocks
        /\ abc \in Activation /\ b \in Ancestors[b]
    BY NextToConnect, AncestorsOfAncestors, Zenon DEF ConnectTipFails
  <1>3. /\ abc' \in Activation /\ abc'.most = NoBlock
        /\ \/ /\ Worse(seq, tip, abc.start) /\ abc'.pc = "find" /\ abc'.start = abc.start
              /\ abc'.new = tip
           \/ ~Worse(seq, tip, abc.start) /\ abc'.pc = "unlocked"
    <2> DEFINE m == [abc EXCEPT !.most = NoBlock]
               a == [m EXCEPT !.new = tip, !.connected = TRUE, !.old = NoBlock, !.pc = "find"]
    <2>1. m \in Activation /\ m.start = abc.start /\ m.most = NoBlock
      BY <1>2, Zenon DEF Activation, MaybeBlock
    <2>2. abc' = IF Worse(seq, tip, m.start) THEN a ELSE Unlock(a)
      BY Zenon DEF ConnectTipFails, AfterStep
    <2> HIDE DEF m
    <2>3. /\ a \in Activation /\ a.pc = "find" /\ a.most = NoBlock /\ a.start = abc.start
          /\ a.new = tip /\ a.connected = TRUE
      BY <1>2, <2>1, Zenon DEF Activation, MaybeBlock
    <2> HIDE DEF a
    <2>4. tip # NoBlock
      BY <1>2, TreeAssumption, Zenon
    <2>5. CASE Worse(seq, tip, abc.start)
      BY <2>1, <2>2, <2>3, <2>5, Zenon
    <2>6. CASE ~Worse(seq, tip, abc.start)
      BY <1>2, <2>1, <2>2, <2>3, <2>4, <2>6, Zenon DEF Unlock, Idle, Activation, MaybeBlock
    <2> QED BY <2>5, <2>6, Zenon
  <1>4. Failed' = Failed \cup {b} /\ \A c : NoInvalidAncestor(c)' => NoInvalidAncestor(c)
    BY <1>1, Zenon DEF Failed, NoInvalidAncestor
  <1>5. ~NoInvalidAncestor(b)'
    BY <1>1, <1>2, Zenon DEF NoInvalidAncestor
  <1>6. Types' /\ NothingElse'
    BY <1>1, <1>3, Zenon DEF Types, NothingElse
  <1>7. EntriesSound'
    BY <1>1, <1>2, <1>4, <1>5, Zenon DEF EntriesSound, WaitingSound
  <1>8. WaitingSound'
    BY <1>1, <1>2, <1>4, Zenon DEF WaitingSound
  <1>9. Best' = Best
    BY <1>1, <1>2, <1>3, Zenon DEF Best, InSection
  <1>10. CandidatesFollowBest'
    BY <1>1, <1>4, <1>5, <1>9, Zenon DEF CandidatesFollowBest
  <1>11. ActivationSound'
    <2>1. Connected(tip)' /\ Connected(abc.start)
      BY <1>1, <1>2, Zenon DEF ActivationSound, Connected, InSection
    <2>2. abc'.pc = "find" => Worse(seq, tip, abc.start)' /\ Connected(abc.start)'
      BY <1>1, <1>3, <2>1, Zenon DEF Connected, Worse
    <2> QED BY <1>1, <1>2, <1>3, <2>1, <2>2, Zenon DEF ActivationSound, PruneAssertion, InSection
  <1>12. BestUnlessPending'
    BY <1>3, Zenon DEF BestUnlessPending
  <1> QED BY <1>1, <1>3, <1>6, <1>7, <1>8, <1>10, <1>11, <1>12, Zenon DEF InSection

\* LoadBlockIndex: a restart finds every entry in the database, marks what descends
\* from a failed block, and links and chooses candidates anew.
LEMMA RestartStep ==
  ASSUME ChainInv, Restart
  PROVE  ChainInv'
  <1> USE DEF ChainInv
  <1> DEFINE failed == {b \in known : Ancestors[b] \cap Failed # {}}
  <1>1. /\ known' = known /\ haveData' = haveData /\ failedValid' = failedValid
        /\ linked' = linked /\ unlinked' = haveData \ linked
        /\ failedChild' = failedChild \cup (failed \ failedValid)
        /\ scripts' \subseteq known
        /\ candidates' = {c \in linked \ failed : ~Worse(seq', c, tip)}
    <2>1. /\ archive = {} /\ haveData \subseteq known /\ failedValid \subseteq known
          /\ failedChild \subseteq known
          /\ linked = {b \in haveData : Ancestors[b] \subseteq haveData}
      BY Zenon DEF NothingElse, EntriesSound, WaitingSound, Failed
    <2> DEFINE entries == {Status(b) : b \in known} \cup {e \in archive : e.block \notin known}
               all == {e.block : e \in {f \in entries : TRUE}}
               data == {e.block : e \in {f \in entries : f.data}}
               valid == {e.block : e \in {f \in entries : f.failedValid}}
               child == {e.block : e \in {f \in entries : f.failedChild}}
               ran == {e.block : e \in {f \in entries : f.scripts}}
    <2>2. entries = {Status(b) : b \in known}
      BY <2>1, Zenon
    <2>3. \A b \in known : /\ Status(b).block = b /\ Status(b).data = (b \in haveData)
                           /\ Status(b).failedValid = (b \in failedValid)
                           /\ Status(b).failedChild = (b \in failedChild)
                           /\ Status(b).scripts = (b \in scripts)
      BY Zenon DEF Status
    <2>4. /\ known' = all /\ haveData' = data /\ failedValid' = valid /\ scripts' = ran
          /\ linked' = {b \in data : Ancestors[b] \subseteq data}
          /\ unlinked' = data \ {b \in data : Ancestors[b] \subseteq data}
          /\ failedChild' = child \cup ({b \in all : Ancestors[b] \cap (valid \cup child) # {}} \ valid)
          /\ candidates' = PruneBlockIndexCandidates(
                             {b \in data : Ancestors[b] \subseteq data}
                               \ {b \in all : Ancestors[b] \cap (valid \cup child) # {}}, seq', tip)
      BY Zenon DEF Restart
    <2> HIDE DEF entries
    <2>5. all = known /\ ran \subseteq known
      BY <2>2, <2>3
    <2>6. data = haveData
      <3>1. {f \in entries : f.data} = {Status(b) : b \in haveData}
        BY <2>1, <2>2, <2>3, Zenon
      <3> QED BY <2>1, <2>3, <3>1
    <2>7. valid = failedValid
      <3>1. {f \in entries : f.failedValid} = {Status(b) : b \in failedValid}
        BY <2>1, <2>2, <2>3, Zenon
      <3> QED BY <2>1, <2>3, <3>1
    <2>8. child = failedChild
      <3>1. {f \in entries : f.failedChild} = {Status(b) : b \in failedChild}
        BY <2>1, <2>2, <2>3, Zenon
      <3> QED BY <2>1, <2>3, <3>1
    <2> HIDE DEF all, data, valid, child, ran
    <2> QED BY <2>1, <2>4, <2>5, <2>6, <2>7, <2>8, Zenon DEF Failed, PruneBlockIndexCandidates
  <1>2. /\ failedBlocks' = {} /\ seq' = [b \in Blocks |-> 0] /\ nextSeq' = 1 /\ revSeq' = -1
        /\ preciousWork' = 0 /\ pending' = TRUE /\ archive' = {} /\ forgotten' = {}
        /\ abc' = (IF candidates' = {} THEN Aborted ELSE Idle) /\ UNCHANGED <<tip, inv, doomed>>
    BY Zenon DEF Restart
  <1>3. Failed' = Failed \cup failed /\ \A c : NoInvalidAncestor(c)' <=> NoInvalidAncestor(c)
    BY <1>1, Zenon DEF Failed, NoInvalidAncestor
  <1>4. \A c \in failed : ~NoInvalidAncestor(c)
    <2>1. ASSUME NEW c \in failed PROVE ~NoInvalidAncestor(c)
      <3>1. c \in Blocks
        BY Zenon DEF Types
      <3>2. PICK d \in Ancestors[c] : d \in Failed
        BY Zenon
      <3> QED BY <3>1, <3>2, AncestorsOfAncestors DEF EntriesSound, NoInvalidAncestor
    <2> QED BY <2>1, Zenon
  <1>5. tip \in candidates'
    <2>1. tip \in linked /\ tip \in Blocks /\ NoInvalidAncestor(tip)
      BY ConnectedIsValid, Zenon DEF ActivationSound, Connected, Types
    <2>2. seq' \in [Blocks -> Int]
      BY <1>2
    <2>3. ~Worse(seq', tip, tip)
      BY <2>1, <2>2, WorseIsOrder, Zenon
    <2> QED BY <1>1, <1>4, <2>1, <2>3, Zenon
  <1>6. abc' = Idle
    BY <1>2, <1>5, Zenon
  <1>7. Types' /\ NothingElse'
    <2>1. abc' \in Activation
      BY <1>6, Zenon DEF Idle, Activation, MaybeBlock
    <2>2. seq' \in [Blocks -> Int] /\ revSeq' \in Int
      BY <1>2
    <2>3. candidates' \subseteq Blocks /\ failedChild' \subseteq Blocks /\ scripts' \subseteq Blocks
      BY <1>1, Zenon DEF Types
    <2> QED BY <1>1, <1>2, <2>1, <2>2, <2>3, Zenon DEF Types, NothingElse
  <1>8. EntriesSound'
    BY <1>1, <1>2, <1>3, <1>4, Zenon DEF EntriesSound
  <1>9. ASSUME NEW c \in Failed' \cap haveData, c \notin linked
        PROVE  \E f \in Failed' \cap Ancestors[c] : f \notin haveData
    <2>1. c \in Blocks /\ c \in known /\ Ancestors[c] \subseteq known /\ c \in Ancestors[c]
      BY AncestorsOfAncestors, Zenon DEF EntriesSound, Types
    <2>2. PICK d \in Ancestors[c] : d \in Failed
      BY <1>3, <2>1, Zenon
    <2>3. PICK y \in Ancestors[c] : y \notin haveData
      BY <1>9, Zenon DEF WaitingSound
    <2>4. CASE d \in Ancestors[y]
      BY <1>3, <2>1, <2>2, <2>3, <2>4, Zenon
    <2>5. CASE y \in Ancestors[d] /\ d \in haveData
      <3>1. d \notin linked
        BY <2>3, <2>5, Zenon DEF WaitingSound
      <3>2. PICK f \in Failed \cap Ancestors[d] : f \notin haveData
        BY <2>2, <2>5, <3>1, Zenon DEF WaitingSound
      <3> QED BY <1>3, <2>1, <2>2, <3>2, AncestorsOfAncestors, Zenon
    <2>6. CASE d \notin haveData
      BY <1>3, <2>2, <2>6, Zenon
    <2> QED BY <2>1, <2>2, <2>3, <2>4, <2>5, <2>6, AncestorsAreChain, Zenon
  <1>10. WaitingSound'
    BY <1>1, <1>9, Zenon DEF WaitingSound
  <1>11. CandidatesFollowBest'
    <2>1. Best' = tip
      BY <1>2, <1>6 DEF Best, InSection, Idle
    <2> QED BY <1>1, <1>3, <1>4, <2>1, Zenon DEF CandidatesFollowBest
  <1>12. ActivationSound'
    <2>1. Connected(tip)'
      BY <1>1, <1>2, Zenon DEF ActivationSound, Connected
    <2>2. abc'.pc = "idle" /\ abc'.most = NoBlock
      BY <1>6, Zenon DEF Idle
    <2> QED BY <1>6, <2>1, <2>2, Zenon DEF ActivationSound, PruneAssertion, InSection
  <1>13. BestUnlessPending'
    BY <1>2, Zenon DEF BestUnlessPending
  <1> QED BY <1>7, <1>8, <1>10, <1>11, <1>12, <1>13, Zenon

\* The node starts with the genesis block connected.
LEMMA InitChain == Init => ChainInv
  <1> SUFFICES ASSUME Init PROVE ChainInv
    BY Zenon
  <1> USE DEF Init
  <1>1. /\ Genesis \in Blocks /\ Genesis \notin BadBody /\ Genesis \notin BadConnect
        /\ Ancestors[Genesis] = {Genesis}
    BY TreeAssumption, ParametersAssumption, AncestorsOfBlock, Zenon
  <1>2. seq \in [Blocks -> Int] /\ ~Worse(seq, Genesis, Genesis)
    <2>1. seq \in [Blocks -> Int]
      OBVIOUS
    <2> QED BY <1>1, <2>1, WorseIsOrder, Zenon
  <1>3. Failed = {} /\ abc.pc = "idle" /\ abc.most = NoBlock /\ Best = Genesis
    BY Zenon DEF Failed, Best, InSection, Idle
  <1>4. Types
    <2>1. abc \in Activation /\ inv \in [pc : {"none", "walk", "mark"}, target : MaybeBlock, mark : MaybeBlock]
      BY Zenon DEF Idle, NotInvalidating, Activation, MaybeBlock
    <2>2. known \subseteq Blocks /\ candidates \subseteq Blocks /\ scripts \subseteq Blocks
      BY <1>1, Zenon
    <2>3. -1 \in Int
      OBVIOUS
    <2> QED BY <1>1, <1>2, <2>1, <2>2, <2>3, Zenon DEF Types
  <1>5. NothingElse /\ EntriesSound /\ WaitingSound
    BY <1>1, <1>3, Zenon DEF NothingElse, EntriesSound, WaitingSound, NoInvalidAncestor
  <1>6. ActivationSound
    BY <1>1, <1>3, Zenon DEF ActivationSound, PruneAssertion, Connected, InSection
  <1>7. CandidatesFollowBest
    BY <1>2, <1>3, Zenon DEF CandidatesFollowBest
  <1>8. BestUnlessPending
    BY <1>1, <1>3, WorkDef, Zenon DEF BestUnlessPending, NoneHeavierThan
  <1> QED BY <1>4, <1>5, <1>6, <1>7, <1>8, Zenon DEF ChainInv

\* Every step of an undisturbed node keeps the invariant; one that gives cs_main up
\* leaves a tip that is not worse than the one cs_main was taken with.
LEMMA NextChain ==
  ASSUME Undisturbed, FinitelyMany, ChainInv, [Next]_vars
  PROVE  /\ ChainInv'
         /\ InSection => InSection' \/ ~Worse(seq, tip', abc.start)
  <1>1. CASE UNCHANGED vars
    <2>1. UNCHANGED <<known, haveData, linked, scripts, unlinked, failedValid, failedChild,
                      failedBlocks, candidates, seq, nextSeq, revSeq, preciousWork, tip, pending,
                      abc, inv, doomed, archive, forgotten>>
      BY <1>1, Zenon DEF vars, treeVars, flagVars, orderVars
    <2>2. UNCHANGED flagVars
      BY <2>1, Zenon DEF flagVars
    <2>3. Types' /\ NothingElse'
      BY <2>1, Zenon DEF ChainInv, Types, NothingElse
    <2>4. InSection' = InSection
      BY <2>1, Zenon DEF InSection
    <2> QED BY <2>1, <2>2, <2>3, <2>4, ActivationUntouched, EntriesUntouched, Zenon DEF ChainInv
  <1>2. CASE \E b \in Blocks \ {Genesis} : AcceptBlockHeader(b) \/ AcceptBlock(b)
    <2>1. PICK b \in Blocks \ {Genesis} : AcceptBlockHeader(b) \/ AcceptBlock(b)
      BY <1>2, Zenon
    <2>2. ~InSection
      BY <2>1, Zenon DEF AcceptBlockHeader, AcceptBlock, csMainFree, InSection
    <2> QED BY <2>1, <2>2, HeaderStep, BodyRejected, BodyLinked, BodyWaits, Zenon
  <1>3. CASE \E b \in Blocks \ {Genesis} : ConnectTip(b) \/ ConnectTipFails(b)
    BY <1>3, ConnectStep, FailStep, Zenon
  <1>4. CASE ABCEnter \/ ABCRelock
    BY <1>4, EnterStep, Zenon DEF ABCEnter, ABCRelock, InSection
  <1>5. CASE FindMostWorkChain
    <2>1. ChainInv' /\ (abc'.pc = "step" \/ tip = abc.start)
      BY <1>5, FindAgainStep, FindFirstStep, Zenon
    <2>2. tip' = tip /\ ~Worse(seq, tip, tip)
      BY <1>5, WorseIsOrder, Zenon DEF FindMostWorkChain, ChainInv, Types
    <2> QED BY <2>1, <2>2, Zenon DEF InSection
  <1>6. CASE DisconnectTip
    BY <1>6, DisconnectStep, Zenon DEF InSection
  <1>7. CASE Restart
    BY <1>7, RestartStep, Zenon DEF Restart, csMainFree, InSection
  <1>8. ASSUME NEW b \in Targets PROVE ~(PreciousBlock(b) \/ InvalidateBlock(b) \/ ResetBlockFailureFlags(b))
    BY Zenon DEF Undisturbed, PreciousBlock, InvalidateBlock, ResetBlockFailureFlags
  <1>9. ~(InvalidateWalk \/ InvalidateLeave \/ InvalidateFinish \/ CleanSelect \/ CleanErase)
    <2>1. inv.pc = "none" /\ doomed = {}
      BY Zenon DEF ChainInv, NothingElse, NotInvalidating
    <2> QED BY <2>1, Zenon DEF Undisturbed, InvalidateWalk, InvalidateLeave, InvalidateFinish,
            CleanSelect, CleanErase
  <1> QED BY <1>1, <1>2, <1>3, <1>4, <1>5, <1>6, <1>7, <1>8, <1>9, Zenon DEF Next

-----------------------------------------------------------------------------
(***************************************************************************)
(* The blocks are finitely many                                            *)
(***************************************************************************)

LOCAL F == INSTANCE FiniteSetTheorems

LEMMA CardinalityOfBlockSets ==
  ASSUME NEW S \in SUBSET Blocks
  PROVE  /\ IsFiniteSet(S) /\ Cardinality(S) \in Nat
         /\ \A x \in S : Cardinality(S \ {x}) = Cardinality(S) - 1
  <1>1. \A T : IsFiniteSet(T) <=> F!IsFiniteSet(T)
    BY Zenon DEF IsFiniteSet, F!IsFiniteSet
  <1>2. \A T : Cardinality(T) = F!Cardinality(T)
    BY Zenon DEF Cardinality, F!Cardinality
  <1>3. F!IsFiniteSet(S)
    BY <1>1, TreeAssumption, F!FS_Subset, Zenon
  <1>4. F!Cardinality(S) \in Nat
    BY <1>3, F!FS_CardinalityType, Zenon
  <1>5. \A x \in S : F!Cardinality(S \ {x}) = F!Cardinality(S) - 1
    BY <1>3, F!FS_RemoveElement, Zenon
  <1> QED BY <1>1, <1>2, <1>3, <1>4, <1>5, Zenon

\* A transitive relation that holds one way or the other between any two blocks
OrdersBlocks(R) ==
  /\ \A a, b \in Blocks : a # b => <<a, b>> \in R \/ <<b, a>> \in R
  /\ \A a, b, c \in Blocks : <<a, b>> \in R /\ <<b, c>> \in R => <<a, c>> \in R

\* It has a last block in every set of blocks that is not empty.
LEMMA LastExists ==
  ASSUME NEW R, OrdersBlocks(R), NEW set \in SUBSET Blocks, set # {}
  PROVE  \E b \in set : \A c \in set \ {b} : <<c, b>> \in R
  <1> DEFINE HasLast(S) == \E b \in S : \A c \in S \ {b} : <<c, b>> \in R
             Wrong == {n \in Nat : \E S \in SUBSET Blocks :
                         S # {} /\ Cardinality(S) = n /\ ~HasLast(S)}
  <1>1. ASSUME NEW n \in Wrong, \A m \in Wrong : ~(m < n) PROVE FALSE
    <2>1. PICK S \in SUBSET Blocks : S # {} /\ Cardinality(S) = n /\ ~HasLast(S)
      BY Zenon
    <2>2. PICK x \in S : TRUE
      BY <2>1, Zenon
    <2>3. S \ {x} \in SUBSET Blocks /\ Cardinality(S \ {x}) = n - 1
      BY <2>1, <2>2, CardinalityOfBlockSets, Zenon
    <2>4. CASE S \ {x} = {}
      BY <2>1, <2>2, <2>4, Zenon
    <2>5. CASE S \ {x} # {}
      <3>1. n - 1 \in Nat /\ n - 1 < n
        BY <2>3, CardinalityOfBlockSets
      <3>2. HasLast(S \ {x})
        <4>1. n - 1 \notin Wrong
          BY <3>1, <1>1, Zenon
        <4> HIDE DEF HasLast
        <4> QED BY <2>3, <2>5, <3>1, <4>1, Zenon
      <3>3. PICK y \in S \ {x} : \A c \in (S \ {x}) \ {y} : <<c, y>> \in R
        BY <3>2, Zenon
      <3>4. CASE <<x, y>> \in R
        BY <3>3, <3>4, <2>1, Zenon
      <3>5. CASE <<x, y>> \notin R
        <4>1. <<y, x>> \in R
          BY <3>5, <3>3, <2>1, Zenon DEF OrdersBlocks
        <4>2. \A c \in S \ {x} : <<c, x>> \in R
          BY <4>1, <3>3, <2>1, Zenon DEF OrdersBlocks
        <4> QED BY <4>2, <2>1, <2>2, Zenon
      <3> QED BY <3>4, <3>5, Zenon
    <2> QED BY <2>4, <2>5, Zenon
  <1>2. Wrong = {}
    <2> SUFFICES ASSUME Wrong # {} PROVE FALSE
      BY Zenon
    <2> HIDE DEF Wrong
    <2>1. Wrong \subseteq Nat
      BY Zenon DEF Wrong
    <2>2. \E n \in Wrong : \A m \in Wrong : ~(<<m, n>> \in F!OpToRel(<, Nat))
      BY <2>1, F!NatLessThanWellFounded, F!WFMin, Zenon
    <2>3. \A m, n \in Wrong : <<m, n>> \in F!OpToRel(<, Nat) <=> m < n
      BY <2>1, Zenon DEF F!OpToRel
    <2> QED BY <2>2, <2>3, <1>1, Zenon
  <1> QED BY <1>2, CardinalityOfBlockSets, Zenon

\* FindMostWorkChain and setBlockIndexCandidates.rbegin(): a set of blocks that is
\* not empty has a best one.
LEMMA BestExists ==
  ASSUME NEW s \in [Blocks -> Int], NEW set \in SUBSET Blocks, set # {}
  PROVE  \E b \in set : \A c \in set \ {b} : Worse(s, c, b)
  <1> DEFINE R == {p \in Blocks \X Blocks : Worse(s, p[1], p[2])}
  <1>1. \A a, b \in Blocks : <<a, b>> \in R <=> Worse(s, a, b)
    BY Zenon
  <1> HIDE DEF R
  <1>2. OrdersBlocks(R)
    <2>1. \A a, b \in Blocks : a # b => <<a, b>> \in R \/ <<b, a>> \in R
      BY <1>1, WorseIsOrder, Zenon
    <2>2. \A a, b, c \in Blocks : <<a, b>> \in R /\ <<b, c>> \in R => <<a, c>> \in R
      BY <1>1, WorseIsOrder, Zenon
    <2> QED BY <2>1, <2>2, Zenon DEF OrdersBlocks
  <1>3. \E b \in set : \A c \in set \ {b} : <<c, b>> \in R
    BY <1>2, LastExists
  <1> QED BY <1>1, <1>3, Zenon

\* So the blocks are finitely many in the sense the steps use.
LEMMA BlocksAreFinite == FinitelyMany
  BY CardinalityOfBlockSets, BestExists, Zenon DEF FinitelyMany

\* The invariant holds in every behaviour.
LEMMA ChainInvariant == ASSUME Undisturbed PROVE Spec => []ChainInv
  <1>1. ChainInv /\ [Next]_vars => ChainInv'
    BY NextChain, BlocksAreFinite, Zenon
  <1> QED BY <1>1, InitChain, PTL DEF Spec

-----------------------------------------------------------------------------
(***************************************************************************)
(* What the node promises                                                  *)
(***************************************************************************)

\* For every block tree, however its headers and blocks arrive and fail, with
\* restarts in between: the variables have the types of their declarations.
THEOREM TypeCorrect == ASSUME Undisturbed PROVE Spec => []TypeOK
  <1>1. ChainInv => TypeOK
    BY TypeFacts, Zenon DEF ChainInv, NothingElse
  <1> QED BY <1>1, ChainInvariant, PTL

\* CheckBlockIndex on entries: nChainTx, mapBlocksUnlinked and the failure flags say
\* the truth about a block's ancestors.
THEOREM AncestryIsExact == ASSUME Undisturbed PROVE Spec => []AncestryExact
  <1>1. ChainInv => AncestryExact
    <2> SUFFICES ASSUME ChainInv PROVE AncestryExact
      BY Zenon
    <2>1. ASSUME NEW b \in haveData \ linked, NoInvalidAncestor(b) PROVE b \in unlinked
      <3>1. b \in Blocks
        BY Zenon DEF ChainInv, Types
      <3>2. b # Genesis
        <4>1. tip \in linked /\ tip \in Blocks
          BY Zenon DEF ChainInv, Types, ActivationSound, Connected
        <4>2. Genesis \in haveData
          BY <4>1, GenesisIsAncestor, Zenon DEF ChainInv, WaitingSound
        <4>3. Ancestors[Genesis] = {Genesis}
          BY AncestorsOfBlock, TreeAssumption, Zenon
        <4>4. linked = {c \in haveData : Ancestors[c] \subseteq haveData}
          BY Zenon DEF ChainInv, WaitingSound
        <4>5. Genesis \in linked
          BY <4>2, <4>3, <4>4, Zenon
        <4> QED BY <2>1, <4>5, Zenon
      <3>3. Ancestors[Parent[b]] \subseteq Ancestors[b]
        BY <3>1, <3>2, AncestorsOfBlock, Zenon
      <3>4. Parent[b] \notin Failed
        BY <2>1, <3>3, Zenon DEF ChainInv, EntriesSound, NoInvalidAncestor
      <3> QED BY <2>1, <3>4, Zenon DEF ChainInv, WaitingSound
    <2> QED BY <2>1, Zenon DEF AncestryExact, ChainInv, WaitingSound, EntriesSound
  <1> QED BY <1>1, ChainInvariant, PTL

\* CheckBlockIndex on candidates: whenever cs_main is free setBlockIndexCandidates
\* holds the blocks with all data that are valid and not worse than the tip, and
\* nothing that is worse than the tip or lacks data.
THEOREM CandidatesAreExact == ASSUME Undisturbed PROVE Spec => []CandidatesExact
  <1>1. ChainInv => CandidatesExact
    <2>1. csMainFree => Best = tip
      BY Zenon DEF csMainFree, Best, InSection
    <2> QED BY <2>1, Zenon DEF CandidatesExact, ChainInv, CandidatesFollowBest
  <1> QED BY <1>1, ChainInvariant, PTL

\* The assertion of PruneBlockIndexCandidates never fails.
THEOREM PruneNeverAsserts == ASSUME Undisturbed PROVE Spec => []PruneAssertion
  <1>1. ChainInv => PruneAssertion
    BY Zenon DEF ChainInv, ActivationSound
  <1> QED BY <1>1, ChainInvariant, PTL

\* When every caller of ActivateBestChain has returned, no valid chain with all its
\* data has more work than the active one.
THEOREM SettlesOnBest == ASSUME Undisturbed PROVE Spec => []SettledOnBest
  <1>1. ChainInv => SettledOnBest
    <2>1. \A b : Ancestors[b] \cap Failed = {} => NoInvalidAncestor(b)
      BY Zenon DEF Failed, NoInvalidAncestor
    <2>2. QED BY <2>1, Zenon DEF ChainInv, BestUnlessPending, NoneHeavierThan, SettledOnBest, Settled
  <1> QED BY <1>1, ChainInvariant, PTL

\* "We absolutely may not unlock cs_main until we've made forward progress": no
\* critical section of ActivateBestChain ends with a worse tip than it began with.
THEOREM ProgressBeforeUnlock == ASSUME Undisturbed PROVE Spec => ForwardProgress
  <1>1. ChainInv /\ [Next]_vars => [~csMainFree /\ csMainFree' => ~Worse(seq, tip', abc.start)]_vars
    <2> SUFFICES ASSUME ChainInv, [Next]_vars
                 PROVE  ~csMainFree /\ csMainFree' => ~Worse(seq, tip', abc.start)
      BY Zenon
    <2>1. ~csMainFree => InSection
      BY Zenon DEF ChainInv, Types, Activation, ActivationSound, PruneAssertion, csMainFree, InSection
    <2>2. csMainFree' => ~InSection'
      BY Zenon DEF csMainFree, InSection
    <2> QED BY <2>1, <2>2, NextChain, BlocksAreFinite, Zenon
  <1> QED BY <1>1, ChainInvariant, PTL DEF Spec, ForwardProgress
=============================================================================
