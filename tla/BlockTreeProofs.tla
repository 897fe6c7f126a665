-------------------------- MODULE BlockTreeProofs ---------------------------
(***************************************************************************)
(* What every tree of blocks is like, for the proofs about the components  *)
(* that keep a tip or follow one.                                          *)
(***************************************************************************)
EXTENDS BlockTree, TLAPS

-----------------------------------------------------------------------------
(***************************************************************************)
(* The tree.  Induction over it is by a block without the property whose   *)
(* parent has it (WellFoundedAssumption).                                  *)
(***************************************************************************)

\* The closure of a block under pprev satisfies the equation of Ancestors.
LEMMA AncestorsDef ==
  \A b \in Blocks : Ancestors[b] = {b} \cup (IF b = Genesis THEN {} ELSE Ancestors[Parent[b]])
  <1> DEFINE Closed(S) == \A c \in S \ {Genesis} : Parent[c] \in S
             f == [b \in Blocks |-> {a \in Blocks : \A S \in SUBSET Blocks :
                                       b \in S /\ Closed(S) => a \in S}]
             rhs == [b \in Blocks |-> {b} \cup (IF b = Genesis THEN {} ELSE f[Parent[b]])]
  <1>1. ASSUME NEW b \in Blocks PROVE f[b] = rhs[b]
    <2>1. CASE b = Genesis
      <3>1. {b} \in SUBSET Blocks /\ Closed({b})
        BY <2>1, Zenon
      <3> QED BY <3>1, <2>1, Zenon
    <2>2. CASE b # Genesis
      <3>1. Parent[b] \in Blocks
        BY <2>2, TreeAssumption, Zenon
      <3>2. \A S \in SUBSET Blocks : b \in S /\ Closed(S) => Parent[b] \in S
        BY <2>2, Zenon
      <3>3. rhs[b] \subseteq f[b]
        BY <2>2, <3>1, <3>2, Zenon
      <3>4. ASSUME NEW a \in f[b], a # b PROVE a \in f[Parent[b]]
        <4> SUFFICES ASSUME NEW S \in SUBSET Blocks, Parent[b] \in S, Closed(S) PROVE a \in S
          BY <3>1, Zenon
        <4>1. S \cup {b} \in SUBSET Blocks /\ b \in S \cup {b} /\ Closed(S \cup {b})
          BY Zenon
        <4> QED BY <4>1, <3>4, Zenon
      <3> QED BY <2>2, <3>1, <3>3, <3>4, Zenon
    <2> QED BY <2>1, <2>2, Zenon
  <1>2. f = rhs
    BY <1>1, Zenon
  <1> DEFINE A == CHOOSE A : A = [b \in Blocks |->
                                    {b} \cup (IF b = Genesis THEN {} ELSE A[Parent[b]])]
  <1>3. A = [b \in Blocks |-> {b} \cup (IF b = Genesis THEN {} ELSE A[Parent[b]])]
    BY <1>2, Zenon
  <1>4. Ancestors = [b \in Blocks |-> A[b]]
    BY Zenon DEF Ancestors
  <1> HIDE DEF A, f
  <1> QED BY <1>3, <1>4, TreeAssumption, Zenon

\* GetAncestor (chain.cpp): ancestors are blocks, and theirs are among those of the
\* descendant.
LEMMA AncestorsOfAncestors ==
  ASSUME NEW b \in Blocks
  PROVE  /\ Ancestors[b] \subseteq Blocks /\ b \in Ancestors[b]
         /\ \A a \in Ancestors[b] : Ancestors[a] \subseteq Ancestors[b]
  <1> DEFINE Good(c) == /\ Ancestors[c] \subseteq Blocks
                        /\ \A a \in Ancestors[c] : Ancestors[a] \subseteq Ancestors[c]
             Wrong == {c \in Blocks : ~Good(c)}
  <1>1. ASSUME NEW c \in Wrong, Parent[c] \notin Wrong PROVE FALSE
    <2>1. CASE c = Genesis
      BY <2>1, AncestorsDef
    <2>2. CASE c # Genesis
      <3>1. Parent[c] \in Blocks /\ Good(Parent[c])
        BY <2>2, <1>1, TreeAssumption, Zenon
      <3>2. Ancestors[c] = {c} \cup Ancestors[Parent[c]]
        BY <2>2, AncestorsDef, Zenon
      <3> QED BY <3>1, <3>2, Zenon
    <2> QED BY <2>1, <2>2, Zenon
  <1>2. Wrong = {}
    <2> HIDE DEF Good
    <2> QED BY <1>1, WellFoundedAssumption, Zenon
  <1> QED BY <1>2, AncestorsDef, Zenon

\* A block adds itself to the ancestors of its parent.
LEMMA AncestorsOfBlock ==
  ASSUME NEW b \in Blocks
  PROVE  /\ b = Genesis => Ancestors[b] = {Genesis}
         /\ b # Genesis => /\ Parent[b] \in Blocks
                           /\ Ancestors[b] = {b} \cup Ancestors[Parent[b]]
                           /\ Parent[b] \in Ancestors[b]
  <1>1. b # Genesis => Parent[b] \in Blocks
    BY TreeAssumption, Zenon
  <1> QED BY <1>1, AncestorsDef, AncestorsOfAncestors, Zenon

\* The ancestors of a block are a chain.
LEMMA AncestorsAreChain ==
  ASSUME NEW b \in Blocks, NEW a \in Ancestors[b], NEW c \in Ancestors[b]
  PROVE  a \in Ancestors[c] \/ c \in Ancestors[a]
  <1> DEFINE Good(d) == \A x, y \in Ancestors[d] : x \in Ancestors[y] \/ y \in Ancestors[x]
             Wrong == {d \in Blocks : ~Good(d)}
  <1>1. ASSUME NEW d \in Wrong, Parent[d] \notin Wrong PROVE FALSE
    <2>1. CASE d = Genesis
      BY <2>1, AncestorsOfBlock
    <2>2. CASE d # Genesis
      <3>1. Parent[d] \in Blocks /\ Good(Parent[d])
        BY <2>2, <1>1, TreeAssumption, Zenon
      <3>2. Ancestors[d] = {d} \cup Ancestors[Parent[d]]
        BY <2>2, AncestorsOfBlock, Zenon
      <3> QED BY <3>1, <3>2, Zenon
    <2> QED BY <2>1, <2>2, Zenon
  <1>2. Wrong = {}
    <2> HIDE DEF Good
    <2> QED BY <1>1, WellFoundedAssumption, Zenon
  <1> QED BY <1>2, Zenon

\* The genesis block is an ancestor of every block.
LEMMA GenesisIsAncestor == \A b \in Blocks : Genesis \in Ancestors[b]
  <1> DEFINE Wrong == {b \in Blocks : Genesis \notin Ancestors[b]}
  <1>1. ASSUME NEW b \in Wrong, Parent[b] \notin Wrong PROVE FALSE
    BY <1>1, AncestorsOfBlock, TreeAssumption
  <1> QED BY <1>1, WellFoundedAssumption, Zenon

\* What a block has is computed from what its parent has
AlongChain(f, base, q) ==
  \A b \in Blocks : f[b] = IF b = Genesis THEN base ELSE q[b][f[Parent[b]]]

\* It is then defined, as AddToBlockIndex adds a block after its parent.
LEMMA DefinedAlongChain ==
  ASSUME NEW S, NEW base \in S, NEW q \in [Blocks -> [S -> S]]
  PROVE  \E f \in [Blocks -> S] : AlongChain(f, base, q)
  <1> DEFINE Parts(b) == {g \in [Ancestors[b] -> S] : \A a \in Ancestors[b] :
                           g[a] = IF a = Genesis THEN base ELSE q[a][g[Parent[a]]]}
             Wrong == {b \in Blocks : Parts(b) = {}}
  <1>1. ASSUME NEW b \in Wrong, Parent[b] \notin Wrong PROVE FALSE
    <2>1. CASE b = Genesis
      <3> DEFINE g == [a \in {Genesis} |-> base]
      <3>1. g \in Parts(b)
        BY <2>1, AncestorsOfBlock
      <3> QED BY <3>1, Zenon
    <2>2. CASE b # Genesis
      <3>1. /\ Parent[b] \in Blocks /\ Ancestors[b] = {b} \cup Ancestors[Parent[b]]
            /\ Parts(Parent[b]) # {}
        BY <2>2, <1>1, AncestorsOfBlock, Zenon
      <3>2. PICK h \in Parts(Parent[b]) : TRUE
        BY <3>1, Zenon
      <3>3. CASE b \in Ancestors[Parent[b]]
        <4>1. Ancestors[b] = Ancestors[Parent[b]]
          <5> HIDE DEF Parts
          <5> QED BY <3>1, <3>3, Zenon
        <4>2. Parts(b) = Parts(Parent[b])
          BY <4>1, Zenon
        <4> HIDE DEF Parts
        <4> QED BY <3>1, <4>2, <1>1, Zenon
      <3>4. CASE b \notin Ancestors[Parent[b]]
        <4> DEFINE g == [a \in Ancestors[b] |-> IF a = b THEN q[b][h[Parent[b]]] ELSE h[a]]
        <4>1. Parent[b] \in Ancestors[Parent[b]] /\ Parent[b] # b
          BY <3>1, <3>4, AncestorsOfAncestors, Zenon
        <4>2. g \in [Ancestors[b] -> S]
          BY <3>1, <3>2, <4>1
        <4>3. ASSUME NEW a \in Ancestors[Parent[b]], a # Genesis
              PROVE  Parent[a] \in Ancestors[Parent[b]]
          BY <3>1, <4>3, AncestorsOfAncestors, AncestorsOfBlock, Zenon
        <4>4. ASSUME NEW a \in Ancestors[b]
              PROVE  g[a] = IF a = Genesis THEN base ELSE q[a][g[Parent[a]]]
          <5>1. CASE a = b
            BY <5>1, <4>1, <3>1, <2>2, Zenon
          <5>2. CASE a # b
            <6>1. a \in Ancestors[Parent[b]]
              BY <5>2, <3>1, Zenon
            <6>2. a # Genesis => Parent[a] # b /\ Parent[a] \in Ancestors[b]
              <7> HIDE DEF Parts
              <7> QED BY <6>1, <4>3, <3>4, <3>1, Zenon
            <6>3. h[a] = IF a = Genesis THEN base ELSE q[a][h[Parent[a]]]
              BY <6>1, <3>2, Zenon
            <6>4. g[a] = h[a]
              BY <5>2, Zenon
            <6>5. a # Genesis => g[Parent[a]] = h[Parent[a]]
              BY <6>2, Zenon
            <6> HIDE DEF g
            <6> QED BY <6>3, <6>4, <6>5, Zenon
          <5> QED BY <5>1, <5>2, Zenon
        <4>5. g \in Parts(b)
          <5> HIDE DEF g
          <5> QED BY <4>2, <4>4, Zenon
        <4> HIDE DEF g, Parts
        <4> QED BY <4>5, <1>1, Zenon
      <3> QED BY <3>3, <3>4, Zenon
    <2> QED BY <2>1, <2>2, Zenon
  <1>2. ASSUME NEW b \in Blocks PROVE Parts(b) # {}
    <2> HIDE DEF Parts
    <2> QED BY <1>1, WellFoundedAssumption, Zenon
  <1>3. ASSUME NEW b \in Blocks, NEW c \in Blocks, NEW g \in Parts(b), NEW h \in Parts(c),
               NEW a \in Ancestors[b] \cap Ancestors[c]
        PROVE  g[a] = h[a]
    <2> DEFINE Differ == {d \in Ancestors[b] \cap Ancestors[c] : g[d] # h[d]}
    <2>1. ASSUME NEW d \in Differ, Parent[d] \notin Differ PROVE FALSE
      <3>1. d \in Blocks
        BY AncestorsOfAncestors, Zenon
      <3>2. CASE d = Genesis
        BY <3>2, Zenon
      <3>3. CASE d # Genesis
        <4>1. Parent[d] \in Ancestors[b] \cap Ancestors[c]
          BY <3>1, <3>3, AncestorsOfAncestors, AncestorsOfBlock, Zenon
        <4>2. g[Parent[d]] = h[Parent[d]]
          BY <4>1, <2>1, Zenon
        <4>3. g[d] = q[d][g[Parent[d]]] /\ h[d] = q[d][h[Parent[d]]]
          BY <3>3, Zenon
        <4> QED BY <4>2, <4>3, Zenon
      <3> QED BY <3>2, <3>3, Zenon
    <2>2. Differ \in SUBSET Blocks
      BY AncestorsOfAncestors, Zenon
    <2>3. Differ = {}
      BY <2>1, <2>2, WellFoundedAssumption, Zenon
    <2> QED BY <2>3, Zenon
  <1> DEFINE G(b) == CHOOSE g \in Parts(b) : TRUE
             f == [b \in Blocks |-> G(b)[b]]
  <1>4. \A b \in Blocks : G(b) \in Parts(b) /\ b \in Ancestors[b]
    BY <1>2, AncestorsOfAncestors, Zenon
  <1>5. f \in [Blocks -> S]
    <2>1. \A b \in Blocks : \A g \in Parts(b) : g \in [Ancestors[b] -> S]
      BY Zenon
    <2>2. ASSUME NEW b \in Blocks PROVE G(b)[b] \in S
      <3> HIDE DEF Parts, G
      <3>1. G(b) \in [Ancestors[b] -> S] /\ b \in Ancestors[b]
        BY <1>4, <2>1, Zenon
      <3> QED BY <3>1, Zenon
    <2> HIDE DEF G
    <2> QED BY <2>2, Zenon
  <1>6. ASSUME NEW b \in Blocks
        PROVE  f[b] = IF b = Genesis THEN base ELSE q[b][f[Parent[b]]]
    <2>1. G(b)[b] = IF b = Genesis THEN base ELSE q[b][G(b)[Parent[b]]]
      BY <1>4, Zenon
    <2>2. CASE b = Genesis
      BY <2>1, <2>2, Zenon
    <2>3. CASE b # Genesis
      <3>1. Parent[b] \in Blocks /\ Parent[b] \in Ancestors[b] \cap Ancestors[Parent[b]]
        BY <2>3, AncestorsOfBlock, AncestorsOfAncestors, Zenon
      <3>2. G(b)[Parent[b]] = G(Parent[b])[Parent[b]]
        <4> HIDE DEF G, Parts
        <4> QED BY <3>1, <1>3, <1>4
      <3> HIDE DEF G
      <3> QED BY <2>1, <2>3, <3>1, <3>2, Zenon
    <2> QED BY <2>2, <2>3, Zenon
  <1> QED BY <1>5, <1>6, Zenon DEF AlongChain

\* What a block adds to its parent's value can be summed up along the chain.
LEMMA SumAlongChain ==
  ASSUME NEW q \in [Blocks -> Nat]
  PROVE  \E f \in [Blocks -> Nat] :
           \A b \in Blocks : f[b] = q[b] + (IF b = Genesis THEN 0 ELSE f[Parent[b]])
  <1> DEFINE add == [b \in Blocks |-> [n \in Nat |-> q[b] + n]]
  <1>1. add \in [Blocks -> [Nat -> Nat]] /\ q[Genesis] \in Nat
    BY TreeAssumption
  <1>2. PICK f \in [Blocks -> Nat] : AlongChain(f, q[Genesis], add)
    <2> HIDE DEF add
    <2> QED BY <1>1, DefinedAlongChain, Zenon
  <1>3. ASSUME NEW b \in Blocks
        PROVE  f[b] = q[b] + (IF b = Genesis THEN 0 ELSE f[Parent[b]])
    <2>1. CASE b = Genesis
      <3>1. f[b] = q[b] /\ q[b] \in Nat
        BY <1>2, <2>1, Zenon DEF AlongChain
      <3> QED BY <2>1, <3>1
    <2>2. CASE b # Genesis
      <3>1. f[Parent[b]] \in Nat
        BY <2>2, AncestorsOfBlock, Zenon
      <3>2. add[b][f[Parent[b]]] = q[b] + f[Parent[b]]
        BY <3>1, Zenon
      <3>3. f[b] = add[b][f[Parent[b]]]
        BY <1>2, <2>2, Zenon DEF AlongChain
      <3> QED BY <2>2, <3>2, <3>3, Zenon
    <2> QED BY <2>1, <2>2, Zenon
  <1> QED BY <1>3, Zenon

\* nHeight (AddToBlockIndex): a block's is its parent's and one.
LEMMA HeightDef ==
  /\ Height \in [Blocks -> Nat] /\ Height[Genesis] = 0
  /\ \A b \in Blocks \ {Genesis} : Height[b] = Height[Parent[b]] + 1
  <1>1. PICK f \in [Blocks -> Nat] : \A b \in Blocks :
          f[b] = (IF b = Genesis THEN 0 ELSE 1) + (IF b = Genesis THEN 0 ELSE f[Parent[b]])
    <2> DEFINE q == [b \in Blocks |-> IF b = Genesis THEN 0 ELSE 1]
    <2>1. q \in [Blocks -> Nat]
      BY Zenon
    <2> QED BY <2>1, SumAlongChain, Zenon
  <1>2. f = [b \in Blocks |-> IF b = Genesis THEN 0 ELSE 1 + f[Parent[b]]]
    <2>1. \A b \in Blocks : f[b] = IF b = Genesis THEN 0 ELSE 1 + f[Parent[b]]
      BY <1>1, AncestorsOfBlock
    <2> QED BY <2>1, Zenon
  <1>3. Height = [b \in Blocks |-> IF b = Genesis THEN 0 ELSE 1 + Height[Parent[b]]]
    <2> DEFINE H == CHOOSE H : H = [b \in Blocks |-> IF b = Genesis THEN 0 ELSE 1 + H[Parent[b]]]
    <2>1. H = [b \in Blocks |-> IF b = Genesis THEN 0 ELSE 1 + H[Parent[b]]]
      BY <1>2, Zenon
    <2>2. Height = [b \in Blocks |-> H[b]]
      BY Zenon DEF Height
    <2> HIDE DEF H
    <2> QED BY <2>1, <2>2, TreeAssumption, Zenon
  <1> DEFINE Wrong == {b \in Blocks : Height[b] \notin Nat}
  <1>4. ASSUME NEW b \in Wrong, Parent[b] \notin Wrong PROVE FALSE
    BY <1>3, <1>4, AncestorsOfBlock
  <1>5. Wrong = {}
    BY <1>4, WellFoundedAssumption, Zenon
  <1>6. Height \in [Blocks -> Nat] /\ Height[Genesis] = 0
    BY <1>3, <1>5, TreeAssumption, Zenon
  <1> QED BY <1>3, <1>6, AncestorsOfBlock

\* What has a positive part for every block grows along a chain: nHeight does, and
\* nChainWork.
LEMMA GrowsAlongChain ==
  ASSUME NEW f \in [Blocks -> Nat], \A b \in Blocks \ {Genesis} : f[Parent[b]] < f[b],
         NEW b \in Blocks, NEW a \in Ancestors[b]
  PROVE  f[a] <= f[b] /\ (a # b => f[a] < f[b])
  <1> DEFINE Above(x, y) == f[x] <= f[y] /\ (x # y => f[x] < f[y])
             Wrong == {c \in Blocks : \E x \in Ancestors[c] : ~Above(x, c)}
  <1>1. ASSUME NEW c \in Wrong, Parent[c] \notin Wrong PROVE FALSE
    <2>1. CASE c = Genesis
      BY <2>1, AncestorsOfBlock
    <2>2. CASE c # Genesis
      <3>1. /\ Parent[c] \in Blocks /\ Ancestors[c] = {c} \cup Ancestors[Parent[c]]
            /\ Ancestors[Parent[c]] \subseteq Blocks
            /\ \A x \in Ancestors[Parent[c]] : Above(x, Parent[c])
        BY <2>2, <1>1, AncestorsOfBlock, AncestorsOfAncestors, Zenon
      <3>2. \A x \in Ancestors[c] : Above(x, c)
        BY <2>2, <3>1
      <3> QED BY <3>2, Zenon
    <2> QED BY <2>1, <2>2, Zenon
  <1>2. Wrong = {}
    <2> HIDE DEF Above
    <2> QED BY <1>1, WellFoundedAssumption, Zenon
  <1> QED BY <1>2, Zenon

\* An ancestor that is not the block itself is lower.
LEMMA AncestorIsLower ==
  ASSUME NEW b \in Blocks, NEW a \in Ancestors[b]
  PROVE  Height[a] <= Height[b] /\ (a # b => Height[a] < Height[b])
  <1>1. \A c \in Blocks \ {Genesis} : Height[Parent[c]] < Height[c]
    BY HeightDef, AncestorsOfBlock
  <1> QED BY <1>1, HeightDef, GrowsAlongChain, Zenon

\* Of two blocks of a chain, the one that is not higher is the ancestor, and two of
\* the same height are the same.
LEMMA LowerIsAncestor ==
  ASSUME NEW b \in Blocks, NEW a \in Ancestors[b], NEW c \in Ancestors[b],
         Height[a] <= Height[c]
  PROVE  a \in Ancestors[c] /\ (Height[a] = Height[c] => a = c)
  <1>1. a \in Blocks /\ c \in Blocks
    BY AncestorsOfAncestors, Zenon
  <1>2. CASE c \in Ancestors[a]
    BY <1>1, <1>2, AncestorIsLower, HeightDef, AncestorsOfAncestors
  <1>3. CASE a \in Ancestors[c]
    BY <1>1, <1>3, AncestorIsLower, HeightDef
  <1> QED BY <1>2, <1>3, AncestorsAreChain, Zenon

\* GetAncestor finds a block for every height up to the block's own.
LEMMA AncestorAtHeight ==
  ASSUME NEW b \in Blocks, NEW h \in Nat, h <= Height[b]
  PROVE  \E a \in Ancestors[b] : Height[a] = h
  <1> DEFINE Wrong == {c \in Blocks : h <= Height[c] /\ \A a \in Ancestors[c] : Height[a] # h}
  <1>1. ASSUME NEW c \in Wrong, Parent[c] \notin Wrong PROVE FALSE
    <2>1. c \in Ancestors[c] /\ Height[c] # h /\ Height[c] \in Nat /\ h <= Height[c]
      BY <1>1, AncestorsOfAncestors, HeightDef, Zenon
    <2>2. c # Genesis
      BY <2>1, HeightDef
    <2>3. Parent[c] \in Blocks /\ Ancestors[c] = {c} \cup Ancestors[Parent[c]]
      BY <2>2, AncestorsOfBlock, Zenon
    <2>4. h <= Height[Parent[c]]
      BY <2>1, <2>2, <2>3, HeightDef
    <2> QED BY <1>1, <2>3, <2>4, Zenon
  <1>2. Wrong = {}
    BY <1>1, WellFoundedAssumption, Zenon
  <1> QED BY <1>2, Zenon

\* The common ancestors of two blocks are the ancestors of the last one.
LEMMA LastCommonAncestor ==
  ASSUME NEW b \in Blocks, NEW c \in Blocks
  PROVE  \E d \in Ancestors[b] \cap Ancestors[c] : Ancestors[b] \cap Ancestors[c] = Ancestors[d]
  <1> DEFINE Wrong == {x \in Blocks : \A d \in Ancestors[x] \cap Ancestors[c] :
                                        Ancestors[x] \cap Ancestors[c] # Ancestors[d]}
  <1>1. ASSUME NEW x \in Wrong, Parent[x] \notin Wrong PROVE FALSE
    <2>1. CASE x \in Ancestors[c]
      <3>1. Ancestors[x] \subseteq Ancestors[c] /\ x \in Ancestors[x]
        BY <2>1, AncestorsOfAncestors, Zenon
      <3> QED BY <2>1, <3>1, Zenon
    <2>2. CASE x \notin Ancestors[c]
      <3>1. x # Genesis
        BY <2>2, GenesisIsAncestor, Zenon
      <3>2. Parent[x] \in Blocks /\ Ancestors[x] = {x} \cup Ancestors[Parent[x]]
        BY <3>1, AncestorsOfBlock, Zenon
      <3>3. Ancestors[x] \cap Ancestors[c] = Ancestors[Parent[x]] \cap Ancestors[c]
        BY <2>2, <3>2, Zenon
      <3>4. PICK d \in Ancestors[Parent[x]] \cap Ancestors[c] :
              Ancestors[Parent[x]] \cap Ancestors[c] = Ancestors[d]
        BY <1>1, <3>2, Zenon
      <3> QED BY <3>2, <3>3, <3>4, Zenon
    <2> QED BY <2>1, <2>2, Zenon
  <1> QED BY <1>1, WellFoundedAssumption, Zenon
=============================================================================
