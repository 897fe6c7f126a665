----------------------------- MODULE BlockTree ------------------------------
(***************************************************************************)
(* The tree of block headers: CBlockIndex of chain.h and chain.cpp as far  *)
(* as it never changes, which is what pprev leads to.  The components of   *)
(* the node that keep a tip or follow one are about this tree.             *)
(***************************************************************************)
EXTENDS Integers, FiniteSets

CONSTANTS
  Blocks,   \* the block tree
  Genesis,
  Parent,   \* hashPrevBlock and pprev, a function on Blocks; NoBlock for Genesis
  NoBlock   \* nullptr, and the null hash

ASSUME TreeAssumption ==
  /\ Genesis \in Blocks
  /\ NoBlock \notin Blocks
  /\ Parent \in [Blocks -> Blocks \cup {NoBlock}]
  /\ \A b \in Blocks : Parent[b] = NoBlock <=> b = Genesis
  /\ IsFiniteSet(Blocks)

\* A header names the hash of an earlier one: pprev never leads round in circles
ASSUME WellFoundedAssumption ==
  \A S \in SUBSET Blocks : S # {} => \E b \in S : Parent[b] \notin S

\* GetAncestor, for all heights: the block and what pprev leads to
Ancestors ==
  LET A[b \in Blocks] == {b} \cup (IF b = Genesis THEN {} ELSE A[Parent[b]])
  IN [b \in Blocks |-> A[b]]

\* nHeight
Height ==
  LET H[b \in Blocks] == IF b = Genesis THEN 0 ELSE 1 + H[Parent[b]]
  IN [b \in Blocks |-> H[b]]
=============================================================================
