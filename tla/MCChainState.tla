---------------------------- MODULE MCChainState ----------------------------
(***************************************************************************)
(* ChainState on subsets of one tree:                                      *)
(*                                                                         *)
(*       a1 - a2 - a3                                                      *)
(*      /                                                                  *)
(*    g            c3                                                      *)
(*      \         /                                                        *)
(*       b1 - b2 - b3 - b4                                                 *)
(*                                                                         *)
(* Every block has the same proof, so that ties are decided by arrival and *)
(* after a restart by address.  The addresses favour the b branch for      *)
(* blocks of equal work at height 1 and the a branch at height 2.          *)
(***************************************************************************)
EXTENDS ChainState

MCParent == [b \in Blocks |->
  CASE b = "g" -> NoBlock
    [] b \in {"a1", "b1"} -> "g"
    [] b = "a2" -> "a1"
    [] b = "a3" -> "a2"
    [] b = "b2" -> "b1"
    [] b \in {"b3", "c3"} -> "b2"
    [] b = "b4" -> "b3"]

MCProof == [b \in Blocks |-> 1]

MCAddress == [b \in Blocks |->
  CASE b = "g" -> 7 [] b = "a1" -> 5 [] b = "a2" -> 0 [] b = "a3" -> 3
    [] b = "b1" -> 1 [] b = "b2" -> 2 [] b = "b3" -> 4 [] b = "b4" -> 8 [] b = "c3" -> 6]
=============================================================================
