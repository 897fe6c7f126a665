------------------------------ MODULE MCTxIndex ------------------------------
(***************************************************************************)
(* TxIndex on a fork:                                                      *)
(*                                                                         *)
(*       a1                                                                *)
(*      /                                                                  *)
(*    g                                                                    *)
(*      \                                                                  *)
(*       b1 - b2                                                           *)
(*                                                                         *)
(* A node is new, or has the chain of a1, with or without an old index.    *)
(***************************************************************************)
EXTENDS TxIndex

MCParent == [b \in Blocks |->
  CASE b = "g" -> NoBlock
    [] b \in {"a1", "b1"} -> "g"
    [] b = "b2" -> "b1"]
==============================================================================
