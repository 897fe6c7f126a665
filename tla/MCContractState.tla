--------------------------- MODULE MCContractState ---------------------------
(***************************************************************************)
(* ContractState on a fork whose branches share a transaction:             *)
(*                                                                         *)
(*       a1 {t1} - a2 {t2}                                                 *)
(*      /                                                                  *)
(*    g            x2 {t2} follows a1; the roots of its header are wrong   *)
(*      \                                                                  *)
(*       b1 {t1}                                                           *)
(*                                                                         *)
(* y1 {t2} follows g and fails after its contract was executed.  The reward*)
(* of a2 goes to the staker of height 1.                                   *)
(***************************************************************************)
EXTENDS ContractState

MCParent == [b \in Blocks |->
  CASE b = "g" -> NoBlock
    [] b \in {"a1", "b1", "y1"} -> "g"
    [] b \in {"a2", "x2"} -> "a1"]

MCTxsOf == [b \in Blocks |->
  CASE b = "g" -> {}
    [] b \in {"a1", "b1"} -> {"t1"}
    [] b \in {"a2", "x2", "y1"} -> {"t2"}]
==============================================================================
