--------------------------- MODULE MCChainstateDB ---------------------------
(***************************************************************************)
(* ChainstateDB on a tree with a fork: g - a1 - a2 and g - b1.  The same   *)
(* transaction, which creates x, is in a1 and in b1; a2 spends x and has   *)
(* an output spent inside the block.                                       *)
(***************************************************************************)
EXTENDS ChainstateDB

MCParent == [b \in {"g", "a1", "a2", "b1"} |->
  CASE b = "g" -> "none" [] b = "a2" -> "a1" [] OTHER -> "g"]

MCTxs == [b \in {"g", "a1", "a2", "b1"} |->
  CASE b = "g" -> <<[in |-> {}, out |-> {"p"}]>>
    [] b = "a1" -> <<[in |-> {}, out |-> {"x"}], [in |-> {}, out |-> {"y"}]>>
    [] b = "a2" -> <<[in |-> {"x"}, out |-> {"w"}], [in |-> {"w"}, out |-> {"z"}]>>
    [] b = "b1" -> <<[in |-> {}, out |-> {"x"}], [in |-> {"x"}, out |-> {"z"}]>>]
=============================================================================
