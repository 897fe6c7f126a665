------------------------------ MODULE MCMempool ------------------------------
(***************************************************************************)
(* Mempool on these transactions, c0 to c6 being coins:                    *)
(*                                                                         *)
(*   p spends c0 and makes c1, c2          d spends c2, c3 and makes c6    *)
(*   c spends c1 and makes c3              e spends c6                     *)
(*   r spends c1, so it conflicts with c   s is a coinstake and makes c5   *)
(*                                         k spends c5                     *)
(*                                                                         *)
(* p is an ancestor of d twice; k depends on what is valid only in a       *)
(* block; r pays enough to replace c, and d with it.                       *)
(***************************************************************************)
EXTENDS Mempool

MCSpends == [t \in Txs |->
  CASE t = "p" -> {"c0"} [] t \in {"c", "r"} -> {"c1"} [] t = "d" -> {"c2", "c3"}
    [] t = "s" -> {"c4"} [] t = "k" -> {"c5"} [] t = "e" -> {"c6"}]
MCMaker == [c \in Coins |->
  CASE c \in {"c1", "c2"} -> "p" [] c = "c3" -> "c" [] c = "c5" -> "s" [] c = "c6" -> "d"
    [] OTHER -> NoTx]
MCFee == [t \in Txs |-> CASE t = "r" -> 4 [] t = "d" -> 2 [] OTHER -> 1]
MCCandidates == {<<"s">>, <<"p">>, <<"p", "c">>, <<"s", "p">>, <<"c">>, <<"r">>, <<"c", "d">>}
==============================================================================
