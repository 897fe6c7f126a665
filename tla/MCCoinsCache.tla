----------------------------- MODULE MCCoinsCache -----------------------------
(***************************************************************************)
(* CoinsCache for TLC: two outpoints, so that an operation on one is seen  *)
(* to leave the other alone; two spendable coins, so that an overwrite is  *)
(* seen; one unspendable coin; two blocks.                                 *)
(***************************************************************************)
EXTENDS CoinsCache

CONSTANTS o1, o2, c1, c2, c3, b1, b2

MCOutpoints == {o1, o2}
MCCoins == {c1, c2, c3}
MCUnspendable == {c3}
MCBlocks == {b1, b2}
=============================================================================
