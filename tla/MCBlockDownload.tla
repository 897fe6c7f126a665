--------------------------- MODULE MCBlockDownload ---------------------------
(***************************************************************************)
(* BlockDownload with a peer that answers and has the a branch, and one    *)
(* that may not and has the b branch, whose last block is invalid:         *)
(*                                                                         *)
(*    g - a1 - a2 - a3 - a4                                                *)
(*         \                                                               *)
(*          b2 - b3                                                        *)
(*                                                                         *)
(* They share a1; b2 can become the tip, be reorganised away and, once the *)
(* tip is a4, be deleted from the index.                                   *)
(***************************************************************************)
EXTENDS BlockDownload

MCParent == [b \in Blocks |->
  CASE b = "g" -> NoBlock
    [] b = "a1" -> "g"
    [] b = "a2" -> "a1"
    [] b = "a3" -> "a2"
    [] b = "a4" -> "a3"
    [] b = "b2" -> "a1"
    [] b = "b3" -> "b2"]

MCAnnounces == [p \in Peers |-> IF p \in Honest THEN {"a4"} ELSE {"b3"}]
=============================================================================
