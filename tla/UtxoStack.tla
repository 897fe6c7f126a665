------------------------------ MODULE UtxoStack ------------------------------
(***************************************************************************)
(* What the stack of coin views promises its callers: three unspent-output *)
(* sets, each with the block whose state it represents.                    *)
(*                                                                         *)
(*   disk   the set CCoinsViewDB holds,                                    *)
(*   tip    the set pcoinsTip represents, with the blocks connected since  *)
(*          the last write to disk,                                        *)
(*   view   the set of the short-lived view in which one block is          *)
(*          connected or disconnected.                                     *)
(*                                                                         *)
(* A view starts as a copy of the tip, is changed one coin at a time, and  *)
(* is then committed as a whole or forgotten as a whole.  No cache, no     *)
(* flag and no lookup is visible here; module CoinsCache shows that the    *)
(* DIRTY and FRESH bookkeeping of coins.cpp implements this.               *)
(***************************************************************************)

CONSTANTS
  Outpoints,    \* COutPoint: names of transaction outputs
  Coins,        \* Coin: unspent outputs
  Unspendable,  \* the coins whose script can never be spent
  NoCoin,       \* the spent coin (its CTxOut is null)
  Blocks,       \* block hashes
  NullHash      \* uint256(), the hash of no block

VARIABLES
  disk, diskBest,
  tip, tipBest,
  view, viewBest,
  open          \* whether a view is in scope

absVars == <<disk, diskBest, tip, tipBest, view, viewBest, open>>

Init ==
  /\ disk = [op \in Outpoints |-> NoCoin]
  /\ diskBest = NullHash
  /\ tip = disk
  /\ tipBest = NullHash
  /\ view = disk
  /\ viewBest = NullHash
  /\ open = FALSE

Open ==
  /\ ~open
  /\ open' = TRUE
  /\ view' = tip
  /\ viewBest' = tipBest
  /\ UNCHANGED <<disk, diskBest, tip, tipBest>>

Add(op, coin) ==
  /\ open
  /\ view' = IF coin \in Unspendable THEN view ELSE [view EXCEPT ![op] = coin]
  /\ UNCHANGED <<disk, diskBest, tip, tipBest, viewBest, open>>

Spend(op) ==
  /\ open
  /\ view' = [view EXCEPT ![op] = NoCoin]
  /\ UNCHANGED <<disk, diskBest, tip, tipBest, viewBest, open>>

SetBest(b) ==
  /\ open
  /\ viewBest' = b
  /\ UNCHANGED <<disk, diskBest, tip, tipBest, view, open>>

Commit ==
  /\ open
  /\ open' = FALSE
  /\ tip' = view
  /\ tipBest' = viewBest
  /\ UNCHANGED <<disk, diskBest, view, viewBest>>

Forget ==
  /\ open
  /\ open' = FALSE
  /\ view' = tip
  /\ viewBest' = tipBest
  /\ UNCHANGED <<disk, diskBest, tip, tipBest>>

Sync ==
  /\ ~open
  /\ disk' = tip
  /\ diskBest' = tipBest
  /\ UNCHANGED <<tip, tipBest, view, viewBest, open>>

Next ==
  \/ Open
  \/ \E op \in Outpoints, coin \in Coins : Add(op, coin)
  \/ \E op \in Outpoints : Spend(op)
  \/ \E b \in Blocks : SetBest(b)
  \/ Commit
  \/ Forget
  \/ Sync

Spec == Init /\ [][Next]_absVars
=============================================================================
