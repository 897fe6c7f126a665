--------------------------- MODULE MCCallbackQueue ---------------------------
(***************************************************************************)
(* CallbackQueue with two scheduler threads (init.cpp starts one; the      *)
(* class is written for any number), the message handler, ThreadImport,    *)
(* ThreadStakeMiner and the thread of CleanBlockIndex.  With a limit of 0  *)
(* ActivateBestChain does wait.                                            *)
(***************************************************************************)
EXTENDS CallbackQueue
==============================================================================
