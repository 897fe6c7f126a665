---------------------------- MODULE MCCheckQueue ----------------------------
(***************************************************************************)
(* CheckQueue with two workers and two masters: ThreadImport, a member of  *)
(* threadGroup, and the message handler, which is not.  Of at most four    *)
(* checks the third fails, so blocks of up to two checks succeed; four     *)
(* checks are the fewest of which a thread takes a batch of two.           *)
(***************************************************************************)
EXTENDS CheckQueue
=============================================================================
