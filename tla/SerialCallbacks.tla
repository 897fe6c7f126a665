--------------------------- MODULE SerialCallbacks ---------------------------
(***************************************************************************)
(* What SingleThreadedSchedulerClient (scheduler.h) promises: "Callbacks   *)
(* are executed serially", "as if they are executed in order by a single   *)
(* thread".  A callback is its number in the order of the additions.       *)
(***************************************************************************)
EXTENDS Naturals

VARIABLES
  added,    \* how many callbacks have been added
  started,  \* how many have begun
  done      \* the callbacks that have run to their end

Init == added = 0 /\ started = 0 /\ done = {}

Add == added' = added + 1 /\ UNCHANGED <<started, done>>

\* The next callback begins when all before it have ended
Begin ==
  /\ started < added
  /\ done = 1..started
  /\ started' = started + 1
  /\ UNCHANGED <<added, done>>

End == done' = 1..started /\ UNCHANGED <<added, started>>

Next == Add \/ Begin \/ End

Spec == Init /\ [][Next]_<<added, started, done>>
==============================================================================
