----------------------------- MODULE CheckQueue -----------------------------
(***************************************************************************)
(* The script check queue (checkqueue.h).  ConnectBlock, the master, pushes*)
(* the script checks of a block onto a queue that worker threads empty,    *)
(* then joins the workers and waits for the verdict.                       *)
(*                                                                         *)
(* A critical section under CCheckQueue::mutex is one step; cond.wait ends *)
(* one section and starts another.  The checks of a block are numbered in  *)
(* the order in which they are added, so the queue, a stack, is the set of *)
(* their numbers.  A batch a thread has run stays in batch[t] until the    *)
(* thread has reported it (nNow is its size).                              *)
(***************************************************************************)
EXTENDS Integers, FiniteSets, FiniteSetsExt

CONSTANTS
  Masters,        \* threads that call ConnectBlock
  Workers,        \* threads that run ThreadScriptCheck
  NoThread,
  Interruptible,  \* the members of threadGroup: the workers and ThreadImport
  BatchSize,      \* nBatchSize
  MaxChecks,      \* the most checks of one block
  Bad             \* the numbers of the checks that fail

Threads == Masters \cup Workers

ASSUME ThreadsAssumption ==
  /\ Masters \cap Workers = {}
  /\ NoThread \notin Threads
  /\ IsFiniteSet(Threads)
  /\ Workers # {}
  /\ Workers \subseteq Interruptible
  /\ Interruptible \subseteq Threads

ASSUME SizesAssumption ==
  /\ BatchSize \in Nat \ {0}
  /\ MaxChecks \in Nat
  /\ Bad \subseteq Nat

VARIABLES
  pc,                            \* where each thread is
  queue, nIdle, nTotal, fAllOk, nTodo,
  batch, fOk,                    \* Loop's vChecks and fOk, per thread
  control, fDone,                \* the thread in a CCheckQueueControl, and its fDone
  verdict,                       \* what the last Wait returned
  added, passed,                 \* history: the checks of this block, those run with success
  stopping, pending              \* interrupt_all called; threads yet to notice

queueVars == <<queue, nIdle, nTotal, fAllOk, nTodo>>
localVars == <<batch, fOk>>
controlVars == <<control, fDone, verdict, added>>
shutdownVars == <<stopping, pending>>
vars == <<pc, queueVars, localVars, controlVars, passed, shutdownVars>>

\* Threads whose wait was cut short by the interruption
Thrown == IF stopping THEN Interruptible \ pending ELSE {}

Init ==
  /\ pc = [t \in Threads |-> IF t \in Workers THEN "enter" ELSE "out"]
  /\ queue = {} /\ nIdle = 0 /\ nTotal = 0 /\ fAllOk = TRUE /\ nTodo = 0
  /\ batch = [t \in Threads |-> {}]
  /\ fOk = [t \in Threads |-> TRUE]
  /\ control = NoThread /\ fDone = FALSE /\ verdict = TRUE
  /\ added = {} /\ passed = {}
  /\ stopping = FALSE /\ pending = {}

-----------------------------------------------------------------------------
(* Condition variables *)

\* The results of notify_one on the condition variable that S waits on
NotifyOne(p, S) ==
  LET waiting == {t \in S : p[t] = "wait"}
  IN  IF waiting = {} THEN {p} ELSE {[p EXCEPT ![t] = "woken"] : t \in waiting}

NotifyAll(p, S) ==
  [t \in Threads |-> IF t \in S /\ p[t] = "wait" THEN "woken" ELSE p[t]]

\* boost::condition_variable may wake up for no reason
SpuriousWakeup(t) ==
  /\ pc[t] = "wait"
  /\ pc' = [pc EXCEPT ![t] = "woken"]
  /\ UNCHANGED <<queueVars, localVars, controlVars, passed, shutdownVars>>

-----------------------------------------------------------------------------
(* CCheckQueue::Loop.  p, total, idle, ok and todo are the values of pc,   *)
(* nTotal, nIdle, fAllOk and nTodo that the section has computed so far.   *)

\* Mutant of Return: the failure of one block is kept for the next
ReturnKeepsStatus(t, p, total, idle, ok, todo) ==
  /\ queue = {} /\ t \in Masters /\ todo = 0
  /\ pc' = [p EXCEPT ![t] = "open"]
  /\ nTotal' = total - 1 /\ nIdle' = idle /\ fAllOk' = ok /\ nTodo' = todo
  /\ fDone' = TRUE
  /\ verdict' = ok
  /\ UNCHANGED <<queue, control, added>>

Return(t, p, total, idle, ok, todo) ==
  /\ queue = {} /\ t \in Masters /\ todo = 0
  /\ pc' = [p EXCEPT ![t] = "open"]
  /\ nTotal' = total - 1 /\ nIdle' = idle /\ fAllOk' = TRUE /\ nTodo' = todo
  /\ fDone' = TRUE
  /\ verdict' = ok
  /\ UNCHANGED <<queue, control, added>>

Sleep(t, p, total, idle, ok, todo) ==
  /\ queue = {} /\ ~(t \in Masters /\ todo = 0)
  /\ pc' = [p EXCEPT ![t] = "wait"]
  /\ nTotal' = total /\ nIdle' = idle + 1 /\ fAllOk' = ok /\ nTodo' = todo
  /\ UNCHANGED <<queue, controlVars>>

BatchLength(total, idle) ==
  LET share == Cardinality(queue) \div (total + idle + 1)
  IN  Max({1, Min({BatchSize, share})})

\* The n checks at the back of the queue
Back(n) == {c \in queue : Cardinality({d \in queue : d > c}) < n}

Take(t, p, total, idle, ok, todo) ==
  /\ queue # {}
  /\ LET taken == Back(BatchLength(total, idle))
     IN  /\ batch' = [batch EXCEPT ![t] = taken]
         /\ queue' = queue \ taken
  /\ fOk' = [fOk EXCEPT ![t] = ok]
  /\ pc' = [p EXCEPT ![t] = "run"]
  /\ nTotal' = total /\ nIdle' = idle /\ fAllOk' = ok /\ nTodo' = todo
  /\ UNCHANGED controlVars

\* The section from "while (queue.empty())" on; the old batch is done with
WaitForWork(t, p, total, idle, ok, todo) ==
  \/ Take(t, p, total, idle, ok, todo)
  \/ /\ \/ Return(t, p, total, idle, ok, todo)
        \/ Sleep(t, p, total, idle, ok, todo)
     /\ batch' = [batch EXCEPT ![t] = {}]
     /\ fOk' = [fOk EXCEPT ![t] = TRUE]

Enter(t) ==
  /\ pc[t] = "enter"
  /\ WaitForWork(t, pc, nTotal + 1, nIdle, fAllOk, nTodo)
  /\ UNCHANGED <<passed, shutdownVars>>

\* cond.wait returns
Wake(t) ==
  /\ pc[t] = "woken"
  /\ t \notin pending
  /\ WaitForWork(t, pc, nTotal, nIdle - 1, fAllOk, nTodo)
  /\ UNCHANGED <<passed, shutdownVars>>

\* The first check of the batch that fails ends it; unless one does, or the
\* queue has failed already, the whole batch is run
RunChecks(t) ==
  /\ pc[t] = "run"
  /\ fOk' = [fOk EXCEPT ![t] = fOk[t] /\ batch[t] \cap Bad = {}]
  /\ passed' = IF fOk'[t] THEN passed \cup batch[t] ELSE passed
  /\ pc' = [pc EXCEPT ![t] = "report"]
  /\ UNCHANGED <<queueVars, batch, controlVars, shutdownVars>>

\* Whom the report of the last checks wakes
LastNotifies(t, todo) ==
  IF todo = 0 /\ t \notin Masters THEN NotifyOne(pc, Masters) ELSE {pc}

\* Mutants of Report: it overwrites fAllOk, counts one check, wakes nobody
ReportOverwrites(t) ==
  /\ pc[t] = "report"
  /\ LET todo == nTodo - Cardinality(batch[t])
     IN  \E p \in LastNotifies(t, todo) :
           WaitForWork(t, p, nTotal, nIdle, fOk[t], todo)
  /\ UNCHANGED <<passed, shutdownVars>>

ReportSilently(t) ==
  /\ pc[t] = "report"
  /\ WaitForWork(t, pc, nTotal, nIdle, fAllOk /\ fOk[t],
                 nTodo - Cardinality(batch[t]))
  /\ UNCHANGED <<passed, shutdownVars>>

\* The clean-up of the previous batch, in the section that takes the next
Report(t) ==
  /\ pc[t] = "report"
  /\ LET todo == nTodo - Cardinality(batch[t])
     IN  \E p \in LastNotifies(t, todo) :
           WaitForWork(t, p, nTotal, nIdle, fAllOk /\ fOk[t], todo)
  /\ UNCHANGED <<passed, shutdownVars>>

-----------------------------------------------------------------------------
(* CCheckQueueControl, as ConnectBlock uses it *)

Construct(m) ==
  /\ pc[m] = "out"
  /\ control = NoThread
  /\ control' = m
  /\ fDone' = FALSE
  /\ added' = {} /\ passed' = {}
  /\ pc' = [pc EXCEPT ![m] = "open"]
  /\ UNCHANGED <<queueVars, localVars, verdict, shutdownVars>>

\* The pc of the threads that Add wakes; a transaction may have no checks
AddNotifies(n) ==
  CASE n = 0 -> {pc}
    [] n = 1 -> NotifyOne(pc, Workers)
    [] OTHER -> {NotifyAll(pc, Workers)}

Add(m, n) ==
  /\ pc[m] = "open" /\ ~fDone
  /\ LET checks == Cardinality(added) + 1 .. Cardinality(added) + n
     IN  /\ queue' = queue \cup checks
         /\ added' = added \cup checks
  /\ nTodo' = nTodo + n
  /\ pc' \in AddNotifies(n)
  /\ UNCHANGED <<nIdle, nTotal, fAllOk, localVars, control, fDone, verdict,
                 passed, shutdownVars>>

\* control.Wait() at the end of ConnectBlock, or the destructor of control
\* when ConnectBlock returns early or an interruption unwinds it
Wait(m) ==
  /\ pc[m] \in {"open", "unwind"} /\ ~fDone
  /\ pc' = [pc EXCEPT ![m] = "enter"]
  /\ UNCHANGED <<queueVars, localVars, controlVars, passed, shutdownVars>>

\* The destructor after a Wait; an interrupted thread ends
Release(m) ==
  /\ pc[m] = "open" /\ fDone
  /\ control' = NoThread
  /\ fDone' = FALSE
  /\ pc' = [pc EXCEPT ![m] = IF m \in Thrown THEN "gone" ELSE "out"]
  /\ UNCHANGED <<queueVars, localVars, verdict, added, passed, shutdownVars>>

-----------------------------------------------------------------------------
(* Shutdown *)

\* threadGroup.interrupt_all()
InterruptAll ==
  /\ ~stopping
  /\ stopping' = TRUE
  /\ pending' = Interruptible
  /\ UNCHANGED <<pc, queueVars, localVars, controlVars, passed>>

\* Mutant of Interrupted: the worker goes on
InterruptedGoesOn(t) ==
  /\ t \in pending
  /\ pc[t] \in {"wait", "woken"}
  /\ pending' = pending \ {t}
  /\ pc' = [pc EXCEPT ![t] = IF t \in Masters THEN "unwind" ELSE "woken"]
  /\ UNCHANGED <<queueVars, localVars, controlVars, passed, stopping>>

\* cond.wait throws thread_interrupted: nIdle and nTotal keep their values,
\* a worker ends, ThreadImport unwinds ConnectBlock
Interrupted(t) ==
  /\ t \in pending
  /\ pc[t] \in {"wait", "woken"}
  /\ pending' = pending \ {t}
  /\ pc' = [pc EXCEPT ![t] = IF t \in Masters THEN "unwind" ELSE "gone"]
  /\ UNCHANGED <<queueVars, localVars, controlVars, passed, stopping>>

-----------------------------------------------------------------------------
Loop(t) == Enter(t) \/ Wake(t) \/ RunChecks(t) \/ Report(t) \/ Interrupted(t)

Next ==
  \/ \E t \in Threads : Loop(t) \/ SpuriousWakeup(t)
  \/ \E m \in Masters : Construct(m) \/ Wait(m) \/ Release(m)
  \/ \E m \in Masters, n \in 0 .. MaxChecks - Cardinality(added) : Add(m, n)
  \/ InterruptAll

Spec == Init /\ [][Next]_vars

\* Every thread that can take the mutex gets it in the end, checks end, and a
\* ConnectBlock under way comes to its end; nobody is owed a new block, a
\* spurious wakeup or a shutdown
Fairness ==
  /\ \A t \in Threads : WF_vars(Loop(t))
  /\ \A m \in Masters : WF_vars(Wait(m)) /\ WF_vars(Release(m))

FairSpec == Spec /\ Fairness

-----------------------------------------------------------------------------
(* Properties *)

\* Types of the members of CCheckQueue; nTodo and nIdle never wrap below zero.
TypeOK ==
  /\ pc \in [Threads -> {"out", "open", "enter", "wait", "woken", "run",
                         "report", "unwind", "gone"}]
  /\ queue \subseteq 1 .. MaxChecks
  /\ nIdle \in Nat /\ nTotal \in Nat /\ nTodo \in Nat
  /\ fAllOk \in BOOLEAN /\ fDone \in BOOLEAN /\ verdict \in BOOLEAN
  /\ batch \in [Threads -> SUBSET (1 .. MaxChecks)]
  /\ fOk \in [Threads -> BOOLEAN]
  /\ control \in Masters \cup {NoThread}
  /\ added \subseteq 1 .. MaxChecks /\ passed \subseteq 1 .. MaxChecks
  /\ stopping \in BOOLEAN /\ pending \subseteq Interruptible

\* What Wait returns is exact: true if and only if no check of this block
\* fails, and true only once every one of them has been run.
VerdictExact ==
  fDone => /\ verdict <=> added \cap Bad = {}
           /\ verdict => passed = added

\* A block leaves nothing behind, neither checks nor a failure, even when
\* ConnectBlock returned early or was interrupted: the next
\* CCheckQueueControl finds the queue unused.
NothingLeftBehind ==
  control = NoThread \/ fDone =>
    /\ queue = {} /\ nTodo = 0 /\ fAllOk
    /\ \A t \in Threads : batch[t] = {}

\* Every ConnectBlock gets its verdict and lets go of the queue: the master
\* is woken for the last report, and does without the workers at shutdown.
BlockEnds == \A m \in Masters : control = m ~> control # m

\* Once blocks have stopped coming, threadGroup.join_all() returns as far as
\* the workers are concerned.
WorkersJoin ==
  <>[](control = NoThread) =>
    (stopping ~> \A t \in Workers : pc[t] = "gone")
=============================================================================
