---------------------------- MODULE CallbackQueue ----------------------------
(***************************************************************************)
(* The queue of validation interface callbacks: SingleThreadedScheduler-   *)
(* Client on top of CScheduler (scheduler.cpp), its users in validation-   *)
(* interface.cpp and validation.cpp, and the way Shutdown (init.cpp) stops *)
(* them all.                                                               *)
(*                                                                         *)
(* ProcessQueue is the only task that matters here and tasks are due at    *)
(* once, so taskQueue is a number.  A callback is its number in the order  *)
(* of the additions; it may need cs_main while it runs.                    *)
(***************************************************************************)
EXTENDS Naturals, Sequences, FiniteSets

CONSTANTS
  Workers,       \* threads in CScheduler::serviceQueue; threadGroup
  Activators,    \* the message handler and RPC threads; joined before threadGroup
  Importers,     \* ThreadImport; threadGroup
  Stakers,       \* ThreadStakeMiner; interrupted, and joined by nobody
  Cleaners,      \* CleanBlockIndex; threadGroup
  Main,          \* the thread that runs Shutdown
  NoThread,
  QueueLimit,    \* LimitValidationInterfaceQueue: 10 in the code
  MaxCalls,      \* bound on the calls that add callbacks
  MaxCallbacks   \* bound on the callbacks when a signal is fired

Callers == Activators \cup Importers \cup Stakers
Clients == Callers \cup Cleaners
Runners == Workers \cup {Main}

ASSUME ThreadsAssumption ==
  /\ Workers \cap Clients = {} /\ Callers \cap Cleaners = {}
  /\ Activators \cap (Importers \cup Stakers) = {} /\ Importers \cap Stakers = {}
  /\ Main \notin Workers \cup Clients
  /\ NoThread \notin Workers \cup Clients \cup {Main}
  /\ IsFiniteSet(Clients)
  /\ QueueLimit \in Nat /\ MaxCallbacks \in Nat /\ MaxCalls \in Nat

VARIABLES
  pending,   \* m_callbacks_pending
  running,   \* m_are_callbacks_running
  tasks,     \* the ProcessQueue tasks in taskQueue
  run,       \* run[w]: where a thread is in serviceQueue or ProcessQueue
  current,   \* current[w]: the callback it runs, or 0
  cpc,       \* cpc[c]: where a client is
  awaits,    \* awaits[c]: the callback whose promise a client waits for, or 0
  csMain,    \* the holder of cs_main
  csChain,   \* the holder of m_cs_chainstate
  calls,     \* how many calls have begun
  phase,     \* Shutdown
  added, done

schedVars == <<pending, running, tasks>>
clientVars == <<cpc, awaits, csMain, csChain, calls>>
queueVars == <<schedVars, run, current, clientVars, phase, added, done>>

QueueInit ==
  /\ pending = <<>> /\ running = FALSE /\ tasks = 0
  /\ run = [w \in Runners |-> IF w = Main THEN "off" ELSE "loop"]
  /\ current = [w \in Runners |-> 0]
  /\ cpc = [c \in Clients |-> "idle"]
  /\ awaits = [c \in Clients |-> 0]
  /\ csMain = NoThread /\ csChain = NoThread /\ calls = 0
  /\ phase = "running"
  /\ added = 0 /\ done = {}

-----------------------------------------------------------------------------
(***************************************************************************)
(* CScheduler                                                              *)
(***************************************************************************)

\* threadGroup.interrupt_all() has been called: a wait on newTaskScheduled throws
Interrupted == phase \in {"joining", "emptying", "flushing", "done"}

\* schedule(): insert and notify_one.  r: where the threads are otherwise.
Schedule(r) ==
  /\ tasks' = tasks + 1
  /\ IF \E w \in Workers : r[w] = "wait"
     THEN \E w \in Workers : r[w] = "wait" /\ run' = [r EXCEPT ![w] = "loop"]
     ELSE run' = r

\* Nothing to do: newTaskScheduled.wait
Sleep(w) ==
  /\ run[w] = "loop" /\ w # Main /\ ~Interrupted /\ tasks = 0
  /\ run' = [run EXCEPT ![w] = "wait"]
  /\ UNCHANGED <<schedVars, current, clientVars, phase, added, done>>

SpuriousWakeup(w) ==
  /\ run[w] = "wait"
  /\ run' = [run EXCEPT ![w] = "loop"]
  /\ UNCHANGED <<schedVars, current, clientVars, phase, added, done>>

\* A due task is taken and run without newTaskMutex
TakeTask(w) ==
  /\ run[w] = "loop" /\ w # Main /\ ~Interrupted /\ tasks > 0
  /\ tasks' = tasks - 1
  /\ run' = [run EXCEPT ![w] = "process"]
  /\ UNCHANGED <<pending, running, current, clientVars, phase, added, done>>

\* Both waits of serviceQueue are interruption points: the thread ends
Interrupt(w) ==
  /\ run[w] \in {"loop", "wait"} /\ w # Main /\ Interrupted
  /\ run' = [run EXCEPT ![w] = "off"]
  /\ UNCHANGED <<schedVars, current, clientVars, phase, added, done>>

-----------------------------------------------------------------------------
(***************************************************************************)
(* SingleThreadedSchedulerClient, run by a worker or, in EmptyQueue, Main  *)
(***************************************************************************)

\* Mutant of ProcessQueue: m_are_callbacks_running is not looked at
ProcessQueueUnchecked(w) ==
  /\ run[w] = "process"
  /\ IF pending = <<>>
     THEN run' = [run EXCEPT ![w] = "loop"] /\ UNCHANGED <<schedVars, current>>
     ELSE /\ running' = TRUE
          /\ current' = [current EXCEPT ![w] = Head(pending)]
          /\ pending' = Tail(pending)
          /\ run' = [run EXCEPT ![w] = "callback"]
          /\ UNCHANGED tasks
  /\ UNCHANGED <<clientVars, phase, added, done>>

\* ProcessQueue's critical section
ProcessQueue(w) ==
  /\ run[w] = "process"
  /\ IF running \/ pending = <<>>
     THEN run' = [run EXCEPT ![w] = "loop"] /\ UNCHANGED <<schedVars, current>>
     ELSE /\ running' = TRUE
          /\ current' = [current EXCEPT ![w] = Head(pending)]
          /\ pending' = Tail(pending)
          /\ run' = [run EXCEPT ![w] = "callback"]
          /\ UNCHANGED tasks
  /\ UNCHANGED <<clientVars, phase, added, done>>

\* callback(), which may take cs_main
RunCallback(w) ==
  /\ run[w] = "callback"
  /\ csMain = NoThread
  /\ done' = done \cup {current[w]}
  /\ current' = [current EXCEPT ![w] = 0]
  /\ run' = [run EXCEPT ![w] = "ran"]
  /\ UNCHANGED <<schedVars, clientVars, phase, added>>

\* Mutant of Finish: the flag is reset but the queue not looked at again
FinishForgets(w) ==
  /\ run[w] = "ran"
  /\ running' = FALSE
  /\ run' = [run EXCEPT ![w] = "loop"]
  /\ UNCHANGED <<pending, tasks, current, clientVars, phase, added, done>>

\* Mutant of Finish: the flag stays set
FinishKeepsFlag(w) ==
  /\ run[w] = "ran"
  /\ run' = [run EXCEPT ![w] = "maybe"]
  /\ UNCHANGED <<schedVars, current, clientVars, phase, added, done>>

\* ~RAIICallbacksRunning: the flag is reset ...
Finish(w) ==
  /\ run[w] = "ran"
  /\ running' = FALSE
  /\ run' = [run EXCEPT ![w] = "maybe"]
  /\ UNCHANGED <<pending, tasks, current, clientVars, phase, added, done>>

\* ... and MaybeScheduleProcessQueue looks at the queue ...
Reconsider(w) ==
  /\ run[w] = "maybe"
  /\ run' = [run EXCEPT ![w] = IF running \/ pending = <<>> THEN "loop" ELSE "schedule"]
  /\ UNCHANGED <<schedVars, current, clientVars, phase, added, done>>

\* ... and schedules after it has let go of m_cs_callbacks_pending
Reschedule(w) ==
  /\ run[w] = "schedule"
  /\ Schedule([run EXCEPT ![w] = "loop"])
  /\ UNCHANGED <<pending, running, current, clientVars, phase, added, done>>

\* AddToProcessQueue's critical section: the callback gets the next number
Enqueue ==
  /\ added' = added + 1
  /\ pending' = Append(pending, added + 1)

-----------------------------------------------------------------------------
(***************************************************************************)
(* The users of the queue                                                  *)
(***************************************************************************)

\* Interrupt and StopStake come first, interrupt_all for ThreadImport later
ToldToStop(c) == IF c \in Importers THEN Interrupted ELSE phase # "running"

\* A call into the node: a critical section of cs_main that may fire signals
\* (AcceptBlock, AcceptToMemoryPool), or ActivateBestChain
Begin(c) ==
  /\ cpc[c] = "idle" /\ ~ToldToStop(c) /\ calls < MaxCalls
  /\ calls' = calls + 1
  /\ \E p \in {"lock", "activate"} : cpc' = [cpc EXCEPT ![c] = p]
  /\ UNCHANGED <<schedVars, run, current, awaits, csMain, csChain, phase, added, done>>

\* ActivateBestChain: LOCK(m_cs_chainstate), then an interruption point, which
\* ends a boost thread that has been interrupted
LockChainstate(c) ==
  /\ cpc[c] = "activate" /\ csChain = NoThread
  /\ IF ToldToStop(c) /\ c \notin Activators
     THEN cpc' = [cpc EXCEPT ![c] = "ended"] /\ UNCHANGED csChain
     ELSE cpc' = [cpc EXCEPT ![c] = "limit"] /\ csChain' = c
  /\ UNCHANGED <<schedVars, run, current, awaits, csMain, calls, phase, added, done>>

\* SyncWithValidationInterfaceQueue adds a callback that keeps a promise
Sync(c) ==
  /\ Enqueue
  /\ cpc' = [cpc EXCEPT ![c] = "maybe"]
  /\ awaits' = [awaits EXCEPT ![c] = added']
  /\ UNCHANGED <<running, tasks, run, current, csChain, calls, phase, done>>

\* Mutant of LimitValidationInterfaceQueue: called with cs_main held
LimitValidationInterfaceQueueLocked(c) ==
  /\ cpc[c] = "limit"
  /\ csMain = NoThread
  /\ csMain' = c
  /\ IF Len(pending) > QueueLimit
     THEN Sync(c)
     ELSE /\ cpc' = [cpc EXCEPT ![c] = "locked"]
          /\ UNCHANGED <<schedVars, run, current, awaits, csChain, calls, phase, added, done>>

\* LimitValidationInterfaceQueue, before cs_main is taken
LimitValidationInterfaceQueue(c) ==
  /\ cpc[c] = "limit"
  /\ UNCHANGED csMain
  /\ IF Len(pending) > QueueLimit
     THEN Sync(c)
     ELSE /\ cpc' = [cpc EXCEPT ![c] = "lock"]
          /\ UNCHANGED <<schedVars, run, current, awaits, csChain, calls, phase, added, done>>

\* At the end Shutdown takes away what cs_main guards (pcoinsTip.reset()); what a
\* thread that gets there later does is undefined and not followed
LockMain(c) ==
  /\ cpc[c] = "lock" /\ csMain = NoThread /\ phase # "done"
  /\ csMain' = c
  /\ cpc' = [cpc EXCEPT ![c] = "locked"]
  /\ UNCHANGED <<schedVars, run, current, awaits, csChain, calls, phase, added, done>>

\* BlockConnected, UpdatedBlockTip, ChainStateFlushed and the other signals,
\* fired with cs_main held
Signal(c) ==
  /\ cpc[c] = "locked" /\ added < MaxCallbacks
  /\ Enqueue
  /\ cpc' = [cpc EXCEPT ![c] = "maybe"]
  /\ UNCHANGED <<running, tasks, run, current, awaits, csMain, csChain, calls, phase, done>>

\* ActivateBestChain returns, or another critical section ends; after AcceptBlock,
\* ProcessNewBlock goes on to ActivateBestChain
UnlockMain(c) ==
  /\ cpc[c] = "locked"
  /\ csMain' = NoThread
  /\ csChain' = IF csChain = c THEN NoThread ELSE csChain
  /\ \E p \in {"idle"} \cup (IF csChain = c THEN {} ELSE {"activate"}) :
       cpc' = [cpc EXCEPT ![c] = p]
  /\ UNCHANGED <<schedVars, run, current, awaits, calls, phase, added, done>>

AfterAdding(c) == IF awaits[c] # 0 THEN "waiting" ELSE "locked"

\* MaybeScheduleProcessQueue of a client, in two parts
MaybeSchedule(c) ==
  /\ cpc[c] = "maybe"
  /\ cpc' = [cpc EXCEPT ![c] = IF running \/ pending = <<>> THEN AfterAdding(c) ELSE "schedule"]
  /\ UNCHANGED <<schedVars, run, current, awaits, csMain, csChain, calls, phase, added, done>>

ClientSchedule(c) ==
  /\ cpc[c] = "schedule"
  /\ Schedule(run)
  /\ cpc' = [cpc EXCEPT ![c] = AfterAdding(c)]
  /\ UNCHANGED <<pending, running, current, awaits, csMain, csChain, calls, phase, added, done>>

\* promise.get_future().wait() returns; it is no interruption point
SyncReturns(c) ==
  /\ cpc[c] = "waiting" /\ awaits[c] \in done
  /\ awaits' = [awaits EXCEPT ![c] = 0]
  /\ cpc' = [cpc EXCEPT ![c] = IF c \in Callers THEN "lock" ELSE "idle"]
  /\ UNCHANGED <<schedVars, run, current, csMain, csChain, calls, phase, added, done>>

\* CleanBlockIndex sees no shutdown request and selects the indexes to delete
SelectIndexes(c) ==
  /\ cpc[c] = "idle" /\ ~ToldToStop(c) /\ calls < MaxCalls
  /\ calls' = calls + 1
  /\ cpc' = [cpc EXCEPT ![c] = "selecting"]
  /\ UNCHANGED <<schedVars, run, current, awaits, csMain, csChain, phase, added, done>>

\* It has found some, whatever Shutdown has done meanwhile
SyncBeforeErase(c) ==
  /\ cpc[c] = "selecting"
  /\ Sync(c)
  /\ UNCHANGED csMain

NothingToErase(c) ==
  /\ cpc[c] = "selecting"
  /\ cpc' = [cpc EXCEPT ![c] = "idle"]
  /\ UNCHANGED <<schedVars, run, current, awaits, csMain, csChain, calls, phase, added, done>>

\* A thread that need not be joined before threadGroup ends: CleanBlockIndex sees the
\* shutdown request, MilliSleep and LoadExternalBlockFile are interruption points
ThreadEnds(c) ==
  /\ cpc[c] = "idle" /\ ToldToStop(c) /\ c \notin Activators
  /\ cpc' = [cpc EXCEPT ![c] = "ended"]
  /\ UNCHANGED <<schedVars, run, current, awaits, csMain, csChain, calls, phase, added, done>>

-----------------------------------------------------------------------------
(***************************************************************************)
(* Shutdown                                                                *)
(***************************************************************************)

\* Interrupt and StopHTTPServer, client->flush(), which stops staking, CConnman::Stop
BeginShutdown ==
  /\ phase = "running"
  /\ phase' = "stopping"
  /\ UNCHANGED <<schedVars, run, current, clientVars, added, done>>

\* They have joined their threads: threadGroup.interrupt_all()
InterruptAll ==
  /\ phase = "stopping"
  /\ \A c \in Activators : cpc[c] = "idle"
  /\ phase' = "joining"
  /\ UNCHANGED <<schedVars, run, current, clientVars, added, done>>

\* FlushStateToDisk, under cs_main, adds ChainStateFlushed
FlushStateToDisk ==
  /\ csMain = NoThread
  /\ Enqueue
  /\ tasks' = IF running THEN tasks ELSE tasks + 1

\* Mutant of JoinAll: the scheduler threads are not waited for
JoinAllButWorkers ==
  /\ phase = "joining"
  /\ \A c \in Cleaners \cup Importers : cpc[c] = "ended"
  /\ FlushStateToDisk
  /\ phase' = "emptying"
  /\ run' = [run EXCEPT ![Main] = "process"]
  /\ UNCHANGED <<running, current, clientVars, done>>

\* threadGroup.join_all() returns, and Shutdown flushes
JoinAll ==
  /\ phase = "joining"
  /\ \A w \in Workers : run[w] = "off"
  /\ \A c \in Cleaners \cup Importers : cpc[c] = "ended"
  /\ FlushStateToDisk
  /\ phase' = "emptying"
  /\ run' = [run EXCEPT ![Main] = "process"]
  /\ UNCHANGED <<running, current, clientVars, done>>

\* FlushBackgroundCallbacks: EmptyQueue calls ProcessQueue until nothing is left
EmptyQueue ==
  /\ phase = "emptying" /\ run[Main] = "loop"
  /\ IF pending = <<>>
     THEN phase' = "flushing" /\ run' = [run EXCEPT ![Main] = "off"]
     ELSE phase' = phase /\ run' = [run EXCEPT ![Main] = "process"]
  /\ UNCHANGED <<schedVars, current, clientVars, added, done>>

\* Shutdown flushes once more; "any future callbacks will be dropped"
LastFlush ==
  /\ phase = "flushing"
  /\ FlushStateToDisk
  /\ phase' = "done"
  /\ UNCHANGED <<running, run, current, clientVars, done>>

-----------------------------------------------------------------------------
Service(w) ==
  \/ Sleep(w) \/ TakeTask(w) \/ Interrupt(w) \/ ProcessQueue(w) \/ RunCallback(w)
  \/ Finish(w) \/ Reconsider(w) \/ Reschedule(w)

\* What a client does once it has begun
Proceed(c) ==
  \/ LockChainstate(c) \/ LimitValidationInterfaceQueue(c) \/ LockMain(c) \/ UnlockMain(c)
  \/ MaybeSchedule(c) \/ ClientSchedule(c) \/ SyncReturns(c) \/ NothingToErase(c)

\* What Shutdown does once it has begun
ShutdownStep == InterruptAll \/ JoinAll \/ EmptyQueue \/ LastFlush

QueueNext ==
  \/ \E w \in Runners : Service(w) \/ SpuriousWakeup(w)
  \/ \E c \in Clients : Proceed(c) \/ ThreadEnds(c)
  \/ \E c \in Callers : Begin(c) \/ Signal(c)
  \/ \E c \in Cleaners : SelectIndexes(c) \/ SyncBeforeErase(c)
  \/ BeginShutdown \/ ShutdownStep

QueueSpec == QueueInit /\ [][QueueNext]_queueVars

\* Every thread runs.  Nothing forces a client to begin or the operator to stop the
\* node.  As MaxCalls calls begin at most, a lock is let go of for good in the end, and
\* weak fairness is enough for who waits for it.
Fairness ==
  /\ \A w \in Runners : WF_queueVars(Service(w))
  /\ \A c \in Clients : WF_queueVars(Proceed(c) \/ ThreadEnds(c))
  /\ WF_queueVars(ShutdownStep)

FairSpec == QueueSpec /\ Fairness

-----------------------------------------------------------------------------
(***************************************************************************)
(* Properties                                                              *)
(***************************************************************************)

\* Each call may wait for a callback of its own, and Shutdown flushes twice
LastCallback == MaxCallbacks + MaxCalls + 2

\* Types of the members of the two classes; taskQueue is never popped empty.
QueueTypeOK ==
  /\ pending \in Seq(1..LastCallback)
  /\ running \in BOOLEAN /\ tasks \in Nat
  /\ run \in [Runners -> {"off", "loop", "wait", "process", "callback", "ran", "maybe", "schedule"}]
  /\ current \in [Runners -> 0..LastCallback]
  /\ cpc \in [Clients -> {"idle", "activate", "limit", "lock", "locked", "maybe", "schedule",
                          "waiting", "selecting", "ended"}]
  /\ awaits \in [Clients -> 0..LastCallback]
  /\ {csMain, csChain} \subseteq Callers \cup {NoThread}
  /\ phase \in {"running", "stopping", "joining", "emptying", "flushing", "done"}
  /\ added \in 0..LastCallback /\ calls \in 0..MaxCalls /\ done \subseteq 1..added

\* Callbacks run one at a time and in the order of their addition, on however
\* many threads ProcessQueue runs.
Serial == INSTANCE SerialCallbacks WITH started <- added - Len(pending)
ImplementsSerialCallbacks == Serial!Spec

\* A callback whose promise c waits for, and that no scheduler thread is left to run
NobodyRuns(c) ==
  cpc[c] = "waiting" /\ awaits[c] \notin done /\ \A w \in Workers : run[w] = "off"

\* join_all does not return: a thread of threadGroup waits for such a callback, or for
\* m_cs_chainstate, whose holder does
Stranded ==
  /\ phase = "joining"
  /\ \E c \in Cleaners \cup Importers :
       NobodyRuns(c) \/ (cpc[c] = "activate" /\ csChain # NoThread /\ NobodyRuns(csChain))

\* Every callback that is added before FlushBackgroundCallbacks has returned runs,
\* also one that a staking thread, which nobody joins, adds meanwhile.  The one
\* exception is a shutdown that never gets there, because a thread of threadGroup waits
\* for the scheduler, which belongs to the same group, after interrupt_all.
EveryCallbackRuns ==
  \A i \in 1..(LastCallback - 1) :
    added >= i /\ phase \notin {"flushing", "done"} ~> i \in done \/ Stranded

\* Every call into the node by a thread that Shutdown joins before it interrupts the
\* scheduler returns: neither a callback that needs cs_main nor a holder of
\* m_cs_chainstate that waits for one keeps it from doing so.
ActivatorsReturn == \A c \in Activators : cpc[c] # "idle" ~> cpc[c] = "idle"

\* "FlushStateToDisk generates a ChainStateFlushed callback, which we should avoid
\* missing": when FlushBackgroundCallbacks returns, every callback ever added has run to
\* its end, on whichever thread, although stakers may add more until then.
FlushedCompletely ==
  [][phase = "emptying" /\ phase' = "flushing" => done = 1..added]_queueVars

\* Shutdown ends, unless join_all does not return.
ShutdownEnds == phase = "stopping" ~> phase = "done" \/ Stranded
==============================================================================
