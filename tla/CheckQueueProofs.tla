-------------------------- MODULE CheckQueueProofs --------------------------
(***************************************************************************)
(* Proofs about CheckQueue, for any number of masters and workers and      *)
(* blocks of any size.                                                     *)
(***************************************************************************)
EXTENDS CheckQueue, FiniteSetTheorems, WellFoundedInduction, TLAPS

Places == {"out", "open", "enter", "wait", "woken", "run", "report", "unwind", "gone"}

\* Threads inside Loop, whom nTotal counts, those in cond.wait, whom nIdle
\* counts, and the checks that threads of S have taken
InLoop(p) == {t \in Threads : p[t] \in {"wait", "woken", "run", "report"}}
Asleep(p) == {t \in Threads : p[t] \in {"wait", "woken"}}
Held(S) == UNION {batch[t] : t \in S}

\* The checks that nTodo counts
Outstanding == queue \cup Held(Threads)

\* Types; the checks of a block are numbered from 1
Types ==
  /\ pc \in [Threads -> Places]
  /\ nIdle \in Nat /\ nTotal \in Nat
  /\ fAllOk \in BOOLEAN /\ fDone \in BOOLEAN /\ verdict \in BOOLEAN
  /\ batch \in [Threads -> SUBSET added] /\ fOk \in [Threads -> BOOLEAN]
  /\ control \in Masters \cup {NoThread}
  /\ stopping \in BOOLEAN /\ pending \subseteq Interruptible
  /\ queue \subseteq added /\ passed \subseteq added
  /\ \E k \in 0 .. MaxChecks : added = 1 .. k

\* One master at a time is between Construct and Release
Owner ==
  /\ \A m \in Masters : pc[m] \in {"out", "gone"} <=> control # m
  /\ fDone => control # NoThread /\ pc[control] = "open"
  /\ \A w \in Workers : pc[w] \notin {"out", "open", "unwind"}

\* A check is in the queue or in the hands of one thread, which will report it
Counted ==
  /\ \A t \in Threads : batch[t] # {} <=> pc[t] \in {"run", "report"}
  /\ \A t \in Threads : batch[t] \cap queue = {}
  /\ \A t, u \in Threads : t # u => batch[t] \cap batch[u] = {}
  /\ nTodo = Cardinality(Outstanding)
  /\ nTotal >= Cardinality(InLoop(pc))
  /\ nIdle >= Cardinality(Asleep(pc))

\* A block is being checked, and has no verdict yet
Undecided == control # NoThread /\ ~fDone

\* What the flags have recorded so far
Judged ==
  /\ passed \cap Bad = {}
  /\ Undecided /\ fAllOk => added \ Outstanding \subseteq passed
  /\ ~fAllOk => added \cap Bad # {}
  /\ \A t \in Threads : pc[t] = "report" /\ fOk[t] => batch[t] \subseteq passed
  /\ \A t \in Threads : ~fOk[t] => pc[t] \in {"run", "report"} /\ added \cap Bad # {}

QueueInv == Types /\ Owner /\ Counted /\ Judged /\ NothingLeftBehind /\ VerdictExact

-----------------------------------------------------------------------------
(***************************************************************************)
(* Sets of checks and threads                                              *)
(***************************************************************************)

\* The queue is a stack: a set of numbered checks has a last one.
LEMMA HasMaximum ==
  ASSUME NEW k \in Nat, NEW S \in SUBSET (1 .. k), S # {}
  PROVE  \E m \in S : \A x \in S : x <= m
  <1> DEFINE T == {k - x : x \in S}
  <1>0. \A x \in S : x \in Nat /\ k - x \in Nat
    BY SMT
  <1>1. T \subseteq Nat /\ T # {}
    BY <1>0, Zenon
  <1>2. \E y \in T : \A z \in T : ~(<<z, y>> \in OpToRel(<, Nat))
    BY <1>1, NatLessThanWellFounded, WFMin, Zenon
  <1>3. PICK y \in T : \A z \in T : ~(<<z, y>> \in OpToRel(<, Nat))
    BY <1>2, Zenon
  <1>4. \A z \in T : ~(z < y)
    BY <1>1, <1>3, Zenon DEF OpToRel
  <1>5. PICK m \in S : y = k - m
    OBVIOUS
  <1>6. ASSUME NEW x \in S PROVE x <= m
    <2>1. k - x \in T
      OBVIOUS
    <2>2. ~(k - x < k - m)
      BY <1>4, <1>5, <2>1
    <2> QED BY <1>0, <2>2
  <1> QED BY <1>6

\* nNow is at least 1, so that a thread that finds checks takes some.
LEMMA TakesSome ==
  ASSUME Types, queue # {}, NEW total \in Nat, NEW idle \in Nat
  PROVE  /\ Back(BatchLength(total, idle)) \subseteq queue
         /\ Back(BatchLength(total, idle)) # {}
  <1> DEFINE share == Cardinality(queue) \div (total + idle + 1)
             n == BatchLength(total, idle)
  <1>0. PICK k \in 0 .. MaxChecks : added = 1 .. k
    BY DEF Types
  <1>1. k \in Nat /\ queue \in SUBSET (1 .. k)
    BY <1>0, SizesAssumption DEF Types
  <1>2. IsFiniteSet(queue) /\ Cardinality(queue) \in Nat
    <2>1. IsFiniteSet(1 .. k)
      BY <1>1, FS_Interval
    <2> QED BY <1>1, <2>1, FS_Subset, FS_CardinalityType, Zenon
  <1>3. share \in Nat
    BY <1>2
  <1> HIDE DEF share
  <1>4. Min({BatchSize, share}) \in Nat
    BY <1>3, SizesAssumption DEF Min
  <1>5. n \in Nat /\ n >= 1
    <2>1. n = Max({1, Min({BatchSize, share})})
      BY DEF BatchLength, share
    <2> QED BY <1>4, <2>1 DEF Max
  <1>6. PICK m \in queue : \A x \in queue : x <= m
    BY <1>1, HasMaximum, Zenon
  <1>7. {d \in queue : d > m} = {}
    <2>1. \A d \in queue : d \in Int /\ m \in Int /\ d <= m
      BY <1>1, <1>6
    <2>2. \A d \in queue : ~(d > m)
      BY <2>1
    <2> QED BY <2>2
  <1>8. m \in Back(n)
    BY <1>5, <1>7, FS_EmptySet DEF Back
  <1> QED BY <1>8, Zenon DEF Back

\* The sets that the counters count are finite.
LEMMA FiniteCounts ==
  ASSUME Types
  PROVE  /\ IsFiniteSet(added) /\ \A S \in SUBSET added : IsFiniteSet(S) /\ Cardinality(S) \in Nat
         /\ \A S \in SUBSET Threads : IsFiniteSet(S) /\ Cardinality(S) \in Nat
  <1>1. IsFiniteSet(added)
    BY FS_Interval, SizesAssumption DEF Types
  <1>2. IsFiniteSet(Threads)
    BY ThreadsAssumption
  <1> QED BY <1>1, <1>2, FS_Subset, FS_CardinalityType

-----------------------------------------------------------------------------
(***************************************************************************)
(* The section of Loop from "while (queue.empty())" on.  Ready says what   *)
(* holds of the values computed before it: t has no batch any more.        *)
(***************************************************************************)

Others(t) == queue \cup Held(Threads \ {t})

Ready(t, p, total, idle, ok, todo) ==
  /\ p \in [Threads -> Places]
  /\ \A u \in Threads : u # t => p[u] = pc[u] \/ (pc[u] = "wait" /\ p[u] = "woken")
  /\ pc[t] \in {"enter", "woken", "report"}
  /\ total \in Nat /\ total >= Cardinality(InLoop(p) \cup {t})
  /\ idle \in Nat /\ idle >= Cardinality(Asleep(p) \ {t})
  /\ ok \in BOOLEAN /\ todo = Cardinality(Others(t))
  /\ Undecided /\ ok => added \ Others(t) \subseteq passed
  /\ ~ok => Undecided /\ added \cap Bad # {}
  /\ t \in Masters => control = t /\ ~fDone

\* The counters are right again when the section ends: at "open" for Return,
\* "wait" for Sleep, "run" for Take.
LEMMA SectionEnds ==
  ASSUME QueueInv, NEW t \in Threads, NEW p, NEW total, NEW idle, NEW ok, NEW todo,
         Ready(t, p, total, idle, ok, todo),
         NEW place \in {"open", "wait", "run"}, NEW B \in SUBSET queue,
         B # {} <=> place = "run",
         pc' = [p EXCEPT ![t] = place], batch' = [batch EXCEPT ![t] = B],
         queue' = queue \ B, nTodo' = todo,
         nTotal' = IF place = "open" THEN total - 1 ELSE total,
         nIdle' = IF place = "wait" THEN idle + 1 ELSE idle,
         UNCHANGED <<added, passed, control, stopping, pending>>,
         fAllOk' \in BOOLEAN, fDone' \in BOOLEAN, verdict' \in BOOLEAN,
         fOk' \in [Threads -> BOOLEAN]
  PROVE  Types' /\ Counted' /\ Outstanding' = Others(t)
  <1>1. /\ pc \in [Threads -> Places] /\ batch \in [Threads -> SUBSET added]
        /\ queue \subseteq added /\ p \in [Threads -> Places]
    BY DEF QueueInv, Types, Ready
  <1>2. /\ pc' \in [Threads -> Places] /\ pc'[t] = place
        /\ \A u \in Threads : u # t => pc'[u] = p[u]
    BY <1>1 DEF Places
  <1>3. /\ batch' \in [Threads -> SUBSET added] /\ batch'[t] = B
        /\ \A u \in Threads : u # t => batch'[u] = batch[u]
    BY <1>1
  <1>4. Outstanding' = Others(t)
    BY <1>3 DEF Outstanding, Others, Held
  <1>5. /\ IsFiniteSet(InLoop(p) \cup {t}) /\ IsFiniteSet(Asleep(p) \ {t})
        /\ Cardinality(InLoop(p) \cup {t}) \in Nat /\ Cardinality(Asleep(p) \ {t}) \in Nat
    BY FiniteCounts DEF QueueInv, InLoop, Asleep
  <1>6. nTotal' \in Nat /\ nTotal' >= Cardinality(InLoop(pc'))
    <2>0. total \in Nat /\ total >= Cardinality(InLoop(p) \cup {t})
      BY DEF Ready
    <2>1. CASE place = "open"
      <3>1. InLoop(pc') = (InLoop(p) \cup {t}) \ {t}
        BY <1>2, <2>1 DEF InLoop
      <3>2. Cardinality(InLoop(pc')) = Cardinality(InLoop(p) \cup {t}) - 1
        <4> DEFINE L == InLoop(p) \cup {t}
        <4>1. t \in L /\ IsFiniteSet(L) /\ InLoop(pc') = L \ {t}
          BY <1>5, <3>1, Zenon
        <4> HIDE DEF L
        <4>2. Cardinality(L \ {t}) = Cardinality(L) - 1
          BY <4>1, FS_RemoveElement, Zenon
        <4> QED BY <4>1, <4>2, Zenon DEF L
      <3>3. Cardinality(InLoop(pc')) \in Nat
        BY <1>5, <3>1, FS_RemoveElement, FS_CardinalityType, Zenon
      <3> QED BY <1>5, <2>0, <2>1, <3>2, <3>3
    <2>2. CASE place # "open"
      <3>1. InLoop(pc') = InLoop(p) \cup {t}
        BY <1>2, <2>2 DEF InLoop
      <3> QED BY <2>0, <2>2, <3>1, Zenon
    <2> QED BY <2>1, <2>2
  <1>7. nIdle' \in Nat /\ nIdle' >= Cardinality(Asleep(pc'))
    <2>0. idle \in Nat /\ idle >= Cardinality(Asleep(p) \ {t})
      BY DEF Ready
    <2>1. CASE place = "wait"
      <3>1. Asleep(pc') = (Asleep(p) \ {t}) \cup {t}
        BY <1>2, <2>1 DEF Asleep
      <3>2. Cardinality(Asleep(pc')) = Cardinality(Asleep(p) \ {t}) + 1
        BY <1>5, <3>1, FS_AddElement, Zenon
      <3> QED BY <1>5, <2>0, <2>1, <3>2
    <2>2. CASE place # "wait"
      <3>1. Asleep(pc') = Asleep(p) \ {t}
        BY <1>2, <2>2 DEF Asleep
      <3> QED BY <2>0, <2>2, <3>1, Zenon
    <2> QED BY <2>1, <2>2
  <1>8. Types'
    BY <1>2, <1>3, <1>6, <1>7 DEF QueueInv, Types
  <1>9. nTodo' = Cardinality(Outstanding')
    BY <1>4 DEF Ready
  <1>10. \A u \in Threads : batch'[u] # {} <=> pc'[u] \in {"run", "report"}
    BY <1>2, <1>3 DEF QueueInv, Counted, Ready
  <1>11. /\ \A u \in Threads : batch'[u] \cap queue' = {}
         /\ \A u, v \in Threads : u # v => batch'[u] \cap batch'[v] = {}
    BY <1>3 DEF QueueInv, Counted
  <1>12. Counted'
    BY <1>6, <1>7, <1>9, <1>10, <1>11 DEF Counted, InLoop, Asleep
  <1> QED BY <1>4, <1>8, <1>12

\* A section of Loop leaves the queue to the master it belongs to.
LEMMA SectionOwner ==
  ASSUME QueueInv, NEW t \in Threads, NEW p, NEW total, NEW idle, NEW ok, NEW todo,
         Ready(t, p, total, idle, ok, todo),
         NEW place \in {"open", "wait", "run"},
         pc' = [p EXCEPT ![t] = place], UNCHANGED control,
         \/ place = "open" /\ t \in Masters /\ fDone' = TRUE
         \/ place # "open" /\ UNCHANGED fDone
  PROVE  Owner'
  <1>1. p \in [Threads -> Places] /\ control \in Masters \cup {NoThread}
    BY DEF QueueInv, Types, Ready
  <1>2. pc'[t] = place /\ \A u \in Threads : u # t => pc'[u] = p[u]
    BY <1>1
  <1>3. Masters \subseteq Threads /\ Workers \subseteq Threads /\ NoThread \notin Masters
        /\ Masters \cap Workers = {}
    BY ThreadsAssumption DEF Threads
  <1>4. \A m \in Masters : pc'[m] \in {"out", "gone"} <=> control # m
    BY <1>2, <1>3 DEF QueueInv, Owner, Ready
  <1>5. \A w \in Workers : pc'[w] \notin {"out", "open", "unwind"}
    BY <1>2, <1>3 DEF QueueInv, Owner, Ready
  <1>6. fDone' => control # NoThread /\ pc'[control] = "open"
    <2>1. CASE place = "open"
      BY <1>2, <1>3, <2>1 DEF Ready
    <2>2. CASE place # "open"
      <3>1. UNCHANGED fDone
        BY <2>2
      <3>2. ASSUME fDone PROVE control # NoThread /\ pc'[control] = "open"
        <4>1. control \in Masters /\ pc[control] = "open" /\ control # t
          BY <1>1, <3>2 DEF QueueInv, Owner, Ready
        <4> QED BY <1>2, <1>3, <4>1 DEF Ready
      <3> QED BY <3>1, <3>2
    <2> QED BY <2>1, <2>2
  <1> QED BY <1>4, <1>5, <1>6 DEF Owner

\* ... and fAllOk and fOk as the checks reported so far have them.
LEMMA SectionJudged ==
  ASSUME QueueInv, NEW t \in Threads, NEW p, NEW total, NEW idle, NEW ok, NEW todo,
         Ready(t, p, total, idle, ok, todo),
         NEW place \in {"open", "wait", "run"},
         pc' = [p EXCEPT ![t] = place], UNCHANGED <<added, passed, control>>,
         Outstanding' = Others(t), NEW B, batch' = [batch EXCEPT ![t] = B],
         fOk' = [fOk EXCEPT ![t] = IF place = "run" THEN ok ELSE TRUE],
         \/ fDone' = TRUE /\ fAllOk' = TRUE
         \/ UNCHANGED fDone /\ fAllOk' = ok
  PROVE  Judged'
  <1>1. /\ p \in [Threads -> Places] /\ batch \in [Threads -> SUBSET added]
        /\ fOk \in [Threads -> BOOLEAN] /\ ok \in BOOLEAN
    BY DEF QueueInv, Types, Ready
  <1>2. /\ pc'[t] = place /\ batch'[t] = B /\ fOk'[t] = (IF place = "run" THEN ok ELSE TRUE)
        /\ \A u \in Threads : u # t => pc'[u] = p[u] /\ batch'[u] = batch[u] /\ fOk'[u] = fOk[u]
    BY <1>1
  <1>3. passed' \cap Bad = {}
    BY DEF QueueInv, Judged
  <1>4. Undecided' /\ fAllOk' => added' \ Outstanding' \subseteq passed'
    BY Zenon DEF Ready, Undecided
  <1>5. ~fAllOk' => added' \cap Bad # {}
    BY <1>1 DEF Ready
  <1>6. \A u \in Threads : pc'[u] = "report" /\ fOk'[u] => batch'[u] \subseteq passed'
    BY <1>2 DEF QueueInv, Judged, Ready
  <1>7. \A u \in Threads : ~fOk'[u] => pc'[u] \in {"run", "report"} /\ added' \cap Bad # {}
    BY <1>2, Zenon DEF QueueInv, Judged, Ready
  <1> QED BY <1>3, <1>4, <1>5, <1>6, <1>7 DEF Judged

\* The section keeps the invariant, whichever way it ends.
LEMMA WaitForWorkKeeps ==
  ASSUME QueueInv, NEW t \in Threads, NEW p, NEW total, NEW idle, NEW ok, NEW todo,
         Ready(t, p, total, idle, ok, todo), WaitForWork(t, p, total, idle, ok, todo),
         UNCHANGED <<passed, shutdownVars>>
  PROVE  QueueInv'
  <1>0. /\ ok \in BOOLEAN /\ fDone \in BOOLEAN /\ verdict \in BOOLEAN
        /\ fOk \in [Threads -> BOOLEAN] /\ UNCHANGED <<passed, stopping, pending>>
    BY DEF QueueInv, Types, Ready, shutdownVars
  <1>00. IsFiniteSet(Others(t)) /\ todo = Cardinality(Others(t))
    <2>1. Others(t) \subseteq added
      BY Zenon DEF QueueInv, Types, Others, Held
    <2> QED BY <2>1, FiniteCounts DEF QueueInv, Ready
  <1>1. CASE Return(t, p, total, idle, ok, todo) /\ batch' = [batch EXCEPT ![t] = {}]
             /\ fOk' = [fOk EXCEPT ![t] = TRUE]
    <2>1. /\ queue = {} /\ t \in Masters /\ todo = 0 /\ pc' = [p EXCEPT ![t] = "open"]
          /\ nTotal' = total - 1 /\ nIdle' = idle /\ fAllOk' = TRUE /\ nTodo' = todo
          /\ fDone' = TRUE /\ verdict' = ok /\ UNCHANGED <<queue, control, added>>
      BY <1>1 DEF Return
    <2>2. queue' = queue \ {} /\ fOk' \in [Threads -> BOOLEAN]
      BY <1>0, <1>1, <2>1
    <2>3. Types' /\ Counted' /\ Outstanding' = Others(t)
      BY <1>0, <1>1, <2>1, <2>2, SectionEnds, Zenon
    <2>4. Owner'
      BY <2>1, SectionOwner, Zenon
    <2>5. Judged'
      BY <1>0, <1>1, <2>1, <2>3, SectionJudged, Zenon
    <2>6. Outstanding' = {} /\ Others(t) = {}
      BY <1>00, <2>1, <2>3, FS_EmptySet, Zenon
    <2>7. NothingLeftBehind'
      BY <2>1, <2>6 DEF NothingLeftBehind, Outstanding, Held
    <2>8. VerdictExact'
      <3>1. Undecided
        BY <2>1, ThreadsAssumption DEF Ready, Undecided, Threads
      <3>2. ok => added \subseteq passed
        BY <2>6, <3>1 DEF Ready
      <3>3. passed \subseteq added /\ passed \cap Bad = {}
        BY DEF QueueInv, Types, Judged
      <3>4. ~ok => added \cap Bad # {}
        BY DEF Ready
      <3> QED BY <1>0, <2>1, <3>2, <3>3, <3>4, Zenon DEF VerdictExact
    <2> QED BY <2>3, <2>4, <2>5, <2>7, <2>8 DEF QueueInv
  <1>2. CASE Sleep(t, p, total, idle, ok, todo) /\ batch' = [batch EXCEPT ![t] = {}]
             /\ fOk' = [fOk EXCEPT ![t] = TRUE]
    <2>1. /\ queue = {} /\ pc' = [p EXCEPT ![t] = "wait"]
          /\ nTotal' = total /\ nIdle' = idle + 1 /\ fAllOk' = ok /\ nTodo' = todo
          /\ UNCHANGED <<queue, control, fDone, verdict, added>>
      BY <1>2 DEF Sleep, controlVars
    <2>2. queue' = queue \ {} /\ fOk' \in [Threads -> BOOLEAN]
      BY <1>0, <1>2, <2>1, SMTT(40)
    <2>3. Types' /\ Counted' /\ Outstanding' = Others(t)
      BY <1>0, <1>2, <2>1, <2>2, SectionEnds, ZenonT(40)
    <2>4. Owner'
      BY <2>1, SectionOwner, Zenon
    <2>5. Judged'
      BY <1>0, <1>2, <2>1, <2>3, SectionJudged, Zenon
    <2>6. ASSUME control = NoThread \/ fDone PROVE Outstanding' = {} /\ nTodo' = 0 /\ ok
      <3>1. Outstanding = {} /\ ~Undecided
        BY <2>6 DEF QueueInv, NothingLeftBehind, Outstanding, Held, Undecided
      <3>2. Others(t) = {}
        BY <3>1, SMTT(40) DEF Others, Outstanding, Held
      <3> QED BY <1>00, <2>1, <2>3, <3>1, <3>2, FS_EmptySet DEF Ready
    <2>7. NothingLeftBehind'
      BY <2>1, <2>6 DEF NothingLeftBehind, Outstanding, Held
    <2>8. VerdictExact'
      BY <1>0, <2>1 DEF QueueInv, VerdictExact
    <2> QED BY <2>3, <2>4, <2>5, <2>7, <2>8 DEF QueueInv
  <1>3. CASE Take(t, p, total, idle, ok, todo)
    <2> DEFINE B == Back(BatchLength(total, idle))
    <2>1. /\ queue # {} /\ pc' = [p EXCEPT ![t] = "run"] /\ batch' = [batch EXCEPT ![t] = B]
          /\ queue' = queue \ B /\ fOk' = [fOk EXCEPT ![t] = ok]
          /\ nTotal' = total /\ nIdle' = idle /\ fAllOk' = ok /\ nTodo' = todo
          /\ UNCHANGED <<control, fDone, verdict, added>>
      BY <1>3 DEF Take, controlVars
    <2>2. B \in SUBSET queue /\ B # {}
      BY <2>1, TakesSome DEF QueueInv, Ready
    <2> HIDE DEF B
    <2>3. fOk' \in [Threads -> BOOLEAN]
      BY <1>0, <2>1, SMTT(40)
    <2>4. Types' /\ Counted' /\ Outstanding' = Others(t)
      BY <1>0, <2>1, <2>2, <2>3, SectionEnds, Zenon
    <2>5. Owner'
      BY <2>1, SectionOwner, ZenonT(40)
    <2>6. Judged'
      BY <1>0, <2>1, <2>4, SectionJudged, Zenon
    <2>7. control # NoThread /\ ~fDone
      BY <2>1 DEF QueueInv, NothingLeftBehind
    <2> QED BY <2>1, <2>4, <2>5, <2>6, <2>7 DEF QueueInv, NothingLeftBehind, VerdictExact
  <1> QED BY <1>1, <1>2, <1>3 DEF WaitForWork

-----------------------------------------------------------------------------
(***************************************************************************)
(* The steps of Loop                                                       *)
(***************************************************************************)

\* A thread that holds no checks leaves the count as it is.
LEMMA EmptyHanded ==
  ASSUME QueueInv, NEW t \in Threads, batch[t] = {}
  PROVE  Others(t) = Outstanding
  BY DEF Others, Outstanding, Held

\* A thread enters Loop: nTotal counts it from now on.
LEMMA EnterKeeps ==
  ASSUME QueueInv, NEW t \in Threads, Enter(t)
  PROVE  QueueInv'
  <1>1. pc[t] = "enter" /\ batch[t] = {}
    BY DEF Enter, QueueInv, Counted
  <1>2. Others(t) = Outstanding
    BY <1>1, EmptyHanded
  <1>3. nTotal + 1 \in Nat /\ nTotal + 1 >= Cardinality(InLoop(pc) \cup {t})
    <2>1. IsFiniteSet(InLoop(pc)) /\ Cardinality(InLoop(pc)) \in Nat
      BY FiniteCounts DEF QueueInv, InLoop
    <2>2. Cardinality(InLoop(pc) \cup {t}) = Cardinality(InLoop(pc)) + 1
      <3>1. t \notin InLoop(pc)
        BY <1>1 DEF InLoop
      <3> QED BY <2>1, <3>1, FS_AddElement, Zenon
    <2>3. Cardinality(InLoop(pc) \cup {t}) \in Nat
      BY <2>1, FS_AddElement, FS_CardinalityType
    <2> QED BY <2>1, <2>2, <2>3 DEF QueueInv, Types, Counted
  <1>4. nIdle \in Nat /\ nIdle >= Cardinality(Asleep(pc) \ {t})
    <2>1. Asleep(pc) \ {t} = Asleep(pc)
      BY <1>1 DEF Asleep
    <2> QED BY <2>1, Zenon DEF QueueInv, Types, Counted
  <1>5. t \in Masters => control = t /\ ~fDone
    BY <1>1 DEF QueueInv, Owner
  <1>6. ~fAllOk => Undecided /\ added \cap Bad # {}
    BY DEF QueueInv, Judged, NothingLeftBehind, Undecided
  <1>7. Ready(t, pc, nTotal + 1, nIdle, fAllOk, nTodo)
    BY <1>1, <1>2, <1>3, <1>4, <1>5, <1>6 DEF Ready, QueueInv, Types, Counted, Judged
  <1> QED BY <1>7, WaitForWorkKeeps DEF Enter

\* A thread returns from cond.wait: nIdle does not count it any more.
LEMMA WakeKeeps ==
  ASSUME QueueInv, NEW t \in Threads, Wake(t)
  PROVE  QueueInv'
  <1>1. pc[t] = "woken" /\ batch[t] = {}
    BY DEF Wake, QueueInv, Counted
  <1>2. Others(t) = Outstanding
    BY <1>1, EmptyHanded
  <1>3. InLoop(pc) \cup {t} = InLoop(pc)
    BY <1>1 DEF InLoop
  <1>4. nIdle - 1 \in Nat /\ nIdle - 1 >= Cardinality(Asleep(pc) \ {t})
    <2>1. IsFiniteSet(Asleep(pc)) /\ t \in Asleep(pc)
      BY <1>1, FiniteCounts DEF QueueInv, Asleep
    <2>2. /\ Cardinality(Asleep(pc) \ {t}) = Cardinality(Asleep(pc)) - 1
          /\ Cardinality(Asleep(pc)) \in Nat
      BY <2>1, FS_RemoveElement, FS_CardinalityType
    <2>3. Cardinality(Asleep(pc) \ {t}) \in Nat
      BY <2>1, FS_RemoveElement, FS_CardinalityType
    <2> QED BY <2>2, <2>3 DEF QueueInv, Types, Counted
  <1>5. t \in Masters => control = t /\ ~fDone
    BY <1>1 DEF QueueInv, Owner
  <1>6. ~fAllOk => Undecided /\ added \cap Bad # {}
    BY DEF QueueInv, Judged, NothingLeftBehind, Undecided
  <1>7. Ready(t, pc, nTotal, nIdle - 1, fAllOk, nTodo)
    BY <1>1, <1>2, <1>3, <1>4, <1>5, <1>6, ZenonT(40) DEF Ready, QueueInv, Types, Counted, Judged
  <1> QED BY <1>7, WaitForWorkKeeps DEF Wake

\* notify_one and notify_all wake threads that are in cond.wait, and do nothing else.
LEMMA NotifyWakes ==
  ASSUME NEW q \in [Threads -> Places], NEW S \in SUBSET Threads
  PROVE  \A p \in NotifyOne(q, S) \cup {NotifyAll(q, S)} :
           /\ p \in [Threads -> Places] /\ Asleep(p) = Asleep(q) /\ InLoop(p) = InLoop(q)
           /\ \A u \in Threads : p[u] = q[u] \/ (q[u] = "wait" /\ p[u] = "woken")
  <1>1. ASSUME NEW p \in NotifyOne(q, S)
        PROVE  /\ p \in [Threads -> Places]
               /\ \A u \in Threads : p[u] = q[u] \/ (q[u] = "wait" /\ p[u] = "woken")
    BY <1>1 DEF NotifyOne, Places
  <1>2. /\ NotifyAll(q, S) \in [Threads -> Places]
        /\ \A u \in Threads : \/ NotifyAll(q, S)[u] = q[u]
                              \/ q[u] = "wait" /\ NotifyAll(q, S)[u] = "woken"
    BY DEF NotifyAll, Places
  <1> QED BY <1>1, <1>2 DEF Asleep, InLoop

\* A thread reports its batch: nTodo loses exactly the checks of the batch, and
\* fAllOk takes in their outcome.
LEMMA ReportKeeps ==
  ASSUME QueueInv, NEW t \in Threads, Report(t)
  PROVE  QueueInv'
  <1> DEFINE todo == nTodo - Cardinality(batch[t])
             ok == fAllOk /\ fOk[t]
  <1>1. pc[t] = "report" /\ batch[t] # {}
    BY DEF Report, QueueInv, Counted
  <1>2. PICK p \in LastNotifies(t, todo) : WaitForWork(t, p, nTotal, nIdle, ok, todo)
    BY SMTT(40) DEF Report
  <1>3. todo = Cardinality(Others(t))
    <2>1. /\ Outstanding = Others(t) \cup batch[t] /\ Others(t) \cap batch[t] = {}
      BY DEF QueueInv, Counted, Outstanding, Others, Held
    <2>2. Others(t) \subseteq added /\ batch[t] \subseteq added
      BY Zenon DEF QueueInv, Types, Others, Held
    <2>3. /\ IsFiniteSet(Others(t)) /\ Cardinality(Others(t)) \in Nat
          /\ IsFiniteSet(batch[t]) /\ Cardinality(batch[t]) \in Nat
      BY <2>2, FiniteCounts DEF QueueInv
    <2>4. Cardinality(Outstanding) = Cardinality(Others(t)) + Cardinality(batch[t]) - Cardinality({})
      BY <2>1, <2>3, FS_Union
    <2> QED BY <2>3, <2>4, FS_EmptySet, SMTT(40) DEF QueueInv, Counted
  <1>4. /\ p \in [Threads -> Places] /\ Asleep(p) = Asleep(pc) /\ InLoop(p) = InLoop(pc)
        /\ \A u \in Threads : p[u] = pc[u] \/ (pc[u] = "wait" /\ p[u] = "woken")
    BY <1>2, NotifyWakes, Zenon DEF LastNotifies, QueueInv, Types, Threads
  <1>5. InLoop(pc) \cup {t} = InLoop(pc) /\ Asleep(pc) \ {t} = Asleep(pc)
    BY <1>1 DEF InLoop, Asleep
  <1>6. Undecided
    BY <1>1 DEF QueueInv, NothingLeftBehind, Undecided
  <1>7. t \in Masters => control = t /\ ~fDone
    BY <1>1, <1>6 DEF QueueInv, Owner, Undecided
  <1>8. ok => added \ Others(t) \subseteq passed
    <2>1. added \ Others(t) \subseteq (added \ Outstanding) \cup batch[t]
      BY DEF Outstanding, Others, Held
    <2>2. fAllOk => added \ Outstanding \subseteq passed
      BY <1>6 DEF QueueInv, Judged
    <2>3. fOk[t] => batch[t] \subseteq passed
      BY <1>1 DEF QueueInv, Judged
    <2> QED BY <2>1, <2>2, <2>3
  <1>9. ~ok => added \cap Bad # {}
    BY DEF QueueInv, Judged
  <1>10. ok \in BOOLEAN
    BY DEF QueueInv, Types
  <1> HIDE DEF ok, todo
  <1>11. Ready(t, p, nTotal, nIdle, ok, todo)
    BY <1>1, <1>3, <1>4, <1>5, <1>6, <1>7, <1>8, <1>9, <1>10, ZenonT(40) DEF Ready, QueueInv, Types, Counted
  <1> QED BY <1>2, <1>11, WaitForWorkKeeps DEF Report

\* A thread runs its batch: it keeps the checks, and knows their outcome.
LEMMA RunChecksKeeps ==
  ASSUME QueueInv, NEW t \in Threads, RunChecks(t)
  PROVE  QueueInv'
  <1>1. /\ pc[t] = "run" /\ pc' = [pc EXCEPT ![t] = "report"]
        /\ fOk' = [fOk EXCEPT ![t] = fOk[t] /\ batch[t] \cap Bad = {}]
        /\ passed' = (IF fOk'[t] THEN passed \cup batch[t] ELSE passed)
        /\ UNCHANGED <<queue, nIdle, nTotal, fAllOk, nTodo, batch, control, fDone, verdict, added,
                       stopping, pending>>
    BY Zenon DEF RunChecks, queueVars, controlVars, shutdownVars
  <1>2. /\ pc \in [Threads -> Places] /\ fOk \in [Threads -> BOOLEAN]
        /\ batch \in [Threads -> SUBSET added] /\ passed \subseteq added
    BY DEF QueueInv, Types
  <1>3. /\ pc' \in [Threads -> Places] /\ pc'[t] = "report" /\ fOk' \in [Threads -> BOOLEAN]
        /\ fOk'[t] = (fOk[t] /\ batch[t] \cap Bad = {})
        /\ \A u \in Threads : u # t => pc'[u] = pc[u] /\ fOk'[u] = fOk[u]
    BY <1>1, <1>2 DEF Places
  <1>4. passed \subseteq passed' /\ passed' \subseteq added
    BY <1>1, <1>2, SMTT(40)
  <1>5. Types'
    BY <1>1, <1>3, <1>4, SMTT(40) DEF QueueInv, Types
  <1>6. Owner'
    <2>1. t \in Masters => control = t /\ ~fDone
      BY <1>1 DEF QueueInv, Owner
    <2>2. fDone => control # t
      BY <1>1 DEF QueueInv, Owner
    <2>3. control \in Masters \cup {NoThread} /\ Masters \subseteq Threads /\ Workers \subseteq Threads
      BY SMTT(40) DEF QueueInv, Types, Threads
    <2> QED BY <1>1, <1>3, <2>1, <2>2, <2>3, SMTT(40) DEF QueueInv, Owner
  <1>7. Counted'
    <2>1. \A u \in Threads : /\ pc'[u] \in {"wait", "woken"} <=> pc[u] \in {"wait", "woken"}
                             /\ pc'[u] \in {"run", "report"} <=> pc[u] \in {"run", "report"}
      BY <1>1, <1>3, Zenon
    <2>2. InLoop(pc') = InLoop(pc)
      BY <2>1 DEF InLoop
    <2>3. Asleep(pc') = Asleep(pc)
      BY <2>1 DEF Asleep
    <2>4. Outstanding' = Outstanding
      BY <1>1, SMTT(40) DEF Outstanding, Held
    <2>5. \A u \in Threads : batch[u] # {} <=> pc'[u] \in {"run", "report"}
      BY <1>1, <2>1, SMTT(40) DEF QueueInv, Counted
    <2> QED BY <1>1, <2>2, <2>3, <2>4, <2>5, Zenon DEF QueueInv, Counted, InLoop, Asleep
  <1>8. Judged'
    <2>1. Outstanding' = Outstanding /\ Undecided' = Undecided
      BY <1>1 DEF Outstanding, Held, Undecided
    <2>2. passed' \cap Bad = {}
      BY <1>1, <1>3, ZenonT(40) DEF QueueInv, Judged
    <2>3. \A u \in Threads : pc'[u] = "report" /\ fOk'[u] => batch[u] \subseteq passed'
      BY <1>1, <1>3, <1>4 DEF QueueInv, Judged
    <2>4. \A u \in Threads : ~fOk'[u] => pc'[u] \in {"run", "report"} /\ added \cap Bad # {}
      BY <1>1, <1>2, <1>3 DEF QueueInv, Judged
    <2> QED BY <1>1, <1>4, <2>1, <2>2, <2>3, <2>4, SMTT(40) DEF QueueInv, Judged
  <1>9. Undecided
    BY <1>1 DEF QueueInv, Counted, NothingLeftBehind, Undecided
  <1> QED BY <1>1, <1>5, <1>6, <1>7, <1>8, <1>9, Zenon DEF QueueInv, NothingLeftBehind, VerdictExact,
            Undecided

-----------------------------------------------------------------------------
(***************************************************************************)
(* Steps in which a thread moves and nothing is counted or judged          *)
(***************************************************************************)

\* Threads that have no batch may move from place to place, as long as the queue
\* keeps its owner and those inside Loop are the same ones or fewer.
LEMMA MovesKeep ==
  ASSUME QueueInv, pc' \in [Threads -> Places],
         InLoop(pc') \subseteq InLoop(pc), Asleep(pc') \subseteq Asleep(pc),
         \A t \in Threads : pc'[t] # pc[t] =>
           /\ pc[t] \notin {"run", "report"} /\ pc'[t] \notin {"run", "report"},
         Owner', pending' \subseteq Interruptible, stopping' \in BOOLEAN,
         UNCHANGED <<queueVars, localVars, controlVars, passed>>
  PROVE  QueueInv'
  <1>1. UNCHANGED <<queue, nIdle, nTotal, fAllOk, nTodo, batch, fOk, control, fDone, verdict,
                    added, passed>>
    BY DEF queueVars, localVars, controlVars
  <1>2. Types'
    BY <1>1 DEF QueueInv, Types
  <1>3. Outstanding' = Outstanding /\ Undecided' = Undecided
    BY <1>1 DEF Outstanding, Held, Undecided
  <1>4. /\ Cardinality(InLoop(pc')) <= Cardinality(InLoop(pc))
        /\ Cardinality(Asleep(pc')) <= Cardinality(Asleep(pc))
    <2>1. IsFiniteSet(InLoop(pc)) /\ IsFiniteSet(Asleep(pc))
      BY FiniteCounts DEF QueueInv, InLoop, Asleep
    <2> QED BY <2>1, FS_Subset
  <1>5. /\ Cardinality(InLoop(pc')) \in Nat /\ Cardinality(InLoop(pc)) \in Nat
        /\ Cardinality(Asleep(pc')) \in Nat /\ Cardinality(Asleep(pc)) \in Nat
    BY FiniteCounts DEF QueueInv, InLoop, Asleep
  <1>6. nTotal >= Cardinality(InLoop(pc')) /\ nIdle >= Cardinality(Asleep(pc'))
    BY <1>4, <1>5, SMTT(40) DEF QueueInv, Types, Counted
  <1>7. Counted'
    <2>1. \A t \in Threads : batch[t] # {} <=> pc'[t] \in {"run", "report"}
      <3> SUFFICES ASSUME NEW t \in Threads PROVE batch[t] # {} <=> pc'[t] \in {"run", "report"}
        BY Zenon
      <3>1. batch[t] # {} <=> pc[t] \in {"run", "report"}
        BY Zenon DEF QueueInv, Counted
      <3> QED BY <3>1, Zenon
    <2>2. nTodo' = Cardinality(Outstanding')
      BY <1>1, <1>3, Zenon DEF QueueInv, Counted
    <2> QED BY <1>1, <1>6, <2>1, <2>2, Zenon DEF QueueInv, Counted, InLoop, Asleep
  <1>8. Judged'
    BY <1>1, <1>3 DEF QueueInv, Judged
  <1> QED BY <1>1, <1>2, <1>7, <1>8 DEF QueueInv, NothingLeftBehind, VerdictExact

\* Spurious wakeups, interruptions, the call of Wait, and the request to stop.
LEMMA ThreadMovesKeep ==
  ASSUME QueueInv,
         \/ \E t \in Threads : SpuriousWakeup(t) \/ Interrupted(t)
         \/ \E m \in Masters : Wait(m)
         \/ InterruptAll
         \/ UNCHANGED vars
  PROVE  QueueInv'
  <1>0. /\ pc \in [Threads -> Places] /\ stopping \in BOOLEAN /\ pending \subseteq Interruptible
        /\ Masters \subseteq Threads /\ Workers \subseteq Threads
        /\ control \in Masters \cup {NoThread}
        /\ Masters \cap Workers = {} /\ Threads = Masters \cup Workers
    BY ThreadsAssumption DEF QueueInv, Types, Threads
  <1>1. CASE UNCHANGED vars \/ InterruptAll
    <2>1. /\ UNCHANGED <<pc, queueVars, localVars, controlVars, passed>>
          /\ stopping' \in BOOLEAN /\ pending' \subseteq Interruptible
      BY <1>0, <1>1, Zenon DEF vars, InterruptAll, shutdownVars
    <2>2. Owner'
      BY <2>1 DEF QueueInv, Owner, controlVars
    <2> QED BY <1>0, <2>1, <2>2, MovesKeep DEF InLoop, Asleep
  <1>2. ASSUME NEW t \in Threads, SpuriousWakeup(t) \/ Interrupted(t)
        PROVE  QueueInv'
    <2>1. PICK q \in Places : pc' = [pc EXCEPT ![t] = q] /\ q \in {"woken", "unwind", "gone"}
                              /\ (q = "unwind" => t \in Masters) /\ (q = "gone" => t \notin Masters)
      BY <1>2 DEF SpuriousWakeup, Interrupted, Places
    <2>2. /\ pc[t] \in {"wait", "woken"} /\ UNCHANGED <<queueVars, localVars, controlVars, passed>>
          /\ stopping' \in BOOLEAN /\ pending' \subseteq Interruptible
      BY <1>0, <1>2 DEF SpuriousWakeup, Interrupted, shutdownVars
    <2>3. /\ pc' \in [Threads -> Places] /\ pc'[t] = q
          /\ \A u \in Threads : u # t => pc'[u] = pc[u]
      BY <1>0, <2>1
    <2>4. UNCHANGED <<control, fDone>>
      BY <2>2 DEF controlVars
    <2>5. Owner'
      BY <1>0, <2>1, <2>2, <2>3, <2>4, SMTT(40) DEF QueueInv, Owner
    <2> QED BY <2>1, <2>2, <2>3, <2>5, MovesKeep DEF InLoop, Asleep
  <1>3. ASSUME NEW m \in Masters, Wait(m)
        PROVE  QueueInv'
    <2>1. /\ pc[m] \in {"open", "unwind"} /\ ~fDone /\ pc' = [pc EXCEPT ![m] = "enter"]
          /\ UNCHANGED <<queueVars, localVars, controlVars, passed, stopping, pending>>
      BY <1>3 DEF Wait, shutdownVars
    <2>2. /\ pc' \in [Threads -> Places] /\ pc'[m] = "enter"
          /\ \A u \in Threads : u # m => pc'[u] = pc[u]
      BY <1>0, <2>1 DEF Places
    <2>3. UNCHANGED <<control, fDone>>
      BY <2>1, SMTT(40) DEF controlVars
    <2>4. Owner'
      BY <1>0, <2>1, <2>2, <2>3, Zenon DEF QueueInv, Owner
    <2> QED BY <1>0, <2>1, <2>2, <2>4, MovesKeep, Zenon DEF InLoop, Asleep
  <1> QED BY <1>1, <1>2, <1>3

-----------------------------------------------------------------------------
(***************************************************************************)
(* CCheckQueueControl                                                      *)
(***************************************************************************)

\* A new CCheckQueueControl finds the queue unused, so it may begin a new block.
LEMMA ConstructKeeps ==
  ASSUME QueueInv, NEW m \in Masters, Construct(m)
  PROVE  QueueInv'
  <1>1. /\ pc[m] = "out" /\ control = NoThread /\ control' = m /\ fDone' = FALSE
        /\ added' = {} /\ passed' = {} /\ pc' = [pc EXCEPT ![m] = "open"]
        /\ UNCHANGED <<queue, nIdle, nTotal, fAllOk, nTodo, batch, fOk, verdict, stopping, pending>>
    BY DEF Construct, queueVars, localVars, shutdownVars
  <1>2. /\ m \in Threads /\ NoThread \notin Masters
        /\ Masters \subseteq Threads /\ Workers \subseteq Threads
        /\ Masters \cap Workers = {}
    BY ThreadsAssumption DEF Threads
  <1>3. /\ pc' \in [Threads -> Places] /\ pc'[m] = "open"
        /\ \A u \in Threads : u # m => pc'[u] = pc[u]
    BY <1>1, <1>2, SMTT(40) DEF QueueInv, Types, Places
  <1>4. queue = {} /\ fAllOk /\ \A t \in Threads : batch[t] = {}
    BY <1>1 DEF QueueInv, NothingLeftBehind
  <1>5. \A t \in Threads : fOk[t]
    BY <1>4 DEF QueueInv, Judged, Counted
  <1>6. Types'
    <2>1. added' = 1 .. 0 /\ 0 \in 0 .. MaxChecks
      BY <1>1, SizesAssumption
    <2>2. batch' \in [Threads -> SUBSET added']
      BY <1>1, <1>4 DEF QueueInv, Types
    <2> QED BY <1>1, <1>3, <1>4, <2>1, <2>2, Zenon DEF QueueInv, Types
  <1>7. Owner'
    BY <1>1, <1>2, <1>3 DEF QueueInv, Owner
  <1>8. Counted'
    <2>1. InLoop(pc') = InLoop(pc) /\ Asleep(pc') = Asleep(pc) /\ Outstanding' = Outstanding
      BY <1>1, <1>2, <1>3 DEF InLoop, Asleep, Outstanding, Held
    <2> QED BY <1>1, <1>2, <1>3, <2>1, ZenonT(40) DEF QueueInv, Counted, InLoop, Asleep
  <1>9. Judged'
    BY <1>1, <1>4, <1>5, Zenon DEF Judged
  <1> QED BY <1>1, <1>2, <1>6, <1>7, <1>8, <1>9 DEF QueueInv, NothingLeftBehind, VerdictExact

\* The destructor lets go of a queue that is unused again.
LEMMA ReleaseKeeps ==
  ASSUME QueueInv, NEW m \in Masters, Release(m)
  PROVE  QueueInv'
  <1>1. PICK q \in {"out", "gone"} : pc' = [pc EXCEPT ![m] = q]
    BY Zenon DEF Release
  <1>2. /\ pc[m] = "open" /\ fDone /\ control' = NoThread /\ fDone' = FALSE
        /\ UNCHANGED <<queue, nIdle, nTotal, fAllOk, nTodo, batch, fOk, verdict, added, passed,
                       stopping, pending>>
    BY DEF Release, queueVars, localVars, shutdownVars
  <1>3. /\ m \in Threads /\ NoThread \notin Masters /\ Masters \subseteq Threads
        /\ Workers \subseteq Threads /\ Masters \cap Workers = {}
    BY ThreadsAssumption DEF Threads
  <1>4. /\ pc' \in [Threads -> Places] /\ pc'[m] = q
        /\ \A u \in Threads : u # m => pc'[u] = pc[u]
    BY <1>1, <1>3 DEF QueueInv, Types, Places
  <1>5. Types'
    BY <1>2, <1>4, Zenon DEF QueueInv, Types
  <1>6. Owner'
    BY <1>1, <1>2, <1>3, <1>4 DEF QueueInv, Owner
  <1>7. Counted'
    <2>1. InLoop(pc') = InLoop(pc) /\ Asleep(pc') = Asleep(pc) /\ Outstanding' = Outstanding
      BY <1>2, <1>3, <1>4 DEF InLoop, Asleep, Outstanding, Held
    <2> QED BY <1>2, <1>3, <1>4, <2>1, Zenon DEF QueueInv, Counted, InLoop, Asleep
  <1>8. Judged'
    <2>1. ~Undecided'
      BY <1>2, SMTT(40) DEF Undecided
    <2> QED BY <1>1, <1>2, <1>3, <1>4, <2>1 DEF QueueInv, Judged
  <1> QED BY <1>2, <1>5, <1>6, <1>7, <1>8, Zenon DEF QueueInv, NothingLeftBehind, VerdictExact

\* Add counts the checks it puts on the queue, which no thread has seen yet.
LEMMA AddKeeps ==
  ASSUME QueueInv, NEW m \in Masters, NEW n \in 0 .. MaxChecks - Cardinality(added), Add(m, n)
  PROVE  QueueInv'
  <1> DEFINE checks == Cardinality(added) + 1 .. Cardinality(added) + n
  <1>1. /\ pc[m] = "open" /\ ~fDone /\ queue' = queue \cup checks /\ added' = added \cup checks
        /\ nTodo' = nTodo + n /\ pc' \in AddNotifies(n)
        /\ UNCHANGED <<nIdle, nTotal, fAllOk, batch, fOk, control, fDone, verdict, passed, stopping,
                       pending>>
    BY DEF Add, localVars, shutdownVars
  <1>2. /\ m \in Threads /\ NoThread \notin Masters /\ Masters \subseteq Threads
        /\ Workers \subseteq Threads
    BY ThreadsAssumption DEF Threads
  <1>3. control = m
    BY <1>1 DEF QueueInv, Owner
  <1>4. PICK k \in 0 .. MaxChecks : added = 1 .. k
    BY DEF QueueInv, Types
  <1>5. k \in Nat /\ Cardinality(added) = k
    BY <1>4, FS_Interval, SizesAssumption
  <1>6. n \in Nat /\ k + n \in 0 .. MaxChecks /\ checks = k + 1 .. k + n
    BY <1>5, SizesAssumption
  <1> HIDE DEF checks
  <1>7. added' = 1 .. k + n /\ added \cap checks = {}
    BY <1>1, <1>4, <1>5, <1>6
  <1>8. IsFiniteSet(checks) /\ Cardinality(checks) = n
    BY <1>5, <1>6, FS_Interval
  <1>9. /\ pc' \in [Threads -> Places] /\ Asleep(pc') = Asleep(pc) /\ InLoop(pc') = InLoop(pc)
        /\ \A u \in Threads : pc'[u] = pc[u] \/ (pc[u] = "wait" /\ pc'[u] = "woken")
    <2>1. pc \in [Threads -> Places]
      BY DEF QueueInv, Types
    <2>2. pc' = pc \/ pc' \in NotifyOne(pc, Workers) \cup {NotifyAll(pc, Workers)}
      BY <1>1, <1>6, SMTT(40) DEF AddNotifies
    <2> QED BY <1>2, <2>1, <2>2, NotifyWakes
  <1>10. Types'
    BY <1>1, <1>6, <1>7, <1>9, SMTT(40) DEF QueueInv, Types
  <1>11. Owner'
    <2>1. /\ \A t \in Masters : pc'[t] \in {"out", "gone"} <=> control # t
          /\ \A w \in Workers : pc'[w] \notin {"out", "open", "unwind"}
      BY <1>2, <1>9, SMTT(40) DEF QueueInv, Owner
    <2> QED BY <1>1, <2>1 DEF Owner
  <1>12. /\ Outstanding \subseteq added
         /\ Outstanding' = Outstanding \cup checks /\ Outstanding \cap checks = {}
    <2>1. Outstanding \subseteq added
      BY ZenonT(40) DEF QueueInv, Types, Outstanding, Held
    <2>2. Outstanding' = Outstanding \cup checks
      BY <1>1, Zenon DEF Outstanding, Held
    <2> QED BY <2>1, <2>2, <1>7, Zenon
  <1>13. nTodo' = Cardinality(Outstanding')
    <2>1. Outstanding \subseteq added
      BY <1>12, Zenon
    <2>2. IsFiniteSet(Outstanding) /\ Cardinality(Outstanding) \in Nat
      BY <2>1, FiniteCounts DEF QueueInv
    <2>3. Cardinality(Outstanding') = Cardinality(Outstanding) + Cardinality(checks) - Cardinality({})
      BY <1>8, <1>12, <2>2, FS_Union
    <2> QED BY <1>1, <1>6, <1>8, <2>2, <2>3, FS_EmptySet, SMTT(40) DEF QueueInv, Counted
  <1>14. Counted'
    <2>1. \A t \in Threads : batch[t] \cap queue' = {}
      BY <1>1, <1>7, SMTT(40) DEF QueueInv, Types, Counted
    <2>2. \A t \in Threads : batch[t] # {} <=> pc'[t] \in {"run", "report"}
      BY <1>9, ZenonT(40) DEF QueueInv, Counted
    <2> QED BY <1>1, <1>9, <1>13, <2>1, <2>2, Zenon DEF QueueInv, Counted, InLoop, Asleep
  <1>15. Judged'
    <2>1. Undecided' = Undecided /\ added' \ Outstanding' \subseteq added \ Outstanding
      BY <1>1, <1>12 DEF Undecided
    <2>2. added \subseteq added'
      BY <1>1
    <2>3. \A t \in Threads : ~fOk[t] => pc'[t] \in {"run", "report"}
      BY <1>9 DEF QueueInv, Judged
    <2>4. \A t \in Threads : pc'[t] = "report" => pc[t] = "report"
      BY <1>9
    <2> QED BY <1>1, <2>1, <2>2, <2>3, <2>4, Zenon DEF QueueInv, Judged
  <1> QED BY <1>1, <1>2, <1>3, <1>10, <1>11, <1>14, <1>15, Zenon DEF QueueInv, NothingLeftBehind, VerdictExact

-----------------------------------------------------------------------------
(***************************************************************************)
(* Theorems                                                                *)
(***************************************************************************)

\* Before the first block: nobody is in Loop, and nothing is in the queue.
LEMMA InitHolds ==
  ASSUME Init
  PROVE  QueueInv
  <1>1. /\ Masters \subseteq Threads /\ Workers \subseteq Threads /\ NoThread \notin Masters
        /\ Masters \cap Workers = {} /\ Threads = Masters \cup Workers
    BY ThreadsAssumption DEF Threads
  <1>2. Types
    <2>1. {} = 1 .. 0 /\ 0 \in 0 .. MaxChecks
      BY SizesAssumption
    <2>2. pc \in [Threads -> Places]
      BY DEF Init, Places
    <2> QED BY <2>1, <2>2, Zenon DEF Init, Types
  <1>3. Owner
    BY <1>1 DEF Init, Owner
  <1>4. Outstanding = {} /\ InLoop(pc) = {} /\ Asleep(pc) = {}
    BY DEF Init, Outstanding, Held, InLoop, Asleep
  <1>5. Counted
    BY <1>4, FS_EmptySet DEF Init, Counted
  <1>6. Judged /\ NothingLeftBehind /\ VerdictExact
    BY DEF Init, Judged, NothingLeftBehind, VerdictExact, Undecided
  <1> QED BY <1>2, <1>3, <1>5, <1>6 DEF QueueInv

\* Every step of every thread keeps the invariant.
LEMMA StepKeeps ==
  ASSUME QueueInv, [Next]_vars
  PROVE  QueueInv'
  BY EnterKeeps, WakeKeeps, RunChecksKeeps, ReportKeeps, ThreadMovesKeep, ConstructKeeps,
     ReleaseKeeps, AddKeeps DEF Next, Loop

\* With any number of workers and whatever the interleaving, CCheckQueue::Wait
\* returns true exactly when no check of the block fails, and all have been run.
THEOREM VerdictIsExact == Spec => []VerdictExact
  <1>1. QueueInv => VerdictExact
    BY DEF QueueInv
  <1> QED BY <1>1, InitHolds, StepKeeps, PTL DEF Spec

\* A block that is interrupted or refused early leaves the next one a queue
\* without checks and without a failure (CCheckQueueControl's destructor).
THEOREM QueueIsLeftUnused == Spec => []NothingLeftBehind
  <1>1. QueueInv => NothingLeftBehind
    BY DEF QueueInv
  <1> QED BY <1>1, InitHolds, StepKeeps, PTL DEF Spec

\* The counters of CCheckQueue never wrap below zero, and every member keeps its
\* type, although interrupted threads leave without being counted off.
THEOREM CountersNeverWrap == Spec => []TypeOK
  <1>1. QueueInv => TypeOK
    <2> SUFFICES ASSUME QueueInv PROVE TypeOK
      OBVIOUS
    <2>1. added \subseteq 1 .. MaxChecks
      BY SizesAssumption DEF QueueInv, Types
    <2>2. batch \in [Threads -> SUBSET (1 .. MaxChecks)]
      BY <2>1 DEF QueueInv, Types
    <2>3. Outstanding \subseteq added
      BY Zenon DEF QueueInv, Types, Outstanding, Held
    <2>4. nTodo \in Nat
      BY <2>3, FiniteCounts DEF QueueInv, Counted
    <2> QED BY <2>1, <2>2, <2>4 DEF QueueInv, Types, TypeOK, Places
  <1> QED BY <1>1, InitHolds, StepKeeps, PTL DEF Spec
=============================================================================
