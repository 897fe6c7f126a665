------------------------ MODULE BlockDownloadProofs -------------------------
(***************************************************************************)
(* The map of blocks in flight, the queues of the peers and the counters   *)
(* agree, and what is remembered of a peer is in the block index: for all  *)
(* block trees, peers and limits.                                          *)
(***************************************************************************)
EXTENDS BlockDownload, BlockTreeProofs, FiniteSetTheorems



-----------------------------------------------------------------------------
(***************************************************************************)
(* The queue of a peer                                                     *)
(***************************************************************************)

Entries == [hash : Blocks, partial : BOOLEAN]
Hashes(q) == {q[i].hash : i \in 1..Len(q)}
Once(q) == \A i, j \in 1..Len(q) : q[i].hash = q[j].hash => i = j

\* vBlocksInFlight is empty when its size is 0.
LEMMA EmptyQueue ==
  ASSUME NEW q \in Seq(Entries)
  PROVE  Len(q) \in Nat /\ (q = <<>> <=> Len(q) = 0)
  OBVIOUS

\* vBlocksInFlight.erase takes one entry out, and keeps the others.
LEMMA EraseOne ==
  ASSUME NEW q \in Seq(Entries), Once(q), NEW b \in Hashes(q)
  PROVE  /\ Erase(q, b) \in Seq(Entries) /\ Once(Erase(q, b))
         /\ Len(Erase(q, b)) = Len(q) - 1
         /\ Hashes(Erase(q, b)) = Hashes(q) \ {b}
  <1> DEFINE k == CHOOSE i \in 1..Len(q) : q[i].hash = b
             r == [i \in 1..(Len(q) - 1) |-> IF i < k THEN q[i] ELSE q[i + 1]]
             n == Len(q)
  <1>1. k \in 1..n /\ q[k].hash = b
    BY Zenon DEF Hashes
  <1>2. Erase(q, b) = r
    BY Zenon DEF Erase
  <1>3. n \in Nat /\ q \in [1..n -> Entries]
    OBVIOUS
  <1> HIDE DEF k, n
  <1>4. r \in [1..(n - 1) -> Entries]
    BY <1>1, <1>3 DEF n
  <1>5. r \in Seq(Entries) /\ Len(r) = n - 1
    <2>1. n - 1 \in Nat
      BY <1>1, <1>3
    <2> HIDE DEF r
    <2> QED BY <1>4, <2>1
  <1>6. \A i \in 1..(n - 1) : r[i] = IF i < k THEN q[i] ELSE q[i + 1]
    BY DEF n
  <1> HIDE DEF r
  <1>7. Once(r)
    <2> SUFFICES ASSUME NEW i \in 1..(n - 1), NEW j \in 1..(n - 1), r[i].hash = r[j].hash
                 PROVE  i = j
      BY <1>5 DEF Once
    <2> DEFINE ii == IF i < k THEN i ELSE i + 1
               jj == IF j < k THEN j ELSE j + 1
    <2>1. ii \in 1..n /\ jj \in 1..n /\ (ii = jj => i = j)
      BY <1>1, <1>3
    <2>2. r[i] = q[ii] /\ r[j] = q[jj]
      BY <1>6
    <2> QED BY <2>1, <2>2, Zenon DEF Once, n
  <1>8. ASSUME NEW c \in Hashes(r) PROVE c \in Hashes(q) \ {b}
    <2>1. PICK i \in 1..(n - 1) : c = r[i].hash
      BY <1>5, <1>8 DEF Hashes
    <2> DEFINE ii == IF i < k THEN i ELSE i + 1
    <2>2. ii \in 1..n /\ ii # k
      BY <1>1, <1>3
    <2>3. c = q[ii].hash
      BY <1>6, <2>1
    <2> QED BY <1>1, <2>2, <2>3, Zenon DEF Once, Hashes, n
  <1>9. ASSUME NEW c \in Hashes(q), c # b PROVE c \in Hashes(r)
    <2>1. PICK j \in 1..n : c = q[j].hash
      BY Zenon DEF Hashes, n
    <2> DEFINE i == IF j < k THEN j ELSE j - 1
    <2>2. j # k
      BY <1>1, <1>9, <2>1, Zenon
    <2>3. i \in 1..(n - 1) /\ r[i] = q[j]
      BY <1>1, <1>3, <1>6, <2>2
    <2> HIDE DEF i
    <2> QED BY <1>5, <2>1, <2>3 DEF Hashes
  <1>10. Hashes(r) = Hashes(q) \ {b}
    BY <1>8, <1>9, Zenon
  <1> QED BY <1>2, <1>5, <1>7, <1>10, Zenon DEF n

\* vBlocksInFlight.insert of a block that is not there.
LEMMA AppendOne ==
  ASSUME NEW q \in Seq(Entries), Once(q), NEW e \in Entries, e.hash \notin Hashes(q)
  PROVE  /\ Append(q, e) \in Seq(Entries) /\ Once(Append(q, e))
         /\ Len(Append(q, e)) = Len(q) + 1
         /\ Hashes(Append(q, e)) = Hashes(q) \cup {e.hash}
  <1> DEFINE n == Len(q)
             r == Append(q, e)
  <1>1. n \in Nat /\ r \in Seq(Entries) /\ Len(r) = n + 1 /\ r[n + 1] = e
        /\ \A i \in 1..n : r[i] = q[i]
    OBVIOUS
  <1>2. \A i \in 1..(n + 1) : i \in 1..n \/ i = n + 1
    BY <1>1
  <1>3. n + 1 \in 1..(n + 1) /\ 1..n \subseteq 1..(n + 1)
    BY <1>1
  <1> HIDE DEF r
  <1>4. Once(r)
    <2> SUFFICES ASSUME NEW i \in 1..(n + 1), NEW j \in 1..(n + 1), r[i].hash = r[j].hash
                 PROVE  i = j
      BY <1>1, Zenon DEF Once
    <2>1. ASSUME NEW k \in 1..n PROVE r[k].hash # r[n + 1].hash
      BY <1>1, <2>1, Zenon DEF Hashes
    <2>2. CASE i \in 1..n /\ j \in 1..n
      BY <1>1, <2>2, Zenon DEF Once
    <2> QED BY <1>2, <2>1, <2>2, Zenon
  <1>5. Hashes(r) = Hashes(q) \cup {e.hash}
    BY <1>1, <1>2, <1>3, Zenon DEF Hashes
  <1> QED BY <1>1, <1>4, <1>5, Zenon DEF r

\* The queue is as long as it has blocks.
LEMMA LengthOfQueue ==
  ASSUME NEW q \in Seq(Entries), Once(q)
  PROVE  Cardinality(Hashes(q)) = Len(q)
  <1> DEFINE f == [i \in 1..Len(q) |-> q[i].hash]
  <1>1. Len(q) \in Nat
    OBVIOUS
  <1>2. f \in Bijection(1..Len(q), Hashes(q))
    BY Zenon DEF Bijection, Injection, Surjection, IsInjective, Hashes, Once
  <1>3. ExistsBijection(1..Len(q), Hashes(q))
    BY <1>2, Zenon DEF ExistsBijection
  <1> QED BY <1>1, <1>3, FS_CountingElements, Zenon

-----------------------------------------------------------------------------
(***************************************************************************)
(* mapBlocksInFlight, the queues and the counters                          *)
(***************************************************************************)

Flights == [from : [Blocks -> Peers \cup {NoPeer}], queue : [Peers -> Seq(Entries)],
            count : [Peers -> Int], peers : Int]
Busy(f) == {p \in Peers : f.queue[p] # <<>>}

\* They agree
Agree(f) ==
  /\ f \in Flights
  /\ \A p \in Peers : Once(f.queue[p]) /\ f.count[p] = Len(f.queue[p])
  /\ \A p \in Peers : \A b \in Blocks : b \in Hashes(f.queue[p]) <=> f.from[b] = p
  /\ f.peers = Cardinality(Busy(f))

\* What is listed for a peer is what its queue has.
LEMMA ListedInQueue == \A f, p : Listed(f, p) = Hashes(f.queue[p])
  BY Zenon DEF Listed, Hashes

\* g is f with the queue q for p, to which the map, p's counter and the number of
\* peers with blocks in flight are adapted
Requeued(f, p, q, from, peers, g) ==
  /\ q \in Seq(Entries) /\ Once(q)
  /\ from \in [Blocks -> Peers \cup {NoPeer}] /\ peers \in Int
  /\ \A b \in Blocks : b \in Hashes(q) <=> from[b] = p
  /\ \A r \in Peers \ {p} : \A b \in Blocks : from[b] = r <=> f.from[b] = r
  /\ peers = f.peers + (IF q = <<>> THEN 0 ELSE 1) - (IF f.queue[p] = <<>> THEN 0 ELSE 1)
  /\ g = [from |-> from, queue |-> [f.queue EXCEPT ![p] = q],
          count |-> [f.count EXCEPT ![p] = Len(q)], peers |-> peers]

\* This is what each of the functions below does.
LEMMA QueueChanged ==
  ASSUME NEW f, Agree(f), NEW p \in Peers, NEW q, NEW from, NEW peers, NEW g,
         Requeued(f, p, q, from, peers, g)
  PROVE  /\ Agree(g) /\ Listed(g, p) = Hashes(q) /\ g.from = from
         /\ \A r \in Peers \ {p} : Listed(g, r) = Listed(f, r)
  <1> USE DEF Requeued
  <1>1. /\ f.from \in [Blocks -> Peers \cup {NoPeer}] /\ f.queue \in [Peers -> Seq(Entries)]
        /\ f.count \in [Peers -> Int] /\ f.peers \in Int
    BY Zenon DEF Agree, Flights
  <1>2. Len(q) \in Int
    OBVIOUS
  <1>3. /\ g.from = from /\ g.queue = [f.queue EXCEPT ![p] = q]
        /\ g.count = [f.count EXCEPT ![p] = Len(q)] /\ g.peers = peers
    BY Zenon
  <1>4. g \in Flights
    BY <1>1, <1>2, Zenon DEF Flights
  <1>5. /\ g.queue[p] = q /\ g.count[p] = Len(q)
        /\ \A r \in Peers \ {p} : g.queue[r] = f.queue[r] /\ g.count[r] = f.count[r]
    BY <1>1, <1>3
  <1>6. ASSUME NEW r \in Peers PROVE Once(g.queue[r]) /\ g.count[r] = Len(g.queue[r])
    <2>1. CASE r = p
      BY <1>5, <2>1, Zenon
    <2>2. CASE r # p
      <3>1. g.queue[r] = f.queue[r] /\ g.count[r] = f.count[r]
        BY <1>5, <2>2, Zenon
      <3> QED BY <3>1, Zenon DEF Agree
    <2> QED BY <2>1, <2>2, Zenon
  <1>7. ASSUME NEW r \in Peers, NEW b \in Blocks PROVE b \in Hashes(g.queue[r]) <=> g.from[b] = r
    <2>1. CASE r = p
      BY <1>3, <1>5, <2>1, Zenon
    <2>2. CASE r # p
      <3>1. g.queue[r] = f.queue[r] /\ (g.from[b] = r <=> f.from[b] = r)
        BY <1>3, <1>5, <2>2, Zenon
      <3> QED BY <3>1, Zenon DEF Agree
    <2> QED BY <2>1, <2>2, Zenon
  <1> HIDE DEF Requeued
  <1>8. g.peers = Cardinality(Busy(g))
    <2>0. g.peers = f.peers + (IF q = <<>> THEN 0 ELSE 1) - (IF f.queue[p] = <<>> THEN 0 ELSE 1)
      BY <1>3, Zenon DEF Requeued
    <2>1. IsFiniteSet(Busy(f)) /\ Cardinality(Busy(f)) \in Int
      BY DownloadAssumption, FS_Subset, FS_CardinalityType DEF Busy
    <2>2. p \in Busy(f) <=> f.queue[p] # <<>>
      BY Zenon DEF Busy
    <2>3. f.peers = Cardinality(Busy(f))
      BY Zenon DEF Agree
    <2>4. CASE q = <<>>
      <3>1. Busy(g) = Busy(f) \ {p}
        BY <1>5, <2>4 DEF Busy
      <3>2. Cardinality(Busy(g)) = IF p \in Busy(f) THEN Cardinality(Busy(f)) - 1 ELSE Cardinality(Busy(f))
        BY <2>1, <3>1, FS_RemoveElement, Zenon
      <3> QED BY <2>0, <2>1, <2>2, <2>3, <2>4, <3>2
    <2>5. CASE q # <<>>
      <3>1. Busy(g) = Busy(f) \cup {p}
        <4>1. \A r \in Peers : g.queue[r] # <<>> <=> r = p \/ f.queue[r] # <<>>
          BY <1>5, <2>5, Zenon
        <4> QED BY <4>1, Zenon DEF Busy
      <3>2. Cardinality(Busy(g)) = IF p \in Busy(f) THEN Cardinality(Busy(f)) ELSE Cardinality(Busy(f)) + 1
        BY <2>1, <3>1, FS_AddElement, Zenon
      <3> QED BY <2>0, <2>1, <2>2, <2>3, <2>5, <3>2
    <2> QED BY <2>4, <2>5, Zenon
  <1>9. Listed(g, p) = Hashes(q) /\ \A r \in Peers \ {p} : Listed(g, r) = Listed(f, r)
    <2>1. ASSUME NEW r \in Peers \ {p} PROVE Listed(g, r) = Listed(f, r)
      <3>1. g.queue[r] = f.queue[r]
        BY <1>5, Zenon
      <3> QED BY <3>1, ListedInQueue, Zenon
    <2>2. Listed(g, p) = Hashes(q)
      BY <1>5, ListedInQueue, Zenon
    <2> QED BY <2>1, <2>2, Zenon
  <1> QED BY <1>3, <1>4, <1>6, <1>7, <1>8, <1>9, Zenon DEF Agree

\* MarkBlockAsReceived takes a block out of the map and out of the queue it is in.
LEMMA ReceivedAgrees ==
  ASSUME NEW f, Agree(f), NEW b \in Blocks
  PROVE  /\ Agree(MarkBlockAsReceived(f, b)) /\ MarkBlockAsReceived(f, b).from[b] = NoPeer
         /\ \A r \in Peers : Listed(MarkBlockAsReceived(f, b), r) = Listed(f, r) \ {b}
  <1> DEFINE g == MarkBlockAsReceived(f, b)
  <1> SUFFICES /\ Agree(g) /\ g.from[b] = NoPeer
               /\ \A r \in Peers : Listed(g, r) = Listed(f, r) \ {b}
    BY Zenon
  <1>1. /\ f.from \in [Blocks -> Peers \cup {NoPeer}] /\ f.queue \in [Peers -> Seq(Entries)]
        /\ f.count \in [Peers -> Int] /\ f.peers \in Int
    BY Zenon DEF Agree, Flights
  <1>2. ASSUME NEW r \in Peers, f.from[b] # r PROVE b \notin Listed(f, r)
    BY <1>2, Zenon DEF Agree, Listed, Hashes
  <1>3. CASE f.from[b] = NoPeer
    <2>1. g = f
      BY <1>3, Zenon DEF MarkBlockAsReceived
    <2> HIDE DEF g
    <2>2. \A r \in Peers : b \notin Listed(f, r)
      BY <1>2, <1>3, DownloadAssumption, Zenon
    <2> QED BY <1>3, <2>1, <2>2, Zenon
  <1>4. CASE f.from[b] # NoPeer
    <2>1. PICK p \in Peers : p = f.from[b]
      BY <1>1, <1>4, Zenon
    <2> DEFINE q == f.queue[p]
               e == Erase(q, b)
               from == [f.from EXCEPT ![b] = NoPeer]
               peers == IF f.count[p] = 1 THEN f.peers - 1 ELSE f.peers
    <2>2. q \in Seq(Entries) /\ Once(q) /\ b \in Hashes(q) /\ f.count[p] = Len(q)
      BY <1>1, <2>1, Zenon DEF Agree
    <2>3. e \in Seq(Entries) /\ Once(e) /\ Len(e) = Len(q) - 1 /\ Hashes(e) = Hashes(q) \ {b}
      BY <2>2, EraseOne, Zenon
    <2>4. g = [from |-> from, queue |-> [f.queue EXCEPT ![p] = e],
               count |-> [f.count EXCEPT ![p] = f.count[p] - 1], peers |-> peers]
      BY <1>1, <1>4, <2>1, Zenon DEF MarkBlockAsReceived
    <2>5. f.count[p] - 1 = Len(e)
      BY <2>2, <2>3, Zenon
    <2>6. from \in [Blocks -> Peers \cup {NoPeer}] /\ from[b] = NoPeer
          /\ \A c \in Blocks \ {b} : from[c] = f.from[c]
      BY <1>1, Zenon
    <2> HIDE DEF e, from, g
    <2>7. \A c \in Blocks : c \in Hashes(e) <=> from[c] = p
      BY <2>3, <2>6, DownloadAssumption, Zenon DEF Agree
    <2>8. \A r \in Peers \ {p} : \A c \in Blocks : from[c] = r <=> f.from[c] = r
      BY <2>1, <2>6, DownloadAssumption, Zenon
    <2>9. q # <<>> /\ (e = <<>> <=> f.count[p] = 1)
      <3>1. Len(q) \in Nat /\ Len(e) \in Nat /\ (e = <<>> <=> Len(e) = 0) /\ (q = <<>> <=> Len(q) = 0)
        BY <2>2, <2>3, EmptyQueue, Zenon
      <3> QED BY <2>2, <2>3, <3>1
    <2>10. peers \in Int /\ peers = f.peers + (IF e = <<>> THEN 0 ELSE 1) - (IF q = <<>> THEN 0 ELSE 1)
      BY <1>1, <2>9
    <2> HIDE DEF peers
    <2>11. g = [from |-> from, queue |-> [f.queue EXCEPT ![p] = e],
                count |-> [f.count EXCEPT ![p] = Len(e)], peers |-> peers]
      BY <2>4, <2>5, Zenon
    <2>12. Requeued(f, p, e, from, peers, g)
      BY <2>3, <2>6, <2>7, <2>8, <2>10, <2>11, Zenon DEF Requeued
    <2>13. /\ Agree(g) /\ Listed(g, p) = Hashes(e) /\ g.from = from
           /\ \A r \in Peers \ {p} : Listed(g, r) = Listed(f, r)
      BY <2>12, QueueChanged
    <2>14. Listed(g, p) = Listed(f, p) \ {b}
      <3>1. Listed(f, p) = Hashes(q)
        BY ListedInQueue, Zenon
      <3> HIDE DEF q
      <3> QED BY <2>3, <2>13, <3>1, Zenon
    <2>15. \A r \in Peers \ {p} : Listed(g, r) = Listed(f, r) \ {b}
      <3>1. \A r \in Peers \ {p} : f.from[b] # r
        BY <2>1, Zenon
      <3> QED BY <1>2, <2>13, <3>1, Zenon
    <2> QED BY <2>6, <2>13, <2>14, <2>15, Zenon
  <1> QED BY <1>3, <1>4, Zenon

\* g has no more in flight than f, but for blocks of a set, from p
Gains(f, g, p, set) ==
  /\ Agree(g) /\ Listed(g, p) \subseteq Listed(f, p) \cup set
  /\ \A r \in Peers \ {p} : Listed(g, r) \subseteq Listed(f, r)

\* MarkBlockAsInFlight moves a block to the end of the queue of a peer, unless it is
\* there already.
LEMMA InFlightAgrees ==
  ASSUME NEW f, Agree(f), NEW p \in Peers, NEW b \in Blocks, NEW isPartial \in BOOLEAN
  PROVE  Gains(f, MarkBlockAsInFlight(f, p, b, isPartial), p, {b})
  <1> DEFINE g == MarkBlockAsReceived(f, b)
             h == MarkBlockAsInFlight(f, p, b, isPartial)
             e == [hash |-> b, partial |-> isPartial]
             q == Append(g.queue[p], e)
             from == [g.from EXCEPT ![b] = p]
             peers == IF g.count[p] = 0 THEN g.peers + 1 ELSE g.peers
  <1>1. CASE f.from[b] = p
    <2>1. h = f
      BY <1>1, Zenon DEF MarkBlockAsInFlight
    <2> HIDE DEF h
    <2>2. Gains(f, h, p, {b})
      BY <2>1, Zenon DEF Gains
    <2> QED BY <2>2, Zenon DEF h
  <1>2. CASE f.from[b] # p
    <2>1. h = [from |-> from, queue |-> [g.queue EXCEPT ![p] = q],
               count |-> [g.count EXCEPT ![p] = g.count[p] + 1], peers |-> peers]
      BY <1>2 DEF MarkBlockAsInFlight
    <2>2. /\ Agree(g) /\ g.from[b] = NoPeer
          /\ \A r \in Peers : Listed(g, r) = Listed(f, r) \ {b}
      BY ReceivedAgrees, Zenon
    <2> HIDE DEF g, h
    <2>3. /\ g.from \in [Blocks -> Peers \cup {NoPeer}] /\ g.queue \in [Peers -> Seq(Entries)]
          /\ g.count \in [Peers -> Int] /\ g.peers \in Int
      BY <2>2, Zenon DEF Agree, Flights
    <2>4. /\ g.queue[p] \in Seq(Entries) /\ Once(g.queue[p]) /\ g.count[p] = Len(g.queue[p])
          /\ b \notin Hashes(g.queue[p])
      BY <2>2, <2>3, ListedInQueue, Zenon DEF Agree
    <2>5. e \in Entries /\ e.hash = b
      BY Zenon DEF Entries
    <2>6. /\ q \in Seq(Entries) /\ Once(q) /\ Len(q) = Len(g.queue[p]) + 1
          /\ Hashes(q) = Hashes(g.queue[p]) \cup {b}
      <3> HIDE DEF e
      <3> QED BY <2>4, <2>5, AppendOne, Zenon
    <2>7. /\ from \in [Blocks -> Peers \cup {NoPeer}] /\ from[b] = p
          /\ \A c \in Blocks \ {b} : from[c] = g.from[c]
      BY <2>3, Zenon
    <2> HIDE DEF q, from
    <2>8. ASSUME NEW c \in Blocks PROVE c \in Hashes(q) <=> from[c] = p
      <3>1. c \in Hashes(g.queue[p]) <=> g.from[c] = p
        BY <2>2, Zenon DEF Agree
      <3>2. CASE c = b
        BY <2>6, <2>7, <3>2, Zenon
      <3>3. CASE c # b
        BY <2>6, <2>7, <3>1, <3>3, Zenon
      <3> QED BY <3>2, <3>3, Zenon
    <2>9. ASSUME NEW r \in Peers \ {p}, NEW c \in Blocks PROVE from[c] = r <=> g.from[c] = r
      <3>1. CASE c = b
        BY <2>2, <2>7, <3>1, DownloadAssumption, Zenon
      <3>2. CASE c # b
        BY <2>7, <3>2, Zenon
      <3> QED BY <3>1, <3>2, Zenon
    <2>10. peers \in Int /\ peers = g.peers + (IF q = <<>> THEN 0 ELSE 1) - (IF g.queue[p] = <<>> THEN 0 ELSE 1)
      <3>1. /\ Len(g.queue[p]) \in Nat /\ (g.queue[p] = <<>> <=> Len(g.queue[p]) = 0)
            /\ (q = <<>> <=> Len(q) = 0)
        BY <2>4, <2>6, EmptyQueue, Zenon
      <3> QED BY <2>3, <2>4, <2>6, <3>1
    <2> HIDE DEF peers
    <2>11. Requeued(g, p, q, from, peers, h)
      BY <2>1, <2>4, <2>6, <2>7, <2>8, <2>9, <2>10, Zenon DEF Requeued
    <2>12. /\ Agree(h) /\ Listed(h, p) = Hashes(q)
           /\ \A r \in Peers \ {p} : Listed(h, r) = Listed(g, r)
      BY <2>2, <2>11, QueueChanged
    <2>13. Gains(f, h, p, {b})
      BY <2>2, <2>6, <2>12, ListedInQueue, Zenon DEF Gains
    <2> QED BY <2>13, Zenon DEF h
  <1> QED BY <1>1, <1>2, Zenon

\* FinalizeNode leaves nothing in flight from a peer.
LEMMA ReleasedAgrees ==
  ASSUME NEW f, Agree(f), NEW p \in Peers
  PROVE  Gains(f, Released(f, p), p, {}) /\ Listed(Released(f, p), p) = {}
  <1> DEFINE h == Released(f, p)
             from == [b \in Blocks |-> IF b \in Listed(f, p) THEN NoPeer ELSE f.from[b]]
             peers == IF f.count[p] # 0 THEN f.peers - 1 ELSE f.peers
             q == <<>>
  <1>1. /\ f \in Flights
        /\ f.from \in [Blocks -> Peers \cup {NoPeer}] /\ f.queue \in [Peers -> Seq(Entries)]
        /\ f.count \in [Peers -> Int] /\ f.peers \in Int
    BY Zenon DEF Agree, Flights
  <1>2. h = [from |-> from, queue |-> [f.queue EXCEPT ![p] = q],
             count |-> [f.count EXCEPT ![p] = 0], peers |-> peers]
    BY <1>1 DEF Released
  <1>3. q \in Seq(Entries) /\ Len(q) = 0 /\ Once(q) /\ Hashes(q) = {}
    <2>1. q \in Seq(Entries) /\ Len(q) = 0 /\ 1..0 = {}
      OBVIOUS
    <2> HIDE DEF q
    <2> QED BY <2>1, Zenon DEF Once, Hashes
  <1>4. ASSUME NEW b \in Blocks PROVE b \in Listed(f, p) <=> f.from[b] = p
    BY ListedInQueue, Zenon DEF Agree
  <1>5. from \in [Blocks -> Peers \cup {NoPeer}]
    BY <1>1, Zenon
  <1>6. \A b \in Blocks : from[b] = IF f.from[b] = p THEN NoPeer ELSE f.from[b]
    BY <1>4, Zenon
  <1> HIDE DEF from
  <1>7. \A b \in Blocks : b \in Hashes(q) <=> from[b] = p
    BY <1>3, <1>6, DownloadAssumption, Zenon
  <1>8. \A r \in Peers \ {p} : \A b \in Blocks : from[b] = r <=> f.from[b] = r
    BY <1>6, DownloadAssumption, Zenon
  <1>9. peers \in Int /\ peers = f.peers + (IF q = <<>> THEN 0 ELSE 1) - (IF f.queue[p] = <<>> THEN 0 ELSE 1)
    <2>1. f.queue[p] \in Seq(Entries) /\ f.count[p] = Len(f.queue[p])
      BY <1>1, Zenon DEF Agree
    <2>2. f.queue[p] = <<>> <=> f.count[p] = 0
      BY <2>1, EmptyQueue, Zenon
    <2> QED BY <1>1, <2>2
  <1> HIDE DEF peers, h, q
  <1>10. Requeued(f, p, q, from, peers, h)
    BY <1>2, <1>3, <1>5, <1>7, <1>8, <1>9, Zenon DEF Requeued
  <1>11. /\ Agree(h) /\ Listed(h, p) = Hashes(q)
         /\ \A r \in Peers \ {p} : Listed(h, r) = Listed(f, r)
    BY <1>10, QueueChanged
  <1>12. Gains(f, h, p, {}) /\ Listed(h, p) = {}
    BY <1>3, <1>11, Zenon DEF Gains
  <1> QED BY <1>12, Zenon DEF h

\* A compact block for an entry of the queue changes neither the map nor what is listed.
LEMMA PartialAgrees ==
  ASSUME NEW f, Agree(f), NEW p \in Peers, NEW b \in Blocks
  PROVE  Gains(f, AsPartial(f, p, b), p, {})
  <1> DEFINE h == AsPartial(f, p, b)
             o == f.queue[p]
             partial(e) == IF e.hash = b THEN [hash |-> b, partial |-> TRUE] ELSE e
             q == [i \in 1..Len(o) |-> partial(o[i])]
  <1>1. /\ f \in Flights
        /\ f.from \in [Blocks -> Peers \cup {NoPeer}] /\ f.queue \in [Peers -> Seq(Entries)]
        /\ f.count \in [Peers -> Int] /\ f.peers \in Int
    BY Zenon DEF Agree, Flights
  <1>2. o \in Seq(Entries) /\ Once(o) /\ f.count[p] = Len(o)
        /\ \A c \in Blocks : c \in Hashes(o) <=> f.from[c] = p
    BY <1>1, Zenon DEF Agree
  <1>3. h = [f EXCEPT !.queue = [f.queue EXCEPT ![p] = q]]
    BY Zenon DEF AsPartial
  <1> HIDE DEF o, h
  <1>4. ASSUME NEW i \in 1..Len(o) PROVE partial(o[i]) \in Entries /\ partial(o[i]).hash = o[i].hash
    <2>1. o[i] \in Entries
      BY <1>2
    <2>2. [hash |-> b, partial |-> TRUE] \in Entries
      BY Zenon DEF Entries
    <2> QED BY <2>1, <2>2, Zenon
  <1> HIDE DEF partial
  <1>5. q \in Seq(Entries) /\ Len(q) = Len(o)
    <2>1. Len(o) \in Nat /\ q \in [1..Len(o) -> Entries]
      BY <1>2, <1>4
    <2> HIDE DEF q
    <2> QED BY <2>1
  <1>6. \A i \in 1..Len(o) : q[i].hash = o[i].hash
    BY <1>4, Zenon
  <1> HIDE DEF q
  <1>7. Once(q) /\ Hashes(q) = Hashes(o)
    <2>1. Once(q)
      BY <1>2, <1>5, <1>6, Zenon DEF Once
    <2>2. \A c : c \in Hashes(q) <=> c \in Hashes(o)
      BY <1>5, <1>6, Zenon DEF Hashes
    <2> QED BY <2>1, <2>2, Zenon
  <1>8. h = [from |-> f.from, queue |-> [f.queue EXCEPT ![p] = q],
             count |-> [f.count EXCEPT ![p] = Len(q)], peers |-> f.peers]
    <2>1. [f.count EXCEPT ![p] = Len(q)] = f.count
      <3> DEFINE n == Len(q)
      <3>1. n = f.count[p]
        BY <1>2, <1>5, Zenon
      <3> HIDE DEF n
      <3>2. [f.count EXCEPT ![p] = n] = f.count
        BY <1>1, <3>1
      <3> QED BY <3>2, Zenon DEF n
    <2> DEFINE x == [f.queue EXCEPT ![p] = q]
    <2> HIDE DEF x
    <2>2. [f EXCEPT !.queue = x] = [from |-> f.from, queue |-> x, count |-> f.count, peers |-> f.peers]
      <3>1. f = [from |-> f.from, queue |-> f.queue, count |-> f.count, peers |-> f.peers]
        BY <1>1 DEF Flights
      <3> QED BY <3>1
    <2> QED BY <1>3, <2>1, <2>2, Zenon DEF x
  <1>9. f.peers = f.peers + (IF q = <<>> THEN 0 ELSE 1) - (IF o = <<>> THEN 0 ELSE 1)
    <2>1. q = <<>> <=> o = <<>>
      BY <1>2, <1>5, EmptyQueue, Zenon
    <2> QED BY <1>1, <2>1
  <1>10. Requeued(f, p, q, f.from, f.peers, h)
    BY <1>1, <1>2, <1>5, <1>7, <1>8, <1>9, Zenon DEF Requeued, o
  <1>11. /\ Agree(h) /\ Listed(h, p) = Hashes(q)
         /\ \A r \in Peers \ {p} : Listed(h, r) = Listed(f, r)
    BY <1>10, QueueChanged
  <1>12. Listed(f, p) = Hashes(o)
    BY ListedInQueue, Zenon DEF o
  <1>13. Gains(f, h, p, {})
    BY <1>7, <1>11, <1>12, Zenon DEF Gains
  <1> QED BY <1>13, Zenon DEF h

-----------------------------------------------------------------------------
(***************************************************************************)
(* The loops over blocks                                                   *)
(***************************************************************************)

\* Steps 1 to n of a loop whose i-th step computes q[i] of what there is
Loop(f, n, base, q) == f[0] = base /\ \A i \in 1..n : f[i] = q[i][f[i - 1]]

\* What holds before a loop and is kept by every step of it holds after each.
LEMMA LoopInvariant ==
  ASSUME NEW n \in Nat, NEW S, 0 \in S, \A i \in 1..n : i - 1 \in S => i \in S
  PROVE  \A i \in 0..n : i \in S
  <1> DEFINE Wrong == {i \in 0..n : i \notin S}
  <1>1. Wrong \subseteq Nat
    OBVIOUS
  <1>2. SUFFICES ASSUME Wrong # {} PROVE FALSE
    BY Zenon
  <1>3. PICK i \in Wrong : \A j \in Wrong : ~(<<j, i>> \in OpToRel(<, Nat))
    BY <1>1, <1>2, NatLessThanWellFounded, WFMin, Zenon
  <1>4. \A j \in Wrong : ~(j < i)
    BY <1>1, <1>3, Zenon DEF OpToRel
  <1>5. i \in 1..n /\ i - 1 \in 0..n /\ i - 1 < i
    OBVIOUS
  <1> QED BY <1>4, <1>5, Zenon

\* A loop ends.
LEMMA LoopDefined ==
  ASSUME NEW n \in Nat, NEW S, NEW base \in S, NEW q \in [1..n -> [S -> S]]
  PROVE  \E f \in [0..n -> S] : Loop(f, n, base, q)
  <1> DEFINE Done == {i \in 0..n : \E f \in [0..i -> S] : Loop(f, i, base, q)}
  <1>1. 0 \in Done
    <2>1. [j \in 0..0 |-> base] \in [0..0 -> S] /\ Loop([j \in 0..0 |-> base], 0, base, q)
      BY DEF Loop
    <2> QED BY <2>1
  <1>2. ASSUME NEW i \in 1..n, i - 1 \in Done PROVE i \in Done
    <2>1. PICK f \in [0..(i - 1) -> S] : Loop(f, i - 1, base, q)
      BY <1>2, Zenon
    <2> DEFINE g == [j \in 0..i |-> IF j = i THEN q[i][f[i - 1]] ELSE f[j]]
    <2>2. i - 1 \in 0..(i - 1) /\ f[i - 1] \in S /\ q[i] \in [S -> S]
      BY <2>1
    <2>3. g \in [0..i -> S]
      BY <2>1, <2>2
    <2>4. g[0] = base
      BY <2>1 DEF Loop
    <2>5. ASSUME NEW j \in 1..i PROVE g[j] = q[j][g[j - 1]]
      <3>1. CASE j = i
        <4>1. g[i] = q[i][f[i - 1]] /\ g[i - 1] = f[i - 1]
          OBVIOUS
        <4> QED BY <3>1, <4>1, Zenon
      <3>2. CASE j # i
        <4>1. g[j] = f[j] /\ g[j - 1] = f[j - 1] /\ j \in 1..(i - 1)
          BY <3>2
        <4> QED BY <4>1, <2>1, Zenon DEF Loop
      <3> QED BY <3>1, <3>2, Zenon
    <2> HIDE DEF g
    <2>6. Loop(g, i, base, q)
      BY <2>4, <2>5, Zenon DEF Loop
    <2>7. i \in 0..n
      OBVIOUS
    <2> QED BY <2>3, <2>6, <2>7, Zenon
  <1>3. n \in Done
    <2>1. n \in 0..n
      OBVIOUS
    <2> HIDE DEF Done
    <2> QED BY <1>1, <1>2, <2>1, LoopInvariant, Zenon
  <1> QED BY <1>3, Zenon

Agreeing == {f \in Flights : Agree(f)}

\* RemoveBlockIndex for a set of blocks leaves none of them in flight.
LEMMA AllReceived ==
  ASSUME NEW f, Agree(f), NEW set \in SUBSET Blocks
  PROVE  /\ Agree(ReceivedAll(f, set))
         /\ \A r \in Peers : Listed(ReceivedAll(f, set), r) \subseteq Listed(f, r) \ set
  <1> DEFINE n == Cardinality(set)
             order == CHOOSE s \in [1..n -> set] : \A b \in set : \E i \in 1..n : s[i] = b
             q == [i \in 1..n |-> [g \in Agreeing |-> MarkBlockAsReceived(g, order[i])]]
             rhs(x) == [i \in 0..n |-> IF i = 0 THEN f ELSE MarkBlockAsReceived(x[i - 1], order[i])]
             after == CHOOSE x : x = rhs(x)
  <1>1. n \in Nat /\ order \in [1..n -> set] /\ \A b \in set : \E i \in 1..n : order[i] = b
    <2>1. IsFiniteSet(set)
      BY TreeAssumption, FS_Subset, Zenon
    <2>2. n \in Nat /\ ExistsBijection(1..n, set)
      BY <2>1, FS_CardinalityType, Zenon
    <2>3. \E s \in [1..n -> set] : \A b \in set : \E i \in 1..n : s[i] = b
      BY <2>2, Zenon DEF ExistsBijection, Bijection, Surjection
    <2> HIDE DEF n
    <2> QED BY <2>2, <2>3, Zenon
  <1>2. ReceivedAll(f, set) = after[n]
    BY Zenon DEF ReceivedAll
  <1> HIDE DEF n, order
  <1>3. ASSUME NEW i \in 1..n, NEW g \in Agreeing
        PROVE  /\ MarkBlockAsReceived(g, order[i]) \in Agreeing /\ order[i] \in set
               /\ \A r \in Peers : Listed(MarkBlockAsReceived(g, order[i]), r) = Listed(g, r) \ {order[i]}
    <2>1. order[i] \in set /\ order[i] \in Blocks
      BY <1>1, Zenon
    <2>2. Agree(g)
      BY Zenon DEF Agreeing
    <2>3. /\ Agree(MarkBlockAsReceived(g, order[i]))
          /\ \A r \in Peers : Listed(MarkBlockAsReceived(g, order[i]), r) = Listed(g, r) \ {order[i]}
      BY <2>1, <2>2, ReceivedAgrees, Zenon
    <2> QED BY <2>1, <2>3, Zenon DEF Agreeing, Agree
  <1>4. f \in Agreeing /\ q \in [1..n -> [Agreeing -> Agreeing]]
    BY <1>3, Zenon DEF Agreeing, Agree
  <1>5. PICK x \in [0..n -> Agreeing] : Loop(x, n, f, q)
    <2> HIDE DEF q
    <2> QED BY <1>1, <1>4, LoopDefined, Zenon
  <1>6. x = rhs(x)
    <2>1. ASSUME NEW i \in 0..n PROVE x[i] = rhs(x)[i]
      <3>1. CASE i = 0
        BY <3>1, <1>5, Zenon DEF Loop
      <3>2. CASE i # 0
        <4>1. i \in 1..n /\ i - 1 \in 0..n
          BY <3>2, <1>1
        <4>2. x[i - 1] \in Agreeing /\ x[i] = q[i][x[i - 1]]
          BY <4>1, <1>5, Zenon DEF Loop
        <4> QED BY <4>1, <4>2, <3>2, Zenon
      <3> QED BY <3>1, <3>2, Zenon
    <2> QED BY <2>1, Zenon
  <1>7. after = rhs(after)
    BY <1>6, Zenon
  <1> HIDE DEF after
  <1>8. after[0] = f /\ \A i \in 1..n : after[i] = MarkBlockAsReceived(after[i - 1], order[i])
    <2>1. 0 \in 0..n /\ \A i \in 1..n : i \in 0..n /\ i # 0
      BY <1>1
    <2> QED BY <1>7, <2>1, Zenon
  <1> DEFINE Gone(g, i) == \A r \in Peers : /\ Listed(g, r) \subseteq Listed(f, r)
                                            /\ \A j \in 1..i : order[j] \notin Listed(g, r)
             Good == {i \in 0..n : after[i] \in Agreeing /\ Gone(after[i], i)}
  <1>9. 0 \in Good
    <2>1. 0 \in 0..n /\ 1..0 = {}
      BY <1>1
    <2> QED BY <2>1, <1>4, <1>8, Zenon
  <1>10. ASSUME NEW i \in 1..n, i - 1 \in Good PROVE i \in Good
    <2>1. i \in 0..n /\ \A j \in 1..i : j = i \/ j \in 1..(i - 1)
      BY <1>1
    <2>2. after[i - 1] \in Agreeing /\ Gone(after[i - 1], i - 1)
      BY <1>10, Zenon
    <2>3. /\ after[i] \in Agreeing
          /\ \A r \in Peers : Listed(after[i], r) = Listed(after[i - 1], r) \ {order[i]}
      <3>1. PICK g \in Agreeing : g = after[i - 1]
        BY <2>2, Zenon
      <3>2. /\ MarkBlockAsReceived(g, order[i]) \in Agreeing
            /\ \A r \in Peers : Listed(MarkBlockAsReceived(g, order[i]), r) = Listed(g, r) \ {order[i]}
        BY <1>3, Zenon
      <3>3. after[i] = MarkBlockAsReceived(g, order[i])
        BY <1>8, <3>1, Zenon
      <3> QED BY <3>1, <3>2, <3>3, Zenon
    <2>4. Gone(after[i], i)
      BY <2>1, <2>2, <2>3, Zenon
    <2> QED BY <2>1, <2>3, <2>4, Zenon
  <1>11. n \in Good
    <2>1. n \in 0..n
      BY <1>1
    <2> HIDE DEF Good
    <2> QED BY <1>1, <1>9, <1>10, <2>1, LoopInvariant, Zenon
  <1>12. Agree(after[n]) /\ \A r \in Peers : Listed(after[n], r) \subseteq Listed(f, r) \ set
    <2>1. Agree(after[n]) /\ Gone(after[n], n)
      BY <1>11, Zenon DEF Agreeing
    <2>2. ASSUME NEW r \in Peers, NEW b \in Listed(after[n], r) PROVE b \in Listed(f, r) \ set
      <3>1. b \in Listed(f, r) /\ \A j \in 1..n : order[j] # b
        BY <2>1, Zenon
      <3> QED BY <1>1, <3>1, Zenon
    <2> QED BY <2>1, <2>2, Zenon
  <1> QED BY <1>2, <1>12, Zenon

\* getdata puts nothing in flight but the blocks it asks the peer for.
LEMMA RequestGains ==
  ASSUME NEW f, Agree(f), NEW p \in Peers, NEW last, NEW set \in SUBSET Blocks,
         set # {} => last \in Blocks
  PROVE  Gains(f, Request(f, p, last, set), p, set)
  <1>0. CASE set = {}
    <2>1. Request(f, p, last, set) = f
      BY <1>0, Zenon DEF Request
    <2> QED BY <2>1, Zenon DEF Gains
  <1>00. CASE set # {}
    <2> DEFINE n == Height[last]
               step(g, h) == IF AtHeight(last, h) \in set
                             THEN MarkBlockAsInFlight(g, p, AtHeight(last, h), FALSE) ELSE g
               q == [h \in 1..n |-> [g \in Agreeing |-> step(g, h)]]
               rhs(x) == [h \in 0..n |-> IF h = 0 THEN f ELSE step(x[h - 1], h)]
               after == CHOOSE x : x = rhs(x)
    <2>1. n \in Nat
      BY <1>00, HeightDef, Zenon
    <2>2. Request(f, p, last, set) = after[n]
      BY <1>00, Zenon DEF Request
    <2>3. ASSUME NEW h \in 1..n, NEW g \in Agreeing
          PROVE  step(g, h) \in Agreeing /\ Gains(g, step(g, h), p, set)
      <3>1. CASE AtHeight(last, h) \in set
        <4>1. step(g, h) = MarkBlockAsInFlight(g, p, AtHeight(last, h), FALSE)
          BY <3>1, Zenon
        <4>2. AtHeight(last, h) \in Blocks /\ Agree(g)
          BY <3>1, Zenon DEF Agreeing
        <4> HIDE DEF step
        <4>3. Gains(g, step(g, h), p, {AtHeight(last, h)})
          BY <4>1, <4>2, InFlightAgrees, Zenon
        <4> QED BY <3>1, <4>3, Zenon DEF Gains, Agreeing, Agree
      <3>2. CASE AtHeight(last, h) \notin set
        <4>1. step(g, h) = g
          BY <3>2, Zenon
        <4> HIDE DEF step
        <4> QED BY <4>1, Zenon DEF Gains, Agreeing
      <3> QED BY <3>1, <3>2, Zenon
    <2> HIDE DEF step
    <2>4. f \in Agreeing /\ q \in [1..n -> [Agreeing -> Agreeing]]
      BY <2>3, Zenon DEF Agreeing, Agree
    <2>5. PICK x \in [0..n -> Agreeing] : Loop(x, n, f, q)
      <3> HIDE DEF q, n
      <3> QED BY <2>1, <2>4, LoopDefined, Zenon
    <2> HIDE DEF n
    <2>6. x = rhs(x)
      <3>1. ASSUME NEW i \in 0..n PROVE x[i] = rhs(x)[i]
        <4>1. CASE i = 0
          BY <4>1, <2>5, Zenon DEF Loop
        <4>2. CASE i # 0
          <5>1. i \in 1..n /\ i - 1 \in 0..n
            BY <4>2, <2>1
          <5>2. x[i - 1] \in Agreeing /\ x[i] = q[i][x[i - 1]]
            BY <5>1, <2>5, Zenon DEF Loop
          <5> QED BY <5>1, <5>2, <4>2, Zenon
        <4> QED BY <4>1, <4>2, Zenon
      <3> QED BY <3>1, Zenon
    <2>7. after = rhs(after)
      BY <2>6, Zenon
    <2> HIDE DEF after
    <2>8. after[0] = f /\ \A h \in 1..n : after[h] = step(after[h - 1], h)
      <3>1. 0 \in 0..n /\ \A h \in 1..n : h \in 0..n /\ h # 0
        BY <2>1
      <3> QED BY <2>7, <3>1, Zenon
    <2> DEFINE Good == {h \in 0..n : after[h] \in Agreeing /\ Gains(f, after[h], p, set)}
    <2>9. 0 \in Good
      <3>1. 0 \in 0..n
        BY <2>1
      <3> QED BY <3>1, <2>4, <2>8, Zenon DEF Gains
    <2>10. ASSUME NEW h \in 1..n, h - 1 \in Good PROVE h \in Good
      <3>1. h \in 0..n
        BY <2>1
      <3>2. after[h] \in Agreeing /\ Gains(after[h - 1], after[h], p, set)
        BY <2>3, <2>8, <2>10, Zenon
      <3>3. Gains(f, after[h], p, set)
        BY <2>10, <3>2, Zenon DEF Gains
      <3> QED BY <3>1, <3>2, <3>3, Zenon
    <2>11. n \in Good
      <3>1. n \in 0..n
        BY <2>1
      <3> HIDE DEF Good
      <3> QED BY <2>1, <2>9, <2>10, <3>1, LoopInvariant, Zenon
    <2> QED BY <2>2, <2>11, Zenon
  <1> QED BY <1>0, <1>00, Zenon

-----------------------------------------------------------------------------
(***************************************************************************)
(* What a peer has, and what it is asked for                               *)
(***************************************************************************)

MaybeBlock == Blocks \cup {NoBlock}
Nodes == [best : MaybeBlock, unknown : MaybeBlock, common : MaybeBlock]

\* What n points to is in a set
Known(n, set) == n.best \in set \cup {NoBlock} /\ n.common \in set \cup {NoBlock}

\* ProcessBlockAvailability and UpdateBlockAvailability look a block up in the index
\* before a node state points to it.
LEMMA AvailabilityKnown ==
  ASSUME index \subseteq Blocks, NEW n \in Nodes, Known(n, index), NEW b \in Blocks
  PROVE  /\ ProcessBlockAvailability(n) \in Nodes /\ Known(ProcessBlockAvailability(n), index)
         /\ UpdateBlockAvailability(n, b) \in Nodes /\ Known(UpdateBlockAvailability(n, b), index)
  <1>1. ASSUME NEW m \in Nodes, Known(m, index), NEW c \in index
        PROVE  Better(m, c) \in Nodes /\ Known(Better(m, c), index)
    <2>1. /\ [m EXCEPT !.best = c] \in Nodes /\ [m EXCEPT !.best = c].best = c
          /\ [m EXCEPT !.best = c].common = m.common
      BY <1>1 DEF Nodes, MaybeBlock
    <2> DEFINE x == [m EXCEPT !.best = c]
    <2> HIDE DEF x
    <2>2. Better(m, c) \in {m, x}
      BY Zenon DEF Better, x
    <2>3. x \in Nodes /\ Known(x, index)
      BY <1>1, <2>1, Zenon DEF x, Known
    <2> QED BY <1>1, <2>2, <2>3, Zenon
  <1>2. ASSUME NEW m \in Nodes, Known(m, index), NEW c \in MaybeBlock
        PROVE  [m EXCEPT !.unknown = c] \in Nodes /\ Known([m EXCEPT !.unknown = c], index)
    <2>1. /\ [m EXCEPT !.unknown = c] \in Nodes /\ [m EXCEPT !.unknown = c].best = m.best
          /\ [m EXCEPT !.unknown = c].common = m.common
      BY <1>2 DEF Nodes
    <2> QED BY <1>2, <2>1, Zenon DEF Known
  <1> DEFINE m == ProcessBlockAvailability(n)
  <1>3. m \in Nodes /\ Known(m, index)
    <2>1. CASE n.unknown \in index
      <3>1. m = [Better(n, n.unknown) EXCEPT !.unknown = NoBlock]
        BY <2>1, Zenon DEF ProcessBlockAvailability
      <3>2. NoBlock \in MaybeBlock
        BY Zenon DEF MaybeBlock
      <3> HIDE DEF m
      <3> QED BY <1>1, <1>2, <2>1, <3>1, <3>2, Zenon
    <2>2. CASE n.unknown \notin index
      <3>1. m = n
        BY <2>2, Zenon DEF ProcessBlockAvailability
      <3> QED BY <3>1, Zenon
    <2> QED BY <2>1, <2>2, Zenon
  <1> HIDE DEF m
  <1> DEFINE u == UpdateBlockAvailability(n, b)
  <1>4. u = IF b \in index THEN Better(m, b) ELSE [m EXCEPT !.unknown = b]
    BY Zenon DEF UpdateBlockAvailability, m
  <1> HIDE DEF u
  <1>5. u \in Nodes /\ Known(u, index)
    <2>1. b \in MaybeBlock
      BY Zenon DEF MaybeBlock
    <2> QED BY <1>1, <1>2, <1>3, <1>4, <2>1, Zenon
  <1> QED BY <1>3, <1>5, Zenon DEF m, u

\* A set of blocks on one chain has a highest block.
LEMMA HighestOnChain ==
  ASSUME NEW b \in Blocks, NEW set \in SUBSET Ancestors[b], set # {}
  PROVE  Highest(set) \in set
  <1> DEFINE S == {d \in Blocks : set \subseteq Ancestors[d]}
  <1>1. PICK d \in S : Parent[d] \notin S
    <2>1. b \in S
      BY Zenon
    <2> QED BY <2>1, WellFoundedAssumption, Zenon
  <1>2. d \in set
    <2>1. CASE d = Genesis
      BY <1>1, <2>1, AncestorsOfBlock, Zenon
    <2>2. CASE d # Genesis
      <3>1. Parent[d] \in Blocks /\ Ancestors[d] = {d} \cup Ancestors[Parent[d]]
        BY <2>2, <1>1, AncestorsOfBlock, Zenon
      <3> QED BY <1>1, <3>1, Zenon
    <2> QED BY <2>1, <2>2, Zenon
  <1>3. \A c \in set : Height[c] <= Height[d]
    BY <1>1, AncestorIsLower, Zenon
  <1> QED BY <1>2, <1>3, Zenon DEF Highest

\* mapBlockIndex has the ancestors of what it has
ClosedIndex == index \subseteq Blocks /\ \A b \in index \ {Genesis} : Parent[b] \in index

\* pprev leads to entries of mapBlockIndex only.
LEMMA AncestorsInIndex ==
  ASSUME ClosedIndex, NEW b \in index
  PROVE  Ancestors[b] \subseteq index
  <1> DEFINE Wrong == {c \in index : ~(Ancestors[c] \subseteq index)}
  <1>1. ASSUME NEW c \in Wrong, Parent[c] \notin Wrong PROVE FALSE
    <2>1. CASE c = Genesis
      <3>1. Ancestors[c] = {c} /\ c \in index
        BY <2>1, TreeAssumption, AncestorsOfBlock, Zenon
      <3> QED BY <1>1, <3>1, Zenon
    <2>2. CASE c # Genesis
      <3>1. Ancestors[c] = {c} \cup Ancestors[Parent[c]] /\ Parent[c] \in index
        BY <2>2, AncestorsOfBlock, Zenon DEF ClosedIndex
      <3> QED BY <1>1, <3>1, Zenon
    <2> QED BY <2>1, <2>2, Zenon
  <1>2. Wrong \subseteq Blocks
    BY Zenon DEF ClosedIndex
  <1>3. Wrong = {}
    <2> HIDE DEF Wrong
    <2> QED BY <1>1, <1>2, WellFoundedAssumption, Zenon
  <1> QED BY <1>3, Zenon

\* FindNextBlocksToDownload finds blocks of the peer's chain.
LEMMA FoundOnChain ==
  ASSUME ClosedIndex, tip \in Blocks, NEW n \in Nodes, Known(n, index), NEW limit,
         NEW found, found = FindNextBlocksToDownload(n, limit)
  PROVE  /\ found.common \in index \cup {NoBlock}
         /\ found.blocks \subseteq index /\ (found.blocks # {} => n.best \in Blocks)
  <1>1. CASE n.best = NoBlock \/ Height[n.best] <= Height[tip]
    <2>1. found = [common |-> n.common, blocks |-> {}]
      BY <1>1, Zenon DEF FindNextBlocksToDownload
    <2>2. found.common = n.common /\ found.blocks = {}
      BY <2>1
    <2> QED BY <2>2, Zenon DEF Known
  <1>2. CASE ~(n.best = NoBlock \/ Height[n.best] <= Height[tip])
    <2> DEFINE guess == IF n.common = NoBlock THEN tip ELSE n.common
               common == LastCommon(guess, n.best)
    <2>1. n.best \in index /\ n.best \in Blocks /\ guess \in Blocks
      BY <1>2, Zenon DEF Known, ClosedIndex
    <2>2. common \in Ancestors[n.best]
      <3>1. Genesis \in Ancestors[guess] \cap Ancestors[n.best]
        BY <2>1, GenesisIsAncestor, Zenon
      <3> HIDE DEF guess
      <3> QED BY <2>1, <3>1, HighestOnChain, Zenon DEF LastCommon
    <2>3. PICK seen \in SUBSET Ancestors[n.best] :
            found.common = NewCommon(common, seen) /\ found.blocks \subseteq seen
      <3> DEFINE windowEnd == Height[common] + Window
                 path == {b \in Ancestors[n.best] \ Ancestors[common] : Height[b] <= windowEnd + 1}
                 wanted(b) == b \notin haveData \cup ActiveChain /\ flight.from[b] = NoPeer
                 below(b) == path \cap Ancestors[Parent[b]]
                 stops(b) == b \in failed \/ (wanted(b) /\ Height[b] > windowEnd)
                 seen == {b \in path : /\ \A c \in below(b) \cup {b} : ~stops(c)
                                       /\ Cardinality({c \in below(b) : wanted(c)}) < limit}
      <3>1. found = [common |-> NewCommon(common, seen), blocks |-> {b \in seen : wanted(b)}]
        BY <1>2 DEF FindNextBlocksToDownload
      <3>2. seen \in SUBSET Ancestors[n.best]
        BY Zenon
      <3> HIDE DEF seen
      <3>3. found.common = NewCommon(common, seen) /\ found.blocks = {b \in seen : wanted(b)}
        BY <3>1
      <3> QED BY <3>2, <3>3, Zenon
    <2> HIDE DEF common
    <2>4. found.common \in Ancestors[n.best]
      <3>1. {common} \cup (seen \cap Linked) \subseteq Ancestors[n.best]
        BY <2>2, Zenon
      <3> QED BY <2>1, <2>3, <3>1, HighestOnChain, Zenon DEF NewCommon
    <2>5. Ancestors[n.best] \subseteq index
      BY <2>1, AncestorsInIndex, Zenon
    <2> QED BY <2>1, <2>3, <2>4, <2>5, Zenon
  <1> QED BY <1>1, <1>2, Zenon

-----------------------------------------------------------------------------
(***************************************************************************)
(* The inductive invariant                                                 *)
(***************************************************************************)

Live == {"up", "closing"}
Messages == [pc : {"idle", "headers", "cmpct", "revert", "reconstructed"},
             peer : Peers \cup {NoPeer}, block : MaybeBlock]

ChainOK ==
  /\ Genesis \in index /\ index \subseteq Blocks
  /\ haveData \subseteq index /\ failed \subseteq index /\ tip \in Blocks
  /\ doomed \subseteq Blocks /\ Genesis \notin doomed

\* What is remembered of a peer points into the index
NodesOK == node \in [Peers -> Nodes] /\ \A p \in Peers : Known(node[p], index)

\* Blocks are in flight from connected peers only, and are in the index
FlightOK ==
  /\ Agree(flight)
  /\ \A p \in Peers : /\ Listed(flight, p) \subseteq index
                      /\ Listed(flight, p) # {} => status[p] \in Live

\* The peer whose message is handled stays until that is done
MessageOK ==
  /\ status \in [Peers -> {"new", "up", "closing", "gone"}] /\ msg \in Messages
  /\ msg.pc # "idle" => msg.peer \in Peers /\ msg.block \in Blocks /\ status[msg.peer] \in Live

DownloadInv == ChainOK /\ NodesOK /\ FlightOK /\ MessageOK

StillLive == \A r \in Peers : status[r] \in Live => status'[r] \in Live

\* A step of the message handler puts blocks of the index in flight, from a peer that is
\* connected, or takes some out.
LEMMA FlightKept ==
  ASSUME FlightOK, index \subseteq index', StillLive, NEW p \in Peers, NEW set \in SUBSET index',
         Gains(flight, flight', p, set), set # {} => status'[p] \in Live
  PROVE  FlightOK'
  <1>1. Agree(flight)'
    BY Zenon DEF Gains, Agree, Flights, Busy, Once, Hashes
  <1>2. ASSUME NEW r \in Peers
        PROVE  Listed(flight', r) \subseteq index' /\ (Listed(flight', r) # {} => status'[r] \in Live)
    <2>1. Listed(flight, r) \subseteq index' /\ (Listed(flight, r) # {} => status'[r] \in Live)
      BY Zenon DEF FlightOK, StillLive
    <2>2. CASE r = p
      BY <2>1, <2>2, Zenon DEF Gains
    <2>3. CASE r # p
      BY <2>1, <2>3, Zenon DEF Gains
    <2> QED BY <2>2, <2>3, Zenon
  <1> QED BY <1>1, <1>2, Zenon DEF FlightOK, Listed

Statuses == {"new", "up", "closing", "gone"}

\* What a step leaves alone stays right, whatever is added to the index.
LEMMA Unchanged ==
  ASSUME DownloadInv
  PROVE  /\ UNCHANGED <<chainVars, doomed>> => ChainOK' /\ index \subseteq index'
         /\ index \subseteq index' /\ UNCHANGED node => NodesOK'
         /\ index \subseteq index' /\ StillLive /\ UNCHANGED flight => FlightOK'
         /\ status' \in [Peers -> Statuses] /\ StillLive /\ UNCHANGED msg => MessageOK'
         /\ status' \in [Peers -> Statuses] /\ msg' = Idle => MessageOK'
         /\ UNCHANGED status => status' \in [Peers -> Statuses] /\ StillLive
  <1>1. UNCHANGED <<chainVars, doomed>> => ChainOK' /\ index \subseteq index'
    BY DEF DownloadInv, ChainOK, chainVars
  <1>2. ASSUME index \subseteq index', UNCHANGED node PROVE NodesOK'
    BY <1>2, Zenon DEF DownloadInv, NodesOK, Known
  <1>3. ASSUME index \subseteq index', StillLive, UNCHANGED flight PROVE FlightOK'
    <2>1. Agree(flight') /\ \A r \in Peers : Listed(flight', r) = Listed(flight, r)
      BY <1>3, Zenon DEF DownloadInv, FlightOK
    <2>2. Agree(flight)'
      BY <2>1, Zenon DEF Agree, Flights, Busy, Once, Hashes
    <2>3. \A r \in Peers : Listed(flight', r) \subseteq index' /\ (Listed(flight', r) # {} => status'[r] \in Live)
      BY <1>3, <2>1, Zenon DEF DownloadInv, FlightOK, StillLive
    <2> QED BY <2>2, <2>3, Zenon DEF FlightOK, Listed
  <1>4. ASSUME status' \in [Peers -> Statuses], StillLive, UNCHANGED msg PROVE MessageOK'
    BY <1>4, Zenon DEF DownloadInv, MessageOK, StillLive, Statuses
  <1>5. ASSUME status' \in [Peers -> Statuses], msg' = Idle PROVE MessageOK'
    <2>1. msg'.pc = "idle" /\ msg' \in Messages
      BY <1>5 DEF Idle, Messages, MaybeBlock
    <2> QED BY <1>5, <2>1, Zenon DEF MessageOK, Statuses, Messages, MaybeBlock
  <1>6. ASSUME UNCHANGED status PROVE status' \in [Peers -> Statuses] /\ StillLive
    BY <1>6, Zenon DEF DownloadInv, MessageOK, Statuses, StillLive
  <1> QED BY <1>1, <1>2, <1>3, <1>4, <1>5, <1>6, Zenon

\* A peer connects, or is told to leave.
LEMMA StatusKept ==
  ASSUME DownloadInv, NEW p \in Peers, NEW s \in Live, status' = [status EXCEPT ![p] = s]
  PROVE  status' \in [Peers -> Statuses] /\ StillLive
  <1>1. status \in [Peers -> Statuses]
    BY Zenon DEF DownloadInv, MessageOK, Statuses
  <1> QED BY <1>1 DEF StillLive, Live, Statuses

\* The state of one peer changes.
LEMMA NodesKept ==
  ASSUME DownloadInv, index \subseteq index', NEW p \in Peers, NEW n \in Nodes, Known(n, index'),
         node' = [node EXCEPT ![p] = n]
  PROVE  NodesOK'
  <1>1. node' \in [Peers -> Nodes]
    BY Zenon DEF DownloadInv, NodesOK
  <1>2. ASSUME NEW r \in Peers
        PROVE  node'[r].best \in index' \cup {NoBlock} /\ node'[r].common \in index' \cup {NoBlock}
    <2>1. CASE r = p
      <3>1. node'[r] = n
        BY <2>1, Zenon DEF DownloadInv, NodesOK
      <3> QED BY <3>1, Zenon DEF Known
    <2>2. CASE r # p
      <3>1. node'[r] = node[r]
        BY <2>2, Zenon DEF DownloadInv, NodesOK
      <3> QED BY <3>1, Zenon DEF DownloadInv, NodesOK, Known
    <2> QED BY <2>1, <2>2, Zenon
  <1> QED BY <1>1, <1>2, Zenon DEF NodesOK, Known, Nodes, MaybeBlock

\* A handler stops between two critical sections.
LEMMA MessageBegun ==
  ASSUME NEW p \in Peers, NEW b \in Blocks, NEW pc \in {"headers", "cmpct", "revert", "reconstructed"},
         status' \in [Peers -> Statuses], status'[p] \in Live,
         msg' = [pc |-> pc, peer |-> p, block |-> b]
  PROVE  MessageOK'
  <1>1. /\ msg'.pc = pc /\ msg'.peer = p /\ msg'.block = b
        /\ msg' \in [pc : {"idle", "headers", "cmpct", "revert", "reconstructed"},
                     peer : Peers \cup {NoPeer}, block : Blocks \cup {NoBlock}]
    OBVIOUS
  <1> QED BY <1>1, Zenon DEF MessageOK, Statuses, Messages, MaybeBlock

\* ProcessNetBlock stores, or marks as failed, only a block it has put in the index.
LEMMA NetBlockKept ==
  ASSUME DownloadInv, NEW p \in Peers, NEW b \in Blocks, NEW requested, NEW mutated, NEW compact,
         ProcessNetBlock(p, b, requested, mutated, compact), UNCHANGED doomed
  PROVE  ChainOK' /\ index \subseteq index' /\ StillLive /\ status' \in [Peers -> Statuses]
  <1> DEFINE accepted == Parent[b] \in index /\ HeaderAcceptable(b)
             processed == accepted /\ NotTooOld(b)
             stored == /\ processed /\ ~mutated
                       /\ AboveCheckpoint(b) /\ b \notin haveData
                       /\ requested \/ Height[b] \in (Height[tip] + 1)..(Height[tip] + MinBlocksToKeep)
             banned == (processed /\ mutated) \/ (stored /\ b \in Bad)
  <1>1. /\ index' = IF accepted THEN index \cup {b} ELSE index
        /\ haveData' = IF stored /\ b \notin Bad THEN haveData \cup {b} ELSE haveData
        /\ failed' = IF stored /\ b \in Bad THEN failed \cup {b} ELSE failed
        /\ status' = IF banned /\ ~compact THEN [status EXCEPT ![p] = "closing"] ELSE status
        /\ tip' = tip
    BY Zenon DEF ProcessNetBlock
  <1>2. stored => accepted
    BY Zenon
  <1> HIDE DEF accepted, stored, banned
  <1>3. index \subseteq index' /\ (accepted => b \in index') /\ index' \subseteq Blocks
    BY <1>1, Zenon DEF DownloadInv, ChainOK
  <1>4. haveData' \subseteq index' /\ failed' \subseteq index'
    BY <1>1, <1>2, <1>3, Zenon DEF DownloadInv, ChainOK
  <1>5. ChainOK'
    BY <1>1, <1>3, <1>4, Zenon DEF DownloadInv, ChainOK
  <1>6. StillLive /\ status' \in [Peers -> Statuses]
    <2>1. CASE banned /\ ~compact
      <3>1. status' = [status EXCEPT ![p] = "closing"] /\ "closing" \in Live
        BY <1>1, <2>1, Zenon DEF Live
      <3> QED BY <3>1, StatusKept
    <2>2. CASE ~(banned /\ ~compact)
      <3>1. status' = status
        BY <1>1, <2>2, Zenon
      <3> QED BY <3>1, Unchanged, Zenon
    <2> QED BY <2>1, <2>2, Zenon
  <1> QED BY <1>3, <1>5, <1>6, Zenon

\* A block is taken out of flight.
LEMMA ReceivedKept ==
  ASSUME DownloadInv, index \subseteq index', StillLive, NEW b \in Blocks, NEW p \in Peers,
         flight' = MarkBlockAsReceived(flight, b)
  PROVE  FlightOK'
  <1>1. Agree(flight) /\ FlightOK
    BY Zenon DEF DownloadInv, FlightOK
  <1>2. /\ Agree(MarkBlockAsReceived(flight, b))
        /\ \A r \in Peers : Listed(MarkBlockAsReceived(flight, b), r) = Listed(flight, r) \ {b}
    BY <1>1, ReceivedAgrees, Zenon
  <1>3. Gains(flight, flight', p, {})
    BY <1>2, Zenon DEF Gains
  <1>4. {} \in SUBSET index'
    BY Zenon
  <1> QED BY <1>1, <1>3, <1>4, FlightKept, Zenon

\* ProcessNetBlockHeaders puts headers in the index, and the handler goes on later.
LEMMA NetBlockHeadersKeep ==
  ASSUME DownloadInv, NEW p \in Peers, status[p] \in Live, NEW b \in Blocks, NEW from,
         ProcessNetBlockHeaders(p, from, b)
  PROVE  DownloadInv'
  <1>1. /\ index' = index \cup Accepted(from, b)
        /\ msg' = Idle \/ msg' = [pc |-> "headers", peer |-> p, block |-> b]
        /\ UNCHANGED <<haveData, failed, tip, status, node, flight, doomed>>
    BY Zenon DEF ProcessNetBlockHeaders
  <1>2. Accepted(from, b) \subseteq Blocks
    BY AncestorsOfAncestors, Zenon DEF Accepted
  <1>3. ChainOK' /\ index \subseteq index'
    BY <1>1, <1>2 DEF DownloadInv, ChainOK
  <1>4. NodesOK' /\ FlightOK' /\ status' \in [Peers -> Statuses]
    BY <1>1, <1>3, Unchanged
  <1>5. MessageOK'
    <2>1. CASE msg' = Idle
      BY <1>4, <2>1, Unchanged, Zenon
    <2>2. CASE msg' = [pc |-> "headers", peer |-> p, block |-> b]
      BY <1>1, <1>4, <2>2, MessageBegun
    <2> QED BY <1>1, <2>1, <2>2, Zenon
  <1> QED BY <1>3, <1>4, <1>5, Zenon DEF DownloadInv

\* What a peer sends and is sent: one message, or what one thread does about it.
LEMMA TalkKeeps ==
  ASSUME DownloadInv, ClosedIndex, NEW p \in Peers, Talk(p)
  PROVE  DownloadInv'
  <1>0. /\ index \subseteq Blocks /\ node[p] \in Nodes /\ Known(node[p], index) /\ tip \in Blocks
        /\ Agree(flight)
    BY Zenon DEF DownloadInv, ChainOK, NodesOK, FlightOK
  <1>1. NewNode \in Nodes /\ \A set : Known(NewNode, set)
    BY DEF NewNode, Nodes, Known, MaybeBlock
  <1>2. "up" \in Live /\ "closing" \in Live
    BY Zenon DEF Live
  <1>3. CASE Connect(p)
    <2>1. status' = [status EXCEPT ![p] = "up"] /\ node' = [node EXCEPT ![p] = NewNode]
          /\ UNCHANGED <<chainVars, flight, msg, doomed>>
      BY <1>3, Zenon DEF Connect
    <2>2. status' \in [Peers -> Statuses] /\ StillLive
      BY <2>1, <1>2, StatusKept
    <2>3. ChainOK' /\ index \subseteq index' /\ FlightOK' /\ MessageOK'
      BY <2>1, <2>2, Unchanged, Zenon
    <2>4. NodesOK'
      BY <1>1, <2>1, <2>3, NodesKept, Zenon
    <2> QED BY <2>3, <2>4, Zenon DEF DownloadInv
  <1>4. CASE SendGetData(p)
    <2> DEFINE n == ProcessBlockAvailability(node[p])
    <2>1. PICK found : /\ found = FindNextBlocksToDownload(n, MaxInTransit - flight.count[p])
                       /\ node' = [node EXCEPT ![p] = [n EXCEPT !.common = found.common]]
                       /\ flight' = Request(flight, p, n.best, found.blocks)
      BY <1>4, Zenon DEF SendGetData
    <2>2. status[p] = "up" /\ UNCHANGED <<chainVars, status, msg, doomed>>
      BY <1>4, Zenon DEF SendGetData, Receives
    <2>3. n \in Nodes /\ Known(n, index)
      BY <1>0, TreeAssumption, AvailabilityKnown, Zenon
    <2> HIDE DEF n
    <2>4. /\ found.common \in index \cup {NoBlock}
          /\ found.blocks \subseteq index /\ (found.blocks # {} => n.best \in Blocks)
      BY <1>0, <2>1, <2>3, FoundOnChain
    <2> DEFINE m == [n EXCEPT !.common = found.common]
    <2>5. m \in Nodes /\ m.best = n.best /\ m.common = found.common
      BY <1>0, <2>3, <2>4 DEF Nodes, MaybeBlock
    <2> HIDE DEF m
    <2>6. ChainOK' /\ index \subseteq index' /\ MessageOK' /\ StillLive /\ index' = index
      BY <2>2, Unchanged, Zenon DEF chainVars
    <2>7. m \in Nodes /\ Known(m, index') /\ node' = [node EXCEPT ![p] = m]
      BY <2>1, <2>3, <2>4, <2>5, <2>6, Zenon DEF Known, m
    <2>8. NodesOK'
      BY <2>6, <2>7, NodesKept, Zenon
    <2>9. found.blocks \in SUBSET Blocks /\ found.blocks \in SUBSET index'
      BY <1>0, <2>4, <2>6, Zenon
    <2>10. Gains(flight, flight', p, found.blocks)
      BY <1>0, <2>1, <2>4, <2>9, RequestGains, Zenon
    <2>11. status'[p] \in Live
      BY <1>2, <2>2, Zenon
    <2>12. FlightOK'
      BY <2>6, <2>9, <2>10, <2>11, FlightKept, Zenon DEF DownloadInv
    <2> QED BY <2>6, <2>8, <2>12, Zenon DEF DownloadInv
  <1>5. CASE Disconnect(p) \/ \E b \in Blocks : Timeout(p, b)
    <2>1. status' = [status EXCEPT ![p] = "closing"] /\ UNCHANGED <<chainVars, node, flight, msg, doomed>>
      BY <1>5, Zenon DEF Disconnect, Timeout
    <2>2. status' \in [Peers -> Statuses] /\ StillLive
      BY <2>1, <1>2, StatusKept
    <2> QED BY <2>1, <2>2, Unchanged, Zenon DEF DownloadInv
  <1>6. CASE FinalizeNode(p)
    <2>1. /\ status' = [status EXCEPT ![p] = "gone"] /\ node' = [node EXCEPT ![p] = NewNode]
          /\ flight' = Released(flight, p) /\ msg.peer # p
          /\ UNCHANGED <<chainVars, msg, doomed>>
      BY <1>6, Zenon DEF FinalizeNode
    <2>2. ChainOK' /\ index \subseteq index'
      BY <2>1, Unchanged, Zenon
    <2>3. NodesOK'
      BY <1>1, <2>1, <2>2, NodesKept, Zenon
    <2>4. status' \in [Peers -> Statuses] /\ \A r \in Peers \ {p} : status'[r] = status[r]
      <3>1. status \in [Peers -> Statuses]
        BY Zenon DEF DownloadInv, MessageOK, Statuses
      <3> QED BY <2>1, <3>1 DEF Statuses
    <2>5. MessageOK'
      BY <2>1, <2>4, Zenon DEF DownloadInv, MessageOK, Statuses
    <2>6. Gains(flight, flight', p, {}) /\ Listed(flight', p) = {}
      BY <1>0, <2>1, ReleasedAgrees, Zenon
    <2>7. Agree(flight)'
      BY <2>6, Zenon DEF Gains, Agree, Flights, Busy, Once, Hashes
    <2>8. ASSUME NEW r \in Peers
          PROVE  Listed(flight', r) \subseteq index' /\ (Listed(flight', r) # {} => status'[r] \in Live)
      <3>1. CASE r = p
        BY <2>6, <3>1, Zenon
      <3>2. CASE r # p
        BY <2>2, <2>4, <2>6, <3>2, Zenon DEF Gains, DownloadInv, FlightOK
      <3> QED BY <3>1, <3>2, Zenon
    <2>9. FlightOK'
      BY <2>7, <2>8, Zenon DEF FlightOK, Listed
    <2> QED BY <2>2, <2>3, <2>5, <2>9, Zenon DEF DownloadInv
  <1>7. ASSUME NEW b \in Blocks, Inv(p, b) \/ UnconnectingHeaders(p, b) PROVE DownloadInv'
    <2>1. /\ node' = [node EXCEPT ![p] = UpdateBlockAvailability(node[p], b)]
          /\ UNCHANGED <<chainVars, status, flight, msg, doomed>>
      BY <1>7, Zenon DEF Inv, UnconnectingHeaders
    <2>2. ChainOK' /\ index \subseteq index' /\ FlightOK' /\ MessageOK' /\ index' = index
      BY <2>1, Unchanged, Zenon DEF chainVars
    <2>3. UpdateBlockAvailability(node[p], b) \in Nodes /\ Known(UpdateBlockAvailability(node[p], b), index')
      BY <1>0, <2>2, AvailabilityKnown, Zenon
    <2>4. NodesOK'
      BY <2>1, <2>2, <2>3, NodesKept, Zenon
    <2> QED BY <2>2, <2>4, Zenon DEF DownloadInv
  <1>8. ASSUME NEW b \in Blocks, CmpctBlock(p, b) PROVE DownloadInv'
    <2>1. /\ index' = index \cup {b} /\ msg' = [pc |-> "cmpct", peer |-> p, block |-> b]
          /\ UNCHANGED <<haveData, failed, tip, status, node, flight, doomed>> /\ status[p] = "up"
      BY <1>8, Zenon DEF CmpctBlock, Receives
    <2>2. ChainOK' /\ index \subseteq index'
      BY <2>1 DEF DownloadInv, ChainOK
    <2>3. NodesOK' /\ FlightOK' /\ status' \in [Peers -> Statuses]
      BY <2>1, <2>2, Unchanged
    <2>4. MessageOK'
      BY <1>2, <2>1, <2>3, MessageBegun
    <2> QED BY <2>2, <2>3, <2>4, Zenon DEF DownloadInv
  <1>9. ASSUME NEW b \in Blocks, NEW from \in {Genesis, Parent[b]}, Headers(p, from, b) PROVE DownloadInv'
    <2>1. ProcessNetBlockHeaders(p, from, b) /\ status[p] \in Live
      BY <1>9, Zenon DEF Headers, Receives, Live
    <2> QED BY <2>1, NetBlockHeadersKeep, Zenon
  <1>10. ASSUME NEW b \in Blocks, NEW mutated \in BOOLEAN, Block(p, b, mutated) PROVE DownloadInv'
    <2>1. /\ flight' = MarkBlockAsReceived(flight, b) /\ UNCHANGED <<node, msg, doomed>>
          /\ ProcessNetBlock(p, b, flight.from[b] # NoPeer, mutated, FALSE)
      BY <1>10, Zenon DEF Block
    <2>2. ChainOK' /\ index \subseteq index' /\ StillLive /\ status' \in [Peers -> Statuses]
      BY <2>1, NetBlockKept
    <2>3. FlightOK'
      BY <2>1, <2>2, ReceivedKept, Zenon
    <2> QED BY <2>1, <2>2, <2>3, Unchanged, Zenon DEF DownloadInv
  <1>11. ASSUME NEW b \in Blocks, NEW read \in {"invalid", "complete"}, BlockTxn(p, b, read) PROVE DownloadInv'
    <2>1. /\ flight' = MarkBlockAsReceived(flight, b) /\ UNCHANGED <<node, msg, doomed>>
          /\ \/ status' = [status EXCEPT ![p] = "closing"] /\ UNCHANGED chainVars
             \/ ProcessNetBlock(p, b, TRUE, FALSE, TRUE)
      BY <1>11, Zenon DEF BlockTxn
    <2>2. ChainOK' /\ index \subseteq index' /\ StillLive /\ status' \in [Peers -> Statuses]
      <3>1. CASE status' = [status EXCEPT ![p] = "closing"] /\ UNCHANGED chainVars
        <4>1. StillLive /\ status' \in [Peers -> Statuses]
          BY <1>2, <3>1, StatusKept
        <4> QED BY <2>1, <3>1, <4>1, Unchanged, Zenon
      <3>2. CASE ProcessNetBlock(p, b, TRUE, FALSE, TRUE)
        BY <2>1, <3>2, NetBlockKept
      <3> QED BY <2>1, <3>1, <3>2, Zenon
    <2>3. FlightOK'
      BY <2>1, <2>2, ReceivedKept, Zenon
    <2> QED BY <2>1, <2>2, <2>3, Unchanged, Zenon DEF DownloadInv
  <1> QED BY <1>3, <1>4, <1>5, <1>6, <1>7, <1>8, <1>9, <1>10, <1>11, Zenon DEF Talk

\* The handler goes on where it stopped.
LEMMA HandlerKeeps ==
  ASSUME DownloadInv, ClosedIndex, Defined, NEW direct \in BOOLEAN,
         \/ HeadersDone(direct) \/ Reconstructed
         \/ \E read \in {"invalid", "incomplete", "complete"} : CmpctDone(direct, read)
  PROVE  DownloadInv'
  <1> DEFINE p == msg.peer
             b == msg.block
  <1>01. msg.pc # "revert"
    BY DEF HeadersDone, Reconstructed, CmpctDone
  <1>1. msg.pc # "idle"
    BY Zenon DEF HeadersDone, Reconstructed, CmpctDone
  <1>2. p \in Peers /\ b \in Blocks /\ status[p] \in Live /\ b \in index
    BY <1>1, <1>01, TreeAssumption, Zenon DEF DownloadInv, MessageOK, Defined
  <1>3. /\ index \subseteq Blocks /\ node[p] \in Nodes /\ Known(node[p], index)
        /\ Agree(flight) /\ FlightOK /\ msg \in Messages
    BY <1>2, Zenon DEF DownloadInv, ChainOK, NodesOK, FlightOK, MessageOK
  <1>4. Ancestors[b] \subseteq index
    BY <1>2, AncestorsInIndex, Zenon
  <1>5. "closing" \in Live
    BY Zenon DEF Live
  <1>6. ASSUME node' = [node EXCEPT ![p] = UpdateBlockAvailability(node[p], b)],
               UNCHANGED <<chainVars, doomed>>
        PROVE  ChainOK' /\ index \subseteq index' /\ index' = index /\ NodesOK'
    <2>1. ChainOK' /\ index \subseteq index' /\ index' = index
      BY <1>6, Unchanged, Zenon DEF chainVars
    <2> DEFINE u == UpdateBlockAvailability(node[p], b)
    <2>2. u \in Nodes /\ Known(u, index')
      BY <1>2, <1>3, <2>1, AvailabilityKnown, Zenon
    <2> HIDE DEF u, p
    <2>3. NodesOK'
      BY <1>2, <1>6, <2>1, <2>2, NodesKept, Zenon DEF u
    <2> QED BY <2>1, <2>3, Zenon
  <1>7. CASE HeadersDone(direct)
    <2> DEFINE set == Lowest(DirectFetch(b), MaxInTransit - flight.count[p])
    <2>1. /\ node' = [node EXCEPT ![p] = UpdateBlockAvailability(node[p], b)] /\ msg' = Idle
          /\ UNCHANGED <<chainVars, status, doomed>>
          /\ flight' = flight \/ flight' = Request(flight, p, b, set)
      BY <1>7, Zenon DEF HeadersDone
    <2>2. set \in SUBSET index /\ set \in SUBSET Blocks
      <3>1. DirectFetch(b) \subseteq Ancestors[b]
        BY Zenon DEF DirectFetch
      <3> QED BY <1>3, <1>4, <3>1, Zenon DEF Lowest
    <2> HIDE DEF p, b, set
    <2>3. ChainOK' /\ index \subseteq index' /\ index' = index /\ NodesOK'
      BY <1>6, <2>1, Zenon
    <2>4. StillLive /\ status' \in [Peers -> Statuses] /\ status'[p] \in Live
      BY <1>2, <2>1, Unchanged, Zenon
    <2>5. MessageOK'
      BY <2>1, <2>4, Unchanged, Zenon
    <2>6. FlightOK'
      <3>1. CASE flight' = flight
        BY <2>3, <2>4, <3>1, Unchanged, Zenon
      <3>2. CASE flight' = Request(flight, p, b, set)
        <4>1. Gains(flight, flight', p, set)
          BY <1>2, <1>3, <2>2, <3>2, RequestGains, Zenon
        <4>2. set \in SUBSET index'
          BY <2>2, <2>3, Zenon
        <4> QED BY <1>2, <1>3, <2>3, <2>4, <4>1, <4>2, FlightKept, Zenon
      <3> QED BY <2>1, <3>1, <3>2, Zenon
    <2> QED BY <2>3, <2>5, <2>6, Zenon DEF DownloadInv
  <1>8. CASE Reconstructed
    <2>1. /\ ProcessNetBlock(p, b, TRUE, FALSE, TRUE) /\ msg' = Idle /\ UNCHANGED <<node, doomed>>
          /\ flight' = flight \/ flight' = MarkBlockAsReceived(flight, b)
      BY <1>8, Zenon DEF Reconstructed
    <2> HIDE DEF p, b
    <2>2. ChainOK' /\ index \subseteq index' /\ StillLive /\ status' \in [Peers -> Statuses]
      BY <1>2, <2>1, NetBlockKept
    <2>3. FlightOK'
      <3>1. CASE flight' = flight
        BY <2>2, <3>1, Unchanged, Zenon
      <3>2. CASE flight' = MarkBlockAsReceived(flight, b)
        BY <1>2, <2>2, <3>2, ReceivedKept, Zenon
      <3> QED BY <2>1, <3>1, <3>2, Zenon
    <2> QED BY <2>1, <2>2, <2>3, Unchanged, Zenon DEF DownloadInv
  <1>9. ASSUME NEW read \in {"invalid", "incomplete", "complete"}, CmpctDone(direct, read) PROVE DownloadInv'
    <2> DEFINE put == IF flight.from[b] = p THEN AsPartial(flight, p, b)
                      ELSE MarkBlockAsInFlight(flight, p, b, TRUE)
    <2>1. /\ node' = [node EXCEPT ![p] = UpdateBlockAvailability(node[p], b)]
          /\ UNCHANGED <<chainVars, doomed>>
          /\ \/ msg' = Idle /\ UNCHANGED <<flight, status>>
             \/ msg' = [msg EXCEPT !.pc = "revert"] /\ UNCHANGED <<flight, status>>
             \/ msg' = [msg EXCEPT !.pc = "reconstructed"] /\ UNCHANGED <<flight, status>>
             \/ /\ flight' = MarkBlockAsReceived(put, b) \/ flight' = put
                /\ status' = [status EXCEPT ![p] = "closing"] \/ status' = status
                /\ msg' = Idle
      BY <1>9, Zenon DEF CmpctDone
    <2>2. /\ [msg EXCEPT !.pc = "revert"] = [pc |-> "revert", peer |-> p, block |-> b]
          /\ [msg EXCEPT !.pc = "reconstructed"] = [pc |-> "reconstructed", peer |-> p, block |-> b]
      <3>1. msg = [pc |-> msg.pc, peer |-> msg.peer, block |-> msg.block]
        BY <1>3 DEF Messages
      <3> QED BY <3>1
    <2>3. Gains(flight, put, p, {b})
      <3>1. CASE flight.from[b] = p
        <4>1. Gains(flight, AsPartial(flight, p, b), p, {})
          BY <1>2, <1>3, PartialAgrees, Zenon
        <4> HIDE DEF p, b
        <4> QED BY <3>1, <4>1, Zenon DEF Gains
      <3>2. CASE flight.from[b] # p
        <4>1. Gains(flight, MarkBlockAsInFlight(flight, p, b, TRUE), p, {b})
          BY <1>2, <1>3, InFlightAgrees, Zenon
        <4> HIDE DEF p, b
        <4> QED BY <3>2, <4>1, Zenon
      <3> QED BY <3>1, <3>2, Zenon
    <2> HIDE DEF p, b, put
    <2>4. Gains(flight, MarkBlockAsReceived(put, b), p, {b})
      <3>1. Agree(put)
        BY <2>3, Zenon DEF Gains
      <3>2. /\ Agree(MarkBlockAsReceived(put, b))
            /\ \A r \in Peers : Listed(MarkBlockAsReceived(put, b), r) = Listed(put, r) \ {b}
        BY <1>2, <3>1, ReceivedAgrees, Zenon
      <3> QED BY <1>2, <2>3, <3>2, Zenon DEF Gains
    <2>5. ChainOK' /\ index \subseteq index' /\ index' = index /\ NodesOK'
      BY <1>6, <2>1, Zenon
    <2>6. CASE UNCHANGED <<flight, status>>
      <3>1. StillLive /\ status' \in [Peers -> Statuses] /\ status'[p] \in Live
        BY <1>2, <2>6, Unchanged, Zenon
      <3>2. FlightOK'
        BY <2>5, <2>6, <3>1, Unchanged, Zenon
      <3>3. MessageOK'
        <4>1. CASE msg' = Idle
          BY <3>1, <4>1, Unchanged, Zenon
        <4>2. CASE msg' = [pc |-> "revert", peer |-> p, block |-> b]
          BY <1>2, <3>1, <4>2, MessageBegun
        <4>3. CASE msg' = [pc |-> "reconstructed", peer |-> p, block |-> b]
          BY <1>2, <3>1, <4>3, MessageBegun
        <4> QED BY <2>1, <2>2, <4>1, <4>2, <4>3, Zenon
      <3> QED BY <2>5, <3>2, <3>3, Zenon DEF DownloadInv
    <2>7. CASE /\ flight' = MarkBlockAsReceived(put, b) \/ flight' = put
               /\ status' = [status EXCEPT ![p] = "closing"] \/ status' = status
               /\ msg' = Idle
      <3>1. StillLive /\ status' \in [Peers -> Statuses]
        <4>1. CASE status' = status
          BY <4>1, Unchanged, Zenon
        <4>2. CASE status' = [status EXCEPT ![p] = "closing"]
          BY <1>2, <1>5, <4>2, StatusKept
        <4> QED BY <2>7, <4>1, <4>2, Zenon
      <3>2. status'[p] \in Live
        BY <1>2, <3>1, Zenon DEF StillLive
      <3>3. Gains(flight, flight', p, {b})
        BY <2>3, <2>4, <2>7, Zenon
      <3>4. {b} \in SUBSET index'
        BY <1>2, <2>5, Zenon
      <3>5. FlightOK'
        BY <1>2, <1>3, <2>5, <3>1, <3>2, <3>3, <3>4, FlightKept, Zenon
      <3>6. MessageOK'
        BY <2>7, <3>1, Unchanged, Zenon
      <3> QED BY <2>5, <3>5, <3>6, Zenon DEF DownloadInv
    <2> QED BY <2>1, <2>6, <2>7, Zenon
  <1> QED BY <1>7, <1>8, <1>9, Zenon

\* So it does where a compact block turned out to be only an announcement.
LEMMA RevertKeeps ==
  ASSUME DownloadInv, CmpctReverts
  PROVE  DownloadInv'
  <1> DEFINE p == msg.peer
             b == msg.block
  <1>1. msg.pc # "idle"
    BY Zenon DEF CmpctReverts
  <1>2. p \in Peers /\ b \in Blocks /\ status[p] \in Live
    BY <1>1, Zenon DEF DownloadInv, MessageOK
  <1>3. CASE ProcessNetBlockHeaders(p, Parent[b], b)
    BY <1>2, <1>3, NetBlockHeadersKeep, Zenon
  <1>4. CASE /\ node' = [node EXCEPT ![p] = UpdateBlockAvailability(node[p], b)]
             /\ msg' = Idle /\ UNCHANGED <<chainVars, status, flight, doomed>>
    <2> HIDE DEF p, b
    <2>1. ChainOK' /\ index \subseteq index' /\ FlightOK' /\ index' = index
          /\ status' \in [Peers -> Statuses]
      BY <1>4, Unchanged, Zenon DEF chainVars
    <2>2. MessageOK'
      BY <1>4, <2>1, Unchanged, Zenon
    <2>3. node[p] \in Nodes /\ Known(node[p], index) /\ index \subseteq Blocks
      BY <1>2, Zenon DEF DownloadInv, NodesOK, ChainOK
    <2>4. UpdateBlockAvailability(node[p], b) \in Nodes /\ Known(UpdateBlockAvailability(node[p], b), index')
      BY <1>2, <2>1, <2>3, AvailabilityKnown, Zenon
    <2>5. NodesOK'
      BY <1>2, <1>4, <2>1, <2>4, NodesKept, Zenon
    <2> QED BY <2>1, <2>2, <2>5, Zenon DEF DownloadInv
  <1> QED BY <1>3, <1>4, Zenon DEF CmpctReverts

\* ActivateBestChain and CleanBlockIndex.  What CleanErase deletes it takes out of
\* flight and out of the states of the peers in the same critical section.
LEMMA OthersKeep ==
  ASSUME DownloadInv, ActivateBestChain \/ CleanSelect \/ CleanErase
  PROVE  DownloadInv'
  <1>1. CASE ActivateBestChain
    <2>1. /\ tip' \in Linked
          /\ UNCHANGED <<index, haveData, failed, status, node, flight, msg, doomed>>
      BY <1>1, Zenon DEF ActivateBestChain
    <2>2. ChainOK' /\ index \subseteq index'
      BY <2>1, Zenon DEF DownloadInv, ChainOK, Linked
    <2> QED BY <2>1, <2>2, Unchanged DEF DownloadInv
  <1>2. CASE CleanSelect
    <2>1. doomed' \subseteq index \ ActiveChain /\ UNCHANGED <<chainVars, status, node, flight, msg>>
      BY <1>2, Zenon DEF CleanSelect
    <2>2. Genesis \in ActiveChain
      BY GenesisIsAncestor, Zenon DEF ActiveChain, DownloadInv, ChainOK
    <2>3. ChainOK' /\ index \subseteq index'
      BY <2>1, <2>2 DEF DownloadInv, ChainOK, chainVars
    <2> QED BY <2>1, <2>3, Unchanged DEF DownloadInv
  <1>3. CASE CleanErase
    <2>1. /\ index' = index \ doomed /\ haveData' = haveData \ doomed /\ failed' = failed \ doomed
          /\ flight' = ReceivedAll(flight, doomed \cap index)
          /\ node' = [p \in Peers |-> Forgotten(node[p], doomed)]
          /\ doomed' = {} /\ UNCHANGED <<tip, status, msg>>
      BY <1>3, Zenon DEF CleanErase
    <2>2. ChainOK'
      BY <2>1, Zenon DEF DownloadInv, ChainOK
    <2>3. ASSUME NEW p \in Peers
          PROVE  node'[p] \in Nodes /\ node'[p].best \in index' \cup {NoBlock}
                 /\ node'[p].common \in index' \cup {NoBlock}
      <3> DEFINE n == node[p]
                 best == IF n.best \in doomed THEN NoBlock ELSE n.best
                 common == IF n.common \in doomed THEN NoBlock ELSE n.common
      <3>1. n \in Nodes /\ Known(n, index) /\ index \subseteq Blocks
        BY Zenon DEF DownloadInv, NodesOK, ChainOK
      <3>2. node'[p] = [n EXCEPT !.best = best, !.common = common]
        BY <2>1, Zenon DEF Forgotten
      <3> HIDE DEF n
      <3>3. best \in index' \cup {NoBlock} /\ common \in index' \cup {NoBlock}
        BY <2>1, <3>1, Zenon DEF Known
      <3>4. best \in MaybeBlock /\ common \in MaybeBlock
        BY <2>1, <3>1, <3>3, Zenon DEF MaybeBlock
      <3> HIDE DEF best, common
      <3>5. node'[p] = [best |-> best, unknown |-> n.unknown, common |-> common]
        <4>1. n = [best |-> n.best, unknown |-> n.unknown, common |-> n.common]
          BY <3>1 DEF Nodes
        <4> QED BY <3>2, <4>1
      <3>6. node'[p].best = best /\ node'[p].common = common
        BY <3>5
      <3>7. n.unknown \in MaybeBlock
        BY <3>1, Zenon DEF Nodes
      <3>8. node'[p] \in Nodes
        <4>1. [best |-> best, unknown |-> n.unknown, common |-> common] \in Nodes
          BY <3>4, <3>7, Zenon DEF Nodes
        <4> QED BY <3>5, <4>1
      <3> QED BY <3>3, <3>6, <3>8, Zenon
    <2>4. NodesOK'
      <3>1. node' \in [Peers -> Nodes]
        BY <2>1, <2>3
      <3> QED BY <2>3, <3>1, Zenon DEF NodesOK, Known, Nodes, MaybeBlock
    <2> DEFINE set == doomed \cap index
    <2>5. Agree(flight) /\ set \in SUBSET Blocks
      BY Zenon DEF DownloadInv, FlightOK, ChainOK
    <2>6. Agree(flight') /\ \A r \in Peers : Listed(flight', r) \subseteq Listed(flight, r) \ set
      <3>1. flight' = ReceivedAll(flight, set)
        BY <2>1, Zenon
      <3> HIDE DEF set
      <3>2. /\ Agree(ReceivedAll(flight, set))
            /\ \A r \in Peers : Listed(ReceivedAll(flight, set), r) \subseteq Listed(flight, r) \ set
        BY <2>5, AllReceived, Zenon
      <3> QED BY <3>1, <3>2, Zenon
    <2>7. Agree(flight)'
      BY <2>6, Zenon DEF Agree, Flights, Busy, Once, Hashes
    <2>8. \A r \in Peers : Listed(flight', r) \subseteq index' /\ (Listed(flight', r) # {} => status'[r] \in Live)
      BY <2>1, <2>6, Zenon DEF DownloadInv, FlightOK
    <2>9. FlightOK'
      BY <2>7, <2>8, Zenon DEF FlightOK, Listed
    <2>10. StillLive /\ status' \in [Peers -> Statuses]
      BY <2>1, Unchanged, Zenon
    <2>11. MessageOK'
      BY <2>1, <2>10, Unchanged, Zenon
    <2> QED BY <2>2, <2>4, <2>9, <2>11, Zenon DEF DownloadInv
  <1> QED BY <1>1, <1>2, <1>3, Zenon

\* Nothing is in flight at first.
LEMMA NothingAgrees == Agree(NothingInFlight)
  <1> DEFINE f == NothingInFlight
  <1>1. /\ f.from = [b \in Blocks |-> NoPeer] /\ f.queue = [p \in Peers |-> <<>>]
        /\ f.count = [p \in Peers |-> 0] /\ f.peers = 0
    BY DEF NothingInFlight
  <1>2. f \in Flights
    <2>1. <<>> \in Seq(Entries) /\ 0 \in Int
      OBVIOUS
    <2> QED BY <2>1, Zenon DEF NothingInFlight, Flights
  <1> HIDE DEF f
  <1>3. Len(<<>>) = 0 /\ Hashes(<<>>) = {} /\ Once(<<>>)
    BY DEF Hashes, Once
  <1>4. Busy(f) = {}
    BY <1>1, Zenon DEF Busy
  <1>5. f.peers = Cardinality(Busy(f))
    BY <1>1, <1>4, FS_EmptySet, Zenon
  <1>6. \A p \in Peers : Once(f.queue[p]) /\ f.count[p] = Len(f.queue[p])
    BY <1>1, <1>3, Zenon
  <1>7. \A p \in Peers : \A b \in Blocks : b \in Hashes(f.queue[p]) <=> f.from[b] = p
    <2>1. ASSUME NEW p \in Peers, NEW b \in Blocks PROVE Hashes(f.queue[p]) = {} /\ f.from[b] = NoPeer
      BY <1>1, <1>3, Zenon
    <2> QED BY <2>1, DownloadAssumption, Zenon
  <1>8. Agree(f)
    BY <1>2, <1>5, <1>6, <1>7, Zenon DEF Agree
  <1> QED BY <1>8, Zenon DEF f

\* The node starts with the invariant ...
LEMMA InitDownload == Init => DownloadInv
  <1> SUFFICES ASSUME Init PROVE DownloadInv
    BY Zenon
  <1>1. ChainOK
    BY TreeAssumption, Zenon DEF Init, ChainOK
  <1>2. NodesOK
    <2>1. NewNode \in Nodes /\ Known(NewNode, index)
      BY DEF NewNode, Nodes, Known, MaybeBlock
    <2>2. \A p \in Peers : node[p] = NewNode
      BY Zenon DEF Init
    <2> QED BY <2>1, <2>2, Zenon DEF Init, NodesOK
  <1>3. FlightOK
    <2>1. Agree(flight)
      BY NothingAgrees, Zenon DEF Init
    <2>2. \A p \in Peers : flight.queue[p] = <<>>
      BY DEF Init, NothingInFlight
    <2>3. Hashes(<<>>) = {}
      BY DEF Hashes
    <2>4. \A p \in Peers : Listed(flight, p) = {}
      BY <2>2, <2>3, ListedInQueue, Zenon
    <2> QED BY <2>1, <2>4, Zenon DEF FlightOK
  <1>4. MessageOK
    <2>1. msg.pc = "idle" /\ msg \in Messages
      BY DEF Init, Idle, Messages, MaybeBlock
    <2>2. status \in [Peers -> {"new", "up", "closing", "gone"}]
      BY DEF Init
    <2> QED BY <2>1, <2>2, Zenon DEF MessageOK
  <1> QED BY <1>1, <1>2, <1>3, <1>4, Zenon DEF DownloadInv

\* ... every step of any thread keeps it ...
LEMMA NextDownload == DownloadInv /\ [Next]_vars => DownloadInv'
  <1> SUFFICES ASSUME DownloadInv, [Next]_vars PROVE DownloadInv'
    BY Zenon
  <1>1. CASE Next
    <2>1. Defined
      BY <1>1, Zenon DEF Next
    <2>2. ClosedIndex
      BY <2>1, Zenon DEF Defined, ClosedIndex, DownloadInv, ChainOK
    <2>3. CASE \E p \in Peers : Talk(p)
      BY <2>2, <2>3, TalkKeeps, Zenon
    <2>4. CASE \/ Reconstructed
               \/ \E direct \in BOOLEAN :
                    \/ HeadersDone(direct)
                    \/ \E read \in {"invalid", "incomplete", "complete"} : CmpctDone(direct, read)
      BY <2>1, <2>2, <2>4, HandlerKeeps, Zenon
    <2>5. CASE ActivateBestChain \/ CleanSelect \/ CleanErase
      BY <2>5, OthersKeep, Zenon
    <2>6. CASE CmpctReverts
      BY <2>6, RevertKeeps, Zenon
    <2> QED BY <1>1, <2>3, <2>4, <2>5, <2>6, Zenon DEF Next
  <1>2. CASE UNCHANGED vars
    <2>1. /\ UNCHANGED <<chainVars, doomed>> /\ UNCHANGED status /\ UNCHANGED node
          /\ UNCHANGED flight /\ UNCHANGED msg
      BY <1>2, Zenon DEF vars
    <2> QED BY <2>1, Unchanged, Zenon DEF DownloadInv
  <1> QED BY <1>1, <1>2, Zenon

\* ... and so it always holds.
LEMMA DownloadInvariant == Spec => []DownloadInv
  BY InitDownload, NextDownload, PTL DEF Spec

\* mapBlocksInFlight, vBlocksInFlight, nBlocksInFlight and
\* nPeersWithValidatedDownloads agree after every step of the message handler, of the
\* thread that removes peers and of CleanBlockIndex: the assertions of FinalizeNode
\* hold, and MarkBlockAsReceived erases an entry that is there.
THEOREM DownloadsAreExact == Spec => []DownloadsExact
  <1>1. ASSUME DownloadInv PROVE DownloadsExact
    <2>1. Agree(flight)
      BY <1>1, Zenon DEF DownloadInv, FlightOK
    <2>2. ASSUME NEW p \in Peers
          PROVE  /\ Listed(flight, p) = {b \in Blocks : flight.from[b] = p}
                 /\ flight.count[p] = Len(flight.queue[p])
                 /\ Cardinality(Listed(flight, p)) = Len(flight.queue[p])
                 /\ flight.queue[p] # <<>> => status[p] \in {"up", "closing"}
      <3> DEFINE q == flight.queue[p]
      <3>1. q \in Seq(Entries) /\ Once(q) /\ flight.count[p] = Len(q) /\ Listed(flight, p) = Hashes(q)
            /\ \A b \in Blocks : b \in Hashes(q) <=> flight.from[b] = p
        BY <2>1, ListedInQueue, Zenon DEF Agree, Flights
      <3> HIDE DEF q
      <3>2. Hashes(q) \subseteq Blocks
        <4>1. \A i \in 1..Len(q) : q[i] \in Entries
          BY <3>1
        <4>2. \A e \in Entries : e.hash \in Blocks
          BY Zenon DEF Entries
        <4> QED BY <4>1, <4>2, Zenon DEF Hashes
      <3>3. Cardinality(Hashes(q)) = Len(q)
        BY <3>1, LengthOfQueue, Zenon
      <3>4. q # <<>> => Hashes(q) # {}
        <4>1. q # <<>> => 1 \in 1..Len(q)
          BY <3>1
        <4> QED BY <4>1, Zenon DEF Hashes
      <3>5. Hashes(q) # {} => status[p] \in {"up", "closing"}
        BY <1>1, <3>1, Zenon DEF DownloadInv, FlightOK, Live
      <3>6. Listed(flight, p) = {b \in Blocks : flight.from[b] = p}
        BY <3>1, <3>2, Zenon
      <3> QED BY <3>1, <3>3, <3>4, <3>5, <3>6, Zenon DEF q
    <2>3. flight.peers = Cardinality({p \in Peers : flight.queue[p] # <<>>})
      BY <2>1, Zenon DEF Agree, Busy
    <2> QED BY <2>2, <2>3, Zenon DEF DownloadsExact
  <1> QED BY <1>1, DownloadInvariant, PTL

\* pindexBestKnownBlock, pindexLastCommonBlock and the queued blocks never point to a
\* block index entry that CleanBlockIndex has deleted, whatever was announced,
\* requested or received between the steps of the cleaner.
THEOREM PeersNeverDangle == Spec => []PeersPointToIndex
  <1>1. DownloadInv => PeersPointToIndex
    BY Zenon DEF DownloadInv, NodesOK, FlightOK, Known, PeersPointToIndex
  <1> QED BY <1>1, DownloadInvariant, PTL
=============================================================================
