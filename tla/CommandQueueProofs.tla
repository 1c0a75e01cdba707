------------------------- MODULE CommandQueueProofs -------------------------
(***************************************************************************)
(* Proofs about CommandQueue, for every set of lanes and entries, every    *)
(* assignment of entries to lanes and every limit requested.               *)
(***************************************************************************)
EXTENDS CommandQueue, FiniteSetTheorems, SequenceTheorems, TLAPS

\* Only finitely many entries are ever active (Cardinality is defined).
FiniteActive == \A l \in Lanes : IsFiniteSet(active[l])

\* Arrival numbers in use have been handed out.
TicketsBounded == \A t \in Tasks : ticket[t] <= nextTicket

\* No entry was started in a generation that has not come yet: this is why no
\* running task owns a slot of the generation resetAllLanes begins.
GenerationsPast == \A t \in Tasks : taskGeneration[t] <= generation[LaneOf[t]]

\* The inductive invariant.
IInv == /\ TypeOK
        /\ FiniteActive
        /\ SlotsAccounted
        /\ QueueMatchesPhases
        /\ TicketsBounded
        /\ FifoPerLane
        /\ NoIdleCapacity
        /\ GenerationsPast

-----------------------------------------------------------------------------
(***************************************************************************)
(* The helpers of drainLane.                                               *)
(***************************************************************************)

\* The pump loop takes no more than is queued, stops only when the queue is
\* empty or the lane is full, and takes something only while there is room.
LEMMA PumpCountBounds ==
  ASSUME NEW q \in Seq(Tasks), NEW busy, IsFiniteSet(busy), NEW lim \in Int
  PROVE  /\ PumpCount(q, busy, lim) \in 0..Len(q)
         /\ PumpCount(q, busy, lim) < Len(q)
              => Cardinality(busy) + PumpCount(q, busy, lim) >= lim
         /\ PumpCount(q, busy, lim) > 0
              => Cardinality(busy) + PumpCount(q, busy, lim) <= lim
<1>1. Cardinality(busy) \in Nat
  BY FS_CardinalityType
<1>2. Len(q) \in Nat
  BY LenProperties
<1> QED BY <1>1, <1>2 DEF PumpCount

\* What the pump loop leaves behind is the rest of the queue, in order.
LEMMA RestOfProperties ==
  ASSUME NEW q \in Seq(Tasks), NEW n \in 0..Len(q)
  PROVE  /\ RestOf(q, n) \in Seq(Tasks)
         /\ Len(RestOf(q, n)) = Len(q) - n
         /\ \A i \in 1..(Len(q) - n) : RestOf(q, n)[i] = q[n + i]
<1>1. Len(q) \in Nat /\ n \in Nat /\ n <= Len(q)
  BY LenProperties
<1>2. \A i \in (n + 1)..Len(q) : q[i] \in Tasks
  BY <1>1, ElementOfSeq
<1>3. /\ SubSeq(q, n + 1, Len(q)) \in Seq(Tasks)
      /\ Len(SubSeq(q, n + 1, Len(q)))
           = IF n + 1 <= Len(q) THEN Len(q) - (n + 1) + 1 ELSE 0
      /\ \A i \in 1..(Len(q) - (n + 1) + 1) :
           SubSeq(q, n + 1, Len(q))[i] = q[n + 1 + i - 1]
  <2>1. n + 1 \in Int /\ Len(q) \in Int
    BY <1>1
  <2> QED BY ONLY <1>2, <2>1, SubSeqProperties
<1>4. Len(SubSeq(q, n + 1, Len(q))) = Len(q) - n
  BY <1>1, <1>3
<1>5. \A i \in 1..(Len(q) - n) : SubSeq(q, n + 1, Len(q))[i] = q[n + i]
  <2>1. Len(q) - (n + 1) + 1 = Len(q) - n
    BY <1>1
  <2>2. \A i \in 1..(Len(q) - n) : n + 1 + i - 1 = n + i
    BY <1>1
  <2> QED BY <1>3, <2>1, <2>2
<1> QED BY <1>3, <1>4, <1>5 DEF RestOf

\* The entries the pump loop takes: finitely many, and as many as it counted
\* when no entry is queued twice.
LEMMA FirstOfProperties ==
  ASSUME NEW q \in Seq(Tasks), NEW n \in 0..Len(q)
  PROVE  /\ FirstOf(q, n) \subseteq AllOf(q)
         /\ AllOf(q) \subseteq Tasks
         /\ IsFiniteSet(FirstOf(q, n))
         /\ (\A i, j \in 1..Len(q) : q[i] = q[j] => i = j)
              => Cardinality(FirstOf(q, n)) = n
<1>1. Len(q) \in Nat /\ n \in Nat /\ n <= Len(q)
  BY LenProperties
<1>2. FirstOf(q, n) \subseteq AllOf(q) /\ AllOf(q) \subseteq Tasks
  BY <1>1, ElementOfSeq DEF FirstOf, AllOf
<1>3. IsFiniteSet(1..n) /\ Cardinality(1..n) = n
  BY <1>1, FS_Interval
<1> DEFINE f == [i \in 1..n |-> q[i]]
<1>4. f \in Surjection(1..n, FirstOf(q, n))
  BY <1>1 DEF Surjection, FirstOf
<1>5. /\ IsFiniteSet(FirstOf(q, n))
      /\ Cardinality(FirstOf(q, n)) = Cardinality(1..n) <=> f \in Injection(1..n, FirstOf(q, n))
  BY <1>3, <1>4, FS_Surjection
<1>6. ASSUME \A i, j \in 1..Len(q) : q[i] = q[j] => i = j
      PROVE  Cardinality(FirstOf(q, n)) = n
  <2>1. f \in Injection(1..n, FirstOf(q, n))
    BY <1>1, <1>4, <1>6 DEF Injection, Surjection, IsInjective
  <2> QED BY <2>1, <1>3, <1>5
<1> QED BY <1>2, <1>5, <1>6
-----------------------------------------------------------------------------
(***************************************************************************)
(* drainLane, whatever state the caller left: the lemmas below turn facts  *)
(* about that state into facts about the next one.                         *)
(***************************************************************************)

\* How many entries each lane starts.
Taken(ls, qs, busy, lim) ==
  [l \in Lanes |-> IF l \in ls THEN PumpCount(qs[l], busy[l], lim[l]) ELSE 0]

\* The state a caller of drainLane leaves.
CallerTypes(ls, qs, busy, lim, gen, ph) ==
  /\ ls \subseteq Lanes
  /\ qs \in [Lanes -> Seq(Tasks)]
  /\ busy \in [Lanes -> SUBSET Tasks]
  /\ \A l \in Lanes : IsFiniteSet(busy[l])
  /\ lim \in [Lanes -> Nat \ {0}]
  /\ gen \in [Lanes -> Nat]
  /\ ph \in [Tasks -> Phases]

\* The slots, the queues and the tickets, for the values the drain works with.
CallerSlots(busy, gen, ph) ==
  \A l \in Lanes :
    busy[l] = {t \in Tasks : /\ LaneOf[t] = l
                             /\ ph[t] = "running"
                             /\ taskGeneration[t] = gen[l]}

CallerMatches(qs, ph) ==
  \A l \in Lanes :
    /\ AllOf(qs[l]) = {t \in Tasks : LaneOf[t] = l /\ ph[t] = "queued"}
    /\ \A i, j \in 1..Len(qs[l]) : qs[l][i] = qs[l][j] => i = j

CallerInOrder(qs, ph) ==
  \A l \in Lanes : \A i \in 1..Len(qs[l]) :
    /\ \A t \in Tasks :
         LaneOf[t] = l /\ ph[t] \in {"running", "resolved", "rejected"}
           => ticket'[t] < ticket'[qs[l][i]]
    /\ \A j \in 1..(i-1) : ticket'[qs[l][j]] < ticket'[qs[l][i]]

\* The counts drainLane uses are within the queues.
LEMMA TakenBounds ==
  ASSUME NEW ls, NEW qs, NEW busy, NEW lim, NEW gen, NEW ph,
         CallerTypes(ls, qs, busy, lim, gen, ph),
         NEW l \in Lanes
  PROVE  /\ Taken(ls, qs, busy, lim)[l] \in 0..Len(qs[l])
         /\ l \in ls => Taken(ls, qs, busy, lim)[l] = PumpCount(qs[l], busy[l], lim[l])
         /\ l \notin ls => Taken(ls, qs, busy, lim)[l] = 0
<1>1. qs[l] \in Seq(Tasks) /\ IsFiniteSet(busy[l]) /\ lim[l] \in Int
  BY DEF CallerTypes
<1>2. PumpCount(qs[l], busy[l], lim[l]) \in 0..Len(qs[l])
  BY <1>1, PumpCountBounds
<1>3. Len(qs[l]) \in Nat
  BY <1>1, LenProperties
<1> QED BY <1>2, <1>3 DEF Taken

\* An entry drainLane starts was queued in the lane it belongs to.
LEMMA StartedWasQueued ==
  ASSUME NEW ls, NEW qs, NEW busy, NEW lim, NEW gen, NEW ph,
         CallerTypes(ls, qs, busy, lim, gen, ph),
         CallerMatches(qs, ph),
         NEW l \in Lanes,
         NEW t \in FirstOf(qs[l], Taken(ls, qs, busy, lim)[l])
  PROVE  t \in Tasks /\ LaneOf[t] = l /\ ph[t] = "queued"
<1>1. qs[l] \in Seq(Tasks)
  BY DEF CallerTypes
<1>2. Taken(ls, qs, busy, lim)[l] \in 0..Len(qs[l])
  BY TakenBounds
<1>3. t \in AllOf(qs[l])
  BY <1>1, <1>2, FirstOfProperties
<1> QED BY <1>3 DEF CallerMatches

\* drainLane, unfolded with the counts named.
LEMMA DrainUnfolded ==
  ASSUME NEW ls, NEW qs, NEW busy, NEW lim, NEW gen, NEW ph,
         Drain(ls, qs, busy, lim, gen, ph)
  PROVE  LET n == Taken(ls, qs, busy, lim)
             started == UNION {FirstOf(qs[l], n[l]) : l \in Lanes}
         IN  /\ queue' = [l \in Lanes |-> RestOf(qs[l], n[l])]
             /\ active' = [l \in Lanes |-> busy[l] \cup FirstOf(qs[l], n[l])]
             /\ phase' = [t \in Tasks |-> IF t \in started THEN "running" ELSE ph[t]]
             /\ taskGeneration' = [t \in Tasks |-> IF t \in started THEN gen[LaneOf[t]]
                                                   ELSE taskGeneration[t]]
             /\ maxConcurrent' = lim
             /\ generation' = gen
BY DEF Drain, Taken

\* Which entries drainLane starts, lane by lane.
LEMMA StartedInLane ==
  ASSUME NEW ls, NEW qs, NEW busy, NEW lim, NEW gen, NEW ph,
         CallerTypes(ls, qs, busy, lim, gen, ph),
         CallerMatches(qs, ph),
         Drain(ls, qs, busy, lim, gen, ph),
         NEW t \in Tasks
  PROVE  LET first == FirstOf(qs[LaneOf[t]], Taken(ls, qs, busy, lim)[LaneOf[t]])
         IN  /\ t \in first => /\ phase'[t] = "running"
                               /\ taskGeneration'[t] = gen[LaneOf[t]]
             /\ t \notin first => /\ phase'[t] = ph[t]
                                  /\ taskGeneration'[t] = taskGeneration[t]
<1> DEFINE n == Taken(ls, qs, busy, lim)
           started == UNION {FirstOf(qs[l], n[l]) : l \in Lanes}
<1>1. LaneOf[t] \in Lanes
  BY QueueAssumption
<1>2. t \in started <=> t \in FirstOf(qs[LaneOf[t]], n[LaneOf[t]])
  BY <1>1, StartedWasQueued
<1>3. /\ phase'[t] = IF t \in started THEN "running" ELSE ph[t]
      /\ taskGeneration'[t] = IF t \in started THEN gen[LaneOf[t]] ELSE taskGeneration[t]
  BY DrainUnfolded
<1> QED BY <1>2, <1>3

\* drainLane preserves the types.
LEMMA DrainTypes ==
  ASSUME NEW ls, NEW qs, NEW busy, NEW lim, NEW gen, NEW ph,
         CallerTypes(ls, qs, busy, lim, gen, ph),
         taskGeneration \in [Tasks -> Nat],
         Drain(ls, qs, busy, lim, gen, ph)
  PROVE  /\ queue' \in [Lanes -> Seq(Tasks)]
         /\ active' \in [Lanes -> SUBSET Tasks]
         /\ maxConcurrent' \in [Lanes -> Nat \ {0}]
         /\ generation' \in [Lanes -> Nat]
         /\ phase' \in [Tasks -> Phases]
         /\ taskGeneration' \in [Tasks -> Nat]
         /\ FiniteActive'
<1> DEFINE n == Taken(ls, qs, busy, lim)
<1> USE DEF CallerTypes
<1>1. \A l \in Lanes : qs[l] \in Seq(Tasks) /\ n[l] \in 0..Len(qs[l])
  BY TakenBounds
<1>2. \A l \in Lanes : RestOf(qs[l], n[l]) \in Seq(Tasks)
  BY <1>1, RestOfProperties
<1>3. \A l \in Lanes : /\ FirstOf(qs[l], n[l]) \subseteq Tasks
                       /\ IsFiniteSet(FirstOf(qs[l], n[l]))
  BY <1>1, FirstOfProperties
<1>4. \A l \in Lanes : IsFiniteSet(busy[l] \cup FirstOf(qs[l], n[l]))
  BY <1>3, FS_Union
<1>5. queue' \in [Lanes -> Seq(Tasks)]
  BY <1>2, DrainUnfolded
<1>6. active' = [l \in Lanes |-> busy[l] \cup FirstOf(qs[l], n[l])]
  BY DrainUnfolded
<1>7. active' \in [Lanes -> SUBSET Tasks] /\ FiniteActive'
  <2> HIDE DEF n
  <2> QED BY <1>3, <1>4, <1>6 DEF FiniteActive
<1>8. maxConcurrent' = lim /\ generation' = gen
  BY DrainUnfolded
<1> DEFINE started == UNION {FirstOf(qs[l], n[l]) : l \in Lanes}
<1>9. phase' = [t \in Tasks |-> IF t \in started THEN "running" ELSE ph[t]]
  BY DrainUnfolded
<1>10. taskGeneration' = [t \in Tasks |-> IF t \in started THEN gen[LaneOf[t]]
                                          ELSE taskGeneration[t]]
  BY DrainUnfolded
<1>11. phase' \in [Tasks -> Phases]
  <2>1. "running" \in Phases
    BY DEF Phases
  <2> HIDE DEF started
  <2> QED BY <1>9, <2>1
<1>12. taskGeneration' \in [Tasks -> Nat]
  <2> HIDE DEF started
  <2> QED BY <1>10, QueueAssumption
<1> QED BY <1>5, <1>7, <1>8, <1>11, <1>12

\* drainLane gives every entry it starts a slot of the current generation.
LEMMA DrainSlots ==
  ASSUME NEW ls, NEW qs, NEW busy, NEW lim, NEW gen, NEW ph,
         CallerTypes(ls, qs, busy, lim, gen, ph),
         CallerMatches(qs, ph),
         CallerSlots(busy, gen, ph),
         Drain(ls, qs, busy, lim, gen, ph)
  PROVE  SlotsAccounted'
<1> DEFINE n == Taken(ls, qs, busy, lim)
<1> SUFFICES ASSUME NEW l \in Lanes
             PROVE  active'[l] = {t \in Tasks : /\ LaneOf[t] = l
                                                /\ phase'[t] = "running"
                                                /\ taskGeneration'[t] = generation'[l]}
  BY DEF SlotsAccounted
<1>1. active'[l] = busy[l] \cup FirstOf(qs[l], n[l])
  BY DrainUnfolded
<1>2. generation' = gen
  BY DrainUnfolded
<1>3. \A t \in FirstOf(qs[l], n[l]) : t \in Tasks /\ LaneOf[t] = l /\ ph[t] = "queued"
  BY StartedWasQueued
<1>4. \A t \in Tasks : LaneOf[t] = l =>
        /\ t \in FirstOf(qs[l], n[l]) => phase'[t] = "running" /\ taskGeneration'[t] = gen[l]
        /\ t \notin FirstOf(qs[l], n[l]) => /\ phase'[t] = ph[t]
                                            /\ taskGeneration'[t] = taskGeneration[t]
  BY StartedInLane
<1>5. busy[l] = {t \in Tasks : /\ LaneOf[t] = l
                               /\ ph[t] = "running"
                               /\ taskGeneration[t] = gen[l]}
  BY DEF CallerSlots
<1> HIDE DEF n
<1> QED BY <1>1, <1>2, <1>3, <1>4, <1>5
\* drainLane removes from a queue exactly the entries it starts.
LEMMA DrainMatches ==
  ASSUME NEW ls, NEW qs, NEW busy, NEW lim, NEW gen, NEW ph,
         CallerTypes(ls, qs, busy, lim, gen, ph),
         CallerMatches(qs, ph),
         Drain(ls, qs, busy, lim, gen, ph)
  PROVE  QueueMatchesPhases'
<1> DEFINE n == Taken(ls, qs, busy, lim)
<1> SUFFICES ASSUME NEW l \in Lanes
             PROVE  /\ AllOf(queue'[l]) = {t \in Tasks : LaneOf[t] = l /\ phase'[t] = "queued"}
                    /\ \A i, j \in 1..Len(queue'[l]) : queue'[l][i] = queue'[l][j] => i = j
  BY DEF QueueMatchesPhases, AllOf, FirstOf
<1>1. queue'[l] = RestOf(qs[l], n[l])
  BY DrainUnfolded
<1>2. qs[l] \in Seq(Tasks) /\ n[l] \in 0..Len(qs[l]) /\ Len(qs[l]) \in Nat
  BY TakenBounds, LenProperties DEF CallerTypes
<1>3. /\ Len(queue'[l]) = Len(qs[l]) - n[l]
      /\ \A i \in 1..(Len(qs[l]) - n[l]) : queue'[l][i] = qs[l][n[l] + i]
  BY <1>1, <1>2, RestOfProperties
<1>4. \A i, j \in 1..Len(qs[l]) : qs[l][i] = qs[l][j] => i = j
  BY DEF CallerMatches
<1>5. AllOf(qs[l]) = {t \in Tasks : LaneOf[t] = l /\ ph[t] = "queued"}
  BY DEF CallerMatches
<1>6. \A t \in Tasks : LaneOf[t] = l =>
        /\ t \in FirstOf(qs[l], n[l]) => phase'[t] = "running"
        /\ t \notin FirstOf(qs[l], n[l]) => phase'[t] = ph[t]
  BY StartedInLane
<1> HIDE DEF n
<1>7. AllOf(queue'[l]) = AllOf(qs[l]) \ FirstOf(qs[l], n[l])
  <2>1. ASSUME NEW t \in AllOf(queue'[l])
        PROVE  t \in AllOf(qs[l]) \ FirstOf(qs[l], n[l])
    <3>1. PICK i \in 1..(Len(qs[l]) - n[l]) : t = qs[l][n[l] + i]
      BY <2>1, <1>3 DEF AllOf, FirstOf
    <3>2. n[l] + i \in 1..Len(qs[l]) /\ n[l] + i \notin 1..n[l]
      BY <1>2
    <3>3. \A j \in 1..n[l] : qs[l][j] # t
      BY <3>1, <3>2, <1>2, <1>4
    <3> QED BY <3>1, <3>2, <3>3 DEF AllOf, FirstOf
  <2>2. ASSUME NEW t \in AllOf(qs[l]), t \notin FirstOf(qs[l], n[l])
        PROVE  t \in AllOf(queue'[l])
    <3>1. PICK i \in 1..Len(qs[l]) : t = qs[l][i]
      BY DEF AllOf, FirstOf
    <3>2. i \notin 1..n[l]
      BY <2>2, <3>1 DEF FirstOf
    <3>3. i - n[l] \in 1..(Len(qs[l]) - n[l]) /\ n[l] + (i - n[l]) = i
      BY <3>2, <1>2
    <3> QED BY <3>1, <3>3, <1>3 DEF AllOf, FirstOf
  <2> QED BY <2>1, <2>2
<1>8. AllOf(queue'[l]) = {t \in Tasks : LaneOf[t] = l /\ phase'[t] = "queued"}
  BY <1>5, <1>6, <1>7
<1>9. ASSUME NEW i \in 1..Len(queue'[l]), NEW j \in 1..Len(queue'[l]),
             queue'[l][i] = queue'[l][j]
      PROVE  i = j
  <2>1. n[l] + i \in 1..Len(qs[l]) /\ n[l] + j \in 1..Len(qs[l])
    BY <1>2, <1>3
  <2>2. n[l] + i = n[l] + j
    BY <1>3, <1>4, <1>9, <2>1
  <2> QED BY <2>2, <1>2
<1> QED BY <1>8, <1>9

\* drainLane starts entries from the front: arrival order is kept.
LEMMA DrainInOrder ==
  ASSUME NEW ls, NEW qs, NEW busy, NEW lim, NEW gen, NEW ph,
         CallerTypes(ls, qs, busy, lim, gen, ph),
         CallerMatches(qs, ph),
         CallerInOrder(qs, ph),
         Drain(ls, qs, busy, lim, gen, ph)
  PROVE  FifoPerLane'
<1> DEFINE n == Taken(ls, qs, busy, lim)
<1> SUFFICES ASSUME NEW l \in Lanes, NEW i \in 1..Len(queue'[l])
             PROVE  /\ \A t \in Tasks :
                         LaneOf[t] = l /\ phase'[t] \in {"running", "resolved", "rejected"}
                           => ticket'[t] < ticket'[queue'[l][i]]
                    /\ \A j \in 1..(i-1) : ticket'[queue'[l][j]] < ticket'[queue'[l][i]]
  BY DEF FifoPerLane
<1>1. queue'[l] = RestOf(qs[l], n[l])
  BY DrainUnfolded
<1>2. qs[l] \in Seq(Tasks) /\ n[l] \in 0..Len(qs[l]) /\ Len(qs[l]) \in Nat
  BY TakenBounds, LenProperties DEF CallerTypes
<1>3. /\ Len(queue'[l]) = Len(qs[l]) - n[l]
      /\ \A k \in 1..(Len(qs[l]) - n[l]) : queue'[l][k] = qs[l][n[l] + k]
  BY <1>1, <1>2, RestOfProperties
<1>4. \A t \in Tasks : LaneOf[t] = l =>
        /\ t \in FirstOf(qs[l], n[l]) => phase'[t] = "running"
        /\ t \notin FirstOf(qs[l], n[l]) => phase'[t] = ph[t]
  BY StartedInLane
<1> HIDE DEF n
<1>5. PICK k \in 1..Len(qs[l]) : k = n[l] + i
  BY <1>2, <1>3
<1>6. /\ \A t \in Tasks :
           LaneOf[t] = l /\ ph[t] \in {"running", "resolved", "rejected"}
             => ticket'[t] < ticket'[qs[l][k]]
      /\ \A j \in 1..(k - 1) : ticket'[qs[l][j]] < ticket'[qs[l][k]]
  BY DEF CallerInOrder
<1>7. queue'[l][i] = qs[l][k]
  BY <1>3, <1>5
<1>8. ASSUME NEW t \in Tasks, LaneOf[t] = l,
             phase'[t] \in {"running", "resolved", "rejected"}
      PROVE  ticket'[t] < ticket'[queue'[l][i]]
  <2>1. CASE t \in FirstOf(qs[l], n[l])
    <3>1. PICK j \in 1..n[l] : t = qs[l][j]
      BY <2>1 DEF FirstOf
    <3>2. j \in 1..(k - 1)
      BY <1>2, <1>3, <1>5
    <3> QED BY <3>1, <3>2, <1>6, <1>7
  <2>2. CASE t \notin FirstOf(qs[l], n[l])
    BY <2>2, <1>4, <1>6, <1>7, <1>8
  <2> QED BY <2>1, <2>2
<1>9. ASSUME NEW j \in 1..(i-1)
      PROVE  ticket'[queue'[l][j]] < ticket'[queue'[l][i]]
  <2>1. j \in 1..(Len(qs[l]) - n[l]) /\ n[l] + j \in 1..(k - 1)
    BY <1>2, <1>3, <1>5
  <2>2. queue'[l][j] = qs[l][n[l] + j]
    BY <1>3, <2>1
  <2> QED BY <1>6, <1>7, <2>1, <2>2
<1> QED BY <1>8, <1>9

\* drainLane starts entries in the generation the caller left.
LEMMA DrainGenerations ==
  ASSUME NEW ls, NEW qs, NEW busy, NEW lim, NEW gen, NEW ph,
         CallerTypes(ls, qs, busy, lim, gen, ph),
         CallerMatches(qs, ph),
         \A t \in Tasks : taskGeneration[t] <= gen[LaneOf[t]],
         Drain(ls, qs, busy, lim, gen, ph)
  PROVE  GenerationsPast'
<1> SUFFICES ASSUME NEW t \in Tasks
             PROVE  taskGeneration'[t] <= generation'[LaneOf[t]]
  BY DEF GenerationsPast
<1>1. generation' = gen
  BY DrainUnfolded
<1>2. gen[LaneOf[t]] \in Nat
  BY QueueAssumption DEF CallerTypes
<1>3. taskGeneration'[t] \in {gen[LaneOf[t]], taskGeneration[t]}
  BY StartedInLane
<1> QED BY <1>1, <1>2, <1>3

\* The active entries of a lane after drainLane, counted.
LEMMA DrainCardinality ==
  ASSUME NEW ls, NEW qs, NEW busy, NEW lim, NEW gen, NEW ph,
         CallerTypes(ls, qs, busy, lim, gen, ph),
         CallerMatches(qs, ph),
         CallerSlots(busy, gen, ph),
         Drain(ls, qs, busy, lim, gen, ph),
         NEW l \in Lanes
  PROVE  /\ Cardinality(busy[l]) \in Nat
         /\ Cardinality(active'[l]) = Cardinality(busy[l]) + Taken(ls, qs, busy, lim)[l]
<1> DEFINE n == Taken(ls, qs, busy, lim)
<1>1. active'[l] = busy[l] \cup FirstOf(qs[l], n[l])
  BY DrainUnfolded
<1>2. qs[l] \in Seq(Tasks) /\ n[l] \in 0..Len(qs[l]) /\ IsFiniteSet(busy[l])
  BY TakenBounds DEF CallerTypes
<1>3. IsFiniteSet(FirstOf(qs[l], n[l])) /\ Cardinality(FirstOf(qs[l], n[l])) = n[l]
  BY <1>2, FirstOfProperties DEF CallerMatches
<1>4. busy[l] \cap FirstOf(qs[l], n[l]) = {}
  <2>1. \A t \in FirstOf(qs[l], n[l]) : ph[t] = "queued"
    BY StartedWasQueued
  <2>2. \A t \in busy[l] : ph[t] = "running"
    BY DEF CallerSlots
  <2> QED BY <2>1, <2>2
<1>5. Cardinality({}) = 0 /\ Cardinality(busy[l]) \in Nat
  BY <1>2, FS_EmptySet, FS_CardinalityType
<1>6. Cardinality(busy[l] \cup FirstOf(qs[l], n[l]))
        = Cardinality(busy[l]) + Cardinality(FirstOf(qs[l], n[l]))
            - Cardinality(busy[l] \cap FirstOf(qs[l], n[l]))
  BY <1>2, <1>3, FS_Union
<1>7. n[l] \in Nat
  <2>1. Len(qs[l]) \in Nat
    BY <1>2, LenProperties
  <2> HIDE DEF n
  <2> QED BY <2>1, <1>2
<1> HIDE DEF n
<1>8. Cardinality(busy[l] \cap FirstOf(qs[l], n[l])) = 0
  BY <1>4, <1>5
<1>9. Cardinality(busy[l] \cup FirstOf(qs[l], n[l])) = Cardinality(busy[l]) + n[l]
  BY <1>3, <1>5, <1>6, <1>7, <1>8
<1> QED BY <1>1, <1>5, <1>9 DEF n

\* drainLane leaves entries waiting only in a full lane, if that was so of the
\* lanes it did not drain.
LEMMA DrainNoIdle ==
  ASSUME NEW ls, NEW qs, NEW busy, NEW lim, NEW gen, NEW ph,
         CallerTypes(ls, qs, busy, lim, gen, ph),
         CallerMatches(qs, ph),
         CallerSlots(busy, gen, ph),
         \A l \in Lanes \ ls : qs[l] # <<>> => Cardinality(busy[l]) >= lim[l],
         Drain(ls, qs, busy, lim, gen, ph)
  PROVE  NoIdleCapacity'
<1> DEFINE n == Taken(ls, qs, busy, lim)
<1> SUFFICES ASSUME NEW l \in Lanes, queue'[l] # <<>>
             PROVE  Cardinality(active'[l]) >= maxConcurrent'[l]
  BY DEF NoIdleCapacity
<1>1. queue'[l] = RestOf(qs[l], n[l]) /\ maxConcurrent' = lim
  BY DrainUnfolded
<1>2. qs[l] \in Seq(Tasks) /\ n[l] \in 0..Len(qs[l]) /\ IsFiniteSet(busy[l]) /\ lim[l] \in Nat
  BY TakenBounds DEF CallerTypes
<1>3. /\ Cardinality(busy[l]) \in Nat
      /\ Cardinality(active'[l]) = Cardinality(busy[l]) + n[l]
  BY DrainCardinality
<1>4. Len(qs[l]) \in Nat
  BY <1>2, LenProperties
<1>5. n[l] < Len(qs[l])
  <2>1. Len(queue'[l]) = Len(qs[l]) - n[l] /\ queue'[l] \in Seq(Tasks)
    BY <1>1, <1>2, RestOfProperties
  <2>2. Len(queue'[l]) # 0
    BY <2>1, EmptySeq, LenProperties
  <2> QED BY <2>1, <2>2, <1>2, <1>4
<1>6. CASE l \in ls
  <2>1. n[l] = PumpCount(qs[l], busy[l], lim[l])
    BY <1>6, TakenBounds
  <2> QED BY <2>1, <1>1, <1>2, <1>3, <1>5, PumpCountBounds
<1>7. CASE l \notin ls
  <2>1. n[l] = 0
    BY <1>7, TakenBounds
  <2>2. qs[l] # <<>>
    BY <1>4, <1>5, <2>1, EmptySeq
  <2> QED BY <1>1, <1>3, <1>7, <2>1, <2>2
<1> QED BY <1>6, <1>7
-----------------------------------------------------------------------------
(***************************************************************************)
(* One lemma per operation: it preserves the inductive invariant.  Those   *)
(* that drain hand the lemmas above the state they left.                   *)
(***************************************************************************)

\* What StartsWithinLimit says of one step.
StartStep ==
  \A l \in Lanes :
    (\E t \in Tasks : LaneOf[t] = l /\ phase[t] # "running" /\ phase'[t] = "running")
      => Cardinality(active'[l]) <= maxConcurrent'[l]

\* drainLane starts an entry only while its lane has room for it.
LEMMA DrainStarts ==
  ASSUME NEW ls, NEW qs, NEW busy, NEW lim, NEW gen, NEW ph,
         CallerTypes(ls, qs, busy, lim, gen, ph),
         CallerMatches(qs, ph),
         CallerSlots(busy, gen, ph),
         \A t \in Tasks : ph[t] = "running" => phase[t] = "running",
         Drain(ls, qs, busy, lim, gen, ph)
  PROVE  StartStep
<1> DEFINE n == Taken(ls, qs, busy, lim)
<1> SUFFICES ASSUME NEW l \in Lanes, NEW t \in Tasks,
                    LaneOf[t] = l, phase[t] # "running", phase'[t] = "running"
             PROVE  Cardinality(active'[l]) <= maxConcurrent'[l]
  BY DEF StartStep
<1>1. t \in FirstOf(qs[l], n[l])
  BY StartedInLane
<1>2. n[l] # 0
  BY <1>1 DEF FirstOf
<1>3. qs[l] \in Seq(Tasks) /\ n[l] \in 0..Len(qs[l]) /\ IsFiniteSet(busy[l]) /\ lim[l] \in Int
  <2>1. n[l] \in 0..Len(qs[l])
    BY TakenBounds
  <2> QED BY <2>1 DEF CallerTypes
<1>4. n[l] = PumpCount(qs[l], busy[l], lim[l])
  BY <1>2, TakenBounds
<1>5. n[l] > 0
  BY <1>2, <1>3
<1>6. Cardinality(busy[l]) + n[l] <= lim[l]
  BY <1>3, <1>4, <1>5, PumpCountBounds
<1> QED BY <1>6, DrainCardinality, DrainUnfolded

\* The facts about the caller's state that give the invariant after drainLane.
LEMMA DrainInv ==
  ASSUME NEW ls, NEW qs, NEW busy, NEW lim, NEW gen, NEW ph,
         CallerTypes(ls, qs, busy, lim, gen, ph),
         CallerMatches(qs, ph),
         CallerSlots(busy, gen, ph),
         CallerInOrder(qs, ph),
         \A l \in Lanes \ ls : qs[l] # <<>> => Cardinality(busy[l]) >= lim[l],
         taskGeneration \in [Tasks -> Nat],
         \A t \in Tasks : taskGeneration[t] <= gen[LaneOf[t]],
         gatewayDraining' \in BOOLEAN,
         ticket' \in [Tasks -> Nat],
         nextTicket' \in Nat,
         TicketsBounded',
         \A t \in Tasks : ph[t] = "running" => phase[t] = "running",
         Drain(ls, qs, busy, lim, gen, ph)
  PROVE  IInv' /\ StartStep
<1>1. TypeOK' /\ FiniteActive'
  BY DrainTypes DEF TypeOK
<1>2. SlotsAccounted'
  BY DrainSlots
<1>3. QueueMatchesPhases'
  BY DrainMatches
<1>4. FifoPerLane'
  BY DrainInOrder
<1>5. NoIdleCapacity'
  BY DrainNoIdle
<1>6. GenerationsPast'
  BY DrainGenerations
<1>7. StartStep
  BY DrainStarts
<1> QED BY <1>1, <1>2, <1>3, <1>4, <1>5, <1>6, <1>7 DEF IInv

\* The state drainLane finds when a caller changed nothing is as good as the
\* invariant says.
LEMMA InvCaller ==
  ASSUME IInv
  PROVE  /\ \A ls \in SUBSET Lanes :
              CallerTypes(ls, queue, active, maxConcurrent, generation, phase)
         /\ CallerMatches(queue, phase)
         /\ CallerSlots(active, generation, phase)
         /\ \A l \in Lanes : queue[l] # <<>> => Cardinality(active[l]) >= maxConcurrent[l]
         /\ UNCHANGED ticket => CallerInOrder(queue, phase)
<1> USE DEF IInv
<1>1. \A ls \in SUBSET Lanes :
        CallerTypes(ls, queue, active, maxConcurrent, generation, phase)
  BY DEF TypeOK, FiniteActive, CallerTypes
<1>2. CallerMatches(queue, phase) /\ CallerSlots(active, generation, phase)
  BY DEF QueueMatchesPhases, CallerMatches, SlotsAccounted, CallerSlots
<1>3. UNCHANGED ticket => CallerInOrder(queue, phase)
  BY DEF FifoPerLane, CallerInOrder
<1> QED BY <1>1, <1>2, <1>3 DEF NoIdleCapacity

\* setCommandLaneConcurrency.
LEMMA SetConcurrencyInv ==
  ASSUME IInv, NEW l \in Lanes, NEW r \in Requests, SetConcurrency(l, r)
  PROVE  IInv' /\ StartStep
<1> DEFINE lim == [maxConcurrent EXCEPT ![l] = IF r < 1 THEN 1 ELSE r]
<1>1. lim \in [Lanes -> Nat \ {0}]
  BY QueueAssumption DEF IInv, TypeOK
<1>2. \A k \in Lanes \ {l} : lim[k] = maxConcurrent[k]
  BY DEF IInv, TypeOK
<1>3. Drain({l}, queue, active, lim, generation, phase)
  BY DEF SetConcurrency
<1>4. UNCHANGED <<gatewayDraining, ticket, nextTicket>>
  BY DEF SetConcurrency
<1>5. CallerTypes({l}, queue, active, lim, generation, phase)
  BY <1>1, InvCaller DEF CallerTypes
<1>6. /\ gatewayDraining' \in BOOLEAN
      /\ ticket' \in [Tasks -> Nat]
      /\ nextTicket' \in Nat
      /\ TicketsBounded'
      /\ taskGeneration \in [Tasks -> Nat]
      /\ \A t \in Tasks : taskGeneration[t] <= generation[LaneOf[t]]
  BY <1>4 DEF IInv, TypeOK, TicketsBounded, GenerationsPast
<1>7. /\ CallerMatches(queue, phase)
      /\ CallerSlots(active, generation, phase)
      /\ CallerInOrder(queue, phase)
      /\ \A k \in Lanes \ {l} : queue[k] # <<>> => Cardinality(active[k]) >= lim[k]
  BY <1>2, <1>4, InvCaller
<1> HIDE DEF lim
<1> QED BY <1>3, <1>5, <1>6, <1>7, DrainInv
\* The state enqueueCommandInLane hands to drainLane: queues and phases agree.
LEMMA EnqueueCaller ==
  ASSUME IInv, NEW e \in Tasks, Enqueue(e)
  PROVE  LET qs == [queue EXCEPT ![LaneOf[e]] = Append(@, e)]
             ph == [phase EXCEPT ![e] = "queued"]
         IN  /\ CallerTypes({LaneOf[e]}, qs, active, maxConcurrent, generation, ph)
             /\ CallerMatches(qs, ph)
<1> DEFINE l == LaneOf[e]
           qs == [queue EXCEPT ![l] = Append(@, e)]
           ph == [phase EXCEPT ![e] = "queued"]
<1> USE DEF IInv
<1>1. phase[e] = "idle"
  BY DEF Enqueue
<1>2. l \in Lanes /\ queue[l] \in Seq(Tasks) /\ Len(queue[l]) \in Nat
  BY QueueAssumption, LenProperties DEF TypeOK
<1>3. /\ qs[l] \in Seq(Tasks)
      /\ Len(qs[l]) = Len(queue[l]) + 1
      /\ \A i \in 1..Len(queue[l]) : qs[l][i] = queue[l][i]
      /\ qs[l][Len(queue[l]) + 1] = e
  <2>1. qs[l] = Append(queue[l], e)
    BY <1>2 DEF TypeOK
  <2> QED BY <1>2, <2>1, AppendProperties
<1>4. \A k \in Lanes \ {l} : qs[k] = queue[k]
  BY DEF TypeOK
<1>5. CallerTypes({l}, qs, active, maxConcurrent, generation, ph)
  <2>1. qs \in [Lanes -> Seq(Tasks)]
    BY <1>2, <1>3, <1>4 DEF TypeOK
  <2>2. ph \in [Tasks -> Phases]
    BY DEF TypeOK, Phases
  <2> HIDE DEF qs, ph
  <2> QED BY <1>2, <2>1, <2>2 DEF CallerTypes, TypeOK, FiniteActive
<1>6. /\ ph[e] = "queued"
      /\ \A t \in Tasks \ {e} : ph[t] = phase[t]
  BY DEF TypeOK
<1>7. \A k \in Lanes : \A i \in 1..Len(queue[k]) :
        /\ queue[k][i] \in Tasks
        /\ phase[queue[k][i]] = "queued"
        /\ LaneOf[queue[k][i]] = k
  BY DEF QueueMatchesPhases, AllOf, FirstOf
<1> HIDE DEF qs, ph
<1>8. CallerMatches(qs, ph)
  <2> SUFFICES ASSUME NEW k \in Lanes
               PROVE  /\ AllOf(qs[k]) = {t \in Tasks : LaneOf[t] = k /\ ph[t] = "queued"}
                      /\ \A i, j \in 1..Len(qs[k]) : qs[k][i] = qs[k][j] => i = j
    BY DEF CallerMatches
  <2>1. /\ AllOf(queue[k]) = {t \in Tasks : LaneOf[t] = k /\ phase[t] = "queued"}
        /\ \A i, j \in 1..Len(queue[k]) : queue[k][i] = queue[k][j] => i = j
    BY DEF QueueMatchesPhases
  <2>2. CASE k # l
    BY <2>1, <2>2, <1>1, <1>4, <1>6
  <2>3. CASE k = l
    <3>1. \A i \in 1..Len(qs[l]) : i \in 1..Len(queue[l]) \/ i = Len(queue[l]) + 1
      BY <1>2, <1>3
    <3>2. AllOf(qs[l]) = AllOf(queue[l]) \cup {e}
      <4>1. \A x \in AllOf(qs[l]) : x \in AllOf(queue[l]) \cup {e}
        BY <3>1, <1>3 DEF AllOf, FirstOf
      <4>2. \A x \in AllOf(queue[l]) : x \in AllOf(qs[l])
        BY <1>2, <1>3 DEF AllOf, FirstOf
      <4>3. e \in AllOf(qs[l])
        BY <1>2, <1>3 DEF AllOf, FirstOf
      <4> QED BY <4>1, <4>2, <4>3
    <3>3. \A i \in 1..Len(queue[l]) : qs[l][i] # e
      BY <1>1, <1>2, <1>3, <1>7
    <3>4. \A i, j \in 1..Len(qs[l]) : qs[l][i] = qs[l][j] => i = j
      BY <2>1, <2>3, <3>1, <3>3, <1>3
    <3> QED BY <2>1, <2>3, <3>2, <3>4, <1>6
  <2> QED BY <2>2, <2>3
<1> QED BY <1>5, <1>8 DEF qs, ph

\* enqueueCommandInLane: the new entry is the youngest of its lane.
LEMMA EnqueueInv ==
  ASSUME IInv, NEW e \in Tasks, Enqueue(e)
  PROVE  IInv' /\ StartStep
<1> DEFINE l == LaneOf[e]
           qs == [queue EXCEPT ![l] = Append(@, e)]
           ph == [phase EXCEPT ![e] = "queued"]
<1> USE DEF IInv
<1>1. /\ phase[e] = "idle"
      /\ ticket' = [ticket EXCEPT ![e] = nextTicket + 1]
      /\ nextTicket' = nextTicket + 1
      /\ Drain({l}, qs, active, maxConcurrent, generation, ph)
      /\ UNCHANGED gatewayDraining
  BY DEF Enqueue
<1>2. l \in Lanes /\ queue[l] \in Seq(Tasks) /\ Len(queue[l]) \in Nat
  BY QueueAssumption, LenProperties DEF TypeOK
<1>3. /\ qs[l] \in Seq(Tasks)
      /\ Len(qs[l]) = Len(queue[l]) + 1
      /\ \A i \in 1..Len(queue[l]) : qs[l][i] = queue[l][i]
      /\ qs[l][Len(queue[l]) + 1] = e
  <2>1. qs[l] = Append(queue[l], e)
    BY <1>2 DEF TypeOK
  <2> QED BY <1>2, <2>1, AppendProperties
<1>4. \A k \in Lanes \ {l} : qs[k] = queue[k]
  BY DEF TypeOK
<1>5. /\ CallerTypes({l}, qs, active, maxConcurrent, generation, ph)
      /\ CallerMatches(qs, ph)
  BY EnqueueCaller
<1>6. /\ ph[e] = "queued"
      /\ \A t \in Tasks \ {e} : ph[t] = phase[t]
  BY DEF TypeOK
<1>7. \A k \in Lanes : \A i \in 1..Len(queue[k]) :
        /\ queue[k][i] \in Tasks
        /\ phase[queue[k][i]] = "queued"
        /\ LaneOf[queue[k][i]] = k
  BY DEF QueueMatchesPhases, AllOf, FirstOf
<1> HIDE DEF qs, ph
<1>9. CallerSlots(active, generation, ph)
  BY <1>1, <1>6 DEF SlotsAccounted, CallerSlots
<1>10. /\ \A t \in Tasks \ {e} : ticket'[t] = ticket[t]
       /\ ticket'[e] = nextTicket + 1
       /\ \A t \in Tasks : ticket[t] \in Nat /\ ticket[t] < nextTicket + 1
       /\ nextTicket \in Nat
  BY <1>1 DEF TypeOK, TicketsBounded
<1>11. CallerInOrder(qs, ph)
  <2> SUFFICES ASSUME NEW k \in Lanes, NEW i \in 1..Len(qs[k])
               PROVE  /\ \A t \in Tasks :
                           LaneOf[t] = k /\ ph[t] \in {"running", "resolved", "rejected"}
                             => ticket'[t] < ticket'[qs[k][i]]
                      /\ \A j \in 1..(i-1) : ticket'[qs[k][j]] < ticket'[qs[k][i]]
    BY DEF CallerInOrder
  <2>1. \A m \in 1..Len(queue[k]) :
          /\ \A t \in Tasks :
               LaneOf[t] = k /\ phase[t] \in {"running", "resolved", "rejected"}
                 => ticket[t] < ticket[queue[k][m]]
          /\ \A j \in 1..(m-1) : ticket[queue[k][j]] < ticket[queue[k][m]]
    BY DEF FifoPerLane
  <2>2. Len(queue[k]) \in Nat
    BY LenProperties DEF TypeOK
  <2>3. CASE i \in 1..Len(queue[k])
    <3>1. \A j \in 1..i : qs[k][j] = queue[k][j] /\ j \in 1..Len(queue[k])
      BY <2>2, <2>3, <1>3, <1>4
    <3>2. \A j \in 1..i : qs[k][j] \in Tasks \ {e}
      BY <3>1, <1>1, <1>7
    <3>3. \A j \in 1..i : ticket'[qs[k][j]] = ticket[queue[k][j]]
      BY <3>1, <3>2, <1>10
    <3>4. i \in 1..i /\ \A j \in 1..(i-1) : j \in 1..i
      BY <2>2, <2>3
    <3>5. \A t \in Tasks : ph[t] \in {"running", "resolved", "rejected"}
                             => t # e /\ phase[t] = ph[t]
      BY <1>6
    <3> QED BY <2>1, <2>3, <3>3, <3>4, <3>5, <1>10
  <2>4. CASE i \notin 1..Len(queue[k])
    <3>1. k = l /\ i = Len(queue[l]) + 1
      BY <2>2, <2>4, <1>3, <1>4
    <3>2. qs[k][i] = e
      BY <3>1, <1>3
    <3>3. \A j \in 1..(i-1) : qs[k][j] \in Tasks \ {e}
      BY <3>1, <2>2, <1>1, <1>3, <1>7
    <3>4. \A t \in Tasks : ph[t] \in {"running", "resolved", "rejected"} => t # e
      BY <1>6
    <3> QED BY <3>2, <3>3, <3>4, <1>10
  <2> QED BY <2>3, <2>4
<1>12. /\ gatewayDraining' \in BOOLEAN
       /\ ticket' \in [Tasks -> Nat]
       /\ nextTicket' \in Nat
       /\ taskGeneration \in [Tasks -> Nat]
       /\ \A t \in Tasks : taskGeneration[t] <= generation[LaneOf[t]]
  BY <1>1 DEF TypeOK, GenerationsPast
<1>13. TicketsBounded'
  BY <1>1, <1>10 DEF TicketsBounded
<1>14. \A k \in Lanes \ {l} : qs[k] # <<>> => Cardinality(active[k]) >= maxConcurrent[k]
  BY <1>4 DEF NoIdleCapacity
<1>15. \A t \in Tasks : ph[t] = "running" => phase[t] = "running"
  BY <1>6
<1> HIDE DEF l, IInv
<1> QED BY <1>15, <1>1, <1>5, <1>9, <1>11, <1>12, <1>13, <1>14, DrainInv

\* completeTask and pump in the generation that started the task.
LEMMA FinishCurrentInv ==
  ASSUME IInv, NEW e \in Tasks, NEW outcome \in {"resolved", "rejected"},
         FinishCurrent(e, outcome)
  PROVE  IInv' /\ StartStep
<1> DEFINE l == LaneOf[e]
           busy == [active EXCEPT ![l] = @ \ {e}]
           ph == [phase EXCEPT ![e] = outcome]
<1>1. /\ phase[e] = "running"
      /\ taskGeneration[e] = generation[l]
      /\ Drain({l}, queue, busy, maxConcurrent, generation, ph)
      /\ UNCHANGED <<gatewayDraining, ticket, nextTicket>>
  BY DEF FinishCurrent
<1>2. l \in Lanes
  BY QueueAssumption
<1>3. busy[l] = active[l] \ {e} /\ \A k \in Lanes \ {l} : busy[k] = active[k]
  BY <1>2 DEF IInv, TypeOK
<1>4. ph[e] = outcome /\ \A t \in Tasks \ {e} : ph[t] = phase[t]
  BY DEF IInv, TypeOK
<1>5. busy \in [Lanes -> SUBSET Tasks] /\ ph \in [Tasks -> Phases]
  BY DEF IInv, TypeOK, Phases
<1>6. \A k \in Lanes : IsFiniteSet(busy[k])
  BY <1>3, FS_RemoveElement DEF IInv, FiniteActive
<1> HIDE DEF busy, ph
<1>7. CallerTypes({l}, queue, busy, maxConcurrent, generation, ph)
  BY <1>2, <1>5, <1>6 DEF CallerTypes, IInv, TypeOK
<1>8. CallerMatches(queue, ph)
  BY <1>1, <1>4 DEF CallerMatches, IInv, QueueMatchesPhases
<1>9. CallerSlots(busy, generation, ph)
  BY <1>1, <1>3, <1>4 DEF CallerSlots, IInv, SlotsAccounted
<1>10. CallerInOrder(queue, ph)
  <2>1. CallerInOrder(queue, phase)
    BY <1>1, InvCaller
  <2>2. \A t \in Tasks : ph[t] \in {"running", "resolved", "rejected"}
                           => phase[t] \in {"running", "resolved", "rejected"}
    BY <1>1, <1>4
  <2> QED BY <2>1, <2>2 DEF CallerInOrder
<1>11. /\ gatewayDraining' \in BOOLEAN
       /\ ticket' \in [Tasks -> Nat]
       /\ nextTicket' \in Nat
       /\ TicketsBounded'
       /\ taskGeneration \in [Tasks -> Nat]
       /\ \A t \in Tasks : taskGeneration[t] <= generation[LaneOf[t]]
  BY <1>1 DEF IInv, TypeOK, TicketsBounded, GenerationsPast
<1>12. \A k \in Lanes \ {l} : queue[k] # <<>> => Cardinality(busy[k]) >= maxConcurrent[k]
  BY <1>3 DEF IInv, NoIdleCapacity
<1>13. \A t \in Tasks : ph[t] = "running" => phase[t] = "running"
  BY <1>4
<1> HIDE DEF l
<1> QED BY <1>13, <1>1, <1>7, <1>8, <1>9, <1>10, <1>11, <1>12, DrainInv

\* resetAllLanes: no running task was started in the generation that begins,
\* so the cleared slots are accounted for.
LEMMA ResetAllLanesInv ==
  ASSUME IInv, ResetAllLanes
  PROVE  IInv' /\ StartStep
<1> DEFINE busy == [l \in Lanes |-> {}]
           gen == [l \in Lanes |-> generation[l] + 1]
<1>1. /\ gatewayDraining' = FALSE
      /\ Drain(Lanes, queue, busy, maxConcurrent, gen, phase)
      /\ UNCHANGED <<ticket, nextTicket>>
  BY DEF ResetAllLanes
<1>2. CallerTypes(Lanes, queue, busy, maxConcurrent, gen, phase)
  <2>1. \A l \in Lanes : IsFiniteSet(busy[l])
    BY FS_EmptySet
  <2>2. gen \in [Lanes -> Nat] /\ busy \in [Lanes -> SUBSET Tasks]
    BY DEF IInv, TypeOK
  <2> HIDE DEF busy, gen
  <2> QED BY <2>1, <2>2 DEF CallerTypes, IInv, TypeOK
<1>3. \A t \in Tasks : /\ taskGeneration[t] < gen[LaneOf[t]]
                       /\ taskGeneration[t] <= gen[LaneOf[t]]
                       /\ taskGeneration[t] # gen[LaneOf[t]]
  BY QueueAssumption DEF IInv, TypeOK, GenerationsPast
<1>4. CallerSlots(busy, gen, phase)
  BY <1>3 DEF CallerSlots
<1>5. /\ gatewayDraining' \in BOOLEAN
      /\ ticket' \in [Tasks -> Nat]
      /\ nextTicket' \in Nat
      /\ TicketsBounded'
      /\ taskGeneration \in [Tasks -> Nat]
  BY <1>1 DEF IInv, TypeOK, TicketsBounded
<1>6. CallerMatches(queue, phase) /\ CallerInOrder(queue, phase)
  BY <1>1, InvCaller
<1> HIDE DEF busy, gen
<1> QED BY <1>1, <1>2, <1>3, <1>4, <1>5, <1>6, DrainInv

\* clearCommandLane.
LEMMA ClearLaneInv ==
  ASSUME IInv, NEW l \in Lanes, ClearLane(l)
  PROVE  IInv' /\ StartStep
<1>1. /\ queue' = [queue EXCEPT ![l] = <<>>]
      /\ phase' = [t \in Tasks |-> IF t \in AllOf(queue[l]) THEN "cleared" ELSE phase[t]]
      /\ UNCHANGED <<active, maxConcurrent, generation, gatewayDraining,
                     taskGeneration, ticket, nextTicket>>
  BY DEF ClearLane
<1>2. queue'[l] = <<>> /\ Len(queue'[l]) = 0 /\ AllOf(queue'[l]) = {}
  BY <1>1, EmptySeq DEF IInv, TypeOK, AllOf, FirstOf
<1>3. \A k \in Lanes \ {l} : queue'[k] = queue[k]
  BY <1>1 DEF IInv, TypeOK
<1>4. \A t \in Tasks : /\ t \in AllOf(queue[l]) <=> LaneOf[t] = l /\ phase[t] = "queued"
                       /\ t \in AllOf(queue[l]) => phase'[t] = "cleared"
                       /\ t \notin AllOf(queue[l]) => phase'[t] = phase[t]
  BY <1>1 DEF IInv, QueueMatchesPhases
<1>5. TypeOK'
  <2>1. queue' \in [Lanes -> Seq(Tasks)]
    BY <1>1, EmptySeq DEF IInv, TypeOK
  <2>2. phase' \in [Tasks -> Phases]
    BY <1>1 DEF IInv, TypeOK, Phases
  <2> QED BY <1>1, <2>1, <2>2 DEF IInv, TypeOK
<1>6. FiniteActive' /\ TicketsBounded' /\ GenerationsPast'
  BY <1>1 DEF IInv, FiniteActive, TicketsBounded, GenerationsPast
<1>7. SlotsAccounted'
  BY <1>1, <1>4 DEF IInv, SlotsAccounted
<1>8. QueueMatchesPhases'
  <2> SUFFICES ASSUME NEW k \in Lanes
               PROVE  /\ AllOf(queue'[k]) = {t \in Tasks : LaneOf[t] = k /\ phase'[t] = "queued"}
                      /\ \A i, j \in 1..Len(queue'[k]) : queue'[k][i] = queue'[k][j] => i = j
    BY DEF QueueMatchesPhases, AllOf, FirstOf
  <2>1. CASE k = l
    BY <2>1, <1>2, <1>4
  <2>2. CASE k # l
    BY <2>2, <1>3, <1>4 DEF IInv, QueueMatchesPhases
  <2> QED BY <2>1, <2>2
<1>9. FifoPerLane'
  <2> SUFFICES ASSUME NEW k \in Lanes, NEW i \in 1..Len(queue'[k])
               PROVE  /\ \A t \in Tasks :
                           LaneOf[t] = k /\ phase'[t] \in {"running", "resolved", "rejected"}
                             => ticket'[t] < ticket'[queue'[k][i]]
                      /\ \A j \in 1..(i-1) : ticket'[queue'[k][j]] < ticket'[queue'[k][i]]
    BY DEF FifoPerLane
  <2>1. queue'[k] = queue[k]
    BY <1>2, <1>3
  <2>2. \A t \in Tasks : phase'[t] \in {"running", "resolved", "rejected"}
                           => phase'[t] = phase[t]
    BY <1>4
  <2> QED BY <1>1, <2>1, <2>2 DEF IInv, FifoPerLane
<1>10. NoIdleCapacity'
  BY <1>1, <1>2, <1>3 DEF IInv, NoIdleCapacity
<1>11. StartStep
  BY <1>4 DEF StartStep
<1> QED BY <1>5, <1>6, <1>7, <1>8, <1>9, <1>10, <1>11 DEF IInv

\* A stale completion and a refused enqueue change one settled phase only.
LEMMA SettleInv ==
  ASSUME IInv, NEW e \in Tasks, NEW outcome \in {"resolved", "rejected", "refused"},
         \/ phase[e] = "idle" /\ outcome = "refused"
         \/ phase[e] = "running" /\ taskGeneration[e] # generation[LaneOf[e]],
         phase' = [phase EXCEPT ![e] = outcome],
         UNCHANGED <<queue, active, maxConcurrent, generation, gatewayDraining,
                     taskGeneration, ticket, nextTicket>>
  PROVE  IInv' /\ StartStep
<1>1. phase'[e] = outcome /\ \A t \in Tasks \ {e} : phase'[t] = phase[t]
  BY DEF IInv, TypeOK
<1>2. TypeOK'
  BY DEF IInv, TypeOK, Phases
<1>3. FiniteActive' /\ TicketsBounded' /\ GenerationsPast' /\ NoIdleCapacity'
  BY DEF IInv, FiniteActive, TicketsBounded, GenerationsPast, NoIdleCapacity
<1>4. SlotsAccounted'
  BY <1>1 DEF IInv, SlotsAccounted
<1>5. QueueMatchesPhases'
  BY <1>1 DEF IInv, QueueMatchesPhases, AllOf, FirstOf
<1>6. FifoPerLane'
  <2>1. \A t \in Tasks : phase'[t] \in {"running", "resolved", "rejected"}
                           => phase[t] \in {"running", "resolved", "rejected"}
    BY <1>1
  <2> QED BY <2>1 DEF IInv, FifoPerLane
<1>7. StartStep
  BY <1>1 DEF StartStep
<1> QED BY <1>2, <1>3, <1>4, <1>5, <1>6, <1>7 DEF IInv

-----------------------------------------------------------------------------
(***************************************************************************)
(* The theorems.                                                           *)
(***************************************************************************)

\* The empty queue satisfies the invariant.
LEMMA InitInv == Init => IInv
<1> SUFFICES ASSUME Init PROVE IInv
  OBVIOUS
<1>1. /\ queue = [l \in Lanes |-> <<>>]
      /\ \A l \in Lanes : queue[l] = <<>> /\ Len(queue[l]) = 0 /\ AllOf(queue[l]) = {}
  BY EmptySeq DEF Init, AllOf, FirstOf
<1>2. TypeOK
  <2>1. queue \in [Lanes -> Seq(Tasks)]
    BY <1>1, EmptySeq
  <2>2. phase \in [Tasks -> Phases]
    BY DEF Init, Phases
  <2>3. active \in [Lanes -> SUBSET Tasks]
    BY DEF Init
  <2>4. maxConcurrent \in [Lanes -> Nat \ {0}]
    BY DEF Init
  <2>5. generation \in [Lanes -> Nat]
    BY DEF Init
  <2>6. taskGeneration \in [Tasks -> Nat] /\ ticket \in [Tasks -> Nat]
    BY DEF Init
  <2>7. gatewayDraining \in BOOLEAN /\ nextTicket \in Nat
    BY DEF Init
  <2> QED BY <2>1, <2>2, <2>3, <2>4, <2>5, <2>6, <2>7 DEF TypeOK
<1>3. FiniteActive
  BY FS_EmptySet DEF Init, FiniteActive
<1>4. SlotsAccounted /\ QueueMatchesPhases /\ FifoPerLane /\ NoIdleCapacity
  BY <1>1 DEF Init, SlotsAccounted, QueueMatchesPhases, FifoPerLane, NoIdleCapacity
<1>5. TicketsBounded /\ GenerationsPast
  BY QueueAssumption DEF Init, TicketsBounded, GenerationsPast
<1> QED BY <1>2, <1>3, <1>4, <1>5 DEF IInv

\* Every step preserves the invariant and starts entries within the limit.
LEMMA NextInv == IInv /\ [Next]_queueVars => IInv' /\ StartStep
<1> SUFFICES ASSUME IInv, [Next]_queueVars PROVE IInv' /\ StartStep
  OBVIOUS
<1>1. CASE \E t \in Tasks : EnqueueRefused(t)
  BY <1>1, SettleInv DEF EnqueueRefused
<1>2. CASE \E t \in Tasks : Enqueue(t)
  BY <1>2, EnqueueInv
<1>3. CASE \E t \in Tasks : Finish(t)
  BY <1>3, FinishCurrentInv, SettleInv DEF Finish, FinishStale
<1>4. CASE \E l \in Lanes : ClearLane(l)
  BY <1>4, ClearLaneInv
<1>5. CASE \E l \in Lanes, n \in Requests : SetConcurrency(l, n)
  BY <1>5, SetConcurrencyInv
<1>6. CASE MarkDraining
  BY <1>6, SMTT(30) DEF MarkDraining, IInv, TypeOK, FiniteActive, SlotsAccounted, QueueMatchesPhases,
              TicketsBounded, FifoPerLane, NoIdleCapacity, GenerationsPast, AllOf, FirstOf,
              StartStep
<1>7. CASE ResetAllLanes
  BY <1>7, ResetAllLanesInv
<1>8. CASE UNCHANGED queueVars
  BY <1>8, SMTT(30) DEF queueVars, IInv, TypeOK, FiniteActive, SlotsAccounted, QueueMatchesPhases,
              TicketsBounded, FifoPerLane, NoIdleCapacity, GenerationsPast, AllOf, FirstOf,
              StartStep
<1> QED BY <1>1, <1>2, <1>3, <1>4, <1>5, <1>6, <1>7, <1>8 DEF Next

\* The inductive invariant holds of every behaviour of the queue.
THEOREM QueueInvariant == Spec => []IInv
<1>1. Init => IInv
  BY InitInv
<1>2. IInv /\ [Next]_queueVars => IInv'
  BY NextInv
<1> QED BY <1>1, <1>2, PTL DEF Spec

\* Types of lanes and entries, with no bound on either.
THEOREM TypeCorrect == Spec => []TypeOK
BY QueueInvariant, PTL DEF IInv

\* However resets and stale completions interleave, the active ids of a lane
\* are the running tasks of its current generation: no slot leaks, and none is
\* freed twice.
THEOREM SlotsAreAccounted == Spec => []SlotsAccounted
BY QueueInvariant, PTL DEF IInv

\* Queues and promises agree.
THEOREM QueuesMatchPhases == Spec => []QueueMatchesPhases
BY QueueInvariant, PTL DEF IInv

\* Limits stay positive, and queues and promises agree, whatever is asked for,
\* cleared or reset.
THEOREM QueuesStayInStep == Spec => []QueuesInStep
BY TypeCorrect, QueuesMatchPhases, PTL DEF QueuesInStep

\* Entries of a lane start in arrival order.
THEOREM LanesAreFifo == Spec => []FifoPerLane
BY QueueInvariant, PTL DEF IInv

\* No lane is left with waiting entries and a free slot.
THEOREM NoIdleLane == Spec => []NoIdleCapacity
BY QueueInvariant, PTL DEF IInv
\* Lowering a limit, a stale completion or a reset never lets a lane start an
\* entry beyond the limit in force.
THEOREM StartsAreWithinLimit == Spec => StartsWithinLimit
<1>1. IInv /\ [Next]_queueVars => [StartStep]_queueVars
  BY NextInv
<1>2. Spec => [][StartStep]_queueVars
  BY <1>1, QueueInvariant, PTL DEF Spec
<1> QED BY <1>2 DEF StartsWithinLimit, StartStep

-----------------------------------------------------------------------------
(***************************************************************************)
(* What a step does to single entries, and lanes of limit one.             *)
(***************************************************************************)

\* drainLane changes the phase of an entry only to start it from the queue, in
\* the generation the caller left, and that of a started entry no more.
LEMMA DrainEffect ==
  ASSUME NEW ls, NEW qs, NEW busy, NEW lim, NEW gen, NEW ph,
         CallerTypes(ls, qs, busy, lim, gen, ph),
         CallerMatches(qs, ph),
         Drain(ls, qs, busy, lim, gen, ph),
         NEW t \in Tasks
  PROVE  \/ phase'[t] = ph[t] /\ taskGeneration'[t] = taskGeneration[t]
         \/ /\ ph[t] = "queued" /\ phase'[t] = "running"
            /\ taskGeneration'[t] = generation'[LaneOf[t]]
<1>1. LaneOf[t] \in Lanes
  BY QueueAssumption
<1>2. generation' = gen
  BY DrainUnfolded
<1>3. CASE t \in FirstOf(qs[LaneOf[t]], Taken(ls, qs, busy, lim)[LaneOf[t]])
  <2>1. ph[t] = "queued"
    BY <1>1, <1>3, StartedWasQueued
  <2> QED BY <1>2, <1>3, <2>1, StartedInLane
<1>4. CASE t \notin FirstOf(qs[LaneOf[t]], Taken(ls, qs, busy, lim)[LaneOf[t]])
  BY <1>4, StartedInLane
<1> QED BY <1>3, <1>4

\* An entry that is waiting may be started.
MayStart(t) ==
  \/ phase'[t] = phase[t] /\ taskGeneration'[t] = taskGeneration[t]
  \/ /\ phase[t] = "queued" /\ phase'[t] = "running"
     /\ taskGeneration'[t] = generation'[LaneOf[t]]

\* An enqueue queues or starts its own entry.
LEMMA EnqueueEffect ==
  ASSUME IInv, NEW e \in Tasks, Enqueue(e)
  PROVE  /\ phase[e] = "idle"
         /\ \/ phase'[e] = "queued"
            \/ phase'[e] = "running" /\ taskGeneration'[e] = generation'[LaneOf[e]]
         /\ \A t \in Tasks \ {e} : MayStart(t)
         /\ UNCHANGED <<generation, maxConcurrent, gatewayDraining>>
<1> DEFINE qs == [queue EXCEPT ![LaneOf[e]] = Append(@, e)]
           ph == [phase EXCEPT ![e] = "queued"]
<1>1. /\ phase[e] = "idle"
      /\ Drain({LaneOf[e]}, qs, active, maxConcurrent, generation, ph)
      /\ UNCHANGED gatewayDraining
  BY DEF Enqueue
<1>2. /\ CallerTypes({LaneOf[e]}, qs, active, maxConcurrent, generation, ph)
      /\ CallerMatches(qs, ph)
  BY EnqueueCaller
<1>3. ph[e] = "queued" /\ \A t \in Tasks \ {e} : ph[t] = phase[t]
  BY DEF IInv, TypeOK
<1>4. UNCHANGED <<generation, maxConcurrent>>
  BY <1>1, DrainUnfolded
<1> HIDE DEF qs, ph
<1>5. \A t \in Tasks :
        \/ phase'[t] = ph[t] /\ taskGeneration'[t] = taskGeneration[t]
        \/ /\ ph[t] = "queued" /\ phase'[t] = "running"
           /\ taskGeneration'[t] = generation'[LaneOf[t]]
  BY <1>1, <1>2, DrainEffect
<1> QED BY <1>1, <1>3, <1>4, <1>5 DEF MayStart


\* A completion changes the phase of its own entry, and may start others.
LEMMA FinishEffect ==
  ASSUME IInv, NEW e \in Tasks, NEW outcome \in {"resolved", "rejected"},
         FinishCurrent(e, outcome) \/ FinishStale(e, outcome)
  PROVE  /\ phase[e] = "running" /\ phase'[e] = outcome
         /\ UNCHANGED <<generation, maxConcurrent, gatewayDraining>>
         /\ taskGeneration'[e] = taskGeneration[e]
         /\ \A t \in Tasks \ {e} : MayStart(t)
<1>1. CASE FinishStale(e, outcome)
  BY <1>1 DEF FinishStale, MayStart, IInv, TypeOK
<1>2. CASE FinishCurrent(e, outcome)
  <2> DEFINE l == LaneOf[e]
             busy == [active EXCEPT ![l] = @ \ {e}]
             ph == [phase EXCEPT ![e] = outcome]
  <2>1. /\ phase[e] = "running"
        /\ Drain({l}, queue, busy, maxConcurrent, generation, ph)
        /\ UNCHANGED gatewayDraining
    BY <1>2 DEF FinishCurrent
  <2>2. ph[e] = outcome /\ \A t \in Tasks \ {e} : ph[t] = phase[t]
    BY DEF IInv, TypeOK
  <2>3. CallerTypes({l}, queue, busy, maxConcurrent, generation, ph)
    <3>1. l \in Lanes
      BY QueueAssumption
    <3>2. busy \in [Lanes -> SUBSET Tasks] /\ ph \in [Tasks -> Phases]
      BY DEF IInv, TypeOK, Phases
    <3>3. \A k \in Lanes : busy[k] \in {active[k], active[k] \ {e}}
      BY <3>1 DEF IInv, TypeOK
    <3>4. \A k \in Lanes : IsFiniteSet(busy[k])
      BY <3>3, FS_RemoveElement DEF IInv, FiniteActive
    <3> HIDE DEF busy, ph, l
    <3> QED BY <3>1, <3>2, <3>4 DEF CallerTypes, IInv, TypeOK
  <2> HIDE DEF ph
  <2>4. CallerMatches(queue, ph)
    BY <2>1, <2>2 DEF CallerMatches, IInv, QueueMatchesPhases
  <2>5. UNCHANGED <<generation, maxConcurrent>>
    BY <2>1, DrainUnfolded
  <2> HIDE DEF busy, l
  <2>6. \A t \in Tasks :
          \/ phase'[t] = ph[t] /\ taskGeneration'[t] = taskGeneration[t]
          \/ /\ ph[t] = "queued" /\ phase'[t] = "running"
             /\ taskGeneration'[t] = generation'[LaneOf[t]]
    BY <2>1, <2>3, <2>4, DrainEffect
  <2> QED BY <2>1, <2>2, <2>5, <2>6 DEF MayStart
<1> QED BY <1>1, <1>2

\* A reset starts waiting entries, in a new generation, and settles none.
LEMMA ResetEffect ==
  ASSUME IInv, ResetAllLanes
  PROVE  /\ gatewayDraining' = FALSE /\ UNCHANGED maxConcurrent
         /\ \A l \in Lanes : generation'[l] = generation[l] + 1
         /\ \A t \in Tasks : MayStart(t)
<1> DEFINE busy == [l \in Lanes |-> {}]
           gen == [l \in Lanes |-> generation[l] + 1]
<1>1. gatewayDraining' = FALSE /\ Drain(Lanes, queue, busy, maxConcurrent, gen, phase)
  BY DEF ResetAllLanes
<1>2. CallerTypes(Lanes, queue, busy, maxConcurrent, gen, phase)
  <2>1. \A l \in Lanes : IsFiniteSet(busy[l])
    BY FS_EmptySet
  <2>2. gen \in [Lanes -> Nat] /\ busy \in [Lanes -> SUBSET Tasks]
    BY DEF IInv, TypeOK
  <2> HIDE DEF busy, gen
  <2> QED BY <2>1, <2>2 DEF CallerTypes, IInv, TypeOK
<1>3. CallerMatches(queue, phase)
  BY InvCaller
<1>4. generation' = gen /\ UNCHANGED maxConcurrent
  BY <1>1, DrainUnfolded
<1>5. \A l \in Lanes : generation'[l] = generation[l] + 1
  BY <1>4
<1> HIDE DEF busy, gen
<1>6. \A t \in Tasks : MayStart(t)
  BY <1>1, <1>2, <1>3, DrainEffect DEF MayStart
<1> QED BY <1>1, <1>4, <1>5, <1>6

\* A clear rejects the waiting entries of its lane.
LEMMA ClearEffect ==
  ASSUME IInv, NEW l \in Lanes, ClearLane(l)
  PROVE  /\ \A t \in Tasks :
              phase'[t] = IF LaneOf[t] = l /\ phase[t] = "queued" THEN "cleared" ELSE phase[t]
         /\ UNCHANGED <<taskGeneration, generation, maxConcurrent, gatewayDraining>>
<1>1. /\ phase' = [t \in Tasks |-> IF t \in AllOf(queue[l]) THEN "cleared" ELSE phase[t]]
      /\ UNCHANGED <<taskGeneration, generation, maxConcurrent, gatewayDraining>>
  BY DEF ClearLane
<1>2. AllOf(queue[l]) = {t \in Tasks : LaneOf[t] = l /\ phase[t] = "queued"}
  BY DEF IInv, QueueMatchesPhases
<1> QED BY <1>1, <1>2

\* An entry's way from one step to the next: it is started in the generation its
\* lane then has, and once started keeps that generation.
EntryStep(t) ==
  /\ phase'[t] = "running" =>
       \/ phase[t] = "running" /\ taskGeneration'[t] = taskGeneration[t]
       \/ phase[t] \in {"idle", "queued"} /\ taskGeneration'[t] = generation'[LaneOf[t]]
  /\ phase[t] \in {"running", "resolved", "rejected"} =>
       /\ phase'[t] \in {"running", "resolved", "rejected"}
       /\ taskGeneration'[t] = taskGeneration[t]
  /\ phase[t] \in Settled => phase'[t] = phase[t]

\* Every step moves an entry only forward, and the generation of its lane.
LEMMA EntrySteps ==
  ASSUME IInv, [Next]_queueVars
  PROVE  /\ \A t \in Tasks : EntryStep(t)
         /\ \A l \in Lanes : generation'[l] \in Nat /\ generation'[l] >= generation[l]
<1> USE DEF EntryStep, MayStart, Settled
<1>1. generation \in [Lanes -> Nat]
  BY DEF IInv, TypeOK
<1>2. CASE \E t \in Tasks : EnqueueRefused(t)
  BY <1>1, <1>2 DEF EnqueueRefused, IInv, TypeOK
<1>3. ASSUME NEW e \in Tasks, Enqueue(e)
      PROVE  (\A t \in Tasks : EntryStep(t)) /\ UNCHANGED generation
  BY <1>3, EnqueueEffect
<1>4. ASSUME NEW e \in Tasks, Finish(e)
      PROVE  (\A t \in Tasks : EntryStep(t)) /\ UNCHANGED generation
  BY <1>4, FinishEffect DEF Finish
<1>5. ASSUME NEW l \in Lanes, ClearLane(l)
      PROVE  (\A t \in Tasks : EntryStep(t)) /\ UNCHANGED generation
  BY <1>5, ClearEffect
<1>6. ASSUME NEW l \in Lanes, NEW n \in Requests, SetConcurrency(l, n)
      PROVE  (\A t \in Tasks : EntryStep(t)) /\ UNCHANGED generation
  <2> DEFINE lim == [maxConcurrent EXCEPT ![l] = IF n < 1 THEN 1 ELSE n]
  <2>1. Drain({l}, queue, active, lim, generation, phase)
    BY <1>6 DEF SetConcurrency
  <2>2. lim \in [Lanes -> Nat \ {0}]
    BY QueueAssumption DEF IInv, TypeOK
  <2> HIDE DEF lim
  <2>3. CallerTypes({l}, queue, active, lim, generation, phase)
    BY <2>2, InvCaller DEF CallerTypes
  <2>4. UNCHANGED generation
    BY <2>1, DrainUnfolded
  <2>5. \A t \in Tasks : MayStart(t)
    BY <2>1, <2>3, InvCaller, DrainEffect
  <2> QED BY <2>4, <2>5
<1>7. CASE MarkDraining
  BY <1>1, <1>7 DEF MarkDraining
<1>8. CASE ResetAllLanes
  <2>1. /\ \A t \in Tasks : MayStart(t)
        /\ \A l \in Lanes : generation'[l] = generation[l] + 1
    BY <1>8, ResetEffect
  <2> QED BY <1>1, <2>1
<1>9. CASE UNCHANGED queueVars
  BY <1>1, <1>9 DEF queueVars
<1> QED BY <1>1, <1>2, <1>3, <1>4, <1>5, <1>6, <1>7, <1>8, <1>9 DEF Next

\* A lane of limit one: one slot, and one entry under way in each generation.
Serial ==
  /\ \A l \in Lanes : maxConcurrent[l] = 1 /\ Cardinality(active[l]) <= 1
  /\ \A e, f \in Tasks :
       /\ LaneOf[e] = LaneOf[f] /\ taskGeneration[e] = taskGeneration[f]
       /\ phase[e] = "running" /\ phase[f] = "running"
       => e = f

\* Nobody asks for more than one slot, so every lane keeps its single one.
LEMMA LimitsStay ==
  ASSUME IInv, Requests \subseteq {n \in Int : n <= 1}, [Next]_queueVars,
         \A l \in Lanes : maxConcurrent[l] = 1
  PROVE  \A l \in Lanes : maxConcurrent'[l] = 1
<1>1. CASE \E t \in Tasks : EnqueueRefused(t)
  BY <1>1 DEF EnqueueRefused
<1>2. CASE \E t \in Tasks : Enqueue(t)
  BY <1>2, EnqueueEffect
<1>3. CASE \E t \in Tasks : Finish(t)
  BY <1>3, FinishEffect DEF Finish
<1>4. CASE \E l \in Lanes : ClearLane(l)
  BY <1>4, ClearEffect
<1>5. ASSUME NEW l \in Lanes, NEW n \in Requests, SetConcurrency(l, n)
      PROVE  \A k \in Lanes : maxConcurrent'[k] = 1
  <2>1. maxConcurrent' = [maxConcurrent EXCEPT ![l] = IF n < 1 THEN 1 ELSE n]
    BY <1>5, DrainUnfolded DEF SetConcurrency
  <2>2. n < 1 \/ n = 1
    OBVIOUS
  <2> QED BY <2>1, <2>2 DEF IInv, TypeOK
<1>6. CASE MarkDraining
  BY <1>6 DEF MarkDraining
<1>7. CASE ResetAllLanes
  BY <1>7, ResetEffect
<1>8. CASE UNCHANGED queueVars
  BY <1>8 DEF queueVars
<1> QED BY <1>1, <1>2, <1>3, <1>4, <1>5, <1>6, <1>7, <1>8 DEF Next

\* An active entry of a lane of limit one is its only one.
LEMMA OneActive ==
  ASSUME NEW S, IsFiniteSet(S), Cardinality(S) <= 1, NEW e \in S, NEW f \in S
  PROVE  e = f
<1>1. /\ IsFiniteSet(S \ {e}) /\ Cardinality(S \ {e}) = Cardinality(S) - 1
  BY FS_RemoveElement
<1>2. Cardinality(S) \in Nat
  BY FS_CardinalityType
<1>3. Cardinality(S \ {e}) \in Nat
  BY <1>1, FS_CardinalityType
<1>4. Cardinality(S \ {e}) = 0
  BY <1>1, <1>2, <1>3
<1>5. S \ {e} = {}
  BY <1>1, <1>4, FS_EmptySet
<1> QED BY <1>5

\* With single slots a step leaves at most one entry of a generation running.
LEMMA SerialStep ==
  ASSUME IInv, Serial, Requests \subseteq {n \in Int : n <= 1}, [Next]_queueVars
  PROVE  Serial'
<1>1. IInv' /\ [StartStep]_queueVars
  BY NextInv
<1>2. \A l \in Lanes : maxConcurrent'[l] = 1
  BY LimitsStay DEF Serial
<1>3. /\ \A t \in Tasks : EntryStep(t)
      /\ \A l \in Lanes : generation'[l] \in Nat /\ generation'[l] >= generation[l]
  BY EntrySteps
<1>4. ASSUME NEW l \in Lanes
      PROVE  Cardinality(active'[l]) <= 1
  <2>1. CASE \E t \in Tasks : LaneOf[t] = l /\ phase[t] # "running" /\ phase'[t] = "running"
    <3>1. CASE StartStep
      BY <2>1, <3>1, <1>2 DEF StartStep
    <3>2. CASE UNCHANGED queueVars
      BY <2>1, <3>2 DEF queueVars
    <3> QED BY <1>1, <3>1, <3>2
  <2>2. CASE ~\E t \in Tasks : LaneOf[t] = l /\ phase[t] # "running" /\ phase'[t] = "running"
    <3>1. \A t \in active'[l] : /\ t \in Tasks /\ LaneOf[t] = l /\ phase'[t] = "running"
                                /\ taskGeneration'[t] = generation'[l]
      BY <1>1 DEF IInv, SlotsAccounted
    <3>2. \A t \in active'[l] : phase[t] = "running" /\ taskGeneration[t] = generation'[l]
      BY <2>2, <3>1, <1>3 DEF EntryStep
    <3>3. ASSUME NEW t \in active'[l] PROVE taskGeneration[t] = generation[l]
      <4>1. /\ t \in Tasks /\ LaneOf[t] = l
            /\ taskGeneration[t] = generation'[l]
        BY <3>1, <3>2
      <4>2. taskGeneration[t] <= generation[l]
        BY <4>1 DEF IInv, GenerationsPast
      <4>3. generation[l] \in Nat /\ generation'[l] \in Nat /\ generation'[l] >= generation[l]
        BY <1>3 DEF IInv, TypeOK
      <4> QED BY <4>1, <4>2, <4>3
    <3>4. active'[l] \subseteq active[l]
      BY <3>1, <3>2, <3>3 DEF IInv, SlotsAccounted
    <3>5. IsFiniteSet(active[l])
      BY DEF IInv, FiniteActive
    <3>6. /\ Cardinality(active'[l]) <= Cardinality(active[l])
          /\ Cardinality(active'[l]) \in Nat /\ Cardinality(active[l]) \in Nat
      BY <3>4, <3>5, FS_Subset, FS_CardinalityType
    <3> QED BY <3>6 DEF Serial
  <2> QED BY <2>1, <2>2
<1>5. ASSUME NEW e \in Tasks, NEW f \in Tasks,
             LaneOf[e] = LaneOf[f], taskGeneration'[e] = taskGeneration'[f],
             phase'[e] = "running", phase'[f] = "running"
      PROVE  e = f
  <2> DEFINE l == LaneOf[e]
  <2>0. l \in Lanes
    BY QueueAssumption
  <2>1. CASE taskGeneration'[e] = generation'[l]
    <3>1. e \in active'[l] /\ f \in active'[l]
      BY <2>0, <2>1, <1>1, <1>5 DEF IInv, SlotsAccounted
    <3>2. IsFiniteSet(active'[l]) /\ Cardinality(active'[l]) <= 1
      BY <2>0, <1>1, <1>4 DEF IInv, FiniteActive
    <3> QED BY <3>1, <3>2, OneActive
  <2>2. CASE taskGeneration'[e] # generation'[l]
    <3>1. /\ phase[e] = "running" /\ taskGeneration'[e] = taskGeneration[e]
          /\ phase[f] = "running" /\ taskGeneration'[f] = taskGeneration[f]
      BY <2>2, <1>3, <1>5 DEF EntryStep
    <3> QED BY <3>1, <1>5 DEF Serial
  <2> QED BY <2>1, <2>2
<1> QED BY <1>2, <1>4, <1>5 DEF Serial

\* Where nobody asks for more than one slot, a lane is serial: entries of one
\* generation never run side by side, whatever is cleared, reset or returns late.
THEOREM LanesAreSerial ==
  Requests \subseteq {n \in Int : n <= 1} => (Spec => []Serial)
<1> SUFFICES ASSUME Requests \subseteq {n \in Int : n <= 1}
             PROVE  Spec => []Serial
  OBVIOUS
<1>1. Init => Serial
  BY FS_EmptySet DEF Init, Serial
<1>2. IInv /\ Serial /\ [Next]_queueVars => Serial'
  BY SerialStep
<1> QED BY <1>1, <1>2, QueueInvariant, PTL DEF Spec

=============================================================================
