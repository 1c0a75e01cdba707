---------------------------- MODULE CommandQueue ----------------------------
(***************************************************************************)
(* The in-process command queue of the gateway: src/process/command-queue. *)
(* Named lanes, each a FIFO of entries with a concurrency limit.  JS runs  *)
(* one synchronous segment at a time, so every exported function, and      *)
(* every continuation of an awaited task, is one atomic action here.       *)
(*                                                                         *)
(* An entry is the task it carries (an element of Tasks); a task is        *)
(* enqueued at most once and LaneOf names the lane it is enqueued in.      *)
(* Since nextTaskId never repeats, the set of active task ids of a lane is *)
(* represented by the set of the tasks themselves.                         *)
(***************************************************************************)
EXTENDS Integers, Sequences, FiniteSets

CONSTANTS
  Lanes,          \* lane names
  Tasks,          \* the entries that may ever be enqueued
  LaneOf,         \* the lane each entry is enqueued in
  Requests,       \* values passed to setCommandLaneConcurrency
  MaxGeneration   \* bound: resetAllLanes runs at most this many times

ASSUME QueueAssumption ==
  /\ LaneOf \in [Tasks -> Lanes]
  /\ Requests \subseteq Int
  /\ MaxGeneration \in Nat

VARIABLES
  queue,            \* lane -> entries not yet started, oldest first
  active,           \* lane -> entries whose task id is in activeTaskIds
  maxConcurrent,    \* lane -> concurrency limit
  generation,       \* lane -> generation counter
  gatewayDraining,  \* new enqueues are refused
  phase,            \* entry -> what became of it
  taskGeneration,   \* entry -> generation of its lane when it was started
  ticket,           \* entry -> arrival number (history)
  nextTicket        \* arrival numbers handed out so far (history)

queueVars == <<queue, active, maxConcurrent, generation, gatewayDraining,
               phase, taskGeneration, ticket, nextTicket>>

Phases == {"idle", "queued", "running", "resolved", "rejected",
           "cleared", "refused"}
Settled == {"resolved", "rejected", "cleared", "refused"}

-----------------------------------------------------------------------------
\* Mutant: the pump loop compares with <= and starts one entry too many.
PumpCountOffByOne(q, busy, lim) ==
  LET room == lim + 1 - Cardinality(busy)
  IN  IF room <= 0 THEN 0 ELSE IF room < Len(q) THEN room ELSE Len(q)

\* How many entries the pump loop takes from q when the entries in busy are
\* active and the limit is lim.
PumpCount(q, busy, lim) ==
  LET room == lim - Cardinality(busy)
  IN  IF room <= 0 THEN 0 ELSE IF room < Len(q) THEN room ELSE Len(q)

FirstOf(q, n) == {q[i] : i \in 1..n}
AllOf(q) == FirstOf(q, Len(q))
RestOf(q, n) == SubSeq(q, n + 1, Len(q))

\* drainLane for every lane in ls: entries leave the front of the lane's queue
\* and become active in its current generation.  qs, busy, lim, gen and ph are
\* the queues, active entries, limits, generations and phases the caller left.
Drain(ls, qs, busy, lim, gen, ph) ==
  LET n == [l \in Lanes |-> IF l \in ls THEN PumpCount(qs[l], busy[l], lim[l]) ELSE 0]
      started == UNION {FirstOf(qs[l], n[l]) : l \in Lanes}
  IN  /\ queue' = [l \in Lanes |-> RestOf(qs[l], n[l])]
      /\ active' = [l \in Lanes |-> busy[l] \cup FirstOf(qs[l], n[l])]
      /\ phase' = [t \in Tasks |-> IF t \in started THEN "running" ELSE ph[t]]
      /\ taskGeneration' = [t \in Tasks |-> IF t \in started THEN gen[LaneOf[t]]
                                            ELSE taskGeneration[t]]
      /\ maxConcurrent' = lim
      /\ generation' = gen

-----------------------------------------------------------------------------
\* getLaneState creates lanes on demand, always in this state: a lane that does
\* not exist yet is an idle lane of limit 1.
Init ==
  /\ queue = [l \in Lanes |-> <<>>]
  /\ active = [l \in Lanes |-> {}]
  /\ maxConcurrent = [l \in Lanes |-> 1]
  /\ generation = [l \in Lanes |-> 0]
  /\ gatewayDraining = FALSE
  /\ phase = [t \in Tasks |-> "idle"]
  /\ taskGeneration = [t \in Tasks |-> 0]
  /\ ticket = [t \in Tasks |-> 0]
  /\ nextTicket = 0

\* enqueueCommandInLane while the gateway drains: rejected at once.
EnqueueRefused(t) ==
  /\ gatewayDraining
  /\ phase[t] = "idle"
  /\ phase' = [phase EXCEPT ![t] = "refused"]
  /\ UNCHANGED <<queue, active, maxConcurrent, generation, gatewayDraining,
                 taskGeneration, ticket, nextTicket>>

\* Mutant: the entry is unshifted, so the newest is started first.
EnqueueAtFront(t) ==
  /\ ~gatewayDraining
  /\ phase[t] = "idle"
  /\ ticket' = [ticket EXCEPT ![t] = nextTicket + 1]
  /\ nextTicket' = nextTicket + 1
  /\ LET l == LaneOf[t]
     IN  Drain({l}, [queue EXCEPT ![l] = <<t>> \o @], active, maxConcurrent,
               generation, [phase EXCEPT ![t] = "queued"])
  /\ UNCHANGED gatewayDraining

\* enqueueCommandInLane otherwise: push the entry, then drain its lane.
Enqueue(t) ==
  /\ ~gatewayDraining
  /\ phase[t] = "idle"
  /\ ticket' = [ticket EXCEPT ![t] = nextTicket + 1]
  /\ nextTicket' = nextTicket + 1
  /\ LET l == LaneOf[t]
     IN  Drain({l}, [queue EXCEPT ![l] = Append(@, t)], active, maxConcurrent,
               generation, [phase EXCEPT ![t] = "queued"])
  /\ UNCHANGED gatewayDraining

\* Mutant: the error path forgets to pump.
FinishCurrentNoPump(t, outcome) ==
  LET l == LaneOf[t]
  IN  /\ phase[t] = "running"
      /\ taskGeneration[t] = generation[l]
      /\ IF outcome = "rejected"
         THEN /\ active' = [active EXCEPT ![l] = @ \ {t}]
              /\ phase' = [phase EXCEPT ![t] = outcome]
              /\ UNCHANGED <<queue, taskGeneration, maxConcurrent, generation>>
         ELSE Drain({l}, queue, [active EXCEPT ![l] = @ \ {t}], maxConcurrent,
                    generation, [phase EXCEPT ![t] = outcome])
      /\ UNCHANGED <<gatewayDraining, ticket, nextTicket>>

\* The continuation of an awaited task, in the generation that started it:
\* completeTask frees the slot, pump starts the next entries, the caller's
\* promise settles.
FinishCurrent(t, outcome) ==
  LET l == LaneOf[t]
  IN  /\ phase[t] = "running"
      /\ taskGeneration[t] = generation[l]
      /\ Drain({l}, queue, [active EXCEPT ![l] = @ \ {t}], maxConcurrent,
               generation, [phase EXCEPT ![t] = outcome])
      /\ UNCHANGED <<gatewayDraining, ticket, nextTicket>>

\* The same continuation after resetAllLanes bumped the generation:
\* completeTask changes nothing, only the caller's promise settles.
FinishStale(t, outcome) ==
  /\ phase[t] = "running"
  /\ taskGeneration[t] # generation[LaneOf[t]]
  /\ phase' = [phase EXCEPT ![t] = outcome]
  /\ UNCHANGED <<queue, active, maxConcurrent, generation, gatewayDraining,
                 taskGeneration, ticket, nextTicket>>

Finish(t) == \E outcome \in {"resolved", "rejected"} :
               FinishCurrent(t, outcome) \/ FinishStale(t, outcome)

\* Mutant: no Math.max, a request of 0 is stored as it is.
SetConcurrencyUnclamped(l, n) ==
  /\ Drain({l}, queue, active, [maxConcurrent EXCEPT ![l] = n], generation, phase)
  /\ UNCHANGED <<gatewayDraining, ticket, nextTicket>>

\* Mutant: the new limit is stored and the lane is not drained.
SetConcurrencyNoDrain(l, n) ==
  /\ maxConcurrent' = [maxConcurrent EXCEPT ![l] = IF n < 1 THEN 1 ELSE n]
  /\ UNCHANGED <<queue, active, phase, taskGeneration, generation,
                 gatewayDraining, ticket, nextTicket>>

\* setCommandLaneConcurrency: Math.max(1, Math.floor(n)), then drain.
SetConcurrency(l, n) ==
  /\ Drain({l}, queue, active, [maxConcurrent EXCEPT ![l] = IF n < 1 THEN 1 ELSE n],
           generation, phase)
  /\ UNCHANGED <<gatewayDraining, ticket, nextTicket>>

\* Mutant: the entries are rejected but stay in the queue (slice for splice).
ClearLaneKeepsQueue(l) ==
  /\ queue[l] # <<>>
  /\ phase' = [t \in Tasks |-> IF t \in AllOf(queue[l]) THEN "cleared" ELSE phase[t]]
  /\ UNCHANGED <<queue, active, maxConcurrent, generation, gatewayDraining,
                 taskGeneration, ticket, nextTicket>>

\* clearCommandLane: every queued entry is rejected; active ones keep running.
ClearLane(l) ==
  /\ queue[l] # <<>>
  /\ queue' = [queue EXCEPT ![l] = <<>>]
  /\ phase' = [t \in Tasks |-> IF t \in AllOf(queue[l]) THEN "cleared" ELSE phase[t]]
  /\ UNCHANGED <<active, maxConcurrent, generation, gatewayDraining,
                 taskGeneration, ticket, nextTicket>>

\* markGatewayDraining
MarkDraining ==
  /\ gatewayDraining' = TRUE
  /\ UNCHANGED <<queue, active, maxConcurrent, generation, phase,
                 taskGeneration, ticket, nextTicket>>

\* Mutant: the reset bumps the generation and keeps the stale active ids.
ResetAllLanesKeepsIds ==
  /\ \A l \in Lanes : generation[l] < MaxGeneration
  /\ gatewayDraining' = FALSE
  /\ Drain(Lanes, queue, active, maxConcurrent,
           [l \in Lanes |-> generation[l] + 1], phase)
  /\ UNCHANGED <<ticket, nextTicket>>

\* resetAllLanes: a new generation with no active ids in every lane, then
\* every lane with preserved entries is drained.
ResetAllLanes ==
  /\ \A l \in Lanes : generation[l] < MaxGeneration
  /\ gatewayDraining' = FALSE
  /\ Drain(Lanes, queue, [l \in Lanes |-> {}], maxConcurrent,
           [l \in Lanes |-> generation[l] + 1], phase)
  /\ UNCHANGED <<ticket, nextTicket>>

Next ==
  \/ \E t \in Tasks : EnqueueRefused(t) \/ Enqueue(t) \/ Finish(t)
  \/ \E l \in Lanes : ClearLane(l) \/ (\E n \in Requests : SetConcurrency(l, n))
  \/ MarkDraining
  \/ ResetAllLanes

Spec == Init /\ [][Next]_queueVars

\* A task that was started returns: agent runs carry a timeout.
TasksReturn == \A t \in Tasks : WF_queueVars(Finish(t))
FairSpec == Spec /\ TasksReturn

-----------------------------------------------------------------------------
TypeOK ==
  /\ queue \in [Lanes -> Seq(Tasks)]
  /\ active \in [Lanes -> SUBSET Tasks]
  /\ maxConcurrent \in [Lanes -> Nat \ {0}]
  /\ generation \in [Lanes -> Nat]
  /\ gatewayDraining \in BOOLEAN
  /\ phase \in [Tasks -> Phases]
  /\ taskGeneration \in [Tasks -> Nat]
  /\ ticket \in [Tasks -> Nat]
  /\ nextTicket \in Nat

\* No slot is leaked and none is freed twice: the active ids of a lane are
\* exactly the tasks started in the lane's current generation that have not
\* returned, whatever resets and stale completions came in between
\* (completeTask and the generation check).
SlotsAccounted ==
  \A l \in Lanes :
    active[l] = {t \in Tasks : /\ LaneOf[t] = l
                               /\ phase[t] = "running"
                               /\ taskGeneration[t] = generation[l]}

\* The queue of a lane and the phases agree: no entry is queued twice, in the
\* wrong lane, or after its promise settled.
QueueMatchesPhases ==
  \A l \in Lanes :
    /\ AllOf(queue[l]) = {t \in Tasks : LaneOf[t] = l /\ phase[t] = "queued"}
    /\ \A i, j \in 1..Len(queue[l]) : queue[l][i] = queue[l][j] => i = j

\* Limits stay positive numbers, whatever is asked for, and queues and promises
\* agree, also when a lane is cleared beside running tasks.
QueuesInStep == TypeOK /\ QueueMatchesPhases

\* A lane never sits on waiting entries while it has a free slot: every
\* operation that frees a slot or raises the limit drains the lane, the
\* reset included ("pumped immediately rather than waiting for a future
\* enqueue").
NoIdleCapacity ==
  \A l \in Lanes : queue[l] # <<>> => Cardinality(active[l]) >= maxConcurrent[l]

\* Entries of a lane start in arrival order: whatever is still queued arrived
\* after everything the lane has started, and the queue is in arrival order.
FifoPerLane ==
  \A l \in Lanes : \A i \in 1..Len(queue[l]) :
    /\ \A t \in Tasks :
         LaneOf[t] = l /\ phase[t] \in {"running", "resolved", "rejected"}
           => ticket[t] < ticket[queue[l][i]]
    /\ \A j \in 1..(i-1) : ticket[queue[l][j]] < ticket[queue[l][i]]

\* A task starts only when its lane, with that task, is within the limit in
\* force: lowering the limit below the running count starts nothing more.
StartsWithinLimit ==
  [][\A l \in Lanes :
       (\E t \in Tasks : LaneOf[t] = l /\ phase[t] # "running" /\ phase'[t] = "running")
         => Cardinality(active'[l]) <= maxConcurrent'[l]]_queueVars

\* Every entry that was accepted is eventually settled, across resets: "queued
\* entries ... represent pending user work that should still execute".
EveryEntrySettles ==
  \A t \in Tasks : (phase[t] = "queued") ~> (phase[t] \in Settled)

=============================================================================
