------------------------ MODULE HeartbeatRunnerProofs ------------------------
(***************************************************************************)
(* Proofs about HeartbeatRunner and the wake queue under it, for any       *)
(* agents, targets, delays, interval and bounds: batches of wakes do not   *)
(* run side by side but for those that a new handler left behind, and no   *)
(* call of the handler comes too early.                                    *)
(***************************************************************************)
EXTENDS HeartbeatRunner, FiniteSetTheorems, SequenceTheorems, WellFoundedInduction, TLAPS

-----------------------------------------------------------------------------
\* The inductive invariant.

Longest == Max({Coalesce, Retry})
TimerRecord == [left : 0..Longest, kind : {"none", "normal", "retry"}, delay : 0..Longest]
WakeRecord == [handler : 0..MaxRunners, pending : Seq(Wakes), scheduled : BOOLEAN,
               running : BOOLEAN, timer : TimerRecord]

\* No target is pending twice.
Distinct(p) == IsInjective([i \in DOMAIN p |-> p[i].target])
WakeTyped(w) == w \in WakeRecord /\ Distinct(w.pending)

\* The type invariant of the runners.
RunnerTyped ==
  /\ started \in 0..MaxRunners
  /\ live \in BOOLEAN
  /\ due \in [AgentSet -> -1..Interval]
  /\ attempted \subseteq AgentSet
  /\ timer \in -1..Interval
  /\ enabled \in BOOLEAN
  /\ asks \in 0..MaxAsks
  /\ events \in 0..MaxEvents
  /\ owed \subseteq Targets
  /\ rest \in [AgentSet -> 0..Interval]
  /\ overlaps \in 0..started
  /\ cool \in 0..Retry

\* An execution in a call has the call's wake, and one that awaits a heartbeat the
\* agent it is for.
ExecRecord ==
  [pc : {"free", "next", "agents", "await"}, delay : 0..Longest, batch : Seq(Wakes),
   agents : SUBSET DOMAIN Agents, age : 0..Interval, stale : BOOLEAN, stopped : BOOLEAN]
ExecTyped(x) ==
  /\ x \in ExecRecord
  /\ InCall(x) => x.batch # <<>>
  /\ x.pc = "await" => x.agents # {}
ExecsTyped == execs \in [Slots -> ExecRecord] /\ \A s \in Slots : ExecTyped(execs[s])

\* The cooldown is that of a retry timer, which nothing preempts.
CooldownHeld == cool > 0 => wake.timer.kind = "retry" /\ wake.timer.left >= cool

IntervalWake == [target |-> "all", priority |-> IntervalReason]
Awaiting(x) == x.pc = "await" /\ ~x.stale
Ahead(x) == IF x.pc = "await" THEN Others(x) ELSE x.agents

\* An agent is not due within the interval of its last attempt, unless that attempt
\* is under way: then it will be due when the interval is over.
RestBeforeDue ==
  \A a \in AgentSet :
    \/ due[a] < 0
    \/ rest[a] <= due[a]
    \/ \E s \in Slots : Awaiting(execs[s]) /\ Current(execs[s]) = a
AwaitedRests ==
  \A s \in Slots : Awaiting(execs[s]) => rest[Current(execs[s])] <= Interval - execs[s].age

\* The agents ahead of an interval call were due when it began, and nobody attempts
\* them meanwhile.
AheadRested ==
  \A s \in Slots :
    /\ InCall(execs[s])
    /\ ~execs[s].stale
    /\ Head(execs[s].batch) = IntervalWake
    => \A i \in Ahead(execs[s]) : rest[Agents[i]] = 0

Side == IF wake.running THEN 1 ELSE 0
FewFlights == Cardinality(Flights) <= overlaps + Side
Paced == overlaps = 0 => RestBeforeDue /\ AwaitedRests /\ AheadRested

\* The inductive invariant of the heartbeats.
HeartbeatInv ==
  /\ WakeTyped(wake)
  /\ RunnerTyped
  /\ ExecsTyped
  /\ FewFlights
  /\ CooldownHeld
  /\ Paced

-----------------------------------------------------------------------------
(***************************************************************************)
(* Numbers.                                                                *)
(***************************************************************************)

LEMMA MaxIs ==
  ASSUME NEW a \in Int, NEW b \in Int
  PROVE  Max({a, b}) = IF a >= b THEN a ELSE b
<1>1. \E x \in {a, b} : \A y \in {a, b} : x >= y
  OBVIOUS
<1> PICK x : x = Max({a, b})
  OBVIOUS
<1>2. x \in {a, b} /\ \A y \in {a, b} : x >= y
  BY <1>1 DEF Max
<1> QED BY <1>2

LEMMA LeastOf ==
  ASSUME NEW S \in SUBSET Nat, S # {}
  PROVE  Min(S) \in S
<1> DEFINE Less == {ss \in Nat \X Nat : ss[1] < ss[2]}
<1>1. IsWellFoundedOn(Less, Nat)
  BY NatLessThanWellFounded DEF OpToRel
<1> HIDE DEF Less
<1>2. PICK x \in S : \A y \in S : ~(<<y, x>> \in Less)
  BY <1>1, WFMin
<1>3. \A y \in S : x <= y
  <2> SUFFICES ASSUME NEW y \in S PROVE x <= y
    OBVIOUS
  <2>1. ~(y < x)
    BY <1>2 DEF Less
  <2> QED BY <2>1
<1> QED BY <1>3 DEF Min

LEMMA LongestIs ==
  /\ Coalesce \in Nat /\ Retry \in Nat
  /\ Longest \in Nat
  /\ Coalesce \in 0..Longest /\ Retry \in 0..Longest
<1>1. Coalesce \in Nat /\ Retry \in Nat
  BY WakeAssumption
<1> PICK l : l = Longest
  OBVIOUS
<1>2. l = IF Coalesce >= Retry THEN Coalesce ELSE Retry
  BY <1>1, MaxIs DEF Longest
<1> QED BY <1>1, <1>2

LEMMA Bounds ==
  /\ Interval \in Nat /\ Interval > 0
  /\ MaxRunners \in Nat /\ MaxAsks \in Nat /\ MaxEvents \in Nat
BY RunnerAssumption

\* The places in the config, and the agents at them.
LEMMA PlacesAre ==
  /\ Agents \in Seq(Targets \ {"all"})
  /\ DOMAIN Agents = 1..Len(Agents)
  /\ DOMAIN Agents \in SUBSET Nat
  /\ \A i \in DOMAIN Agents : Agents[i] \in AgentSet /\ Agents[i] # "all"
  /\ \A i, j \in DOMAIN Agents : Agents[i] = Agents[j] => i = j
  /\ AgentSet \subseteq Targets
<1>1. /\ Agents \in Seq(Targets \ {"all"})
      /\ IsInjective(Agents)
  BY RunnerAssumption
<1>2. DOMAIN Agents = 1..Len(Agents) /\ Len(Agents) \in Nat
  BY <1>1
<1>3. \A i \in DOMAIN Agents : Agents[i] \in Targets \ {"all"}
  BY <1>1
<1>4. \A i, j \in DOMAIN Agents : Agents[i] = Agents[j] => i = j
  BY <1>1 DEF IsInjective
<1> QED BY <1>1, <1>2, <1>3, <1>4 DEF AgentSet

\* The current agent of a call is one of the config, and not among the others.
LEMMA CurrentIs ==
  ASSUME NEW x, x.agents \subseteq DOMAIN Agents, x.agents # {}
  PROVE  /\ Min(x.agents) \in x.agents
         /\ Min(x.agents) \in DOMAIN Agents
         /\ Current(x) = Agents[Min(x.agents)]
         /\ Current(x) \in AgentSet
         /\ \A i \in Others(x) : i \in x.agents /\ Agents[i] # Current(x)
         /\ Others(x) \subseteq DOMAIN Agents
<1>1. Min(x.agents) \in x.agents
  BY PlacesAre, LeastOf
<1> QED BY <1>1, PlacesAre DEF Current, Others

-----------------------------------------------------------------------------
(***************************************************************************)
(* The operations of the wake queue.                                       *)
(***************************************************************************)

Kinds == {"none", "normal", "retry"}

\* schedule() sets the timer or leaves it alone, a retry timer always.
LEMMA ScheduleIs ==
  ASSUME NEW w, w \in WakeRecord, NEW d \in 0..Longest, NEW k \in Kinds,
         NEW v, v = Schedule(w, d, k)
  PROVE  /\ v \in WakeRecord
         /\ v.handler = w.handler /\ v.pending = w.pending
         /\ v.scheduled = w.scheduled /\ v.running = w.running
         /\ \/ v.timer = w.timer
            \/ w.timer.kind # "retry" /\ v.timer = [left |-> d, kind |-> k, delay |-> d]
<1>1. CASE w.timer # NoTimer /\ (w.timer.kind = "retry" \/ w.timer.left <= d)
  BY <1>1 DEF Schedule
<1>2. CASE ~(w.timer # NoTimer /\ (w.timer.kind = "retry" \/ w.timer.left <= d))
  <2>1. w.timer.kind # "retry"
    BY <1>2 DEF NoTimer
  <2>2. [left |-> d, kind |-> k, delay |-> d] \in TimerRecord
    BY DEF TimerRecord, Kinds
  <2>3. v = [w EXCEPT !.timer = [left |-> d, kind |-> k, delay |-> d]]
    BY <1>2 DEF Schedule
  <2> QED BY <2>1, <2>2, <2>3 DEF WakeRecord
<1> QED BY <1>1, <1>2

LEMMA DistinctIs ==
  ASSUME NEW r, \A i, j \in DOMAIN r : r[i].target = r[j].target => i = j
  PROVE  Distinct(r)
BY DEF Distinct, IsInjective

LEMMA ScheduleKeeps ==
  ASSUME NEW w, w \in WakeRecord, NEW d \in 0..Longest, NEW k \in Kinds,
         NEW v, v = Schedule(w, d, k)
  PROVE  /\ v \in WakeRecord
         /\ v.pending = w.pending /\ v.running = w.running
         /\ v.timer = w.timer \/ w.timer.kind # "retry"
<1>1. /\ v \in WakeRecord
      /\ v.handler = w.handler /\ v.pending = w.pending
      /\ v.scheduled = w.scheduled /\ v.running = w.running
      /\ \/ v.timer = w.timer
         \/ w.timer.kind # "retry" /\ v.timer = [left |-> d, kind |-> k, delay |-> d]
  BY ScheduleIs
<1> QED BY <1>1

\* A target that is asked for is pending, once.
LEMMA QueueIs ==
  ASSUME NEW w, WakeTyped(w), NEW t \in Targets, NEW p \in Priorities,
         NEW v, v = Queue(w, t, p)
  PROVE  /\ WakeTyped(v)
         /\ v.handler = w.handler /\ v.scheduled = w.scheduled
         /\ v.running = w.running /\ v.timer = w.timer
<1> PICK q : q = w.pending
  OBVIOUS
<1>0. w \in WakeRecord /\ q \in Seq(Wakes) /\ Distinct(q)
  BY DEF WakeTyped, WakeRecord
<1>1. \A i, j \in DOMAIN q : q[i].target = q[j].target => i = j
  BY <1>0 DEF Distinct, IsInjective
<1>2. CASE PendingOf(w, t) = {}
  <2> PICK x : x = [target |-> t, priority |-> p]
    OBVIOUS
  <2> PICK r : r = Append(q, x)
    OBVIOUS
  <2>1. x \in Wakes /\ x.target = t
    BY DEF Wakes
  <2>2. r \in Seq(Wakes) /\ DOMAIN r = 1..(Len(q) + 1) /\ DOMAIN q = 1..Len(q) /\ Len(q) \in Nat
    BY <1>0, <2>1
  <2>3. \A i \in DOMAIN q : r[i] = q[i] /\ q[i].target # t
    BY <1>0, <1>2, <2>2 DEF PendingOf
  <2>4. r[Len(q) + 1] = x
    BY <1>0, <2>1
  <2>5. \A i, j \in DOMAIN r : r[i].target = r[j].target => i = j
    BY <1>1, <2>1, <2>2, <2>3, <2>4
  <2>6. Distinct(r)
    BY <2>5 DEF Distinct, IsInjective
  <2>7. v = [w EXCEPT !.pending = r]
    BY <1>2 DEF Queue
  <2> QED BY <1>0, <2>2, <2>6, <2>7 DEF WakeTyped, WakeRecord
<1>3. CASE PendingOf(w, t) # {}
  <2> PICK k : k = CHOOSE i \in PendingOf(w, t) : TRUE
    OBVIOUS
  <2>1. k \in DOMAIN q
    BY <1>3 DEF PendingOf
  <2>2. q[k] \in Wakes
    BY <1>0, <2>1
  <2>y. PICK y : y = [q[k] EXCEPT !.priority = IF p >= @ THEN p ELSE @]
    OBVIOUS
  <2>3. y \in Wakes /\ y.target = q[k].target
    BY <2>2, <2>y DEF Wakes
  <2>r. PICK r : r = [q EXCEPT ![k] = y]
    OBVIOUS
  <2>4. r \in Seq(Wakes) /\ DOMAIN r = DOMAIN q
    BY <1>0, <2>1, <2>3, <2>r
  <2>5. \A i \in DOMAIN q : r[i].target = q[i].target
    BY <2>1, <2>3, <1>0, <2>r
  <2>6. Distinct(r)
    BY <1>1, <2>4, <2>5, DistinctIs
  <2>7. v = [w EXCEPT !.pending = r]
    BY <1>3, <2>y, <2>r DEF Queue
  <2> QED BY <1>0, <2>4, <2>6, <2>7 DEF WakeTyped, WakeRecord
<1> QED BY <1>2, <1>3

\* A request, at once, after the coalescing delay or for a retry.
LEMMA RequestIs ==
  ASSUME NEW w, WakeTyped(w), NEW t \in Targets, NEW p \in Priorities,
         NEW d \in 0..Longest, NEW k \in Kinds,
         NEW v, v = Schedule(Queue(w, t, p), d, k)
  PROVE  /\ WakeTyped(v)
         /\ v.handler = w.handler /\ v.running = w.running
         /\ \/ v.timer = w.timer
            \/ w.timer.kind # "retry" /\ v.timer = [left |-> d, kind |-> k, delay |-> d]
<1> PICK u : u = Queue(w, t, p)
  OBVIOUS
<1>1. /\ WakeTyped(u)
      /\ u.handler = w.handler /\ u.running = w.running /\ u.timer = w.timer
  BY QueueIs
<1>2. /\ v \in WakeRecord
      /\ v.handler = u.handler /\ v.pending = u.pending /\ v.running = u.running
      /\ \/ v.timer = u.timer
         \/ u.timer.kind # "retry" /\ v.timer = [left |-> d, kind |-> k, delay |-> d]
  BY <1>1, ScheduleIs DEF WakeTyped
<1> QED BY <1>1, <1>2 DEF WakeTyped

\* A new handler starts with no batch running and no retry timer.
LEMMA SetHandlerIs ==
  ASSUME NEW w, WakeTyped(w), NEW g \in 0..MaxRunners, NEW v, v = SetHandler(w, g)
  PROVE  WakeTyped(v) /\ ~v.running
<1>u. PICK u : u = [w EXCEPT !.handler = g, !.timer = NoTimer, !.running = FALSE,
                           !.scheduled = FALSE]
  OBVIOUS
<1>1. NoTimer \in TimerRecord
  BY LongestIs DEF NoTimer, TimerRecord
<1>2. u \in WakeRecord /\ u.pending = w.pending /\ ~u.running
  BY <1>1, <1>u DEF WakeTyped, WakeRecord
<1>3. v = u \/ v = Schedule(u, Coalesce, "normal")
  BY <1>u DEF SetHandler
<1>4. v \in WakeRecord /\ v.pending = u.pending /\ v.running = u.running
  <2>1. Coalesce \in 0..Longest /\ "normal" \in Kinds
    BY LongestIs DEF Kinds
  <2>2. CASE v = Schedule(u, Coalesce, "normal")
    BY <1>2, <2>1, <2>2, ScheduleKeeps
  <2> QED BY <1>2, <1>3, <2>2
<1> QED BY <1>2, <1>4 DEF WakeTyped

LEMMA DisposeIs ==
  ASSUME NEW w, WakeTyped(w), NEW g, NEW v, v = Dispose(w, g)
  PROVE  WakeTyped(v) /\ v.running = w.running /\ v.timer = w.timer
<1>1. MaxRunners \in Nat
  BY Bounds
<1>2. v = w \/ v = [w EXCEPT !.handler = 0]
  BY DEF Dispose
<1> QED BY <1>1, <1>2 DEF WakeTyped, WakeRecord

\* The callback consumes its timer; it takes the batch, or is set again for later.
LEMMA FireIs ==
  ASSUME NEW w, WakeTyped(w), NEW v, v = Fire(w)
  PROVE  /\ WakeTyped(v)
         /\ v.running = (w.running \/ TakesBatch(w))
<1>u. PICK u : u = [w EXCEPT !.timer = NoTimer, !.scheduled = FALSE]
  OBVIOUS
<1>s. PICK u2 : u2 = [u EXCEPT !.scheduled = TRUE]
  OBVIOUS
<1>0. w \in WakeRecord /\ Distinct(w.pending)
  BY DEF WakeTyped
<1>1. NoTimer \in TimerRecord
  BY LongestIs DEF NoTimer, TimerRecord
<1>2. u \in WakeRecord /\ u.pending = w.pending /\ u.running = w.running
  BY <1>0, <1>1, <1>u DEF WakeRecord
<1>3. u2 \in WakeRecord /\ u2.pending = w.pending /\ u2.running = w.running
  BY <1>2, <1>s DEF WakeRecord
<1>4. CASE w.handler = 0
  BY <1>0, <1>2, <1>4, <1>u DEF Fire, TakesBatch, WakeTyped, WakeRecord
<1>5. CASE w.handler # 0 /\ w.running
  <2>1. v = Schedule(u2, w.timer.delay, w.timer.kind)
    BY <1>5, <1>u, <1>s DEF Fire
  <2>2. w.timer.delay \in 0..Longest /\ w.timer.kind \in Kinds
    BY <1>0 DEF WakeRecord, TimerRecord, Kinds
  <2> PICK d \in 0..Longest, k \in Kinds : d = w.timer.delay /\ k = w.timer.kind
    BY <2>2
  <2>3. v \in WakeRecord /\ v.pending = u2.pending /\ v.running = u2.running
    BY <1>3, <2>1, ScheduleKeeps
  <2> QED BY <1>0, <1>3, <1>5, <2>3 DEF TakesBatch, WakeTyped, WakeRecord
<1>6. CASE w.handler # 0 /\ ~w.running
  <2>1. v = [u EXCEPT !.pending = <<>>, !.running = TRUE]
    BY <1>6, <1>u DEF Fire
  <2>0. <<>> \in Seq(Wakes)
    OBVIOUS
  <2>2. v \in WakeRecord /\ v.pending = <<>>
    BY <1>2, <2>0, <2>1 DEF WakeRecord
  <2>4. v.running = TRUE
    BY <1>2, <2>1 DEF WakeRecord
  <2>3. Distinct(v.pending)
    BY <2>2 DEF Distinct, IsInjective
  <2> QED BY <1>6, <2>2, <2>3, <2>4 DEF TakesBatch, WakeTyped
<1> QED BY <1>0, <1>4, <1>5, <1>6 DEF WakeRecord

LEMMA FinishBatchIs ==
  ASSUME NEW w, WakeTyped(w), NEW d \in 0..Longest, NEW v, v = FinishBatch(w, d)
  PROVE  /\ WakeTyped(v)
         /\ ~v.running
         /\ v.timer = w.timer \/ w.timer.kind # "retry"
<1>u. PICK u : u = [w EXCEPT !.running = FALSE]
  OBVIOUS
<1>1. u \in WakeRecord /\ u.pending = w.pending /\ u.running = FALSE /\ u.timer = w.timer
  BY <1>u DEF WakeTyped, WakeRecord
<1>2. v = u \/ v = Schedule(u, d, "normal")
  BY <1>u DEF FinishBatch
<1>3. /\ v \in WakeRecord /\ v.pending = u.pending /\ v.running = u.running
      /\ v.timer = u.timer \/ u.timer.kind # "retry"
  <2>1. "normal" \in Kinds
    BY DEF Kinds
  <2>2. CASE v = Schedule(u, d, "normal")
    BY <1>1, <2>1, <2>2, ScheduleKeeps
  <2> QED BY <1>1, <1>2, <2>2
<1> QED BY <1>1, <1>3 DEF WakeTyped

LEMMA ElapseIs ==
  ASSUME NEW w, WakeTyped(w), NEW v, v = Elapse(w)
  PROVE  /\ WakeTyped(v)
         /\ v.running = w.running
         /\ v.timer.kind = w.timer.kind
         /\ \/ v.timer.left = w.timer.left
            \/ w.timer.left > 0 /\ v.timer.left = w.timer.left - 1
<1>0. w \in WakeRecord /\ w.timer \in TimerRecord /\ Longest \in Nat
  BY LongestIs DEF WakeTyped, WakeRecord
<1>1. CASE w.timer # NoTimer /\ w.timer.left > 0
  <2> PICK r : r = [w.timer EXCEPT !.left = @ - 1]
    OBVIOUS
  <2>1. r \in TimerRecord /\ r.kind = w.timer.kind /\ r.left = w.timer.left - 1
    BY <1>0, <1>1 DEF TimerRecord
  <2>2. v = [w EXCEPT !.timer = r]
    BY <1>0, <1>1 DEF Elapse, WakeRecord
  <2> QED BY <1>0, <1>1, <2>1, <2>2 DEF WakeTyped, WakeRecord
<1>2. CASE ~(w.timer # NoTimer /\ w.timer.left > 0)
  BY <1>2 DEF Elapse
<1> QED BY <1>1, <1>2

-----------------------------------------------------------------------------
(***************************************************************************)
(* Executions, and how many there are.                                     *)
(***************************************************************************)

LEMMA NoExecIs == ExecTyped(NoExec) /\ NoExec \in ExecRecord /\ NoExec.pc = "free"
<1>1. 0 \in 0..Longest /\ 0 \in 0..Interval
  BY LongestIs, Bounds
<1>2. <<>> \in Seq(Wakes) /\ {} \in SUBSET DOMAIN Agents
  OBVIOUS
<1> QED BY <1>1, <1>2 DEF NoExec, ExecTyped, ExecRecord, InCall

LEMMA SlotsAre ==
  /\ IsFiniteSet(Slots)
  /\ Cardinality(Slots) = MaxRunners + 1
BY Bounds, FS_Interval DEF Slots

\* The end of a call.
LEMMA CalledIs ==
  ASSUME NEW x, x \in ExecRecord, x.batch # <<>>, NEW y, y = Called(x)
  PROVE  /\ ExecTyped(y) /\ y \in ExecRecord
         /\ y.pc = "next" /\ y.stale = FALSE
<1>1. 0 \in 0..Interval /\ {} \in SUBSET DOMAIN Agents /\ Tail(x.batch) \in Seq(Wakes)
  BY Bounds DEF ExecRecord
<1>2. y = [x EXCEPT !.pc = "next", !.batch = Tail(x.batch), !.agents = {}, !.age = 0,
                    !.stale = FALSE]
  BY DEF Called, ExecRecord
<1> QED BY <1>1, <1>2 DEF ExecRecord, ExecTyped, InCall

NoNewFlight == \A s \in Slots : execs'[s] # NoExec => execs[s] # NoExec

\* A step of one execution.
LEMMA OneExec ==
  ASSUME ExecsTyped, NEW s \in Slots, execs[s].pc # "free",
         NEW y, ExecTyped(y), execs' = [execs EXCEPT ![s] = y]
  PROVE  /\ ExecsTyped'
         /\ NoNewFlight
         /\ execs'[s] = y
         /\ \A r \in Slots : r # s => execs'[r] = execs[r]
<1>1. y \in ExecRecord
  BY DEF ExecTyped
<1>2. /\ execs' \in [Slots -> ExecRecord]
      /\ execs'[s] = y
      /\ \A r \in Slots : r # s => execs'[r] = execs[r]
  BY <1>1 DEF ExecsTyped
<1>3. \A r \in Slots : ExecTyped(execs'[r])
  BY <1>2 DEF ExecsTyped
<1>4. NoNewFlight
  BY <1>2, NoExecIs DEF NoNewFlight
<1> QED BY <1>2, <1>3, <1>4 DEF ExecsTyped

LEMMA FlightsCounted ==
  /\ IsFiniteSet(Flights)
  /\ Cardinality(Flights) \in Nat
  /\ Cardinality(Flights) <= MaxRunners + 1
  /\ Cardinality(Flights) = MaxRunners + 1 => Flights = Slots
<1>1. Flights \subseteq Slots
  BY DEF Flights
<1> QED BY <1>1, SlotsAre, FS_Subset, FS_CardinalityType

LEMMA FlightsNotMore ==
  ASSUME NoNewFlight
  PROVE  /\ Cardinality(Flights') \in Nat
         /\ Cardinality(Flights') <= Cardinality(Flights)
<1>1. Flights' \subseteq Flights
  BY DEF NoNewFlight, Flights
<1> QED BY <1>1, FlightsCounted, FS_Subset, FS_CardinalityType

\* An execution is over.
LEMMA FlightOver ==
  ASSUME ExecsTyped, NEW s \in Slots, execs[s].pc # "free", execs' = [execs EXCEPT ![s] = NoExec]
  PROVE  /\ Cardinality(Flights') \in Nat
         /\ Cardinality(Flights') = Cardinality(Flights) - 1
<1>1. s \in Flights
  BY NoExecIs DEF Flights
<1>2. Flights' = Flights \ {s}
  BY DEF Flights, ExecsTyped
<1> QED BY <1>1, <1>2, FlightsCounted, FS_RemoveElement, FS_CardinalityType

\* A new one finds a free slot, if there are fewer than slots.
LEMMA FlightTaken ==
  ASSUME ExecsTyped, Cardinality(Flights) <= MaxRunners,
         NEW w, w \in WakeRecord, execs' = Taken(w)
  PROVE  /\ ExecsTyped'
         /\ Cardinality(Flights') \in Nat
         /\ Cardinality(Flights') = Cardinality(Flights) + 1
         /\ \A r \in Slots : execs'[r] = execs[r] \/ (execs[r] = NoExec /\ execs'[r].pc = "next")
<1>1. PICK t \in Slots : execs[t] = NoExec
  BY FlightsCounted, SlotsAre, Bounds DEF Flights
<1>2. PICK s : s = CHOOSE r \in Slots : execs[r] = NoExec
  OBVIOUS
<1>3. s \in Slots /\ execs[s] = NoExec
  BY <1>1, <1>2
<1>4. PICK y : y = [NoExec EXCEPT !.pc = "next", !.delay = w.timer.delay, !.batch = w.pending]
  OBVIOUS
<1>5. execs' = [execs EXCEPT ![s] = y]
  BY <1>2, <1>4 DEF Taken
<1>6. w.timer.delay \in 0..Longest /\ w.pending \in Seq(Wakes)
  BY DEF WakeRecord, TimerRecord
<1>7. y \in ExecRecord /\ y.pc = "next"
  BY <1>4, <1>6, NoExecIs DEF ExecRecord
<1>8. ExecTyped(y)
  BY <1>7 DEF ExecTyped, InCall
<1>9. /\ execs' \in [Slots -> ExecRecord]
      /\ execs'[s] = y
      /\ \A r \in Slots : r # s => execs'[r] = execs[r]
  BY <1>3, <1>5, <1>7 DEF ExecsTyped
<1>10. ExecsTyped'
  BY <1>8, <1>9 DEF ExecsTyped
<1>11. y # NoExec
  BY <1>7, NoExecIs
<1>12. Flights' = Flights \cup {s} /\ s \notin Flights
  BY <1>3, <1>9, <1>11 DEF Flights
<1>13. /\ Cardinality(Flights') \in Nat
       /\ Cardinality(Flights') = Cardinality(Flights) + 1
  BY <1>12, FlightsCounted, FS_AddElement, FS_CardinalityType
<1> QED BY <1>3, <1>7, <1>9, <1>10, <1>13

\* With one execution at most, two slots in use are one.
LEMMA OnlyOne ==
  ASSUME Cardinality(Flights) <= 1, NEW s \in Flights, NEW t \in Flights
  PROVE  s = t
<1> SUFFICES ASSUME s # t PROVE FALSE
  OBVIOUS
<1>0. IsFiniteSet({t}) /\ Cardinality({t}) = 1 /\ s \notin {t}
  BY FS_Singleton
<1>1. IsFiniteSet({t} \cup {s}) /\ Cardinality({t} \cup {s}) = Cardinality({t}) + 1
  BY <1>0, FS_AddElement
<1>2. {t} \cup {s} \subseteq Flights
  OBVIOUS
<1>3. Cardinality({t} \cup {s}) <= Cardinality(Flights)
  BY <1>2, FlightsCounted, FS_Subset
<1> QED BY <1>0, <1>1, <1>3, FlightsCounted

-----------------------------------------------------------------------------
(***************************************************************************)
(* The schedule.                                                           *)
(***************************************************************************)

LEMMA DownIs ==
  ASSUME NEW n \in Int
  PROVE  Down(n) = IF n > 0 THEN n - 1 ELSE n
BY DEF Down

\* The delay of the runner's timer is that of some agent, or none.
LEMMA NextTimerIs ==
  ASSUME NEW d \in [AgentSet -> -1..Interval], NEW n, n = NextTimer(d)
  PROVE  n \in -1..Interval
<1> DEFINE on == {a \in AgentSet : d[a] >= 0}
           S == {d[a] : a \in on}
<1>1. CASE on = {}
  BY <1>1, Bounds DEF NextTimer
<1>2. CASE on # {}
  <2>1. S \in SUBSET Nat /\ S # {} /\ S \subseteq -1..Interval
    BY <1>2, Bounds
  <2>2. Min(S) \in S
    BY <2>1, LeastOf
  <2> QED BY <1>2, <2>1, <2>2 DEF NextTimer
<1> QED BY <1>1, <1>2


LEMMA RemainingIs ==
  ASSUME NEW x \in ExecRecord
  PROVE  /\ Max({0, Interval - x.age}) = Interval - x.age
         /\ Interval - x.age \in 0..Interval
         /\ x.age \in 0..Interval
<1>1. x.age \in 0..Interval /\ Interval \in Nat
  BY Bounds DEF ExecRecord
<1>2. Max({0, Interval - x.age}) = IF 0 >= Interval - x.age THEN 0 ELSE Interval - x.age
  BY <1>1, MaxIs
<1> QED BY <1>1, <1>2

\* advanceAgentSchedule, and the history of it.
LEMMA AdvanceIs ==
  ASSUME RunnerTyped, NEW x \in ExecRecord, NEW a \in AgentSet,
         NEW d, d = Advance(x, a)
  PROVE  /\ d \in [AgentSet -> -1..Interval]
         /\ \A b \in AgentSet : b # a => d[b] = due[b]
         /\ x.stale \/ due[a] < 0 => d = due
         /\ ~x.stale /\ due[a] >= 0 => d[a] = Interval - x.age
<1>1. due \in [AgentSet -> -1..Interval] /\ Interval \in Nat
  BY Bounds DEF RunnerTyped
<1>2. CASE x.stale \/ due[a] < 0
  BY <1>1, <1>2 DEF Advance
<1>3. CASE ~(x.stale \/ due[a] < 0)
  <2>1. d = [due EXCEPT ![a] = Interval - x.age]
    BY <1>3, RemainingIs DEF Advance
  <2>4. x.age \in 0..Interval
    BY RemainingIs
  <2>2. Interval - x.age \in -1..Interval
    BY <1>1, <2>4
  <2>3. /\ d \in [AgentSet -> -1..Interval]
        /\ \A c \in AgentSet : c # a => d[c] = due[c]
        /\ d[a] = Interval - x.age
    BY <1>1, <2>1, <2>2
  <2> QED BY <1>3, <2>3
<1> QED BY <1>2, <1>3

LEMMA RestedIs ==
  ASSUME RunnerTyped, NEW x \in ExecRecord, NEW a \in AgentSet,
         NEW d, d = Rested(x, a)
  PROVE  /\ d \in [AgentSet -> 0..Interval]
         /\ \A b \in AgentSet : b # a => d[b] = rest[b]
         /\ x.stale => d = rest
         /\ ~x.stale => d[a] = Interval - x.age
<1>1. rest \in [AgentSet -> 0..Interval] /\ Interval \in Nat
  BY Bounds DEF RunnerTyped
<1>2. CASE x.stale
  BY <1>1, <1>2 DEF Rested
<1>3. CASE ~x.stale
  <2>1. d = [rest EXCEPT ![a] = Interval - x.age]
    BY <1>3, RemainingIs DEF Rested
  <2> QED BY <1>1, <1>3, <2>1, RemainingIs
<1> QED BY <1>2, <1>3

LEMMA MarkedIs ==
  ASSUME RunnerTyped, NEW x, NEW a \in AgentSet
  PROVE  Marked(x, a) \subseteq AgentSet
BY DEF RunnerTyped, Marked

LEMMA ScheduleNextIs ==
  ASSUME RunnerTyped, NEW x, NEW d \in [AgentSet -> -1..Interval]
  PROVE  ScheduleNext(x, d) \in -1..Interval
BY NextTimerIs DEF RunnerTyped, ScheduleNext

-----------------------------------------------------------------------------
(***************************************************************************)
(* Every step keeps the types of the runner's variables, and those of the  *)
(* executions; no step but the wake timer's adds an execution.             *)
(***************************************************************************)

LEMMA AgentAt ==
  ASSUME ExecsTyped, NEW s \in Slots, execs[s].agents # {}
  PROVE  /\ Current(execs[s]) \in AgentSet
         /\ \A i \in Others(execs[s]) : i \in execs[s].agents /\ Agents[i] # Current(execs[s])
         /\ Others(execs[s]) \in SUBSET DOMAIN Agents
<1>1. execs[s].agents \subseteq DOMAIN Agents
  BY DEF ExecsTyped, ExecRecord
<1> QED BY <1>1, CurrentIs

LEMMA BatchAt ==
  ASSUME ExecsTyped, NEW s \in Slots, execs[s].batch # <<>>
  PROVE  /\ Head(execs[s].batch) \in Wakes
         /\ Head(execs[s].batch).target \in Targets
         /\ Head(execs[s].batch).priority \in Priorities
<1>1. execs[s].batch \in Seq(Wakes)
  BY DEF ExecsTyped, ExecRecord
<1>2. Head(execs[s].batch) \in Wakes
  BY <1>1
<1> QED BY <1>2 DEF Wakes

\* The calls that do not know the runner's agents any more.
LEMMA StaledIs ==
  ASSUME ExecsTyped, NEW y, y = Staled
  PROVE  /\ y \in [Slots -> ExecRecord]
         /\ \A s \in Slots : ExecTyped(y[s])
         /\ \A s \in Slots : y[s].pc = execs[s].pc
         /\ \A s \in Slots : InCall(execs[s]) => y[s].stale
         /\ \A s \in Slots : ~InCall(execs[s]) => y[s] = execs[s]
         /\ \A s \in Slots : y[s] # NoExec => execs[s] # NoExec
<1> DEFINE z(s) == [execs[s] EXCEPT !.stale = TRUE, !.age = 0]
<1>1. \A s \in Slots : y[s] = IF InCall(execs[s]) THEN z(s) ELSE execs[s]
  BY DEF Staled
<1>2. 0 \in 0..Interval
  BY Bounds
<1>3. ASSUME NEW s \in Slots
      PROVE  /\ execs[s] \in ExecRecord /\ ExecTyped(execs[s])
             /\ z(s) \in ExecRecord /\ ExecTyped(z(s))
             /\ z(s).pc = execs[s].pc /\ z(s).stale
  <2>1. execs[s] \in ExecRecord /\ ExecTyped(execs[s])
    BY DEF ExecsTyped
  <2>2. z(s) \in ExecRecord /\ z(s).pc = execs[s].pc /\ z(s).batch = execs[s].batch
        /\ z(s).agents = execs[s].agents
    BY <1>2, <2>1 DEF ExecRecord
  <2>3. z(s).stale = TRUE
    BY <2>1 DEF ExecRecord
  <2> QED BY <2>1, <2>2, <2>3 DEF ExecTyped, InCall
<1> HIDE DEF z
<1>4. DOMAIN y = Slots /\ y = [s \in Slots |-> y[s]]
  BY DEF Staled
<1>5. \A s \in Slots : y[s] \in ExecRecord /\ ExecTyped(y[s]) /\ y[s].pc = execs[s].pc
  BY <1>1, <1>3
<1>6. y \in [Slots -> ExecRecord]
  BY <1>4, <1>5
<1>7. \A s \in Slots : InCall(execs[s]) => y[s].stale
  BY <1>1, <1>3
<1>8. \A s \in Slots : InCall(execs[s]) => execs[s] # NoExec
  BY NoExecIs DEF InCall
<1> QED BY <1>1, <1>5, <1>6, <1>7, <1>8

\* The steps of a call.
LEMMA CallStep ==
  ASSUME RunnerTyped, ExecsTyped, NEW s \in Slots,
         CallDropped(s) \/ CallBegins(s) \/ AgentOff(s) \/ AgentBegins(s)
  PROVE  RunnerTyped' /\ ExecsTyped' /\ NoNewFlight
<1> PICK x : x = execs[s]
  OBVIOUS
<1>0. x \in ExecRecord /\ ExecTyped(x)
  BY DEF ExecsTyped
<1>1. CASE CallDropped(s)
  <2>1. /\ x.pc = "next" /\ x.batch # <<>>
        /\ execs' = [execs EXCEPT ![s] = Called(x)]
        /\ owed' \subseteq owed
        /\ UNCHANGED <<wake, runnerVars, asks, events, rest, overlaps, cool>>
    BY <1>1 DEF CallDropped
  <2>2. ExecsTyped' /\ NoNewFlight
    BY <1>0, <2>1, CalledIs, OneExec
  <2> QED BY <2>1, <2>2 DEF RunnerTyped, runnerVars
<1>2. CASE CallBegins(s)
  <2> PICK y : y = [x EXCEPT !.pc = "agents", !.agents = AgentsOf(Head(x.batch))]
    OBVIOUS
  <2>1. /\ x.pc = "next" /\ x.batch # <<>>
        /\ execs' = [execs EXCEPT ![s] = y]
        /\ owed' \subseteq owed
        /\ UNCHANGED <<wake, runnerVars, asks, events, rest, overlaps, cool>>
    BY <1>2 DEF CallBegins
  <2>2. AgentsOf(Head(x.batch)) \in SUBSET DOMAIN Agents
    BY DEF AgentsOf
  <2>3. ExecTyped(y)
    BY <1>0, <2>1, <2>2 DEF ExecTyped, ExecRecord, InCall
  <2>4. ExecsTyped' /\ NoNewFlight
    BY <2>1, <2>3, OneExec
  <2> QED BY <2>1, <2>4 DEF RunnerTyped, runnerVars
<1>3. CASE AgentOff(s)
  <2> PICK y : y = [x EXCEPT !.agents = Others(x)]
    OBVIOUS
  <2>1. /\ x.pc = "agents" /\ x.agents # {}
        /\ execs' = [execs EXCEPT ![s] = y]
        /\ UNCHANGED <<wake, runnerVars, asks, events, history>>
    BY <1>3 DEF AgentOff, AtAgent
  <2>2. Others(x) \in SUBSET DOMAIN Agents
    BY <2>1, AgentAt
  <2>3. ExecTyped(y)
    BY <1>0, <2>1, <2>2 DEF ExecTyped, ExecRecord, InCall
  <2>4. ExecsTyped' /\ NoNewFlight
    BY <2>1, <2>3, OneExec
  <2> QED BY <2>1, <2>4 DEF RunnerTyped, runnerVars, history
<1>4. CASE AgentBegins(s)
  <2> PICK y : y = [x EXCEPT !.pc = "await"]
    OBVIOUS
  <2>1. /\ x.pc = "agents" /\ x.agents # {}
        /\ execs' = [execs EXCEPT ![s] = y]
        /\ rest' = Rested(x, Current(x))
        /\ UNCHANGED <<wake, runnerVars, asks, events, owed, overlaps, cool>>
    BY <1>4 DEF AgentBegins, AtAgent
  <2>2. ExecTyped(y)
    BY <1>0, <2>1 DEF ExecTyped, ExecRecord, InCall
  <2>3. ExecsTyped' /\ NoNewFlight
    BY <2>1, <2>2, OneExec
  <2>4. rest' \in [AgentSet -> 0..Interval]
    BY <1>0, <2>1, AgentAt, RestedIs
  <2> QED BY <2>1, <2>3, <2>4 DEF RunnerTyped, runnerVars
<1> QED BY <1>1, <1>2, <1>3, <1>4

\* The ends of a heartbeat, of a call and of a batch.
LEMMA ReturnStep ==
  ASSUME RunnerTyped, ExecsTyped, NEW s \in Slots,
         AgentBusy(s) \/ AgentReturns(s) \/ CallEnds(s) \/ BatchEnds(s)
  PROVE  RunnerTyped' /\ ExecsTyped' /\ NoNewFlight
<1> PICK x : x = execs[s]
  OBVIOUS
<1>0. x \in ExecRecord /\ ExecTyped(x)
  BY DEF ExecsTyped
<1>1. CASE AgentBusy(s)
  <2>1. /\ x.pc = "agents" /\ x.agents # {}
        /\ events < MaxEvents /\ events' = events + 1
        /\ due' = Advance(x, Current(x))
        /\ attempted' = Marked(x, Current(x))
        /\ rest' = Rested(x, Current(x))
        /\ timer' = ScheduleNext(x, due')
        /\ execs' = [execs EXCEPT ![s] = Called(x)]
        /\ owed' = owed \cup {Head(x.batch).target}
        /\ cool' = Retry \/ cool' = cool
        /\ UNCHANGED <<started, live, enabled, asks, overlaps>>
    BY <1>1 DEF AgentBusy, AtAgent
  <2>2. x.batch # <<>>
    BY <1>0, <2>1 DEF ExecTyped, InCall
  <2>3. ExecsTyped' /\ NoNewFlight
    BY <1>0, <2>1, <2>2, CalledIs, OneExec
  <2>4. Current(x) \in AgentSet /\ Head(x.batch).target \in Targets
    BY <2>1, <2>2, AgentAt, BatchAt
  <2>5. due' \in [AgentSet -> -1..Interval]
    BY <1>0, <2>1, <2>4, AdvanceIs
  <2>6. rest' \in [AgentSet -> 0..Interval]
    BY <1>0, <2>1, <2>4, RestedIs
  <2>7. attempted' \subseteq AgentSet
    BY <2>1, <2>4, MarkedIs
  <2>8. timer' \in -1..Interval
    BY <2>1, <2>5, ScheduleNextIs
  <2>9. events' \in 0..MaxEvents /\ owed' \subseteq Targets /\ cool' \in 0..Retry
    BY <2>1, <2>4, Bounds, LongestIs DEF RunnerTyped
  <2> QED BY <2>1, <2>3, <2>5, <2>6, <2>7, <2>8, <2>9 DEF RunnerTyped
<1>2. CASE AgentReturns(s)
  <2> PICK y : y = [x EXCEPT !.pc = "agents", !.agents = Others(x)]
    OBVIOUS
  <2>1. /\ x.pc = "await"
        /\ due' = Advance(x, Current(x))
        /\ attempted' = Marked(x, Current(x))
        /\ execs' = [execs EXCEPT ![s] = y]
        /\ UNCHANGED <<wake, started, live, timer, enabled, asks, events, history>>
    BY <1>2 DEF AgentReturns, ExecsTyped
  <2>2. x.agents # {} /\ x.batch # <<>>
    BY <1>0, <2>1 DEF ExecTyped, InCall
  <2>3. Current(x) \in AgentSet /\ Others(x) \in SUBSET DOMAIN Agents
    BY <2>2, AgentAt
  <2>4. ExecTyped(y)
    BY <1>0, <2>1, <2>2, <2>3 DEF ExecTyped, ExecRecord, InCall
  <2>5. ExecsTyped' /\ NoNewFlight
    BY <2>1, <2>4, OneExec
  <2>6. due' \in [AgentSet -> -1..Interval]
    BY <1>0, <2>1, <2>3, AdvanceIs
  <2>7. attempted' \subseteq AgentSet
    BY <2>1, <2>3, MarkedIs
  <2> QED BY <2>1, <2>5, <2>6, <2>7 DEF RunnerTyped, history
<1>3. CASE CallEnds(s)
  <2>1. /\ x.pc = "agents"
        /\ timer' = ScheduleNext(x, due)
        /\ execs' = [execs EXCEPT ![s] = Called(x)]
        /\ UNCHANGED <<wake, started, live, due, attempted, enabled, asks, events, history>>
    BY <1>3 DEF CallEnds
  <2>2. x.batch # <<>>
    BY <1>0, <2>1 DEF ExecTyped, InCall
  <2>3. ExecsTyped' /\ NoNewFlight
    BY <1>0, <2>1, <2>2, CalledIs, OneExec
  <2>4. due \in [AgentSet -> -1..Interval]
    BY DEF RunnerTyped
  <2>5. timer' \in -1..Interval
    BY <2>1, <2>4, ScheduleNextIs
  <2> QED BY <2>1, <2>3, <2>5 DEF RunnerTyped, history
<1>4. CASE BatchEnds(s)
  <2>1. /\ x.pc = "next"
        /\ execs' = [execs EXCEPT ![s] = NoExec]
        /\ UNCHANGED <<runnerVars, asks, events, history>>
    BY <1>4 DEF BatchEnds
  <2>2. ExecsTyped' /\ NoNewFlight
    BY <2>1, NoExecIs, OneExec
  <2> QED BY <2>1, <2>2 DEF RunnerTyped, runnerVars, history
<1> QED BY <1>1, <1>2, <1>3, <1>4

\* The life of a runner.
LEMMA LifeStep ==
  ASSUME RunnerTyped, ExecsTyped,
         \/ Start \/ Stop \/ SetHeartbeatsEnabled
         \/ \E on \in SUBSET AgentSet : UpdateConfig(on)
  PROVE  RunnerTyped' /\ ExecsTyped' /\ NoNewFlight
<1>0. /\ due \in [AgentSet -> -1..Interval]
      /\ MaxRunners \in Nat /\ MaxEvents \in Nat /\ Interval \in Nat
  BY Bounds DEF RunnerTyped
<1>1. CASE Start
  <2>1. due' \in [AgentSet -> -1..Interval] /\ rest' \in [AgentSet -> 0..Interval]
    BY <1>0, <1>1 DEF Start
  <2>2. timer' \in -1..Interval
    BY <1>1, <2>1, NextTimerIs DEF Start
  <2>3. started' \in 0..MaxRunners /\ overlaps' \in 0..started' /\ cool' \in 0..Retry
    BY <1>0, <1>1, LongestIs DEF Start, RunnerTyped
  <2>4. execs' = execs
    BY <1>1 DEF Start
  <2>5. ExecsTyped' /\ NoNewFlight
    BY <2>4 DEF ExecsTyped, NoNewFlight
  <2> QED BY <1>1, <2>1, <2>2, <2>3, <2>5 DEF Start, RunnerTyped
<1>2. CASE Stop
  <2> PICK y : y = Staled
    OBVIOUS
  <2>1. /\ live' = FALSE
        /\ due' = [a \in AgentSet |-> -1]
        /\ attempted' = {}
        /\ timer' = -1
        /\ execs' = [s \in Slots |-> IF execs[s] = NoExec THEN NoExec
                                     ELSE [y[s] EXCEPT !.stopped = TRUE]]
        /\ UNCHANGED <<started, enabled, asks, events, history>>
    BY <1>2 DEF Stop
  <2>2. ASSUME NEW s \in Slots
        PROVE  /\ execs'[s] \in ExecRecord /\ ExecTyped(execs'[s])
               /\ execs'[s] # NoExec => execs[s] # NoExec
    <3> PICK z : z = y[s]
      OBVIOUS
    <3>1. z \in ExecRecord /\ ExecTyped(z)
      BY StaledIs
    <3>2. [z EXCEPT !.stopped = TRUE] \in ExecRecord /\ ExecTyped([z EXCEPT !.stopped = TRUE])
      BY <3>1 DEF ExecRecord, ExecTyped, InCall
    <3>3. \/ execs'[s] = NoExec /\ execs[s] = NoExec
          \/ execs'[s] = [z EXCEPT !.stopped = TRUE] /\ execs[s] # NoExec
      BY <2>1
    <3> QED BY <3>2, <3>3, NoExecIs
  <2>3. execs' \in [Slots -> ExecRecord]
    BY <2>1, <2>2
  <2>4. ExecsTyped' /\ NoNewFlight
    BY <2>2, <2>3 DEF ExecsTyped, NoNewFlight
  <2>5. due' \in [AgentSet -> -1..Interval] /\ timer' \in -1..Interval /\ attempted' \subseteq AgentSet
    BY <1>0, <2>1
  <2> QED BY <2>1, <2>4, <2>5 DEF RunnerTyped, history
<1>3. CASE SetHeartbeatsEnabled
  <2>1. events' \in 0..MaxEvents /\ enabled' \in BOOLEAN
    BY <1>0, <1>3 DEF SetHeartbeatsEnabled, RunnerTyped
  <2>2. UNCHANGED <<wake, started, live, due, attempted, timer, execs, asks, history>>
    BY <1>3 DEF SetHeartbeatsEnabled
  <2> QED BY <2>1, <2>2 DEF RunnerTyped, history, ExecsTyped, NoNewFlight
<1>4. ASSUME NEW on \in SUBSET AgentSet, UpdateConfig(on)
      PROVE  RunnerTyped' /\ ExecsTyped' /\ NoNewFlight
  <2>1. /\ events < MaxEvents /\ events' = events + 1
        /\ due' = [a \in AgentSet |->
               IF a \notin on THEN -1
               ELSE IF a \in attempted \/ due[a] > 0 THEN due[a] ELSE Interval]
        /\ attempted' = attempted \cap on
        /\ timer' = NextTimer(due')
        /\ execs' = Staled
        /\ rest' = IF execs' # execs THEN [a \in AgentSet |-> 0] ELSE rest
        /\ UNCHANGED <<wake, started, live, enabled, asks, owed, overlaps, cool>>
    BY <1>4 DEF UpdateConfig
  <2>2. due' \in [AgentSet -> -1..Interval]
    BY <1>0, <2>1
  <2>3. timer' \in -1..Interval
    BY <2>1, <2>2, NextTimerIs
  <2>4. ExecsTyped' /\ NoNewFlight
    BY <2>1, StaledIs DEF ExecsTyped, NoNewFlight
  <2>5. events' \in 0..MaxEvents /\ attempted' \subseteq AgentSet /\ rest' \in [AgentSet -> 0..Interval]
    BY <1>0, <2>1 DEF RunnerTyped
  <2> QED BY <2>1, <2>2, <2>3, <2>4, <2>5 DEF RunnerTyped
<1> QED BY <1>1, <1>2, <1>3, <1>4

\* Requests, and the passing of time.
LEMMA RequestStep ==
  ASSUME RunnerTyped, ExecsTyped,
         IntervalElapsed \/ Tick \/ \E w \in Wishes : Ask(w[1], w[2])
  PROVE  RunnerTyped' /\ ExecsTyped' /\ NoNewFlight
<1>0. MaxAsks \in Nat /\ Interval \in Nat /\ Retry \in Nat
  BY Bounds, LongestIs
<1>1. ASSUME NEW w \in Wishes, Ask(w[1], w[2]) PROVE RunnerTyped' /\ ExecsTyped' /\ NoNewFlight
  <2>1. w[1] \in Targets
    BY RunnerAssumption
  <2>2. /\ asks' \in 0..MaxAsks
        /\ owed' = owed \cup {w[1]}
        /\ UNCHANGED <<started, live, due, attempted, timer, enabled, execs, events, rest,
                       overlaps, cool>>
    BY <1>0, <1>1 DEF Ask, Request, RunnerTyped
  <2> QED BY <2>1, <2>2 DEF RunnerTyped, ExecsTyped, NoNewFlight
<1>2. CASE IntervalElapsed
  <2>1. "all" \in Targets
    BY RunnerAssumption
  <2>2. /\ timer' = -1
        /\ owed' = owed \cup {"all"}
        /\ UNCHANGED <<started, live, due, attempted, enabled, execs, asks, events, rest,
                       overlaps, cool>>
    BY <1>2 DEF IntervalElapsed, Request
  <2>3. timer' \in -1..Interval
    BY <1>0, <2>2
  <2> QED BY <2>1, <2>2, <2>3 DEF RunnerTyped, ExecsTyped, NoNewFlight
<1>3. CASE Tick
  <2>1. /\ due' = [a \in AgentSet |-> Down(due[a])]
        /\ timer' = Down(timer)
        /\ execs' = [s \in Slots |-> IF execs[s].pc = "await" /\ ~execs[s].stale /\ execs[s].age < Interval
                               THEN [execs[s] EXCEPT !.age = @ + 1] ELSE execs[s]]
        /\ rest' = [a \in AgentSet |-> Down(rest[a])]
        /\ cool' = Down(cool)
        /\ UNCHANGED <<started, live, attempted, enabled, asks, events, owed, overlaps>>
    BY <1>3 DEF Tick
  <2>2. /\ \A n \in -1..Interval : Down(n) \in -1..Interval
        /\ \A n \in 0..Interval : Down(n) \in 0..Interval
        /\ \A n \in 0..Retry : Down(n) \in 0..Retry
    BY <1>0, DownIs
  <2>3. due' \in [AgentSet -> -1..Interval] /\ rest' \in [AgentSet -> 0..Interval]
    BY <2>1, <2>2 DEF RunnerTyped
  <2>4. timer' \in -1..Interval /\ cool' \in 0..Retry
    BY <2>1, <2>2 DEF RunnerTyped
  <2>5. ASSUME NEW s \in Slots
        PROVE  /\ execs'[s] \in ExecRecord /\ ExecTyped(execs'[s])
               /\ execs'[s] # NoExec => execs[s] # NoExec
    <3> PICK x : x = execs[s]
      OBVIOUS
    <3>1. x \in ExecRecord /\ ExecTyped(x)
      BY DEF ExecsTyped
    <3>2. CASE x.pc = "await" /\ ~x.stale /\ x.age < Interval
      <4>1. x.age + 1 \in 0..Interval
        BY <1>0, <3>1, <3>2 DEF ExecRecord
      <4>2. execs'[s] = [x EXCEPT !.age = x.age + 1]
        BY <2>1, <3>2
      <4>3. execs'[s] \in ExecRecord /\ ExecTyped(execs'[s])
        BY <3>1, <4>1, <4>2 DEF ExecRecord, ExecTyped, InCall
      <4> QED BY <3>2, <4>3, NoExecIs
    <3>3. CASE ~(x.pc = "await" /\ ~x.stale /\ x.age < Interval)
      <4>1. execs'[s] = x
        BY <2>1, <3>3
      <4> QED BY <3>1, <4>1
    <3> QED BY <3>2, <3>3
  <2>6. execs' \in [Slots -> ExecRecord]
    BY <2>1, <2>5
  <2>7. ExecsTyped' /\ NoNewFlight
    BY <2>5, <2>6 DEF ExecsTyped, NoNewFlight
  <2> QED BY <2>1, <2>3, <2>4, <2>7 DEF RunnerTyped
<1> QED BY <1>1, <1>2, <1>3

-----------------------------------------------------------------------------
(***************************************************************************)
(* The wake queue in every step, the number of executions and the          *)
(* cooldown.                                                               *)
(***************************************************************************)

\* What a step does to the flag of a running batch and to the timer.
SameBatch == wake'.running = wake.running
TimerKept == wake'.timer = wake.timer \/ wake.timer.kind # "retry"

\* The batches and the cooldown, in a step that does not begin a batch.
LEMMA QuietWake ==
  ASSUME HeartbeatInv, NoNewFlight, wake' = wake, overlaps' = overlaps, cool' = cool
  PROVE  WakeTyped(wake') /\ FewFlights' /\ CooldownHeld'
<1>1. Side' = Side /\ Side \in {0, 1} /\ overlaps \in Int
  BY Bounds DEF Side, HeartbeatInv, RunnerTyped
<1>2. FewFlights'
  BY <1>1, FlightsNotMore, FlightsCounted DEF HeartbeatInv, FewFlights
<1> QED BY <1>2 DEF HeartbeatInv, CooldownHeld

\* As many executions, the flag as it was, and the cooldown's timer kept.
LEMMA KeptWake ==
  ASSUME HeartbeatInv, NoNewFlight, WakeTyped(wake'), SameBatch, TimerKept,
         overlaps' = overlaps, cool' = cool
  PROVE  FewFlights' /\ CooldownHeld'
<1>1. Side' = Side /\ Side \in {0, 1} /\ overlaps \in Int
  BY Bounds DEF Side, SameBatch, HeartbeatInv, RunnerTyped
<1>2. FewFlights'
  BY <1>1, FlightsNotMore, FlightsCounted DEF HeartbeatInv, FewFlights
<1> QED BY <1>2 DEF HeartbeatInv, CooldownHeld, TimerKept

\* The steps of the wake queue itself.
LEMMA FireStep ==
  ASSUME HeartbeatInv, FireWake
  PROVE  /\ RunnerTyped' /\ ExecsTyped'
         /\ WakeTyped(wake') /\ FewFlights' /\ CooldownHeld'
         /\ cool = 0
         /\ UNCHANGED <<runnerVars, rest, overlaps>>
         /\ \A r \in Slots :
              execs'[r] = execs[r] \/ (execs[r] = NoExec /\ execs'[r].pc = "next")
<1>0. WakeTyped(wake) /\ RunnerTyped /\ ExecsTyped /\ FewFlights /\ CooldownHeld
  BY DEF HeartbeatInv
<1>1. /\ WakeDue
      /\ wake' = Fire(wake)
      /\ execs' = IF TakesBatch(wake) THEN Taken(wake) ELSE execs
      /\ UNCHANGED <<runnerVars, asks, events, owed, rest, overlaps, cool>>
  BY DEF FireWake
<1>2. cool = 0
  <2>1. wake.timer.left = 0 /\ cool \in 0..Retry /\ Retry \in Nat
    BY <1>0, <1>1, LongestIs DEF WakeDue, RunnerTyped
  <2> QED BY <1>0, <2>1 DEF CooldownHeld
<1>3. CooldownHeld'
  BY <1>1, <1>2 DEF CooldownHeld
<1>4. RunnerTyped'
  BY <1>0, <1>1 DEF RunnerTyped, runnerVars
<1>5. /\ WakeTyped(wake')
      /\ wake'.running = (wake.running \/ TakesBatch(wake))
  BY <1>0, <1>1, FireIs
<1>6. overlaps' = overlaps /\ overlaps \in Nat /\ overlaps <= MaxRunners
  BY <1>0, <1>1, Bounds DEF RunnerTyped
<1>7. CASE TakesBatch(wake)
  <2>1. ~wake.running /\ wake'.running
    BY <1>5, <1>7 DEF TakesBatch
  <2>2. Side = 0 /\ Side' = 1
    BY <2>1 DEF Side
  <2>3. Cardinality(Flights) <= MaxRunners
    BY <1>0, <1>6, <2>2, FlightsCounted, Bounds DEF FewFlights
  <2>4. execs' = Taken(wake) /\ wake \in WakeRecord
    BY <1>0, <1>1, <1>7 DEF WakeTyped
  <2>5. /\ ExecsTyped'
        /\ Cardinality(Flights') \in Nat
        /\ Cardinality(Flights') = Cardinality(Flights) + 1
        /\ \A r \in Slots : execs'[r] = execs[r] \/ (execs[r] = NoExec /\ execs'[r].pc = "next")
    BY <1>0, <2>3, <2>4, FlightTaken
  <2>6. FewFlights'
    BY <1>0, <1>6, <2>2, <2>5, FlightsCounted DEF FewFlights
  <2> QED BY <1>1, <1>2, <1>3, <1>4, <1>5, <2>5, <2>6
<1>8. CASE ~TakesBatch(wake)
  <2>1. execs' = execs
    BY <1>1, <1>8
  <2>2. ExecsTyped' /\ Flights' = Flights
    BY <1>0, <2>1 DEF ExecsTyped, Flights
  <2>3. wake'.running <=> wake.running
    BY <1>5, <1>8
  <2>4. Side' = Side
    BY <2>3 DEF Side
  <2>5. FewFlights'
    BY <1>0, <1>6, <2>2, <2>4 DEF FewFlights
  <2> QED BY <1>1, <1>2, <1>3, <1>4, <1>5, <2>1, <2>2, <2>5
<1> QED BY <1>7, <1>8

\* A batch is over: the flag is cleared, and there is an execution less.
LEMMA BatchEndsWake ==
  ASSUME HeartbeatInv, NEW s \in Slots, BatchEnds(s)
  PROVE  WakeTyped(wake') /\ FewFlights' /\ CooldownHeld' /\ ~wake'.running
<1>0. WakeTyped(wake) /\ RunnerTyped /\ ExecsTyped /\ FewFlights /\ CooldownHeld
  BY DEF HeartbeatInv
<1>1. /\ execs[s].pc = "next"
      /\ wake' = FinishBatch(wake, execs[s].delay)
      /\ execs' = [execs EXCEPT ![s] = NoExec]
      /\ overlaps' = overlaps /\ cool' = cool
  BY DEF BatchEnds, history
<1>2. execs[s].delay \in 0..Longest
  BY <1>0 DEF ExecsTyped, ExecRecord
<1>3. WakeTyped(wake') /\ ~wake'.running /\ TimerKept
  BY <1>0, <1>1, <1>2, FinishBatchIs DEF TimerKept
<1>4. CooldownHeld'
  BY <1>0, <1>1, <1>3 DEF CooldownHeld, TimerKept
<1>5. Side' = 0 /\ Side \in {0, 1} /\ overlaps \in Int
  BY <1>0, <1>3, Bounds DEF Side, RunnerTyped
<1>6. /\ Cardinality(Flights') \in Nat
      /\ Cardinality(Flights') = Cardinality(Flights) - 1
  BY <1>0, <1>1, FlightOver
<1>7. FewFlights'
  BY <1>0, <1>1, <1>5, <1>6, FlightsCounted DEF FewFlights
<1> QED BY <1>3, <1>4, <1>7

\* A new runner: the batch that was running goes on, and is counted.
LEMMA StartWake ==
  ASSUME HeartbeatInv, Start
  PROVE  /\ WakeTyped(wake') /\ FewFlights' /\ CooldownHeld' /\ ~wake'.running
         /\ overlaps' = overlaps + Side
<1>0. WakeTyped(wake) /\ RunnerTyped /\ ExecsTyped /\ FewFlights
  BY DEF HeartbeatInv
<1>1. /\ started < MaxRunners
      /\ wake' = SetHandler(wake, started + 1)
      /\ overlaps' = overlaps + Side
      /\ cool' = 0
      /\ execs' = execs
  BY DEF Start, Side
<1>2. started + 1 \in 0..MaxRunners
  BY <1>0, <1>1, Bounds DEF RunnerTyped
<1>3. WakeTyped(wake') /\ ~wake'.running
  BY <1>0, <1>1, <1>2, SetHandlerIs
<1>4. Side' = 0 /\ Side \in {0, 1} /\ overlaps \in Int
  BY <1>0, <1>3, Bounds DEF Side, RunnerTyped
<1>5. Flights' = Flights
  BY <1>1 DEF Flights
<1>6. FewFlights'
  BY <1>0, <1>1, <1>4, <1>5 DEF FewFlights
<1> QED BY <1>1, <1>3, <1>6 DEF CooldownHeld

\* Requests, the disposal of a handler and time leave a running batch alone.
LEMMA AskWake ==
  ASSUME HeartbeatInv, IntervalElapsed \/ \E w \in Wishes : Ask(w[1], w[2])
  PROVE  WakeTyped(wake') /\ FewFlights' /\ CooldownHeld' /\ SameBatch
<1>0. WakeTyped(wake) /\ "all" \in Targets /\ IntervalReason \in Priorities
  BY RunnerAssumption DEF HeartbeatInv, Priorities
<1>1. /\ execs' = execs /\ overlaps' = overlaps /\ cool' = cool
      /\ \E t \in Targets, p \in Priorities, d \in 0..Longest :
           wake' = Schedule(Queue(wake, t, p), d, "normal")
  <2>1. CASE IntervalElapsed
    <3>1. 0 \in 0..Longest
      BY LongestIs
    <3>2. /\ execs' = execs /\ overlaps' = overlaps /\ cool' = cool
          /\ wake' = Schedule(Queue(wake, "all", IntervalReason), 0, "normal")
      BY <2>1 DEF IntervalElapsed, Request, RequestHeartbeatNow
    <3> QED BY <1>0, <3>1, <3>2
  <2>2. ASSUME NEW w \in Wishes, Ask(w[1], w[2])
        PROVE  /\ execs' = execs /\ overlaps' = overlaps /\ cool' = cool
               /\ \E t \in Targets, p \in Priorities, d \in 0..Longest :
                    wake' = Schedule(Queue(wake, t, p), d, "normal")
    <3>1. w[1] \in Targets /\ w[2] \in Priorities
      BY RunnerAssumption DEF Priorities
    <3>2. /\ execs' = execs /\ overlaps' = overlaps /\ cool' = cool
          /\ wake' = Schedule(Queue(wake, w[1], w[2]), Coalesce, "normal")
      BY <2>2 DEF Ask, Request, RequestHeartbeatNow
    <3> QED BY <3>1, <3>2, LongestIs
  <2> QED BY <2>1, <2>2
<1>2. PICK t \in Targets, p \in Priorities, d \in 0..Longest :
        wake' = Schedule(Queue(wake, t, p), d, "normal")
  BY <1>1
<1>3. "normal" \in Kinds
  BY DEF Kinds
<1>4. /\ WakeTyped(wake')
      /\ wake'.handler = wake.handler /\ wake'.running = wake.running
      /\ \/ wake'.timer = wake.timer
         \/ wake.timer.kind # "retry" /\ wake'.timer = [left |-> d, kind |-> "normal", delay |-> d]
  BY <1>0, <1>2, <1>3, RequestIs
<1>5. SameBatch /\ TimerKept
  BY <1>4 DEF SameBatch, TimerKept
<1>6. NoNewFlight
  BY <1>1 DEF NoNewFlight
<1> QED BY <1>1, <1>4, <1>5, <1>6, KeptWake

LEMMA StopWake ==
  ASSUME HeartbeatInv, NoNewFlight, Stop
  PROVE  WakeTyped(wake') /\ FewFlights' /\ CooldownHeld' /\ SameBatch
<1>1. /\ wake' = Dispose(wake, started)
      /\ overlaps' = overlaps /\ cool' = cool
      /\ WakeTyped(wake)
  BY DEF Stop, history, HeartbeatInv
<1>2. WakeTyped(wake') /\ SameBatch /\ TimerKept
  BY <1>1, DisposeIs DEF SameBatch, TimerKept
<1> QED BY <1>1, <1>2, KeptWake

LEMMA TickWake ==
  ASSUME HeartbeatInv, NoNewFlight, Tick
  PROVE  WakeTyped(wake') /\ FewFlights' /\ CooldownHeld' /\ SameBatch
<1>0. WakeTyped(wake) /\ RunnerTyped /\ FewFlights /\ CooldownHeld
  BY DEF HeartbeatInv
<1>1. /\ wake' = Elapse(wake)
      /\ overlaps' = overlaps /\ cool' = Down(cool)
  BY DEF Tick
<1>2. /\ WakeTyped(wake')
      /\ wake'.running = wake.running
      /\ wake'.timer.kind = wake.timer.kind
      /\ \/ wake'.timer.left = wake.timer.left
         \/ wake.timer.left > 0 /\ wake'.timer.left = wake.timer.left - 1
  BY <1>0, <1>1, ElapseIs
<1>3. Side' = Side /\ Side \in {0, 1} /\ overlaps \in Int
  BY <1>0, <1>2, Bounds DEF Side, RunnerTyped
<1>4. FewFlights'
  BY <1>0, <1>1, <1>3, FlightsNotMore, FlightsCounted DEF FewFlights
<1>5. cool \in Nat /\ wake.timer.left \in Nat
  BY <1>0, LongestIs DEF RunnerTyped, WakeTyped, WakeRecord, TimerRecord
<1>6. cool' = IF cool > 0 THEN cool - 1 ELSE cool
  BY <1>1, <1>5, DownIs
<1>7. CooldownHeld'
  BY <1>0, <1>2, <1>5, <1>6 DEF CooldownHeld
<1> QED BY <1>2, <1>4, <1>7 DEF SameBatch

\* A busy lane starts the cooldown, with the timer that holds it.
LEMMA BusyWake ==
  ASSUME HeartbeatInv, NoNewFlight, NEW s \in Slots, AgentBusy(s)
  PROVE  WakeTyped(wake') /\ FewFlights' /\ CooldownHeld' /\ SameBatch
<1> PICK w : w = Head(execs[s].batch)
  OBVIOUS
<1>0. WakeTyped(wake) /\ RunnerTyped /\ ExecsTyped /\ FewFlights /\ CooldownHeld
  BY DEF HeartbeatInv
<1>1. /\ execs[s].pc = "agents"
      /\ wake' = Schedule(Queue(wake, w.target, w.priority), Retry, "retry")
      /\ cool' = IF wake'.timer # wake.timer THEN Retry ELSE cool
      /\ overlaps' = overlaps
  BY DEF AgentBusy, AtAgent, Requeue
<1>2. execs[s].batch # <<>>
  BY <1>0, <1>1 DEF ExecsTyped, ExecTyped, InCall
<1>3. w.target \in Targets /\ w.priority \in Priorities
  BY <1>0, <1>2, BatchAt
<1>4. Retry \in 0..Longest /\ "retry" \in Kinds
  BY LongestIs DEF Kinds
<1>5. /\ WakeTyped(wake')
      /\ wake'.handler = wake.handler /\ wake'.running = wake.running
      /\ \/ wake'.timer = wake.timer
         \/ /\ wake.timer.kind # "retry"
            /\ wake'.timer = [left |-> Retry, kind |-> "retry", delay |-> Retry]
  BY <1>0, <1>1, <1>3, <1>4, RequestIs
<1>6. CooldownHeld'
  <2>1. CASE wake'.timer = wake.timer
    BY <1>0, <1>1, <2>1 DEF CooldownHeld
  <2>2. CASE wake'.timer = [left |-> Retry, kind |-> "retry", delay |-> Retry]
    <3>1. wake'.timer.kind = "retry" /\ wake'.timer.left = Retry
      BY <2>2
    <3>2. Retry \in Nat /\ (wake.timer.kind # "retry" => cool' = Retry)
      BY <1>1, <3>1, LongestIs
    <3>3. wake.timer.kind = "retry" => wake'.timer = wake.timer
      BY <1>5
    <3> QED BY <1>0, <1>1, <3>1, <3>2, <3>3 DEF CooldownHeld
  <2> QED BY <1>5, <2>1, <2>2
<1>7. Side' = Side /\ Side \in {0, 1} /\ overlaps \in Int
  BY <1>0, <1>5, Bounds DEF Side, RunnerTyped
<1>8. FewFlights'
  BY <1>0, <1>1, <1>7, FlightsNotMore, FlightsCounted DEF FewFlights
<1> QED BY <1>5, <1>6, <1>8 DEF SameBatch

-----------------------------------------------------------------------------
\* The inductive invariant but for the pace of the heartbeats, in every step; and
\* no batch begins during the cooldown.
LEMMA SafeStep ==
  ASSUME HeartbeatInv, [Next]_vars
  PROVE  /\ RunnerTyped' /\ ExecsTyped'
         /\ WakeTyped(wake') /\ FewFlights' /\ CooldownHeld'
         /\ ~wake.running /\ wake'.running => cool = 0
<1>0. RunnerTyped /\ ExecsTyped /\ WakeTyped(wake)
  BY DEF HeartbeatInv
<1>1. CASE FireWake
  BY <1>1, FireStep
<1>2. CASE Start
  BY <1>0, <1>2, StartWake, LifeStep
<1>3. CASE Stop
  BY <1>0, <1>3, LifeStep, StopWake DEF SameBatch
<1>4. CASE SetHeartbeatsEnabled \/ \E on \in SUBSET AgentSet : UpdateConfig(on)
  <2>1. RunnerTyped' /\ ExecsTyped' /\ NoNewFlight
    BY <1>0, <1>4, LifeStep
  <2>2. wake' = wake /\ overlaps' = overlaps /\ cool' = cool
    BY <1>4 DEF SetHeartbeatsEnabled, UpdateConfig, history
  <2> QED BY <2>1, <2>2, QuietWake
<1>5. CASE IntervalElapsed \/ \E w \in Wishes : Ask(w[1], w[2])
  BY <1>0, <1>5, RequestStep, AskWake DEF SameBatch
<1>6. CASE Tick
  BY <1>0, <1>6, RequestStep, TickWake DEF SameBatch
<1>7. ASSUME NEW s \in Slots, CallDropped(s) \/ CallBegins(s) \/ AgentOff(s) \/ AgentBegins(s)
      PROVE  /\ RunnerTyped' /\ ExecsTyped'
             /\ WakeTyped(wake') /\ FewFlights' /\ CooldownHeld'
             /\ ~wake.running /\ wake'.running => cool = 0
  <2>1. RunnerTyped' /\ ExecsTyped' /\ NoNewFlight
    BY <1>0, <1>7, CallStep
  <2>2. wake' = wake /\ overlaps' = overlaps /\ cool' = cool
    BY <1>7 DEF CallDropped, CallBegins, AgentOff, AgentBegins, history
  <2> QED BY <2>1, <2>2, QuietWake
<1>8. ASSUME NEW s \in Slots, AgentReturns(s) \/ CallEnds(s)
      PROVE  /\ RunnerTyped' /\ ExecsTyped'
             /\ WakeTyped(wake') /\ FewFlights' /\ CooldownHeld'
             /\ ~wake.running /\ wake'.running => cool = 0
  <2>1. RunnerTyped' /\ ExecsTyped' /\ NoNewFlight
    BY <1>0, <1>8, ReturnStep
  <2>2. wake' = wake /\ overlaps' = overlaps /\ cool' = cool
    BY <1>8 DEF AgentReturns, CallEnds, history
  <2> QED BY <2>1, <2>2, QuietWake
<1>9. ASSUME NEW s \in Slots, AgentBusy(s)
      PROVE  /\ RunnerTyped' /\ ExecsTyped'
             /\ WakeTyped(wake') /\ FewFlights' /\ CooldownHeld'
             /\ ~wake.running /\ wake'.running => cool = 0
  BY <1>0, <1>9, ReturnStep, BusyWake DEF SameBatch
<1>10. ASSUME NEW s \in Slots, BatchEnds(s)
       PROVE  /\ RunnerTyped' /\ ExecsTyped'
              /\ WakeTyped(wake') /\ FewFlights' /\ CooldownHeld'
              /\ ~wake.running /\ wake'.running => cool = 0
  BY <1>0, <1>10, ReturnStep, BatchEndsWake
<1>11. CASE UNCHANGED vars
  <2>1. /\ RunnerTyped' /\ ExecsTyped' /\ NoNewFlight
        /\ wake' = wake /\ overlaps' = overlaps /\ cool' = cool
    BY <1>0, <1>11 DEF vars, runnerVars, history, RunnerTyped, ExecsTyped, NoNewFlight
  <2> QED BY <2>1, QuietWake
<1> QED
  BY <1>1, <1>2, <1>3, <1>4, <1>5, <1>6, <1>7, <1>8, <1>9, <1>10, <1>11
     DEF Next, Callback, ExecStep

-----------------------------------------------------------------------------
(***************************************************************************)
(* The pace of the heartbeats.                                             *)
(***************************************************************************)

Pace == RestBeforeDue /\ AwaitedRests /\ AheadRested

\* The agents ahead of this call are rested, if it is an interval call.
RestedAhead(x) ==
  /\ InCall(x)
  /\ ~x.stale
  /\ Head(x.batch) = IntervalWake
  => \A i \in Ahead(x) : rest[Agents[i]] = 0

LEMMA AheadIs ==
  ASSUME NEW x \in ExecRecord, ExecTyped(x), NEW i \in Ahead(x)
  PROVE  i \in DOMAIN Agents /\ Agents[i] \in AgentSet
<1>1. x.agents \subseteq DOMAIN Agents
  BY DEF ExecRecord
<1>2. i \in DOMAIN Agents
  <2>1. CASE x.pc = "await"
    BY <1>1, <2>1, CurrentIs DEF Ahead, ExecTyped
  <2>2. CASE x.pc # "await"
    BY <1>1, <2>2 DEF Ahead
  <2> QED BY <2>1, <2>2
<1> QED BY <1>2, PlacesAre

\* With one execution at most, every other slot is free.
LEMMA OthersAreFree ==
  ASSUME HeartbeatInv, overlaps = 0, NEW s \in Slots, execs[s].pc # "free", NEW r \in Slots, r # s
  PROVE  execs[r] = NoExec
<1>1. Side \in {0, 1}
  BY DEF Side
<1>2. Cardinality(Flights) <= 1
  BY <1>1, FlightsCounted DEF HeartbeatInv, FewFlights
<1>3. s \in Flights
  BY NoExecIs DEF Flights
<1>4. r \notin Flights
  BY <1>2, <1>3, OnlyOne
<1> QED BY <1>4 DEF Flights

\* The schedule and its history stand, and no heartbeat begins or returns.
LEMMA PaceMoved ==
  ASSUME Pace, due' = due, rest' = rest,
         \A r \in Slots :
           \/ execs'[r] = execs[r]
           \/ /\ ~Awaiting(execs[r]) /\ ~Awaiting(execs'[r])
              /\ RestedAhead(execs'[r])
  PROVE  Pace'
<1>1. RestBeforeDue'
  <2> SUFFICES ASSUME NEW a \in AgentSet, ~(due[a] < 0), ~(rest[a] <= due[a])
               PROVE  \E s \in Slots : Awaiting(execs'[s]) /\ Current(execs'[s]) = a
    BY DEF RestBeforeDue
  <2>1. PICK s \in Slots : Awaiting(execs[s]) /\ Current(execs[s]) = a
    BY DEF Pace, RestBeforeDue
  <2> QED BY <2>1
<1>2. AwaitedRests'
  <2> SUFFICES ASSUME NEW s \in Slots, Awaiting(execs'[s])
               PROVE  rest[Current(execs'[s])] <= Interval - execs'[s].age
    BY DEF AwaitedRests
  <2>1. execs'[s] = execs[s]
    OBVIOUS
  <2> QED BY <2>1 DEF Pace, AwaitedRests
<1>3. AheadRested'
  <2> SUFFICES ASSUME NEW s \in Slots, InCall(execs'[s]), ~execs'[s].stale,
                      Head(execs'[s].batch) = IntervalWake, NEW i \in Ahead(execs'[s])
               PROVE  rest[Agents[i]] = 0
    BY DEF AheadRested
  <2>1. CASE execs'[s] = execs[s]
    BY <2>1 DEF Pace, AheadRested
  <2>2. CASE RestedAhead(execs'[s])
    BY <2>2 DEF RestedAhead
  <2> QED BY <2>1, <2>2
<1> QED BY <1>1, <1>2, <1>3 DEF Pace

\* The history starts anew.
LEMMA PaceAnew ==
  ASSUME RunnerTyped', ExecsTyped', rest' = [a \in AgentSet |-> 0]
  PROVE  Pace'
<1>1. RestBeforeDue'
  <2> SUFFICES ASSUME NEW a \in AgentSet PROVE due'[a] < 0 \/ rest'[a] <= due'[a]
    BY DEF RestBeforeDue
  <2>1. due'[a] \in -1..Interval /\ Interval \in Nat
    BY Bounds DEF RunnerTyped
  <2> QED BY <2>1
<1>2. AwaitedRests'
  <2> SUFFICES ASSUME NEW s \in Slots, Awaiting(execs'[s])
               PROVE  rest'[Current(execs'[s])] <= Interval - execs'[s].age
    BY DEF AwaitedRests
  <2> PICK x : x = execs'[s]
    OBVIOUS
  <2>1. x \in ExecRecord /\ ExecTyped(x)
    BY DEF ExecsTyped
  <2>2. x.agents # {} /\ x.agents \subseteq DOMAIN Agents /\ x.age \in 0..Interval
    BY <2>1 DEF Awaiting, ExecTyped, ExecRecord
  <2>3. Current(x) \in AgentSet
    BY <2>2, CurrentIs
  <2> QED BY <2>2, <2>3, Bounds
<1>3. AheadRested'
  <2> SUFFICES ASSUME NEW s \in Slots, NEW i \in Ahead(execs'[s])
               PROVE  rest'[Agents[i]] = 0
    BY DEF AheadRested
  <2>1. Agents[i] \in AgentSet
    BY AheadIs DEF ExecsTyped
  <2> QED BY <2>1
<1> QED BY <1>1, <1>2, <1>3 DEF Pace

\* A call of the handler begins with agents that are due, hence rested.
LEMMA CallPace ==
  ASSUME HeartbeatInv, overlaps = 0, Pace, NEW s \in Slots, CallBegins(s)
  PROVE  Pace'
<1> PICK x : x = execs[s]
  OBVIOUS
<1> PICK y : y = [x EXCEPT !.pc = "agents", !.agents = AgentsOf(Head(x.batch))]
  OBVIOUS
<1>0. RunnerTyped /\ ExecsTyped /\ x \in ExecRecord
  BY DEF HeartbeatInv, ExecsTyped
<1>1. /\ x.pc = "next"
      /\ execs' = [execs EXCEPT ![s] = y]
      /\ due' = due /\ rest' = rest
  BY DEF CallBegins, runnerVars
<1>2. y.pc = "agents" /\ y.batch = x.batch /\ y.agents = AgentsOf(Head(x.batch))
  BY <1>0 DEF ExecRecord
<1>3. ASSUME Head(y.batch) = IntervalWake, NEW i \in Ahead(y)
      PROVE  rest[Agents[i]] = 0
  <2>1. i \in AgentsOf(IntervalWake)
    BY <1>2, <1>3 DEF Ahead
  <2>2. i \in DOMAIN Agents /\ due[Agents[i]] = 0
    BY <2>1 DEF AgentsOf, IntervalWake
  <2>3. Agents[i] \in AgentSet
    BY <2>2, PlacesAre
  <2>4. \A r \in Slots : ~Awaiting(execs[r])
    BY <1>1, OthersAreFree, NoExecIs DEF Awaiting
  <2>5. rest[Agents[i]] <= 0
    BY <2>2, <2>3, <2>4 DEF Pace, RestBeforeDue
  <2>6. rest[Agents[i]] \in 0..Interval
    BY <1>0, <2>3 DEF RunnerTyped
  <2> QED BY <2>5, <2>6, Bounds
<1>4. RestedAhead(y)
  BY <1>3 DEF RestedAhead
<1>5. execs'[s] = y /\ \A r \in Slots : r # s => execs'[r] = execs[r]
  BY <1>0, <1>1 DEF ExecsTyped
<1>6. ~Awaiting(x) /\ ~Awaiting(y)
  BY <1>1, <1>2 DEF Awaiting
<1> QED BY <1>1, <1>4, <1>5, <1>6, PaceMoved

\* The steps that end something, or skip an agent.
LEMMA EndPace ==
  ASSUME HeartbeatInv, overlaps = 0, Pace, NEW s \in Slots,
         CallDropped(s) \/ AgentOff(s) \/ CallEnds(s) \/ BatchEnds(s)
  PROVE  Pace'
<1> PICK x : x = execs[s]
  OBVIOUS
<1>0. RunnerTyped /\ ExecsTyped /\ x \in ExecRecord /\ ExecTyped(x)
  BY DEF HeartbeatInv, ExecsTyped
<1>1. /\ x.pc # "await"
      /\ due' = due /\ rest' = rest
  BY DEF CallDropped, AgentOff, AtAgent, CallEnds, BatchEnds, runnerVars, history
<1>2. \E y : execs' = [execs EXCEPT ![s] = y] /\ y.pc # "await" /\ RestedAhead(y)
  <2>1. CASE CallDropped(s) \/ CallEnds(s)
    <3>1. x.batch # <<>> /\ execs' = [execs EXCEPT ![s] = Called(x)]
      BY <1>0, <2>1 DEF CallDropped, CallEnds, ExecTyped, InCall
    <3>2. Called(x).pc = "next"
      BY <1>0, <3>1, CalledIs
    <3>3. RestedAhead(Called(x))
      BY <3>2 DEF RestedAhead, InCall
    <3> QED BY <3>1, <3>2, <3>3
  <2>2. CASE AgentOff(s)
    <3>y. PICK y : y = [x EXCEPT !.agents = Others(x)]
      OBVIOUS
    <3>1. x.pc = "agents" /\ x.agents # {} /\ execs' = [execs EXCEPT ![s] = y]
      BY <2>2, <3>y DEF AgentOff, AtAgent
    <3>2. /\ y.pc = "agents" /\ y.batch = x.batch /\ y.agents = Others(x)
          /\ y.stale = x.stale
      BY <1>0, <3>1, <3>y DEF ExecRecord
    <3>3. Ahead(y) \subseteq Ahead(x)
      BY <3>1, <3>2, AgentAt, <1>0 DEF Ahead
    <3>4. RestedAhead(x)
      BY DEF Pace, AheadRested, RestedAhead
    <3>5. RestedAhead(y)
      BY <3>1, <3>2, <3>3, <3>4 DEF RestedAhead, InCall
    <3> QED BY <3>1, <3>2, <3>5
  <2>3. CASE BatchEnds(s)
    <3>1. execs' = [execs EXCEPT ![s] = NoExec]
      BY <2>3 DEF BatchEnds
    <3> QED BY <3>1, NoExecIs DEF RestedAhead, InCall
  <2> QED BY <2>1, <2>2, <2>3
<1>3. PICK y : execs' = [execs EXCEPT ![s] = y] /\ y.pc # "await" /\ RestedAhead(y)
  BY <1>2
<1>5. execs'[s] = y /\ \A r \in Slots : r # s => execs'[r] = execs[r]
  BY <1>0, <1>3 DEF ExecsTyped
<1>6. ~Awaiting(x) /\ ~Awaiting(y)
  BY <1>1, <1>3 DEF Awaiting
<1> QED BY <1>1, <1>3, <1>5, <1>6, PaceMoved

\* A heartbeat begins: its agent rests from now, and is due when it returns.
LEMMA BeginPace ==
  ASSUME HeartbeatInv, overlaps = 0, Pace, NEW s \in Slots, AgentBegins(s)
  PROVE  Pace'
<1> PICK x : x = execs[s]
  OBVIOUS
<1>y. PICK y : y = [x EXCEPT !.pc = "await"]
  OBVIOUS
<1> PICK a : a = Current(x)
  OBVIOUS
<1>0. RunnerTyped /\ ExecsTyped /\ x \in ExecRecord /\ ExecTyped(x)
  BY DEF HeartbeatInv, ExecsTyped
<1>1. /\ x.pc = "agents" /\ x.agents # {}
      /\ execs' = [execs EXCEPT ![s] = y]
      /\ rest' = Rested(x, a)
      /\ due' = due
  BY <1>y DEF AgentBegins, AtAgent, runnerVars
<1>2. /\ y.pc = "await" /\ y.batch = x.batch /\ y.agents = x.agents
      /\ y.stale = x.stale /\ y.age = x.age
  BY <1>0, <1>y DEF ExecRecord
<1>3. execs'[s] = y /\ \A r \in Slots : r # s => execs'[r] = execs[r]
  BY <1>0, <1>1 DEF ExecsTyped
<1>4. CASE x.stale
  <2>1. rest' = rest
    BY <1>0, <1>1, <1>4, AgentAt, RestedIs
  <2>2. ~Awaiting(x) /\ ~Awaiting(y) /\ RestedAhead(y)
    BY <1>1, <1>2, <1>4 DEF Awaiting, RestedAhead
  <2> QED BY <1>1, <1>3, <2>1, <2>2, PaceMoved
<1>5. CASE ~x.stale
  <2>1. /\ a \in AgentSet
        /\ \A i \in Others(x) : i \in x.agents /\ Agents[i] # a /\ Agents[i] \in AgentSet
    BY <1>0, <1>1, AgentAt, PlacesAre DEF ExecRecord
  <2>2. /\ \A b \in AgentSet : b # a => rest'[b] = rest[b]
        /\ rest'[a] = Interval - x.age
    BY <1>0, <1>1, <1>5, <2>1, RestedIs
  <2>3. Awaiting(y) /\ Current(y) = a /\ Others(y) = Others(x)
    BY <1>2, <1>5 DEF Awaiting, Current, Others
  <2>4. \A r \in Slots : r # s => execs[r] = NoExec
    BY <1>1, OthersAreFree
  <2>5. \A r \in Slots : ~Awaiting(execs[r])
    BY <1>1, <2>4, NoExecIs DEF Awaiting
  <2>6. RestBeforeDue'
    <3> SUFFICES ASSUME NEW b \in AgentSet
                 PROVE  \/ due[b] < 0
                        \/ rest'[b] <= due[b]
                        \/ \E r \in Slots : Awaiting(execs'[r]) /\ Current(execs'[r]) = b
      BY <1>1 DEF RestBeforeDue
    <3>1. CASE b = a
      BY <1>3, <2>3, <3>1
    <3>2. CASE b # a
      BY <2>2, <2>5, <3>2 DEF Pace, RestBeforeDue
    <3> QED BY <3>1, <3>2
  <2>7. AwaitedRests'
    <3> SUFFICES ASSUME NEW r \in Slots, Awaiting(execs'[r])
                 PROVE  rest'[Current(execs'[r])] <= Interval - execs'[r].age
      BY DEF AwaitedRests
    <3>1. r = s
      BY <1>3, <2>5
    <3>2. x.age \in 0..Interval /\ Interval \in Nat
      BY <1>0, RemainingIs, Bounds
    <3> QED BY <1>2, <1>3, <2>2, <2>3, <3>1, <3>2
  <2>8. AheadRested'
    <3> SUFFICES ASSUME NEW r \in Slots, InCall(execs'[r]), ~execs'[r].stale,
                        Head(execs'[r].batch) = IntervalWake, NEW i \in Ahead(execs'[r])
                 PROVE  rest'[Agents[i]] = 0
      BY DEF AheadRested
    <3>1. r = s
      BY <1>3, <2>4, NoExecIs DEF InCall
    <3>2. i \in Others(x) /\ Head(x.batch) = IntervalWake
      BY <1>2, <1>3, <2>3, <3>1 DEF Ahead
    <3>3. rest[Agents[i]] = 0
      BY <1>1, <1>5, <2>1, <3>2 DEF Pace, AheadRested, InCall, Ahead
    <3> QED BY <2>1, <2>2, <3>2, <3>3
  <2> QED BY <2>6, <2>7, <2>8 DEF Pace
<1> QED BY <1>4, <1>5

\* A busy lane: the agent rests, and is due when it has rested.
LEMMA BusyPace ==
  ASSUME HeartbeatInv, overlaps = 0, Pace, NEW s \in Slots, AgentBusy(s)
  PROVE  Pace'
<1> PICK x : x = execs[s]
  OBVIOUS
<1> PICK a : a = Current(x)
  OBVIOUS
<1>0. RunnerTyped /\ ExecsTyped /\ x \in ExecRecord /\ ExecTyped(x)
  BY DEF HeartbeatInv, ExecsTyped
<1>1. /\ x.pc = "agents" /\ x.agents # {}
      /\ execs' = [execs EXCEPT ![s] = Called(x)]
      /\ rest' = Rested(x, a)
      /\ due' = Advance(x, a)
  BY DEF AgentBusy, AtAgent
<1>2. Called(x).pc = "next"
  BY <1>0, <1>1, CalledIs DEF ExecTyped, InCall
<1>3. execs'[s] = Called(x) /\ \A r \in Slots : r # s => execs'[r] = execs[r]
  BY <1>0, <1>1 DEF ExecsTyped
<1>4. a \in AgentSet
  BY <1>0, <1>1, AgentAt
<1>5. \A r \in Slots : r # s => execs[r] = NoExec
  BY <1>1, OthersAreFree
<1>6. \A r \in Slots : ~Awaiting(execs[r]) /\ ~InCall(execs'[r]) /\ ~Awaiting(execs'[r])
  BY <1>1, <1>2, <1>3, <1>5, NoExecIs DEF Awaiting, InCall
<1>7. RestBeforeDue'
  <2> SUFFICES ASSUME NEW b \in AgentSet
               PROVE  due'[b] < 0 \/ rest'[b] <= due'[b]
    BY DEF RestBeforeDue
  <2>0. due[b] < 0 \/ rest[b] <= due[b]
    BY <1>6 DEF Pace, RestBeforeDue
  <2>1. CASE b # a \/ x.stale
    <3>1. due'[b] = due[b] /\ rest'[b] = rest[b]
      BY <1>0, <1>1, <1>4, <2>1, AdvanceIs, RestedIs
    <3> QED BY <2>0, <3>1
  <2>2. CASE b = a /\ ~x.stale /\ due[a] < 0
    <3>1. due'[b] = due[b]
      BY <1>0, <1>1, <1>4, <2>2, AdvanceIs
    <3> QED BY <2>2, <3>1
  <2>3. CASE b = a /\ ~x.stale /\ ~(due[a] < 0)
    <3>1. due[a] \in -1..Interval /\ Interval \in Nat
      BY <1>0, <1>4, Bounds DEF RunnerTyped
    <3>2. due'[b] = Interval - x.age
      BY <1>0, <1>1, <1>4, <2>3, <3>1, AdvanceIs
    <3>3. rest'[b] = Interval - x.age
      BY <1>0, <1>1, <1>4, <2>3, RestedIs
    <3>4. x.age \in 0..Interval
      BY <1>0, RemainingIs
    <3> QED BY <3>1, <3>2, <3>3, <3>4
  <2> QED BY <2>1, <2>2, <2>3
<1>8. AwaitedRests'
  BY <1>6 DEF AwaitedRests
<1>9. AheadRested'
  BY <1>6 DEF AheadRested
<1> QED BY <1>7, <1>8, <1>9 DEF Pace

\* A heartbeat returns: its agent is due when it has rested since the call began.
LEMMA ReturnPace ==
  ASSUME HeartbeatInv, overlaps = 0, Pace, NEW s \in Slots, AgentReturns(s)
  PROVE  Pace'
<1> PICK x : x = execs[s]
  OBVIOUS
<1>y. PICK y : y = [x EXCEPT !.pc = "agents", !.agents = Others(x)]
  OBVIOUS
<1> PICK a : a = Current(x)
  OBVIOUS
<1>0. RunnerTyped /\ ExecsTyped /\ x \in ExecRecord /\ ExecTyped(x)
  BY DEF HeartbeatInv, ExecsTyped
<1>1. /\ x.pc = "await"
      /\ execs' = [execs EXCEPT ![s] = y]
      /\ due' = Advance(x, a)
      /\ rest' = rest
  BY <1>0, <1>y DEF AgentReturns, history, ExecsTyped
<1>2. /\ y.pc = "agents" /\ y.batch = x.batch /\ y.agents = Others(x)
      /\ y.stale = x.stale
  BY <1>0, <1>y DEF ExecRecord
<1>3. execs'[s] = y /\ \A r \in Slots : r # s => execs'[r] = execs[r]
  BY <1>0, <1>1 DEF ExecsTyped
<1>4. a \in AgentSet
  BY <1>0, <1>1, AgentAt DEF ExecTyped
<1>5. \A r \in Slots : r # s => execs[r] = NoExec
  BY <1>1, OthersAreFree
<1>6. \A r \in Slots : r # s => ~Awaiting(execs[r]) /\ ~InCall(execs[r])
  BY <1>5, NoExecIs DEF Awaiting, InCall
<1>7. RestBeforeDue'
  <2> SUFFICES ASSUME NEW b \in AgentSet
               PROVE  due'[b] < 0 \/ rest'[b] <= due'[b]
    BY DEF RestBeforeDue
  <2>1. CASE b # a \/ x.stale
    <3>1. due'[b] = due[b] /\ rest'[b] = rest[b]
      BY <1>0, <1>1, <1>4, <2>1, AdvanceIs
    <3>2. \A r \in Slots : ~(Awaiting(execs[r]) /\ Current(execs[r]) = b)
      BY <1>6, <2>1 DEF Awaiting
    <3>3. due[b] < 0 \/ rest[b] <= due[b]
      BY <3>2 DEF Pace, RestBeforeDue
    <3> QED BY <3>1, <3>3
  <2>2. CASE b = a /\ ~x.stale /\ due[a] < 0
    <3>1. due'[b] = due[b]
      BY <1>0, <1>1, <1>4, <2>2, AdvanceIs
    <3> QED BY <2>2, <3>1
  <2>3. CASE b = a /\ ~x.stale /\ ~(due[a] < 0)
    <3>1. due[a] \in -1..Interval /\ Interval \in Nat
      BY <1>0, <1>4, Bounds DEF RunnerTyped
    <3>2. due'[b] = Interval - x.age
      BY <1>0, <1>1, <1>4, <2>3, <3>1, AdvanceIs
    <3>3. rest[a] <= Interval - x.age
      BY <1>1, <2>3 DEF Pace, AwaitedRests, Awaiting
    <3> QED BY <1>1, <2>3, <3>2, <3>3
  <2> QED BY <2>1, <2>2, <2>3
<1>8. \A r \in Slots : ~Awaiting(execs'[r])
  BY <1>2, <1>3, <1>6 DEF Awaiting
<1>9. AwaitedRests'
  BY <1>8 DEF AwaitedRests
<1>10. AheadRested'
  <2> SUFFICES ASSUME NEW r \in Slots, InCall(execs'[r]), ~execs'[r].stale,
                      Head(execs'[r].batch) = IntervalWake, NEW i \in Ahead(execs'[r])
               PROVE  rest[Agents[i]] = 0
    BY <1>1 DEF AheadRested
  <2>1. r = s
    BY <1>3, <1>6
  <2>2. i \in Ahead(x) /\ InCall(x) /\ ~x.stale /\ Head(x.batch) = IntervalWake
    BY <1>1, <1>2, <1>3, <2>1 DEF Ahead, InCall
  <2> QED BY <2>2 DEF Pace, AheadRested
<1> QED BY <1>7, <1>9, <1>10 DEF Pace

\* A tick: what is left of the rests, of the schedule and of the interval since a
\* call began all shrink by it.
LEMMA TickPace ==
  ASSUME HeartbeatInv, Pace, ExecsTyped', Tick
  PROVE  Pace'
<1>0. RunnerTyped /\ ExecsTyped /\ Interval \in Nat
  BY Bounds DEF HeartbeatInv
<1>1. /\ due' = [a \in AgentSet |-> Down(due[a])]
      /\ rest' = [a \in AgentSet |-> Down(rest[a])]
      /\ execs' = [s \in Slots |-> IF execs[s].pc = "await" /\ ~execs[s].stale /\ execs[s].age < Interval
                               THEN [execs[s] EXCEPT !.age = @ + 1] ELSE execs[s]]
  BY DEF Tick
<1>2. ASSUME NEW a \in AgentSet
      PROVE  /\ due[a] \in Int /\ rest[a] \in Nat
             /\ due'[a] = IF due[a] > 0 THEN due[a] - 1 ELSE due[a]
             /\ rest'[a] = IF rest[a] > 0 THEN rest[a] - 1 ELSE rest[a]
  <2>1. due[a] \in -1..Interval /\ rest[a] \in 0..Interval
    BY <1>0 DEF RunnerTyped
  <2> QED BY <1>0, <1>1, <2>1, DownIs
<1>3. ASSUME NEW s \in Slots
      PROVE  /\ execs'[s].pc = execs[s].pc /\ execs'[s].stale = execs[s].stale
             /\ execs'[s].batch = execs[s].batch /\ execs'[s].agents = execs[s].agents
             /\ Awaiting(execs[s]) => \/ execs'[s].age = execs[s].age + 1
                                      \/ execs'[s].age = Interval /\ execs[s].age = Interval
  <2> PICK x : x = execs[s]
    OBVIOUS
  <2>1. x \in ExecRecord
    BY <1>0 DEF ExecsTyped
  <2>2. CASE x.pc = "await" /\ ~x.stale /\ x.age < Interval
    <3>1. execs'[s] = [x EXCEPT !.age = x.age + 1]
      BY <1>1, <2>2
    <3> QED BY <2>1, <3>1 DEF ExecRecord
  <2>3. CASE ~(x.pc = "await" /\ ~x.stale /\ x.age < Interval)
    <3>1. execs'[s] = x
      BY <1>1, <2>3
    <3>2. x.age \in 0..Interval
      BY <2>1, RemainingIs
    <3> QED BY <1>0, <2>3, <3>1, <3>2 DEF Awaiting
  <2> QED BY <2>2, <2>3
<1>4. \A s \in Slots : /\ Awaiting(execs'[s]) <=> Awaiting(execs[s])
                       /\ InCall(execs'[s]) <=> InCall(execs[s])
                       /\ Current(execs'[s]) = Current(execs[s])
                       /\ Ahead(execs'[s]) = Ahead(execs[s])
  BY <1>3 DEF Awaiting, InCall, Current, Ahead, Others
<1>5. RestBeforeDue'
  <2> SUFFICES ASSUME NEW a \in AgentSet
               PROVE  \/ due'[a] < 0
                      \/ rest'[a] <= due'[a]
                      \/ \E s \in Slots : Awaiting(execs'[s]) /\ Current(execs'[s]) = a
    BY DEF RestBeforeDue
  <2>1. \/ due[a] < 0 \/ rest[a] <= due[a]
        \/ \E s \in Slots : Awaiting(execs[s]) /\ Current(execs[s]) = a
    BY DEF Pace, RestBeforeDue
  <2>2. CASE due[a] < 0 \/ rest[a] <= due[a]
    BY <1>2, <2>2
  <2>3. CASE \E s \in Slots : Awaiting(execs[s]) /\ Current(execs[s]) = a
    BY <1>4, <2>3
  <2> QED BY <2>1, <2>2, <2>3
<1>6. AwaitedRests'
  <2> SUFFICES ASSUME NEW s \in Slots, Awaiting(execs'[s])
               PROVE  rest'[Current(execs'[s])] <= Interval - execs'[s].age
    BY DEF AwaitedRests
  <2> PICK x : x = execs[s]
    OBVIOUS
  <2>1. x \in ExecRecord /\ ExecTyped(x) /\ Awaiting(x)
    BY <1>0, <1>4 DEF ExecsTyped
  <2>2. x.agents # {} /\ x.agents \subseteq DOMAIN Agents
    BY <2>1 DEF Awaiting, ExecTyped, ExecRecord
  <2>3. Current(x) \in AgentSet
    BY <2>2, CurrentIs
  <2>4. rest[Current(x)] <= Interval - x.age
    BY <2>1 DEF Pace, AwaitedRests
  <2>5. x.age \in 0..Interval
    BY <2>1, RemainingIs
  <2>6. execs'[s].age = x.age + 1 \/ (execs'[s].age = Interval /\ x.age = Interval)
    BY <1>3, <2>1
  <2>7. execs'[s].age \in 0..Interval
    BY RemainingIs DEF ExecsTyped
  <2>8. rest'[Current(x)] <= Interval - execs'[s].age
    BY <1>0, <1>2, <2>3, <2>4, <2>5, <2>6, <2>7
  <2> QED BY <1>4, <2>8
<1>7. AheadRested'
  <2> SUFFICES ASSUME NEW s \in Slots, InCall(execs'[s]), ~execs'[s].stale,
                      Head(execs'[s].batch) = IntervalWake, NEW i \in Ahead(execs'[s])
               PROVE  rest'[Agents[i]] = 0
    BY DEF AheadRested
  <2>1. InCall(execs[s]) /\ ~execs[s].stale /\ Head(execs[s].batch) = IntervalWake /\ i \in Ahead(execs[s])
    BY <1>3, <1>4
  <2>2. rest[Agents[i]] = 0
    BY <2>1 DEF Pace, AheadRested
  <2>3. Agents[i] \in AgentSet
    BY <1>0, <2>1, AheadIs DEF ExecsTyped
  <2> QED BY <1>2, <2>2, <2>3
<1> QED BY <1>5, <1>6, <1>7 DEF Pace

\* A runner that stops has no agents, and a call under way is not its own any more.
LEMMA StopPace ==
  ASSUME HeartbeatInv, ExecsTyped', Stop
  PROVE  Pace'
<1> PICK y : y = Staled
  OBVIOUS
<1>0. ExecsTyped
  BY DEF HeartbeatInv
<1>1. /\ due' = [a \in AgentSet |-> -1]
      /\ execs' = [s \in Slots |-> IF execs[s] = NoExec THEN NoExec
                                   ELSE [y[s] EXCEPT !.stopped = TRUE]]
  BY DEF Stop
<1>2. ASSUME NEW s \in Slots, InCall(execs'[s]) PROVE execs'[s].stale
  <2>1. execs[s] # NoExec /\ execs'[s] = [y[s] EXCEPT !.stopped = TRUE]
    BY <1>1, <1>2, NoExecIs DEF InCall
  <2>2. /\ y[s] \in ExecRecord
        /\ y[s].pc = execs[s].pc
        /\ InCall(execs[s]) => y[s].stale
    BY <1>0, StaledIs
  <2>3. execs'[s].pc = y[s].pc /\ execs'[s].stale = y[s].stale
    BY <2>1, <2>2 DEF ExecRecord
  <2>4. InCall(execs[s])
    BY <1>2, <2>2, <2>3 DEF InCall
  <2> QED BY <2>2, <2>3, <2>4
<1>3. \A s \in Slots : ~Awaiting(execs'[s])
  BY <1>2 DEF Awaiting, InCall
<1>4. RestBeforeDue'
  BY <1>1 DEF RestBeforeDue
<1>5. AwaitedRests' /\ AheadRested'
  BY <1>2, <1>3 DEF AwaitedRests, AheadRested
<1> QED BY <1>4, <1>5 DEF Pace

\* A config update during a call starts the history anew; else it puts nobody off
\* to an earlier time.
LEMMA UpdatePace ==
  ASSUME HeartbeatInv, Pace, RunnerTyped', ExecsTyped', NEW on \in SUBSET AgentSet,
         UpdateConfig(on)
  PROVE  Pace'
<1>0. ExecsTyped /\ RunnerTyped
  BY DEF HeartbeatInv
<1>1. /\ due' = [a \in AgentSet |->
               IF a \notin on THEN -1
               ELSE IF a \in attempted \/ due[a] > 0 THEN due[a] ELSE Interval]
      /\ execs' = Staled
      /\ rest' = IF execs' # execs THEN [a \in AgentSet |-> 0] ELSE rest
  BY DEF UpdateConfig
<1>2. CASE execs' # execs
  <2>1. rest' = [a \in AgentSet |-> 0]
    BY <1>1, <1>2
  <2> QED BY <2>1, PaceAnew
<1>3. CASE execs' = execs
  <2>1. \A s \in Slots : InCall(execs[s]) => execs'[s].stale
    BY <1>0, <1>1, StaledIs
  <2>2. \A s \in Slots : InCall(execs[s]) => execs[s].stale
    BY <1>3, <2>1
  <2>3. \A s \in Slots : ~Awaiting(execs[s])
    BY <2>2 DEF Awaiting, InCall
  <2>4. rest' = rest
    BY <1>1, <1>3
  <2>5. RestBeforeDue'
    <3> SUFFICES ASSUME NEW a \in AgentSet PROVE due'[a] < 0 \/ rest[a] <= due'[a]
      BY <2>4 DEF RestBeforeDue
    <3>1. due[a] < 0 \/ rest[a] <= due[a]
      BY <2>3 DEF Pace, RestBeforeDue
    <3>2. rest[a] \in 0..Interval /\ Interval \in Nat
      BY <1>0, Bounds DEF RunnerTyped
    <3>3. due'[a] = -1 \/ due'[a] = due[a] \/ due'[a] = Interval
      BY <1>1
    <3> QED BY <3>1, <3>2, <3>3
  <2>6. AwaitedRests' /\ AheadRested'
    BY <1>3, <2>2, <2>3 DEF AwaitedRests, AheadRested
  <2> QED BY <2>5, <2>6 DEF Pace
<1> QED BY <1>2, <1>3

LEMMA PaceStep ==
  ASSUME HeartbeatInv, [Next]_vars, overlaps' = 0
  PROVE  Pace'
<1>0. /\ RunnerTyped /\ ExecsTyped
      /\ RunnerTyped' /\ ExecsTyped'
  BY SafeStep DEF HeartbeatInv
<1>1. overlaps \in Nat
  BY <1>0, Bounds DEF RunnerTyped
<1>2. ASSUME overlaps = 0 PROVE Pace
  BY <1>2 DEF HeartbeatInv, Paced, Pace
<1>3. CASE Start
  <2>1. rest' = [a \in AgentSet |-> 0]
    BY <1>3 DEF Start
  <2> QED BY <1>0, <2>1, PaceAnew
<1>4. CASE Stop
  BY <1>0, <1>4, StopPace
<1>5. ASSUME NEW on \in SUBSET AgentSet, UpdateConfig(on) PROVE Pace'
  <2>1. overlaps = 0
    BY <1>5 DEF UpdateConfig
  <2> QED BY <1>0, <1>2, <1>5, <2>1, UpdatePace
<1>6. CASE FireWake
  <2>1. /\ due' = due /\ rest' = rest /\ overlaps = 0
        /\ \A r \in Slots :
             execs'[r] = execs[r] \/ (execs[r] = NoExec /\ execs'[r].pc = "next")
    BY <1>6, FireStep DEF runnerVars
  <2>2. \A r \in Slots :
           \/ execs'[r] = execs[r]
           \/ /\ ~Awaiting(execs[r]) /\ ~Awaiting(execs'[r])
              /\ RestedAhead(execs'[r])
    BY <2>1, NoExecIs DEF Awaiting, RestedAhead, InCall
  <2> QED BY <1>2, <2>1, <2>2, PaceMoved
<1>7. CASE Tick
  <2>1. overlaps = 0
    BY <1>7 DEF Tick
  <2> QED BY <1>0, <1>2, <1>7, <2>1, TickPace
<1>8. CASE \/ SetHeartbeatsEnabled \/ IntervalElapsed \/ \E w \in Wishes : Ask(w[1], w[2])
           \/ UNCHANGED vars
  <2>1. due' = due /\ rest' = rest /\ execs' = execs /\ overlaps = 0
    BY <1>8 DEF SetHeartbeatsEnabled, IntervalElapsed, Ask, Request, vars, runnerVars, history
  <2> QED BY <1>2, <2>1, PaceMoved
<1>9. ASSUME NEW s \in Slots, ExecStep(s) PROVE Pace'
  <2>1. overlaps = 0
    BY <1>9 DEF ExecStep, CallDropped, CallBegins, AgentOff, AgentBusy, AgentBegins, AgentReturns,
                CallEnds, BatchEnds, history
  <2>2. CASE CallBegins(s)
    BY <1>2, <2>1, <2>2, CallPace
  <2>3. CASE CallDropped(s) \/ AgentOff(s) \/ CallEnds(s) \/ BatchEnds(s)
    BY <1>2, <2>1, <2>3, EndPace
  <2>4. CASE AgentBegins(s)
    BY <1>2, <2>1, <2>4, BeginPace
  <2>5. CASE AgentBusy(s)
    BY <1>2, <2>1, <2>5, BusyPace
  <2>6. CASE AgentReturns(s)
    BY <1>2, <2>1, <2>6, ReturnPace
  <2> QED BY <1>9, <2>2, <2>3, <2>4, <2>5, <2>6 DEF ExecStep
<1> QED
  BY <1>3, <1>4, <1>5, <1>6, <1>7, <1>8, <1>9 DEF Next, Callback

-----------------------------------------------------------------------------
(***************************************************************************)
(* The theorems.                                                           *)
(***************************************************************************)

LEMMA HeartbeatInit == Init => HeartbeatInv
<1> SUFFICES ASSUME Init PROVE HeartbeatInv
  OBVIOUS
<1>0. /\ Longest \in Nat /\ Retry \in Nat /\ Interval \in Nat
      /\ MaxRunners \in Nat /\ MaxAsks \in Nat /\ MaxEvents \in Nat
  BY LongestIs, Bounds
<1>1. WakeTyped(wake)
  <2>1. NoTimer \in TimerRecord
    BY <1>0 DEF NoTimer, TimerRecord
  <2>2. <<>> \in Seq(Wakes)
    OBVIOUS
  <2>3. wake = Idle
    BY DEF Init
  <2>4. Idle \in WakeRecord /\ Idle.pending = <<>>
    BY <1>0, <2>1, <2>2 DEF Idle, WakeRecord
  <2>5. Distinct(Idle.pending)
    BY <2>4, DistinctIs
  <2> QED BY <2>3, <2>4, <2>5 DEF WakeTyped
<1>2. RunnerTyped
  <2>1. /\ -1 \in -1..Interval /\ 0 \in 0..Interval
        /\ 0 \in 0..MaxRunners /\ 0 \in 0..MaxAsks /\ 0 \in 0..MaxEvents
        /\ 0 \in 0..0 /\ 0 \in 0..Retry
    BY <1>0
  <2>2. due \in [AgentSet -> -1..Interval] /\ rest \in [AgentSet -> 0..Interval]
    BY <2>1 DEF Init
  <2>3. attempted \subseteq AgentSet /\ owed \subseteq Targets
    BY DEF Init
  <2>4. live \in BOOLEAN /\ enabled \in BOOLEAN
    BY DEF Init
  <2>5. /\ started \in 0..MaxRunners /\ timer \in -1..Interval /\ asks \in 0..MaxAsks
        /\ events \in 0..MaxEvents /\ overlaps \in 0..started /\ cool \in 0..Retry
    BY <2>1 DEF Init
  <2> QED BY <2>2, <2>3, <2>4, <2>5 DEF RunnerTyped
<1>3. ExecsTyped
  BY NoExecIs DEF Init, ExecsTyped
<1>4. FewFlights
  <2>1. Flights = {}
    BY DEF Init, Flights
  <2>2. Cardinality(Flights) = 0
    BY <2>1, FS_EmptySet
  <2> QED BY <1>0, <2>2 DEF Init, FewFlights, Side
<1>5. CooldownHeld
  BY DEF Init, CooldownHeld
<1>6. Paced
  <2>1. RestBeforeDue
    BY DEF Init, RestBeforeDue
  <2>2. \A s \in Slots : ~InCall(execs[s]) /\ ~Awaiting(execs[s])
    BY NoExecIs DEF Init, InCall, Awaiting
  <2> QED BY <2>1, <2>2 DEF Paced, AwaitedRests, AheadRested
<1> QED BY <1>1, <1>2, <1>3, <1>4, <1>5, <1>6 DEF HeartbeatInv

LEMMA HeartbeatStep == HeartbeatInv /\ [Next]_vars => HeartbeatInv'
<1> SUFFICES ASSUME HeartbeatInv, [Next]_vars PROVE HeartbeatInv'
  OBVIOUS
<1>1. Paced'
  BY PaceStep DEF Paced, Pace
<1> QED BY <1>1, SafeStep DEF HeartbeatInv

\* The inductive invariant holds of the heartbeats: the types, the executions under
\* way, the cooldown with its timer, and how long each agent has rested.
THEOREM HeartbeatInvariant == Spec => []HeartbeatInv
BY HeartbeatInit, HeartbeatStep, PTL DEF Spec

LEMMA TypesAre == HeartbeatInv => TypeOK
<1> SUFFICES ASSUME HeartbeatInv PROVE TypeOK
  OBVIOUS
<1>0. WakeTyped(wake) /\ RunnerTyped /\ ExecsTyped
  BY DEF HeartbeatInv
<1>1. MaxRunners \in Nat
  BY Bounds
<1>2. WakeType(wake, 1..MaxRunners, Longest)
  <2>1. wake \in WakeRecord /\ Distinct(wake.pending)
    BY <1>0 DEF WakeTyped
  <2>2. wake.handler \in (1..MaxRunners) \cup {0}
    BY <1>1, <2>1 DEF WakeRecord
  <2> QED BY <2>1, <2>2 DEF WakeRecord, TimerRecord, WakeType, Distinct
<1>3. overlaps \in 0..MaxRunners
  BY <1>0, <1>1 DEF RunnerTyped
<1>4. execs \in [Slots -> ExecRecord]
  BY <1>0 DEF ExecsTyped
<1> QED BY <1>0, <1>2, <1>3, <1>4 DEF TypeOK, RunnerTyped, ExecRecord, Longest

\* Batches of wakes do not run side by side, but for those that were running when a
\* new runner registered its handler, and every variable has its type.
THEOREM BatchesDoNotOverlap == Spec => []SingleFlight
<1>1. HeartbeatInv => SingleFlight
  BY TypesAre DEF HeartbeatInv, FewFlights, Side, SingleFlight
<1> QED BY <1>1, HeartbeatInvariant, PTL

\* No batch begins during the cooldown of a busy lane, and no interval heartbeat of
\* an agent within the interval of the last attempt.
THEOREM NoHeartbeatTooEarly == Spec => NeverTooEarly
<1> DEFINE Early ==
      /\ ~wake.running /\ wake'.running => cool = 0
      /\ \A s \in Slots :
           /\ AtAgent(execs[s])
           /\ execs'[s].pc # "agents"
           /\ Head(execs[s].batch) = [target |-> "all", priority |-> IntervalReason]
           /\ overlaps = 0
           /\ ~execs[s].stale
           => rest[Current(execs[s])] = 0
<1>1. HeartbeatInv /\ [Next]_vars => [Early]_vars
  <2> SUFFICES ASSUME HeartbeatInv, [Next]_vars PROVE Early
    OBVIOUS
  <2>1. ~wake.running /\ wake'.running => cool = 0
    BY SafeStep
  <2>2. ASSUME NEW s \in Slots, AtAgent(execs[s]), overlaps = 0, ~execs[s].stale,
               Head(execs[s].batch) = [target |-> "all", priority |-> IntervalReason]
        PROVE  rest[Current(execs[s])] = 0
    <3>1. ExecsTyped /\ AheadRested
      BY <2>2 DEF HeartbeatInv, Paced
    <3>2. execs[s].agents # {} /\ execs[s].agents \subseteq DOMAIN Agents /\ execs[s].pc = "agents"
      BY <2>2, <3>1 DEF AtAgent, ExecsTyped, ExecRecord
    <3>3. Min(execs[s].agents) \in Ahead(execs[s]) /\ Current(execs[s]) = Agents[Min(execs[s].agents)]
      BY <3>2, CurrentIs DEF Ahead
    <3> QED BY <2>2, <3>1, <3>2, <3>3 DEF AheadRested, InCall, IntervalWake
  <2> QED BY <2>1, <2>2
<1> QED BY <1>1, HeartbeatInvariant, PTL DEF Spec, NeverTooEarly

===============================================================================
