--------------------------- MODULE HeartbeatRunner ---------------------------
(***************************************************************************)
(* The heartbeat runner (startHeartbeatRunner of src/infra/                *)
(* heartbeat-runner) on top of the wake queue.  It keeps when its agents   *)
(* are next due, a timer that asks for an interval heartbeat, and the      *)
(* handler the wake queue calls.  The gateway stops its runner before it   *)
(* starts the next one in the same process; the wake queue is shared.      *)
(*                                                                         *)
(* An execution is one run of the wake timer's callback: it works through  *)
(* a batch of wakes, calling the handler that was registered when it       *)
(* began, which goes through the agents.  What a heartbeat says and to     *)
(* whom is left out: it meets a busy main lane, or it takes its time.      *)
(***************************************************************************)
EXTENDS HeartbeatWake, FiniteSets, FiniteSetsExt

CONSTANTS
  Agents,       \* the agents with a heartbeat, in the order of the config
  Interval,     \* the heartbeat interval, in ticks
  Wishes,       \* the pairs <<target, reason>> that callers ask for
  MaxRunners,   \* bound: runners started in this process, the last one for good
  MaxAsks,      \* bound: requests of these callers
  MaxEvents     \* bound: busy lanes, config updates and setHeartbeatsEnabled

\* A wake is for one agent or, with target "all", for every agent.
ASSUME RunnerAssumption ==
  /\ "all" \in Targets
  /\ Agents \in Seq(Targets \ {"all"})
  /\ IsInjective(Agents)
  /\ Wishes \subseteq Targets \X {DefaultReason, ActionReason}
  /\ Interval \in Nat \ {0}
  /\ {MaxRunners, MaxAsks, MaxEvents} \subseteq Nat

AgentSet == {Agents[i] : i \in DOMAIN Agents}
Slots == 1..(MaxRunners + 1)

VARIABLES
  wake,       \* the state of the wake queue
  started,    \* runners started so far
  live,       \* the last of them is not stopped
  due,        \* agent -> ticks to its nextDueMs, -1 when not in state.agents
  attempted,  \* the agents with a lastRunMs
  timer,      \* ticks to the runner's state.timer, -1 when not armed
  enabled,    \* heartbeatsEnabled
  execs,      \* slot -> an execution of the wake timer's callback
  asks,       \* requests of callers so far
  events,     \* busy lanes, config updates and switches so far
  owed,       \* targets asked for, with no call of the handler since (history)
  rest,       \* agent -> ticks before its next interval heartbeat (history)
  overlaps,   \* handlers registered while a batch was running (history)
  cool        \* ticks left of the retry cooldown (history)

runnerVars == <<started, live, due, attempted, timer, enabled>>
history == <<owed, rest, overlaps, cool>>
vars == <<wake, runnerVars, execs, asks, events, history>>

\* batch: the wakes left, the current one first; agents: those left of a call, by
\* their places in the config, which is the order of the call's loop;
\* age: ticks since the call began; stale: the call's agents are no longer the
\* runner's; stopped: the runner is stopped.
NoExec == [pc |-> "free", delay |-> 0, batch |-> <<>>, agents |-> {}, age |-> 0,
           stale |-> FALSE, stopped |-> FALSE]
InCall(x) == x.pc \in {"agents", "await"}
Current(x) == Agents[Min(x.agents)]
Others(x) == x.agents \ {Min(x.agents)}

Down(n) == IF n > 0 THEN n - 1 ELSE n

\* The delay scheduleNext() sets for the agents d: that of the one due first.
NextTimer(d) ==
  LET on == {a \in AgentSet : d[a] >= 0}
  IN  IF on = {} THEN -1 ELSE Min({d[a] : a \in on})
ScheduleNext(x, d) == IF x.stopped THEN timer ELSE NextTimer(d)

\* advanceAgentSchedule(agent, now): now is when the call of the handler began.
Advance(x, a) ==
  IF x.stale \/ due[a] < 0 THEN due ELSE [due EXCEPT ![a] = Max({0, Interval - x.age})]
Marked(x, a) == IF x.stale THEN attempted ELSE attempted \cup {a}
Rested(x, a) == IF x.stale THEN rest ELSE [rest EXCEPT ![a] = Max({0, Interval - x.age})]

-----------------------------------------------------------------------------
Init ==
  /\ wake = Idle
  /\ started = 0
  /\ live = FALSE
  /\ due = [a \in AgentSet |-> -1]
  /\ attempted = {}
  /\ timer = -1
  /\ enabled = TRUE
  /\ execs = [s \in Slots |-> NoExec]
  /\ asks = 0
  /\ events = 0
  /\ owed = {}
  /\ rest = [a \in AgentSet |-> 0]
  /\ overlaps = 0
  /\ cool = 0

\* startHeartbeatRunner: register the handler, then the first updateConfig.
Start ==
  /\ ~live
  /\ started < MaxRunners
  /\ started' = started + 1
  /\ live' = TRUE
  /\ wake' = SetHandler(wake, started + 1)
  /\ due' = [a \in AgentSet |-> Interval]
  /\ timer' = NextTimer(due')
  /\ overlaps' = overlaps + (IF wake.running THEN 1 ELSE 0)
  /\ rest' = [a \in AgentSet |-> 0]
  /\ cool' = 0
  /\ UNCHANGED <<attempted, enabled, execs, asks, events, owed>>

\* The calls under way go on with the agents they knew.
Staled == [s \in Slots |-> IF InCall(execs[s])
                           THEN [execs[s] EXCEPT !.stale = TRUE, !.age = 0] ELSE execs[s]]

\* cleanup().  A call that is under way goes on.
Stop ==
  /\ live
  /\ started < MaxRunners
  /\ live' = FALSE
  /\ wake' = Dispose(wake, started)
  /\ due' = [a \in AgentSet |-> -1]
  /\ attempted' = {}
  /\ timer' = -1
  /\ execs' = [s \in Slots |-> IF execs[s] = NoExec THEN NoExec
                 ELSE [Staled[s] EXCEPT !.stopped = TRUE]]
  /\ UNCHANGED <<started, enabled, asks, events, history>>

\* updateConfig with the heartbeats of the agents in on enabled.  An agent that
\* was there keeps its schedule, unless it was never run and is overdue.
UpdateConfig(on) ==
  /\ live
  /\ events < MaxEvents
  /\ events' = events + 1
  /\ due' = [a \in AgentSet |->
               IF a \notin on THEN -1
               ELSE IF a \in attempted \/ due[a] > 0 THEN due[a] ELSE Interval]
  /\ attempted' = attempted \cap on
  /\ timer' = NextTimer(due')
  /\ execs' = Staled
  /\ rest' = IF execs' # execs THEN [a \in AgentSet |-> 0] ELSE rest
  /\ UNCHANGED <<wake, started, live, enabled, asks, owed, overlaps, cool>>

\* setHeartbeatsEnabled: the flag, and nothing else.
SetHeartbeatsEnabled ==
  /\ events < MaxEvents
  /\ events' = events + 1
  /\ enabled' = ~enabled
  /\ UNCHANGED <<wake, started, live, due, attempted, timer, execs, asks, history>>

\* requestHeartbeatNow, with the history of what was asked.
Request(t, p, coalesce) ==
  /\ wake' = RequestHeartbeatNow(wake, t, p, coalesce)
  /\ owed' = owed \cup {t}
  /\ UNCHANGED <<started, live, due, attempted, enabled, execs, events, rest, overlaps,
                 cool>>

\* A hook, a finished command, a cron job or a user asks for a heartbeat.
Ask(t, p) ==
  /\ asks < MaxAsks
  /\ asks' = asks + 1
  /\ Request(t, p, Coalesce)
  /\ UNCHANGED timer

\* The callback of the runner's own timer.
IntervalElapsed ==
  /\ timer = 0
  /\ timer' = -1
  /\ Request("all", IntervalReason, 0)
  /\ UNCHANGED asks

-----------------------------------------------------------------------------
Taken(w) ==
  LET s == CHOOSE s \in Slots : execs[s] = NoExec
  IN  [execs EXCEPT ![s] = [NoExec EXCEPT !.pc = "next", !.delay = w.timer.delay,
                                          !.batch = w.pending]]
WakeDue == wake.timer # NoTimer /\ wake.timer.left = 0

\* Mutant: the callback does not look whether a batch is running.
FireWakeUnguarded ==
  LET w == [wake EXCEPT !.running = FALSE]
  IN  /\ WakeDue
      /\ NoExec \in {execs[s] : s \in Slots}
      /\ wake' = Fire(w)
      /\ execs' = IF TakesBatch(w) THEN Taken(w) ELSE execs
      /\ UNCHANGED <<runnerVars, asks, events, owed, rest, overlaps, cool>>

\* The callback of the wake timer: a new execution, if it takes a batch.
FireWake ==
  /\ WakeDue
  /\ wake' = Fire(wake)
  /\ execs' = IF TakesBatch(wake) THEN Taken(wake) ELSE execs
  /\ UNCHANGED <<runnerVars, asks, events, owed, rest, overlaps, cool>>

\* The call of the handler is over, and with it the wake.
Called(x) == [x EXCEPT !.pc = "next", !.batch = Tail(@), !.agents = {}, !.age = 0,
                       !.stale = FALSE]

\* run() of a runner that is stopped, or while heartbeats are disabled, returns
\* "disabled" at once.
CallDropped(s) ==
  LET x == execs[s]
  IN  /\ x.pc = "next"
      /\ x.batch # <<>>
      /\ x.stopped \/ ~enabled
      /\ execs' = [execs EXCEPT ![s] = Called(x)]
      /\ owed' = owed \ {Head(x.batch).target}
      /\ UNCHANGED <<wake, runnerVars, asks, events, rest, overlaps, cool>>

\* The agents run() goes through: the wake's, or those that are due.
AgentsOf(w) ==
  {i \in DOMAIN Agents :
     /\ w.target \in {"all", Agents[i]}
     /\ due[Agents[i]] >= 0
     /\ w.target = "all" /\ w.priority = IntervalReason => due[Agents[i]] = 0}

\* run() begins.
CallBegins(s) ==
  LET x == execs[s]
  IN  /\ x.pc = "next"
      /\ x.batch # <<>>
      /\ ~x.stopped /\ enabled
      /\ execs' = [execs EXCEPT ![s] = [x EXCEPT !.pc = "agents",
                                                 !.agents = AgentsOf(Head(x.batch))]]
      /\ owed' = owed \ {Head(x.batch).target}
      /\ UNCHANGED <<wake, runnerVars, asks, events, rest, overlaps, cool>>

\* runOnce returns "disabled": heartbeats are off, or those of this agent are.
Off(x) == ~enabled \/ (~x.stopped /\ due[Current(x)] < 0)
AtAgent(x) == x.pc = "agents" /\ x.agents # {}

AgentOff(s) ==
  LET x == execs[s]
  IN  /\ AtAgent(x)
      /\ Off(x)
      /\ execs' = [execs EXCEPT ![s].agents = Others(x)]
      /\ UNCHANGED <<wake, runnerVars, asks, events, history>>

\* runOnce finds the main lane busy: the schedule advances, the call returns and
\* the wake is queued again with its reason.
AgentBusy(s) ==
  LET x == execs[s]
      a == Current(x)
      w == Head(x.batch)
  IN  /\ AtAgent(x)
      /\ ~Off(x)
      /\ events < MaxEvents
      /\ events' = events + 1
      /\ due' = Advance(x, a)
      /\ attempted' = Marked(x, a)
      /\ rest' = Rested(x, a)
      /\ timer' = ScheduleNext(x, due')
      /\ execs' = [execs EXCEPT ![s] = Called(x)]
      /\ wake' = Requeue(wake, w.target, w.priority)
      /\ owed' = owed \cup {w.target}
      /\ cool' = IF wake'.timer # wake.timer THEN Retry ELSE cool
      /\ UNCHANGED <<started, live, enabled, asks, overlaps>>

\* runOnce goes ahead and awaits the agent's turn.
AgentBegins(s) ==
  LET x == execs[s]
  IN  /\ AtAgent(x)
      /\ ~Off(x)
      /\ execs' = [execs EXCEPT ![s].pc = "await"]
      /\ rest' = Rested(x, Current(x))
      /\ UNCHANGED <<wake, runnerVars, asks, events, owed, overlaps, cool>>

\* Mutant: a heartbeat that failed does not move the agent's schedule.
AgentReturnsUnmoved(s) ==
  LET x == execs[s]
  IN  /\ x.pc = "await"
      /\ execs' = [execs EXCEPT ![s].pc = "agents", ![s].agents = Others(x)]
      /\ UNCHANGED <<wake, runnerVars, asks, events, history>>

\* runOnce has run, was skipped for another reason, failed or threw.
AgentReturns(s) ==
  LET x == execs[s]
  IN  /\ x.pc = "await"
      /\ due' = Advance(x, Current(x))
      /\ attempted' = Marked(x, Current(x))
      /\ execs' = [execs EXCEPT ![s].pc = "agents", ![s].agents = Others(x)]
      /\ UNCHANGED <<wake, started, live, timer, enabled, asks, events, history>>

\* Mutant: run() returns without setting the runner's timer.
CallEndsUnscheduled(s) ==
  LET x == execs[s]
  IN  /\ x.pc = "agents"
      /\ x.agents = {}
      /\ execs' = [execs EXCEPT ![s] = Called(x)]
      /\ UNCHANGED <<wake, runnerVars, asks, events, history>>

\* The end of run(): scheduleNext, and a result that asks for no retry.
CallEnds(s) ==
  LET x == execs[s]
  IN  /\ x.pc = "agents"
      /\ x.agents = {}
      /\ timer' = ScheduleNext(x, due)
      /\ execs' = [execs EXCEPT ![s] = Called(x)]
      /\ UNCHANGED <<wake, started, live, due, attempted, enabled, asks, events, history>>

\* The batch is done: the callback's finally block.
BatchEnds(s) ==
  /\ execs[s].pc = "next"
  /\ execs[s].batch = <<>>
  /\ wake' = FinishBatch(wake, execs[s].delay)
  /\ execs' = [execs EXCEPT ![s] = NoExec]
  /\ UNCHANGED <<runnerVars, asks, events, history>>

\* Time passes, in whole ticks: timers that are due fire before the next one.
Tick ==
  /\ ~WakeDue
  /\ timer # 0
  /\ wake' = Elapse(wake)
  /\ due' = [a \in AgentSet |-> Down(due[a])]
  /\ timer' = Down(timer)
  /\ execs' = [s \in Slots |-> IF execs[s].pc = "await" /\ ~execs[s].stale /\ execs[s].age < Interval
                               THEN [execs[s] EXCEPT !.age = @ + 1] ELSE execs[s]]
  /\ rest' = [a \in AgentSet |-> Down(rest[a])]
  /\ cool' = Down(cool)
  /\ UNCHANGED <<started, live, attempted, enabled, asks, events, owed,
                 overlaps>>

ExecStep(s) ==
  \/ CallDropped(s) \/ CallBegins(s) \/ AgentOff(s) \/ AgentBusy(s) \/ AgentBegins(s)
  \/ AgentReturns(s) \/ CallEnds(s) \/ BatchEnds(s)

\* No continuation is due: every execution awaits a heartbeat.  Continuations of
\* settled promises run before the next callback of the event loop.
Quiet == \A s \in Slots : execs[s].pc \in {"free", "await"}

Callback ==
  \/ Start \/ Stop \/ SetHeartbeatsEnabled \/ IntervalElapsed \/ FireWake
  \/ \E on \in SUBSET AgentSet : UpdateConfig(on)
  \/ \E w \in Wishes : Ask(w[1], w[2])

Next == (Quiet /\ (Callback \/ Tick)) \/ \E s \in Slots : ExecStep(s)

\* Timers fire, the clock goes on and heartbeats return; nobody has to start or
\* stop a runner, ask for a heartbeat or find the lane busy.
Fairness ==
  /\ WF_vars(Quiet /\ Tick)
  /\ WF_vars(Quiet /\ FireWake)
  /\ WF_vars(Quiet /\ IntervalElapsed)
  /\ \A s \in Slots : WF_vars(ExecStep(s))

Spec == Init /\ [][Next]_vars
FairSpec == Spec /\ Fairness

-----------------------------------------------------------------------------
\* The type invariant.
TypeOK ==
  /\ WakeType(wake, 1..MaxRunners, Max({Coalesce, Retry}))
  /\ started \in 0..MaxRunners
  /\ live \in BOOLEAN
  /\ due \in [AgentSet -> -1..Interval]
  /\ attempted \subseteq AgentSet
  /\ timer \in -1..Interval
  /\ enabled \in BOOLEAN
  /\ execs \in [Slots -> [pc : {"free", "next", "agents", "await"},
                          delay : 0..Max({Coalesce, Retry}), batch : Seq(Wakes),
                          agents : SUBSET DOMAIN Agents, age : 0..Interval,
                          stale : BOOLEAN, stopped : BOOLEAN]]
  /\ asks \in 0..MaxAsks
  /\ events \in 0..MaxEvents
  /\ owed \subseteq Targets
  /\ rest \in [AgentSet -> 0..Interval]
  /\ overlaps \in 0..MaxRunners
  /\ cool \in 0..Retry

Flights == {s \in Slots : execs[s] # NoExec}

\* Batches do not run side by side, but for those that were running when a new
\* handler reset the flag: each of these adds one, for the rest of the process.
\* (And every variable keeps its type.)
SingleFlight == TypeOK /\ Cardinality(Flights) <= overlaps + (IF wake.running THEN 1 ELSE 0)

\* No call of the handler comes too early: no batch begins before the retry delay of
\* a busy lane is over, whatever is asked for meanwhile, unless a new runner starts;
\* and no interval heartbeat of an agent within the interval of the runner's former
\* attempt, if no config update came during a call and no batches run side by side.
NeverTooEarly ==
  [][/\ ~wake.running /\ wake'.running => cool = 0
     /\ \A s \in Slots :
          /\ AtAgent(execs[s])
          /\ execs'[s].pc # "agents"
          /\ Head(execs[s].batch) = [target |-> "all", priority |-> IntervalReason]
          /\ overlaps = 0
          /\ ~execs[s].stale
          => rest[Current(execs[s])] = 0]_vars

\* Every heartbeat asked for is followed by a call of the handler, if in the end
\* there is a runner that stays.
EveryWakeServed == <>[]live => \A t \in Targets : t \in owed ~> t \notin owed

Attended(a) ==
  due[a] # 0 \/ \E s \in Slots : execs[s].pc = "await" /\ Current(execs[s]) = a

\* While heartbeats are enabled, an agent that is due is attended to, or put off by
\* a busy lane or a config update, unless the runner stops.
HeartbeatsKeepComing ==
  []enabled => \A a \in AgentSet : due[a] = 0 ~> Attended(a)

===============================================================================
