----------------------------- MODULE CronService -----------------------------
(***************************************************************************)
(* The cron service of the gateway: src/cron/service.  Jobs live in one    *)
(* file; a service keeps them in memory, trusts that copy unless it forces *)
(* a reload, and writes the whole of it back.  Every block run by locked() *)
(* is serialised per file, over all services of the process, so it is one  *)
(* action here.  Between the blocks a service executes jobs: when it       *)
(* starts (those missed while it was down), on its timer, and by hand.     *)
(*                                                                         *)
(* A config reload stops the timer of the service and builds a new one;    *)
(* what the old one has under way goes on, with its own memory.  A crash   *)
(* leaves the file.  Time is counted in ticks up to a horizon.             *)
(***************************************************************************)
EXTENDS Integers, Sequences, FiniteSets, FiniteSetsExt, SequencesExt

CONSTANTS
  Jobs,          \* job ids
  Kind,          \* job -> "every", "cron" or "at"
  Initial,       \* the sets of jobs the file may hold at first; others are added
  Deleted,       \* one-shot jobs with deleteAfterRun
  Every,         \* the period of "every" and "cron" jobs, in ticks
  At,            \* the time of "at" jobs
  Backoff,       \* the delay after a failed run, in ticks
  Stuck,         \* STUCK_RUN_MS, in ticks
  Clamp,         \* MAX_TIMER_DELAY_MS, in ticks
  MaxServices,   \* bound: services built in one process
  MaxEvents,     \* bound: calls of add, update, remove and run, reloads, crashes
  Horizon        \* bound: the clock

ASSUME CronAssumption ==
  /\ IsFiniteSet(Jobs) /\ "none" \notin Jobs
  /\ Kind \in [Jobs -> {"every", "cron", "at"}]
  /\ Initial \subseteq SUBSET Jobs /\ Deleted \subseteq Jobs
  /\ {Every, Backoff, Stuck, Clamp, MaxServices} \subseteq Nat \ {0}
  /\ {At, MaxEvents, Horizon} \subseteq Nat

Services == 1..MaxServices
Roles == {"boot", "tick", "manual"}
None == -1   \* an absent time

VARIABLES
  disk,      \* job -> its record in the file
  mem,       \* service -> job -> its record in state.store
  loaded,    \* service -> state.store is set
  timer,     \* service -> when its timer fires
  proc,      \* service -> role -> what it is executing
  started,   \* services built so far; the last one is the gateway's
  now,       \* the clock
  events,    \* calls, reloads and crashes so far
  created,   \* ids given out; an id is not used again
  touched,   \* jobs a user updated or ran by hand; all of them
             \* once the service was reloaded (history)
  unmarked,  \* jobs that lost their running marker under a run (history)
  runs       \* one-shot job -> times it was started, at most 2 (history)

store == <<disk, mem, loaded>>
control == <<timer, proc, started, now>>
vars == <<store, control, events, created, touched, unmarked, runs>>

Gone == [present |-> FALSE, enabled |-> FALSE, next |-> None, running |-> None,
         last |-> None, status |-> "none"]
New == [Gone EXCEPT !.present = TRUE, !.enabled = TRUE]

\* todo: jobs taken but not begun; job: the one being executed, since at; done:
\* results not yet applied; live: a tick's jobs are still the objects in memory;
\* skip: jobs the start must not run.
Free == [pc |-> "idle", live |-> FALSE, todo |-> <<>>, job |-> "none", since |-> None, done |-> {},
         skip |-> {}]

-----------------------------------------------------------------------------
\* computeNextRunAtMs of "every", with the anchor at 0: t itself when t is on the
\* grid.
Grid(t) == Every * Max({1, (t + Every - 1) \div Every})

\* computeJobNextRunAtMs.
NextRun(j, r, t) ==
  CASE ~r.enabled -> None
    [] r.enabled /\ Kind[j] = "every" ->
         IF r.last # None /\ r.last + Every > t THEN r.last + Every ELSE Grid(t)
    [] r.enabled /\ Kind[j] = "cron" -> Every * ((t \div Every) + 1)
    [] r.enabled /\ Kind[j] = "at" ->
         IF r.status = "ok" /\ r.last # None THEN None ELSE At

\* normalizeJobTickState: a disabled job has neither a next run nor a marker; a
\* marker that is too old is cleared.
Normalized(r, t) ==
  IF ~r.enabled THEN [r EXCEPT !.next = None, !.running = None]
  ELSE IF r.running # None /\ t - r.running > Stuck THEN [r EXCEPT !.running = None] ELSE r

\* recomputeNextRuns: missing and past-due next runs are computed anew.
Recompute(m, t) ==
  [j \in Jobs |->
     LET r == Normalized(m[j], t)
     IN  IF ~r.present THEN Gone
         ELSE IF r.next = None \/ r.next <= t THEN [r EXCEPT !.next = NextRun(j, r, t)] ELSE r]

\* Mutant: maintenance recomputes what is past due, too.
MaintainEagerly(m, t) == Recompute(m, t)

\* recomputeNextRunsForMaintenance: only missing ones are.
Maintain(m, t) ==
  [j \in Jobs |->
     LET r == Normalized(m[j], t)
     IN  IF ~r.present THEN Gone
         ELSE IF r.next = None THEN [r EXCEPT !.next = NextRun(j, r, t)] ELSE r]

\* Mutant: the running marker is not looked at.
RunnableUnmarked(r, t) == r.enabled /\ r.next # None /\ r.next <= t

\* isRunnableJob.
Runnable(r, t) == r.enabled /\ r.running = None /\ r.next # None /\ r.next <= t

RunnableJobs(m, t) == {j \in Jobs : Runnable(m[j], t)}
Mark(m, js, t) == [j \in Jobs |-> IF j \in js THEN [m[j] EXCEPT !.running = t] ELSE m[j]]

\* Mutant: a one-shot job stays enabled after an error.
ApplyResultRetries(r, x) ==
  LET j == x.job
      ended == [r EXCEPT !.running = None, !.last = x.since, !.status = x.status]
      natural == NextRun(j, ended, x.ended)
  IN  IF ~r.present THEN r
      ELSE IF Kind[j] = "at"
      THEN IF x.status = "error" THEN [ended EXCEPT !.next = natural]
           ELSE IF j \in Deleted THEN Gone
           ELSE [ended EXCEPT !.enabled = FALSE, !.next = None]
      ELSE [ended EXCEPT !.next = natural]

\* applyJobResult and the deletion after it, for the job's record r: the marker goes,
\* a one-shot job is disabled or deleted, any other gets its next run, later after an
\* error.
ApplyResult(r, x) ==
  LET j == x.job
      ended == [r EXCEPT !.running = None, !.last = x.since, !.status = x.status]
      natural == NextRun(j, ended, x.ended)
  IN  IF ~r.present THEN r
      ELSE IF Kind[j] = "at"
      THEN IF j \in Deleted /\ x.status = "ok" THEN Gone
           ELSE [ended EXCEPT !.enabled = FALSE, !.next = None]
      ELSE IF r.enabled /\ x.status = "error"
      THEN [ended EXCEPT !.next = Max({natural, x.ended + Backoff})]
      ELSE [ended EXCEPT !.next = natural]

\* The results of a tick or a start: each is of another job.
ApplyAll(m, xs) ==
  [j \in Jobs |->
     IF \E x \in xs : x.job = j THEN ApplyResult(m[j], CHOOSE x \in xs : x.job = j)
     ELSE m[j]]

\* nextWakeAtMs: the earliest of these.
NextWake(m) == {m[j].next : j \in {k \in Jobs : m[k].enabled /\ m[k].next # None}}

\* armTimer: no timer without a next run, and none further away
\* than Clamp.
Armed(m) ==
  IF NextWake(m) = {} THEN None ELSE Min({now + Clamp, Max({now, Min(NextWake(m))})})

\* What a block of service s starts from: its memory, or the file when it has
\* none or forces a reload.
Cached(s) == IF loaded[s] THEN mem[s] ELSE disk
\* persist: the block leaves m in memory and in the file.
Persist(s, m) ==
  /\ disk' = m
  /\ mem' = [mem EXCEPT ![s] = m]
  /\ loaded' = [loaded EXCEPT ![s] = TRUE]

\* The same, with nothing written when m is what the block started from.
PersistChange(s, from, m) ==
  /\ disk' = IF m = from THEN disk ELSE m
  /\ mem' = [mem EXCEPT ![s] = m]
  /\ loaded' = [loaded EXCEPT ![s] = TRUE]

Arm(s, m) == timer' = [timer EXCEPT ![s] = Armed(m)]
SetProc(s, k, p) == proc' = [proc EXCEPT ![s][k] = p]
\* The same in a block that has reloaded the file: a tick's jobs are then copies.
SetProcReloaded(s, k, p) ==
  proc' = [proc EXCEPT ![s] = [@ EXCEPT !["tick"].live = FALSE, ![k] = p]]
Work(js) == [Free EXCEPT !.pc = "work", !.todo = SetToSeq(js)]
LiveWork(js) == [Work(js) EXCEPT !.live = TRUE]

-----------------------------------------------------------------------------
\* The file of an earlier process: jobs due at once or later.
Init ==
  /\ created \in Initial
  /\ \E first \in {0, Every} :
       disk = [j \in Jobs |->
                 IF j \notin created THEN Gone
                 ELSE [New EXCEPT !.next = IF Kind[j] = "at" THEN At ELSE first]]
  /\ mem = [s \in Services |-> [j \in Jobs |-> Gone]]
  /\ loaded = [s \in Services |-> FALSE]
  /\ timer = [s \in Services |-> None]
  /\ proc = [s \in Services |-> [k \in Roles |->
               IF s = 1 /\ k = "boot" THEN [Free EXCEPT !.pc = "clear"] ELSE Free]]
  /\ started = 1
  /\ now = 0
  /\ events = 0
  /\ touched = {}
  /\ unmarked = {}
  /\ runs = [j \in Jobs |-> 0]

\* Mutant: the start leaves the markers of interrupted runs.
BootClearsNothing(s) ==
  /\ proc[s]["boot"].pc = "clear"
  /\ Persist(s, Cached(s))
  /\ SetProc(s, "boot", [Free EXCEPT !.pc = "missed"])
  /\ UNCHANGED <<timer, started, now, events, created, touched>>

\* start(), first block: every running marker is taken for one of an interrupted
\* run and cleared; its job is not to be run by the start.
BootClears(s) ==
  LET marked == {j \in Jobs : Cached(s)[j].running # None}
  IN  /\ proc[s]["boot"].pc = "clear"
      /\ Persist(s, [j \in Jobs |-> [Cached(s)[j] EXCEPT !.running = None]])
      /\ SetProc(s, "boot", [Free EXCEPT !.pc = "missed", !.skip = marked])
      /\ UNCHANGED <<timer, started, now, events, created, touched>>

\* runMissedJobs, first block: the jobs due are marked and taken, but for the
\* interrupted ones and one-shot jobs that ever ended.
BootCollects(s) ==
  LET m == Cached(s)
      missed == {j \in RunnableJobs(m, now) \ proc[s]["boot"].skip :
                   ~(Kind[j] = "at" /\ m[j].status # "none")}
  IN  /\ proc[s]["boot"].pc = "missed"
      /\ PersistChange(s, m, Mark(m, missed, now))
      /\ SetProc(s, "boot", IF missed = {} THEN [Free EXCEPT !.pc = "end"] ELSE Work(missed))
      /\ UNCHANGED <<timer, started, now, events, created, touched>>

\* start(), last block: reload, recompute everything, arm the timer.
BootEnds(s) ==
  LET m == Recompute(disk, now)
  IN  /\ proc[s]["boot"].pc = "end"
      /\ Persist(s, m)
      /\ Arm(s, m)
      /\ SetProcReloaded(s, "boot", Free)
      /\ UNCHANGED <<started, now, events, created, touched>>

-----------------------------------------------------------------------------
TimerDue(s) == timer[s] # None /\ (timer[s] <= now \/ now = Horizon)

\* Mutant: a tick that finds another one under way leaves no timer.
TimerFiresOnce(s) ==
  /\ TimerDue(s)
  /\ IF proc[s]["tick"].pc # "idle"
     THEN timer' = [timer EXCEPT ![s] = None] /\ UNCHANGED proc
     ELSE /\ timer' = [timer EXCEPT ![s] = now + Clamp]
          /\ SetProc(s, "tick", [Free EXCEPT !.pc = "collect"])
  /\ UNCHANGED <<store, started, now, events, created, touched>>

\* onTimer: while a tick is under way the timer only looks again later.
TimerFires(s) ==
  /\ TimerDue(s)
  /\ timer' = [timer EXCEPT ![s] = now + Clamp]
  /\ IF proc[s]["tick"].pc # "idle" THEN UNCHANGED proc
     ELSE SetProc(s, "tick", [Free EXCEPT !.pc = "collect"])
  /\ UNCHANGED <<store, started, now, events, created, touched>>

\* onTimer, first block: reload, mark the due jobs and take them.
TickCollects(s) ==
  LET due == RunnableJobs(disk, now)
  IN  /\ proc[s]["tick"].pc = "collect"
      /\ IF due = {}
         THEN Persist(s, Maintain(disk, now)) /\ SetProc(s, "tick", [Free EXCEPT !.pc = "finish"])
         ELSE Persist(s, Mark(disk, due, now)) /\ SetProc(s, "tick", LiveWork(due))
      /\ UNCHANGED <<timer, started, now, events, created, touched>>

\* A job taken by a tick or a start begins, one at a time (maxConcurrentRuns 1); a
\* tick marks it once more, in memory.
JobBegins(s, k) ==
  LET p == proc[s][k]
      j == Head(p.todo)
  IN  /\ p.pc = "work"
      /\ p.job = "none"
      /\ p.todo # <<>>
      /\ SetProc(s, k, [p EXCEPT !.job = j, !.todo = Tail(p.todo), !.since = now])
      /\ mem' = IF k = "tick" /\ p.live /\ mem[s][j].present
                THEN [mem EXCEPT ![s] = Mark(@, {j}, now)] ELSE mem
      /\ UNCHANGED <<disk, loaded, timer, started, now, events, created, touched>>

\* It returns, throws or times out.
JobEnds(s, k, status) ==
  LET p == proc[s][k]
  IN  /\ p.job # "none"
      /\ SetProc(s, k, [p EXCEPT !.job = "none", !.since = None, !.done = @ \cup
           {[job |-> p.job, since |-> p.since, ended |-> now, status |-> status]}])
      /\ UNCHANGED <<store, timer, started, now, events, created, touched>>

AllDone(p) == p.pc = "work" /\ p.job = "none" /\ p.todo = <<>>

\* The block after the jobs of a tick or a start: reload, apply the results, and
\* maintenance, which leaves what became due meanwhile to a later tick.
OutcomesApplied(s, k) ==
  /\ k \in {"boot", "tick"}
  /\ AllDone(proc[s][k])
  /\ Persist(s, Maintain(ApplyAll(disk, proc[s][k].done), now))
  /\ SetProcReloaded(s, k, [Free EXCEPT !.pc = IF k = "boot" THEN "end" ELSE "finish"])
  /\ UNCHANGED <<timer, started, now, events, created, touched>>

\* onTimer, finally: also when the service was stopped meanwhile.
TickEnds(s) ==
  /\ proc[s]["tick"].pc = "finish"
  /\ Arm(s, mem[s])
  /\ SetProc(s, "tick", Free)
  /\ UNCHANGED <<store, started, now, events, created, touched>>

-----------------------------------------------------------------------------
Event == events < MaxEvents /\ events' = events + 1

\* The gateway's service; its calls queue behind the first block of its start.
Serves(s) == s = started /\ proc[s]["boot"].pc # "clear"

\* An operation of a user or an agent.
Op(s) == Serves(s) /\ Event

\* add(): the new job, and all next runs recomputed.
Add(s, j) ==
  LET m == Recompute([Cached(s) EXCEPT ![j] = [New EXCEPT !.next = NextRun(j, New, now)]], now)
  IN  /\ Op(s)
      /\ j \notin created
      /\ created' = created \cup {j}
      /\ Persist(s, m)
      /\ Arm(s, m)
      /\ UNCHANGED <<proc, started, now, touched>>

\* update() with a patch of the schedule, of enabled, or of neither.
Patched(j, r, patch) ==
  LET e == [r EXCEPT !.enabled = IF patch = "enable" THEN TRUE
                                 ELSE IF patch = "disable" THEN FALSE ELSE @]
  IN  IF patch \in {"enable", "disable", "schedule"}
      THEN IF e.enabled THEN [e EXCEPT !.next = NextRun(j, e, now)]
           ELSE [e EXCEPT !.next = None, !.running = None]
      ELSE IF e.enabled /\ e.next = None THEN [e EXCEPT !.next = NextRun(j, e, now)] ELSE e

Update(s, j, patch) ==
  LET m == [Cached(s) EXCEPT ![j] = Patched(j, @, patch)]
  IN  /\ Op(s)
      /\ Cached(s)[j].present
      /\ Persist(s, m)
      /\ Arm(s, m)
      /\ touched' = touched \cup {j}
      /\ UNCHANGED <<proc, started, now, created>>

\* remove(); a service that has not loaded the file yet recomputes it first.
RemoveJob(s, j) ==
  LET m == [(IF loaded[s] THEN mem[s] ELSE Recompute(disk, now)) EXCEPT ![j] = Gone]
  IN  /\ Op(s)
      /\ Cached(s)[j].present
      /\ Persist(s, m)
      /\ Arm(s, m)
      /\ UNCHANGED <<proc, started, now, created, touched>>

\* run(), first block: the job is marked unless it is running or, not being
\* forced, not due.
RunReserves(s, j, forced) ==
  LET m == Cached(s)
  IN  /\ Op(s)
      /\ m[j].present
      /\ m[j].running = None
      /\ forced \/ Runnable(m[j], now)
      /\ proc[s]["manual"].pc = "idle"
      /\ Persist(s, Mark(m, {j}, now))
      /\ SetProc(s, "manual", [Free EXCEPT !.pc = "work", !.job = j, !.since = now])
      /\ touched' = touched \cup {j}
      /\ UNCHANGED <<timer, started, now, created>>

\* run(), last block: the result is applied to the job in memory, the file is
\* reloaded and the job's state put into it.
RunApplies(s) ==
  LET p == proc[s]["manual"]
      x == CHOOSE x \in p.done : TRUE
      r == ApplyResult(mem[s][x.job], x)
      m == Maintain([disk EXCEPT ![x.job] =
             IF ~r.present THEN Gone
             ELSE IF @.present THEN r ELSE @], now)
  IN  /\ p.done # {}
      /\ IF mem[s][x.job].present
         THEN Persist(s, m) /\ Arm(s, m) /\ SetProcReloaded(s, "manual", Free)
         ELSE UNCHANGED <<store, timer>> /\ SetProc(s, "manual", Free)
      /\ UNCHANGED <<started, now, events, created, touched>>

\* list() and status(): maintenance, written back when it changed something.
Read(s) ==
  /\ Serves(s)
  /\ PersistChange(s, Cached(s), Maintain(Cached(s), now))
  /\ UNCHANGED <<timer, proc, started, now, events, created, touched>>

-----------------------------------------------------------------------------
\* A config reload or an in-process restart: stop() clears the timer of the
\* service, and a new service starts at once.
Reload ==
  /\ Event
  /\ started < MaxServices
  /\ started' = started + 1
  /\ timer' = [timer EXCEPT ![started] = None]
  /\ SetProc(started + 1, "boot", [Free EXCEPT !.pc = "clear"])
  /\ touched' = Jobs
  /\ UNCHANGED <<store, now, created>>

\* The process dies and is started again.
Crash ==
  /\ Event
  /\ started' = 1
  /\ mem' = [s \in Services |-> [j \in Jobs |-> Gone]]
  /\ loaded' = [s \in Services |-> FALSE]
  /\ timer' = [s \in Services |-> None]
  /\ proc' = [s \in Services |-> [k \in Roles |->
                IF s = 1 /\ k = "boot" THEN [Free EXCEPT !.pc = "clear"] ELSE Free]]
  /\ UNCHANGED <<disk, now, created, touched>>

Tick == now < Horizon /\ now' = now + 1
        /\ UNCHANGED <<store, timer, proc, started, events, created, touched>>

ServiceStep(s) ==
  \/ BootClears(s) \/ BootCollects(s) \/ BootEnds(s)
  \/ TickCollects(s) \/ TickEnds(s) \/ RunApplies(s)
  \/ \E k \in Roles : JobBegins(s, k) \/ OutcomesApplied(s, k)
  \/ \E k \in Roles, status \in {"ok", "error"} : JobEnds(s, k, status)

UserStep(s) ==
  \/ \E j \in Jobs : Add(s, j) \/ RemoveJob(s, j)
  \/ \E j \in Jobs, patch \in {"enable", "disable", "schedule", "other"} : Update(s, j, patch)
  \/ \E j \in Jobs, forced \in BOOLEAN : RunReserves(s, j, forced)
  \/ Read(s)

Step ==
  \/ \E s \in Services : TimerFires(s) \/ ServiceStep(s) \/ UserStep(s)
  \/ Reload \/ Crash \/ Tick

\* The runs taken and not yet applied: where a job's marker should be.
Holds(p, j) == j \in {p.job} \cup ToSet(p.todo) \cup {x.job : x \in p.done}
Held(j) == \E s \in Services, k \in Roles : Holds(proc[s][k], j)

\* What the history variables record of a step: a marker that goes while the run
\* it stands for goes on, or with the process; a one-shot job that begins.
Recorded ==
  /\ unmarked' = unmarked \cup
       {j \in Jobs : /\ Held(j)
                     /\ disk[j].running # None /\ disk'[j].running = None
                     /\ Held(j)'}
       \cup (IF started' < started \/ \E s \in Services : loaded[s] /\ ~loaded'[s]
            THEN {j \in Jobs : disk[j].running # None} ELSE {})
  /\ runs' = [j \in Jobs |->
       LET begun == \E s \in Services, k \in Roles : proc[s][k].job # j /\ proc'[s][k].job = j
       IN  IF Kind[j] = "at" /\ begun /\ runs[j] < 2 THEN runs[j] + 1 ELSE runs[j]]

Next == Step /\ Recorded

Spec == Init /\ [][Next]_vars

-----------------------------------------------------------------------------
Times == Nat \cup {None}
JobRecord == [present : BOOLEAN, enabled : BOOLEAN, next : Times, running : Times,
              last : Times, status : {"none", "ok", "error"}]
Result == [job : Jobs, since : 0..Horizon, ended : 0..Horizon, status : {"ok", "error"}]

\* The type invariant.
TypeOK ==
  /\ \A j \in Jobs : disk[j] \in JobRecord /\ \A s \in Services : mem[s][j] \in JobRecord
  /\ loaded \in [Services -> BOOLEAN]
  /\ timer \in [Services -> None..(Horizon + Clamp)]
  /\ \A s \in Services, k \in Roles :
       LET p == proc[s][k]
       IN  /\ p.pc \in {"idle", "clear", "missed", "end", "collect", "work", "finish"}
           /\ p.todo \in Seq(Jobs)
           /\ p.live \in BOOLEAN
           /\ p.job \in Jobs \cup {"none"}
           /\ p.since \in None..Horizon
           /\ p.done \subseteq Result
           /\ p.skip \subseteq Jobs
  /\ started \in Services
  /\ now \in 0..Horizon
  /\ events \in 0..MaxEvents
  /\ created \subseteq Jobs /\ touched \subseteq Jobs /\ unmarked \subseteq Jobs
  /\ runs \in [Jobs -> 0..2]

Executing(j, s) == {k \in Roles : proc[s][k].job = j}

\* A service does not execute a job twice at once, be it by its start, its timer or
\* by hand, unless the job lost its running marker under a run.
NoOverlap ==
  \A j \in Jobs \ unmarked, s \in Services : Cardinality(Executing(j, s)) <= 1

\* Without a reload, a one-shot job is started once, unless a user took it up again
\* or its running marker was cleared under a run, be it by a crash.
OneShotOnce == \A j \in Jobs \ (unmarked \cup touched) : runs[j] <= 1

\* A due run of a job is dropped: its next run moves without a run of the job.
Skipped(j) ==
  /\ disk[j].enabled /\ disk'[j].enabled
  /\ disk[j].next \in 0..now
  /\ disk'[j].next > disk[j].next
  /\ ~\E s \in Services, k \in Roles :
        /\ j \in {x.job : x \in proc[s][k].done}
        /\ proc'[s][k].done = {}

\* Without a reload, ticks, reads and runs of other jobs never drop a due run: only
\* add(), the end of a start and an update do.
OnlyRecomputeSkips ==
  [][\A j \in Jobs : started = 1 /\ started' = 1 /\ Skipped(j) =>
       \E s \in Services : BootEnds(s) \/ (\E k \in Jobs : Add(s, k))
                           \/ \E patch \in {"enable", "schedule"} : Update(s, j, patch)]_vars

\* A marker stands for a run taken and not yet applied; one that a crash or a call left
\* over would keep its job from running for as long as Stuck.  (Without a reload, and
\* once the start has cleared those of the process before; and every variable keeps its
\* type.)
MarkersAreHeld ==
  /\ TypeOK
  /\ started = 1 /\ proc[1]["boot"].pc # "clear" =>
       \A j \in Jobs : disk[j].running # None => Held(j)

\* Once its start is over, the service that serves the gateway always has a timer, no
\* further than Clamp away, while any of its jobs has a next run, whatever calls
\* interleave: also while a tick is executing jobs, unless the service was replaced (a
\* late write of the old one may bring jobs back to a service that dropped its timer,
\* which then has none until its tick ends).
SchedulerAlive ==
  LET s == started
  IN  /\ proc[s]["boot"].pc = "idle" /\ proc[s]["tick"].pc # "finish"
      /\ started = 1 \/ proc[s]["tick"].pc = "idle"
      /\ NextWake(mem[s]) # {}
      => timer[s] \in 0..(now + Clamp)

===============================================================================
