# TLA+ models of the gateway's queues, restarts and deliveries

This directory verifies parts of the OpenClaw gateway: the in-process machinery
that decides which agent run starts when, what happens to waiting work when the
gateway restarts, and what becomes of messages that are to be sent.  The modules
are translated from the TypeScript sources under `src/src/`; line numbers are in
`PROJECT.json` ("map").

## 1. The system

The gateway is one Node process.  Its code runs on one thread, so a stretch of
code between two `await`s is atomic; everything hard comes from what happens at
the `await`s, from signals, and from the process dying.

| component | state | operations | interacts with |
|---|---|---|---|
| command queue (`process/command-queue.ts`) | lanes: queue, active task ids, limit, generation; `gatewayDraining` | enqueue, pump, completion, set limit, clear, mark draining, reset, wait for active | every agent run; reset by the run loop |
| run loop (`cli/gateway-cli/run-loop.ts`) | lock, server, `shuttingDown`, `restartResolver` | start, SIGTERM/SIGINT/SIGUSR1, drain, close, respawn or restart in process | command queue, gateway lock, supervisor |
| followup queue (`auto-reply/reply/queue/`, `utils/queue-helpers.ts`) | map session -> queue of messages, count and lines of dropped messages, `draining` | enqueue, drop policy, drain, clear | the end of each run schedules a drain; a drain runs further turns |
| auto-reply pipeline (`get-reply-run.ts`, `agent-runner.ts`, `followup-runner.ts`) | the run at hand | decide run or queue, run, finalize | followup queue, embedded runs |
| embedded agent runs (`agents/pi-embedded-runner/`) | registry of the runs in an attempt, those who wait for their end | run, retry, abort, wait, compact | two lanes of the command queue; session reset, `/compact`, interrupting messages |
| outbound delivery queue (`infra/outbound/delivery-queue.ts`, `deliver.ts`) | files `<id>.json`, `failed/` | persist, ack, fail, recover at start | channels' senders; runs at every gateway start |
| restart signals (`infra/restart.ts`, `server-reload-handlers.ts`) | pending timer, polls of deferred restarts, tokens of emitted and consumed signals | schedule, defer until idle, emit, authorise | run loop; replies and the queue defer a restart |
| configuration reloader (`gateway/config-reload.ts`) | watcher, debounce timer, `running` / `pending`, the configuration it knows, `restartQueued` | change of the file, reload, apply hot, ask for a restart, stop | restart signals; made and stopped by each start of the server |
| heartbeat wake (`infra/heartbeat-wake.ts`) | pending reasons, timer, `running`, handler | request, coalesce, retry, replace handler | heartbeat runner |
| heartbeat runner (`infra/heartbeat-runner.ts`) | agents with the time they are due, interval timer | start, stop, update of the config, run, enable and disable | wake queue; skips when the main lane is busy |
| cron (`cron/service/`) | a file of jobs, a copy in each service, a timer | start, tick, add, update, remove, run, list | heartbeats and agent runs; replaced by a configuration reload |
| agent-to-agent jobs (`agents/tools/a2a-job-*.ts`) | job files with a status | create, run flow, reap, resume, clean up | gateway start, agent runs |
| task files (`infra/task-lock.ts`, `agents/tools/task-*.ts`) | a file per task, a lock file beside it, a history | start, update, complete, cancel, approve, block, resume, pick, delegate | agents' tool calls; the continuation runner |
| task continuation runner (`infra/task-continuation-runner.ts`) | a timer, counters kept in the task files | recover zombies, pick from the backlog, ask for help with blocked tasks, remind | task files; runs agents with a lock in hand |
| others | | | listed in `PROJECT.json` with the reason they are left out |

What is hard, and what makes each component correct:

* command queue: completions of tasks that a reset has already forgotten; limits
  that change under active tasks; clears.  Slots must be accounted for, nothing
  may wait beside a free slot, order must be kept, every entry must settle.
* run loop: signals at any await of either the loop or the teardown.  Restarts
  and stops must complete, the lock must be given up only when closed, work must
  neither be accepted in the middle of a restart nor lost by it.
* followup queue: the drain holds an object across a turn while messages arrive,
  the drop policy removes old ones, settings change, and the queue is cleared.
  No message may be lost, mixed with another conversation or run twice; what is
  accepted must be run.
* delivery queue: crashes between write, send and removal; a recovery next to the
  deliveries of the same process.  No message may be lost; retries are bounded.
* embedded runs: a run holds its session's lane while it waits for the global
  one; who aborts a session knows only the registered attempt.  No run may wait
  for ever, a session must not have two runs, an aborted run must stay down.
* restart signals and reloads: restarts from a timer, a poll and the reloader
  coalesce, defer and overtake each other, and reloads outlive the server they
  belong to.  A restart asked for must come, and the file must end in effect.
* heartbeats: the callback of a timer awaits agents while requests, config
  updates and new runners come in.  Wakes must be served, batches must not run
  side by side, the schedule must go on.
* cron: start, tick and calls interleave around the execution of jobs, each with
  its own copy of the file.  A job must not run twice at once, a one-shot job not
  twice at all, and the timer must not die.
* agent-to-agent jobs: crashes and restarts between the steps of a file's update,
  the reaper beside flows.  One flow per job, no finished job reopened, none
  left open.
* tasks: lock files that expire under their holders, copies read before a lock, a
  runner that holds a lock while another agent runs, crashes between the history
  and the removal.  No task may vanish, no write overwrite another's, and an
  abandoned task must end.

`PROJECT.json` ("hazards") lists each of these at its line with the properties
that watch it.

## 2. Modules

| module | what it is |
|---|---|
| `CommandQueue` | the queue, one action per exported operation; `Drain` is `drainLane` |
| `CommandQueueProofs` | theorems about it, checked by TLAPS, as are those of the other `...Proofs` |
| `GatewayRunLoop` | the run loop over `Q == INSTANCE CommandQueue` |
| `RestartSignals` | scheduled restarts and the configuration reloader; extends `GatewayRunLoop`, whose actions are conjuncts of its own |
| `RestartSignalsProofs` | theorems: the run loop implements the queue, restarts and reloads implement the run loop, nothing that was asked for is forgotten |
| `EmbeddedRuns` | agent runs and compactions over `Q == INSTANCE CommandQueue`, the registry of runs |
| `EmbeddedRunsProofs` | theorems: runs implement the queue; one run per session, the registry, aborted runs |
| `FollowupQueue` | one session's followup queue, its drain and the runs around it |
| `FollowupQueueProofs` | theorems: nothing lost, no mixed turn, in order and once |
| `DeliveryQueue` | the write-ahead queue, its senders and recoveries, crashes |
| `HeartbeatWake` | the wake queue: operators on its state |
| `HeartbeatRunner` | the runners over the wake queue, with time |
| `HeartbeatRunnerProofs` | theorems: batches do not overlap, no heartbeat too early |
| `CronService` | the services of a process over one file of jobs, with time |
| `CronServiceProofs` | theorems: no overlap, one-shot jobs once, markers, the timer, due runs |
| `A2AJobs` | job files, flows, the reaper and the start of the gateway |
| `DurableQueuesProofs` | theorems about `DeliveryQueue` (no message lost, none put aside without cause) and `A2AJobs` (one flow per job, the file follows it, finished jobs stay finished) |
| `TaskFiles` | task files, their locks, the tools that change them, the chains of checks |
| `TaskFilesProofs` | theorems: nothing vanishes, requests are bounded, locked writes are fresh |
| `MC...` | instances for TLC, one module per component |

**CommandQueue.** `queue[l]`, `active[l]`, `maxConcurrent[l]`, `generation[l]`
are a lane's fields and `gatewayDraining` the flag.  Task ids are the entries
themselves.  `phase[t]` says where an entry is, from `idle` to `resolved`,
`rejected`, `cleared` or `refused`; `taskGeneration[t]` is the generation a task
captured when it started; `ticket` records arrival order for the properties.  The
lane's `draining` flag is never true between two steps (`drainLane` sets and
clears it without an `await`), so it has no variable.  A task that returns after a
reset is `FinishStale`: `completeTask` answers false and nothing is freed.

**GatewayRunLoop.** The loop and the teardown are two threads of control with a
variable each (`loop`, `teardown`) that says what they await.  `resolverArmed`
says whether `restartResolver` belongs to the promise the loop awaits: it is the
difference between `NextIteration` and `ResolverStale`.  Signals may arrive at any
time, the close may throw, the lock may be lost, tasks may never return.  The
poll of `waitForActiveTasks` is `Drained` or, at its deadline, `DrainTimeout`.

**RestartSignals.** It extends `GatewayRunLoop`: each step is one of the loop, perhaps
with what else happens in it (`BeginsToWatch`, `StopsWatching`, `BeginsLife`), or leaves
the loop alone.  `Spec` is the loop's specification, `SignalsSpec` that of the two
together.  The signal is emitted by `process.emit`: the run loop's handler has taken it
before anything else runs, so tokens and authorisations are consumed in the step that
makes them and are no state.  `timer` is the pending timer of a scheduled restart,
`polls` counts the polls begun by such timers.  `reload[i]` is
the reloader of the `i`-th life: `watching`, its `debounce` timer, `stage` (`idle`,
reading the file, applying it hot), `pending` for a change in the meantime,
`queued` for `restartQueued`, and `checking` and `waiting` for what its restart
handler awaits.  A reloader is stopped with its server and may go on with what it
awaits.  The file's content is the numbers of the last edits of what needs a
restart (`cold`) and of what does not (`hot`).  Pending replies are left open, so a
restart may be deferred at any time, and a poll may end at any time.

**EmbeddedRuns.** A run `r` is two entries of the queue, `Outer(r)` in its
session's lane and `Inner(r)` in a global one: the task of the first enqueues the
second and awaits it.  `stage` says what the inner task is at: preparing an
attempt, in an attempt (and then its handle is in `registry`), or past one, when
the run retries, or finishes.  `stopped` is what the attempt's `aborted` and
`timedOut` amount to.  `wanted` are the runs that may be asked for.  `command` and `cleanup` are those who wait in
`waitForEmbeddedPiRunEnd`; `target` and `displaced` are history.  What follows
from an entry's start or settlement without a timer or I/O is done at once
(`Quiet`).  `Drain` and `Reset` are what the run loop does to the lanes.

**FollowupQueue.** Queue objects are numbered and `current` is the one in the
map, because a drain keeps the object it began with after a clear.  `pc` is what
the drain awaits (`debounce` or a turn); `batch`, `lines0` and `summary0` are what
it captured before the turn.  A message is a model value with an id and a route;
the prompt a turn carries is the set of messages in it.  `inbound` follows a
message up to the queue: `checked` is the window between reading
`isEmbeddedPiRunActive` and enqueueing.  The sets `ran`, `told`, `dropped`,
`cleared` and `failed` are history, for the properties only.

**DeliveryQueue.** `disk[d]` is the retry count in a message's file.  Each
sender's step is one file system call or one attempt.  An attempt sends all
payloads, some of them (best effort), throws, is aborted by its caller or times
out.  A recovery reads all files at one instant (the code reads them one by one)
and then works through its copy; how long a backoff lasts is left open.  A
restart in the process begins another recovery beside what is under way; a crash
ends everything but the files.

**HeartbeatWake, HeartbeatRunner.** The wake queue is one record, because a
stretch of code calls several of its operations: `Queue`, `Schedule`, `Fire`,
`Requeue`, `FinishBatch` are functions of the record.  A reason is its priority, a
handler the number of the runner that registered it.  An execution (`execs[s]`)
is one run of the timer's callback with the batch it took; within a call of the
handler it awaits one agent at a time (`AgentBegins`, `AgentReturns`), or finds
the agent off or the main lane busy.  What follows a callback without I/O is done
before the next callback (`Quiet`).  Time is in ticks: `due`, `timer` and the wake
timer count down.

**CronService.** `disk` is the file, `mem[s]` a service's copy.  A block under
`locked()` is one action.  `proc[s]` says what a service is executing in its
start, on its timer and by hand: between the block that takes jobs and the block
that applies the results, anything else may happen.  A reload builds another
service beside what the former one still has under way; a crash leaves the file.
Schedules are a period on a grid, a cron expression of the same period, or a time.

**A2AJobs.** A change of a job's status is a read, a write of the temporary file
and a rename, each a step, for the flow as for the reaper; two writers of one job
share the temporary file.  `boot` is how far a start is: listing, reading, reaping,
cleaning, resuming.  Only the status and the age class of a file are kept; time
passes (`Later`) only while no flow is under way, so that the age of a job under
way is never over an hour.

**TaskFiles.** `file[t]` is what `<task>.md` says, `lock[k]` the lock file: a process
id and a time, so only `free`, `torn` (created and not yet written), `fresh`, `old`
or `dead`.  An actor is a tool call of a session or a chain of checks, that is a
timer of the runner that arms itself again; `act[a]` is the call of the file system
it awaits, its copy of the task, and for a chain the tasks left in the stage
(`zombies`, `pickup`, `unblock`, `remind`).  `agent` is a run of an agent awaited
with the lock in hand, the only thing that makes a lock old (`Ages`).  `bypassed`
are the tasks whose lock was taken from its holder or written around, `stale` marks a
copy that the file has left behind; both are history, as are `born` and `sent`.
`Stored` is what `formatTaskFileMd` leaves of a copy: the count of recoveries is part
of the backlog section, and a task that `task_backlog_add` did not make (`added`) has
that section only while it is in the backlog.  The blocking section is gone when a
task is resumed, and the count of failed requests with it (`Effects`).

## 3. Runs

Bounds are in the `.cfg` files and, for the constants with a definition, in the
`MC` modules.

| run | instance | shows |
|---|---|---|
| `queue` | lanes `main` and `session`, three entries, limits 0, 1, 2 asked for, two resets, tasks that return | slots and queues in step, FIFO, no idle capacity, starts within the limit; accepted entries settle |
| `loop_safety` | one session lane, two entries, three signals, two in-process restarts | `QueueSpec`: every step of the loop is a step of the command queue or leaves it alone, so no slot or queued entry is lost; a restart accepted by a serving gateway completes, and so does every stop that is not ignored |
| `restart_signals` | an idle gateway with a scheduled restart and two changes of the file (also into an invalid file, or none) in every reload mode, or one with an entry, a scheduled restart and one change; one in-process restart | in every state what was asked for is remembered somewhere; every restart asked for is carried out, the file ends in effect |
| `embedded` | one global lane of limit 1; two turns and a compaction of one session, or a turn and a compaction of one and a compaction of another; two attempts per run, interrupts, a reset of the first session, one restart | one run per session in a life of the gateway; the registry and its waiters; aborted runs stay down; accepted runs settle |
| `followup` | four messages, two of one origin, one of another, one of none; a change of settings at each message between `new`, `old` and `summarize`, caps 1 and 2, modes followup and collect; clears, two queue objects, replies that throw | nothing lost before a drop or clear, no turn mixes origins, oldest first, run once, what a drain finds is settled |
| `delivery` | one message, with best effort or without, recoveries of two starts at once, crashes, failing writes, two retries | nothing lost, nothing put aside without cause, every file leaves the queue if the gateway is started again and again |
| `heartbeat` | two runners, two agents, one request, one event (busy lane, config update or switch), interval and retry delay of a tick | batches do not run side by side, cooldown and interval kept, every wake served, heartbeats keep coming |
| `cron` | a recurring and a one-shot job, two services, one call, reload or crash, two ticks | no overlap, one-shot jobs once, no marker left over, a timer while there is something to run, due runs kept by ticks and reads |
| `a2a_jobs` | two jobs, three crashes, one restart in the process, days without a gateway | one flow per job, the file tells how far the flow is, finished jobs stay so, all jobs finish |
| `tasks` | one task; any two tool calls, or any call (`update` left out, a delegation writes as much) with the checks and a crash, or two chains of checks on a blocked task; two requests, failures and recoveries | a task is in its file or the history, requests are bounded, writes under a lock that was not bypassed are of fresh copies, an abandoned task ends, or is picked up again and again if `task_start` made it |

Two entries of one lane suffice for an overtaking, three for a lane at a limit of
two with one waiting, two resets for a task two generations old.  Three signals
reach a signal during a teardown of a second lifecycle.  Four messages are one in
flight, two in a full queue and one that overflows it.  Two retries are one
recorded failure below the limit and one at it.  Three runs of a session are one
under way, one waiting and a compaction to abort it; one restart is what it takes
to have two runs of a session side by side.  Two sessions make a run hold its
session's lane while it waits for the global one; sessions share nothing else, and
the other session has only a compaction there (`wanted` chooses between the two
casts, as all four runs together have millions of states).  Two runners are a former handler under
the reset of the next.  Two changes are one under way and one that finds it so, in the
reload, the restart or the start after it; with work in the way, one change and a
scheduled restart defer and overtake each other.  In `cron` one call, reload or crash falls between any two
steps; a job with a cron expression is in the larger instance `ThreeJobs` of
`MCCron`, for which the same properties were found to hold in some four minutes.
Tasks share nothing but the lock of a pickup, and a race for a lock or a file is
between two, so one task and two actors reach the races; a third (two calls and a
chain) has over four million states.  The code's limits of three requests, failures
and recoveries are two here: one below the limit and one at it.

Every lane of `embedded` keeps the one slot it begins with (`Requests <- {}`), where the
gateway gives `main` four (`server-lanes.ts`): with one slot the runs of a session and
of another wait for each other most.  Limits above one are checked in `queue`.
`FollowupQueue!CollectAll` compares the channels and takes the items in one step; in
the code a promise already settled is awaited between the two (`drain.ts:71`).

Where a module has a `TypeOK` it is a conjunct of one of the invariants.

`CHECK_DEADLOCK FALSE` is used where a system may stop: all entries settled, the
process exited, all messages handled, all runs done.

### Disagreements with the documentation

Two runs expect the violation of one property each, quoted in `PROJECT.json`
("findings"):

1. `loop_restart_while_starting`: SIGUSR1 while `params.start()` is pending; the
   gateway then refuses all work for good.
2. `embedded_drain`: a run queued in its session's lane is started by the drain of
   a restart and refused when it enqueues itself in the global lane; queued
   entries are said to be preserved.

The same models show more behaviours a reader of the properties should know of.
Each is exempted by name in a property, or by the values of constants:

* A SIGTERM during an in-process restart is dropped (`run-loop.ts:95`): `StopCompletes`
  is about stops that are not.
* Of two deferred restarts each emits its signal, so that one request may be followed
  by two restarts (`restart.ts:222`).
* A message queued just after the run it waited for has ended waits for the next one:
  nobody schedules its drain (`get-reply-run.ts:439`).  `DrainSettles` begins with a
  drain.
* A resumed job has no reply to go on from: its flow returns at once and the job is
  recorded as completed (`sessions-send-tool.a2a.ts:63`).
* Past the drain deadline two runs of one session are under way
  (`docs/concepts/queue.md:83` says one): `OneRunPerSession` and `RegistryTruthful`
  speak of one life of the gateway.
* A session's reset or deletion finds no run that waits for the global lane,
  prepares, or is between two attempts, and reports the session as quiet
  (`runs.ts:72`).
* An attempt that is aborted and then times out is repeated with another profile
  (`run.ts:985`): `AbortedStaysDown`.
* A drop that takes the message in flight makes the end of its turn remove another
  one (`queue-helpers.ts:97`); the turn with the summary removes the oldest message
  though it did not carry it (`drain.ts:119`); a drain that outlives a clear deletes
  the queue that followed it (`drain.ts:147`).  `NothingLost` and `DrainSettles`
  therefore end with the first drop or clear (`NothingDropped`).
* With cap 1 and a drop in flight the drain schedules itself for ever without a
  pause (`drain.ts:149`).
* A recovered best-effort message with failed payloads is acked
  (`delivery-queue.ts:341`), as is a request timeout that looks like an abort
  (`deliver.ts:278`): `swallowed` and `given` in `NoMessageLost`.
* A recovery takes every file, also of a message that is just being sent
  (`delivery-queue.ts:286`), and `failDelivery` may bring back the file of a
  message that another sender has acked (`delivery-queue.ts:140`): delivery is
  at least once.
* Heartbeats that were disabled when the interval timer fired do not come back
  when they are enabled (`heartbeat-runner.ts:1094`; `docs/cli/system.md` says
  "turn heartbeats back on"): `HeartbeatsKeepComing` assumes them enabled.
* A heartbeat put off by a busy lane advances the schedule, so that its retry finds
  no agent due (`heartbeat-runner.ts:1170`; `docs/gateway/heartbeat.md:232` says it
  is retried later).
* After a reload the former service goes on with what it has under way and may arm
  its timer again (`timer.ts:441`), and the new one clears the markers of its runs
  (`ops.ts:105`): two services execute a job side by side (`unmarked`).
* The end of a start recomputes every next run (`ops.ts:116`) and drops runs that
  the catch-up had kept (`timer.ts:572`): `OnlyRecomputeSkips` names it.
* A flow that outlives an in-process restart gets a second one beside it, and its
  COMPLETED may be reset to PENDING (`survived`); two writers of one job share a
  temporary file, and the second rename fails (`a2a-job-manager.ts:233`).
* A change of the configuration between a start's reading of it and its watching is
  not noticed (`server.impl.ts:346`): `missed` in `ConfigTakesEffect`.
* A change whose hot reload or restart check failed is tried again only when the same
  settings change again, because the reloader's copy has already advanced
  (`config-reload.ts:301`): `dropped`.
* The second of two deferred restarts may be emitted while the next life starts, and
  leaves it refusing work, as in the first disagreement: `Wedged`.
* A lock file that was just created and not yet written reads as malformed and is removed
  (`task-lock.ts:51`), two who find a stale lock may both remove and create one, and
  a release removes whatever file is there (`task-lock.ts:74`).  A delegation is
  written without the lock when it is refused (`task-delegation-persistence.ts:36`),
  and `task_approve` takes none: `bypassed`.
* `task_block`, `task_resume` and `task_cancel` write the copy they read before they
  took the lock (`task-blocking.ts:223`, `task-crud.ts:874`), and may bring a completed
  task back: `LockedWritesAreFresh` is about the tools that read it again.
* A reminder to resume a task holds that task's lock while its agent runs, so the
  `task_resume` it asks for is refused for the first minute
  (`task-continuation-runner.ts:943`).  Failed unblock requests have no cooldown, and
  an escalation that has `failed` goes on when requests are left.
* A task of `task_start` that its agent never comes back to is recovered and picked up
  for ever: the pickup writes the file without `reassignCount` (`task-file-io.ts:220`),
  so that each recovery is "reassign #1/3" (`task-continuation-runner.ts:1231`), and
  the task is never "kept interrupted", nor its lead told, as the comment at
  `task-continuation-runner.ts:1256` has it.  `AbandonedTasksEnd` exempts these tasks
  where they are picked up again (`Forgotten`); without that disjunct TLC finds the
  cycle, and it holds in full for the tasks of `task_backlog_add`, whose count is kept.
* Each in-process restart adds a chain of checks, as nobody stops the former runner
  (`server-startup.ts:300`).  Two chains can refuse each other a lock at every check:
  `AbandonedTasksEnd` is about one.

### Fairness

* `CommandQueue!FairSpec`: each running task returns.  The queue itself needs
  no fairness: it pumps in the step that frees a slot.
* `GatewayRunLoop!FairSpec`: timers fire, file operations and `params.start()`
  settle.  Tasks need not return, closes may hang (the force-exit timer ends
  them).
* `RestartSignals!FairSignals`: timers fire, promises settle, a poll has a deadline
  (`maxWaitMs`), and the loop goes on as in `GatewayRunLoop`.  Nobody need edit the
  file, ask for a restart or give work.
* `EmbeddedRuns!FairSpec`: the steps of a run are taken: promises settle, and an
  attempt has a timer.  Nobody need abort, wait or restart.
* `FollowupQueue!FairSpec`: timers fire, turns return or throw, and a turn that
  is tried again and again does not throw every time (strong fairness of
  `TurnDone`; `followup-runner.ts` catches the errors of the agent itself).
* `DeliveryQueue!FairSpec`: what was begun goes on; the backoff of a message does
  not last for ever (strong fairness of taking it); the gateway is started again
  and again, which is what the code's "deferred to next restart" relies on.  The
  property assumes that crashes stop: an attempt that kills the process every time
  is never counted.
* `HeartbeatRunner!FairSpec`: the clock goes on, timers fire, heartbeats return.
* `A2AJobs!FairJobs`: a start goes on, a service manager starts a dead process
  again (`BootStep`), the calls of a flow have timeouts.
* `TaskFiles!FairSpec`: promises settle, timers fire, a dead process is started again,
  runs of an agent return; a cooldown or a busy lane does not meet every check (strong
  fairness of `Requests` and `PicksUp`), and a task nobody works on becomes idle.  That
  a task of the backlog has its dependencies met and its start date past is assumed.
* `CronService` has safety properties only: that the timer is armed, not that it
  fires.

## 4. Proofs

Each safety property of a passing run, invariant or action property, is a theorem,
for all constants that satisfy the assumptions next to their declaration.

`CommandQueueProofs` proves, for any set of entries and any lanes, limits
and bounds satisfying `QueueAssumption`, that `Spec` implies `[]QueuesInStep` (which
is `TypeOK` and `QueueMatchesPhases`), `[]SlotsAccounted`, `[]FifoPerLane`,
`[]NoIdleCapacity` and the action property `StartsWithinLimit`.

The conjunction `IInv` is inductive.  Besides the properties themselves it needs:
`FiniteActive` (cardinalities of slots make sense), `TicketsBounded` (arrival
numbers are below the next one, and those of entries that arrived are at least
one), and `GenerationsPast` (no task is of a generation to come, so a reset
cannot revive one).  `SlotsAccounted` depends on the last: after a reset, a stale
task must never match the new generation.  `FifoPerLane` and `NoIdleCapacity` go
through a set of lemmas about `Drain`, the pump: what it takes from a queue, what
it adds to the active set, and that it leaves either no room or no entry.

`LanesAreSerial` adds what those rely on who put a session in a lane of its own: if
nobody asks for a limit other than one, no two entries of a lane and a generation are
both running.

`RestartSignalsProofs` composes what restarts the gateway, layer by layer.
`LoopUsesQueue`: the run loop implements the queue (`Spec => QueueSpec`).  Each
step of the loop is an operation of the queue or leaves its variables alone, except
that `markGatewayDraining` and the reset of the lanes share a step with other state
(`StepRefines`).  `LoopKeepsQueue` then carries the queue's invariants over to the run
loop, where the entries are not the only actors.  An instance has its own copy of
every library operator, so three small lemmas (`SameCardinality`, `SameDrain`,
`SameNext`) identify the copies.  `SignalsUseLoop`: scheduled restarts, their polls and
the reloader restart the gateway by the signal alone, so with them the loop takes the
steps it takes without them (`SignalsSpec => Spec`, step by step in `SignalsRefine`).
`SignalsUseQueue` and `SignalsKeepQueue` combine the two: slots, order and phases of the
queue are kept across scheduled restarts, reloads that need one and signals that are
ignored.

The same module proves what safety there is in "nothing is forgotten".
`RequestPending`: from the request of a restart until a later start reads the
configuration, a timer or a poll is to ask for it, or the process is ending.
`EditPending`: while a valid file is not in effect it is to be read, applied or
followed by a restart, unless it was `missed` or `dropped`.  With fairness, which takes
each of these on, they are why `RequestHonoured` and `ConfigTakesEffect` hold.
`NothingForgotten` is their conjunction with the types.

The other proof modules treat one component each (`DurableQueuesProofs` two, the queues
that live in files), all in the same way: an inductive invariant that contains the
properties or implies them, a lemma for each action or each kind of step, and theorems
`Spec => []Property`.  TLC finds each inductive invariant to hold on the instance of the
component's run, too.

| module | theorem | property |
|---|---|---|
| `EmbeddedRunsProofs` | `RunsUseQueue` | `Q!Spec`: runs implement the command queue |
| | `OneRunInASession` | `OneRunPerSession` |
| | `RegistryIsTruthful` | `RegistryTruthful` |
| | `AbortedRunsStayDown` | `AbortedStaysDown` |
| `DurableQueuesProofs` | `NoMessageIsLost` | `NoMessageLost` |
| | `NotPutAsideWithoutCause` | `PutAsideForCause` |
| | `JobHasOneFlow` | `OneFlowPerJob` |
| | `FileTellsStage` | `RecordFollowsFlow` |
| | `FinishedForGood` | `FinishedStaysFinished`, an action property |
| `FollowupQueueProofs` | `NothingIsLost` | `NothingLost` |
| | `TurnsAreOfOneOrigin` | `NoMixedTurn` |
| | `RunInOrderAndOnce` | `RunsOnceInOrder`, an action property |
| `TaskFilesProofs` | `NoTaskVanishes` | `NothingVanishes` |
| | `RequestsAreBounded` | `RequestsBounded` |
| | `LockedWritesOverwriteNobody` | `LockedWritesAreFresh`, an action property |
| `CronServiceProofs` | `JobsDoNotOverlap` | `NoOverlap` |
| | `OneShotsRunOnce` | `OneShotOnce` |
| | `NoMarkerIsLeftOver` | `MarkersAreHeld`, with `TypeOK` |
| | `TimerStaysAlive` | `SchedulerAlive` |
| | `OnlyRecomputesSkip` | `OnlyRecomputeSkips`, an action property |
| `HeartbeatRunnerProofs` | `BatchesDoNotOverlap` | `SingleFlight`, with `TypeOK` |
| | `NoHeartbeatTooEarly` | `NeverTooEarly`, an action property |
| `RestartSignalsProofs` | `NothingIsForgotten` | `NothingForgotten`, with `TypeOK` |

What the inductive invariants add to the properties, and why:

* **EmbeddedRuns.**  `RunsUseQueue` gives the runs the queue's invariant and
  `LanesAreSerial`.  `Nested`: the inner entry of a run is queued or running only while
  the outer one runs, so two runs under way in a session are two running entries of one
  serial lane, hence of two generations.  `TargetIsDoomed`: the run a cleanup aborted
  is in that attempt or past it; without it an aborted run might begin another.
  `FreshUnlessUnderWay`: no run starts with a mark left by somebody else.
* **DeliveryQueue.**  `AcksEarned`: whoever is about to remove a file has sent, given
  up or swallowed the message.  `PutAsideForCause` needs an account of counts that
  several writers read, hold and write back over each other: `Books` says that the
  count in the file, and any count someone is about to write, plus the failures not yet
  recorded (`Owed`), never exceeds the failures there were.  `LoadedCounts` says the
  same of the counts a recovery has loaded.
* **FollowupQueue.**  `Captured` ties what a turn captured to what it is about,
  `InOrder` the items to the order of arrival and the captured ones to the front, and
  `RanOnce` says that what waits has not run.  `Carried`: before the first drop, what
  the turn carries is what the splice after it removes.  `Single` and `Apart`: before a
  clear only the object in the map is at work, and objects share no message.
* **A2AJobs.**  `Followed`: the file and the temporary file are at the stage of the
  flow, between any two file operations.  `Judged`: what a start has read and not yet
  acted on is still so, as `Quiet` says that only flows that outlived a restart are
  under way meanwhile.
* **TaskFiles.**  `Locked`: a lock that nobody bypassed has exactly the holder who
  counts on it.  `AllFresh` follows from it, the copy read under the lock is the file's.
  `AllCounted`: the file of a blocked task, or the copy about to replace it, counts
  every request sent.  `Shapes` says what an actor has in hand at each call, above all
  that who removes a task's file has it in the history.
* **CronService.**  `AllMarked`: a run taken has its marker in the file and in the
  memory of its service, and its service holds the job once.  `Single`: a service that
  is the only one has in memory what is in the file, and each marker stands for a run.
  `AllOnce`: a one-shot job that was started is begun or disabled, and on no list.
  `AllProper`: an enabled job has a next run, unless it is a one-shot job that is over
  (otherwise maintenance, which fills in missing next runs, would move others).
  `Act(s, k)` collects what a step of the role `k` of the service `s` may do to a job;
  one lemma per action shows that it is such a step, one per conjunct that such a step
  keeps the invariant.
* **HeartbeatRunner.**  `FewFlights`: the batches under way are those that were running
  when a handler was replaced, and the one the flag stands for; so a call may begin only
  when there is none but those.  `CooldownHeld`: during a cooldown the timer is a retry's,
  which no request moves, and goes off after it.  While no batches overlap (`Paced`):
  `RestBeforeDue`, an agent is not due before its interval is over, unless an attempt at
  it is under way; `AwaitedRests`, the interval that begins with an attempt is as old as
  the attempt; `AheadRested`, the agents an interval call has yet to attempt were due
  when it began and nobody attempts them meanwhile.
* **RestartSignals.**  `Present`: unless the process is ending, the reloader of this life
  knows the file or will read it (`Known`), what it knows is in effect or is being made so
  (`Applied`), and a restart it has queued is being checked, is to come, or was given up
  (`QueuedOnce`).  Before there is a reloader, the file is what the start read.  `Flags`:
  a restart under way refuses work until the next iteration, so a life whose reloader was
  stopped is over, or `Wedged`.  `Counted`: the generation of every
  lane is the number of the life, and lives to come have no reloader.

Assumptions are those on the constants, next to their declaration: sets are disjoint
from the values that stand for nothing, bounds are numbers, jobs of cron are finitely
many, there is at least one choice of settings of a followup queue, one lane, and no
agent is listed twice.  Every run evaluates them.

What was learned from proofs that failed:

* `SchedulerAlive` used to claim a timer at every moment after the start.  That does
  not hold after a reload: the timer goes when a call leaves no next run
  (`timer.ts:249`), and while a tick is executing, a late write of the replaced service
  may bring a job back into the file and so into the memory of the new one, which arms
  its timer again only when the tick ends.  TLC finds it with one recurring job, two
  services, four calls and reloads and three points of time.  The property now asks for
  the timer at all times while the service is the first of its process, and outside of
  ticks afterwards.
* The bound on the retry count in `DeliveryQueue`'s `TypeOK` did not hold: recoveries
  that overlap count on from what they read, and with three of them and a limit of five
  a file reaches a count of ten where the bound allowed nine.  Nothing in the code
  bounds it, so its type is a number; `PutAsideForCause` is what matters.
* `Enqueue` of `FollowupQueue` called the drop policy's splice also below the cap, with
  nothing to drop, where the code returns early (`queue-helpers.ts:90`).
* The count of dropped messages in `FollowupQueue`'s `TypeOK` is bounded by the messages
  accepted, not by a constant of the instance.

### What stays with TLC

Liveness under fairness is out of the prover's reach: `EveryEntrySettles`,
`ServingRestartCompletes`, `StopCompletes`, `RequestHonoured`, `ConfigTakesEffect`,
`EveryRunSettles`, `DrainSettles`, `EveryEntryLeaves`, `EveryWakeServed`,
`HeartbeatsKeepComing`, `EveryJobFinishes` and `AbandonedTasksEnd`.  What they need in
each state, that nothing is forgotten, is proved for some of them (`NothingForgotten`,
`NothingLost`, `NoMessageLost`, `NoIdleCapacity`, `SchedulerAlive`); that it happens is
not.  No module declares a recursive operator; recursion would take modules out of the
prover's reach as well.

## 5. Plan

Done: command queue, run loop, followup queue, delivery queue, heartbeats, cron,
agent-to-agent jobs, embedded runs, restart signals and configuration reloader, task
files and the continuation runner; the proofs of every safety property the runs check,
and of the refinements from restarts and reloads down to the command queue.  Candidates
for what comes next: self-driving and step continuation of tasks, the subagent registry
and its announce queue, restarts of channels.

## 6. Not modelled

Native apps, the web UI, channel plugins, memory, browser, media and CLI commands:
I/O and formatting without protocols of their own.  Within the modelled components: warnings and
diagnostics; the debounce's length; prompt texts; steering a message into a running
turn (it never reaches the followup queue); the chunking of an outbound message;
the migration of delivery files without a time of last attempt; the liveness of
lock owners, which the operating system decides; which failure of an attempt leads
to which next one, the caller's own abort signal, a caller's own `enqueue`, and the
new session id after a reset (the session's lane stays the same); what a heartbeat
says and to whom; the migration of cron stores, paging, webhooks and
`maxConcurrentRuns` above one; `recordTurnProgress`, which nothing calls, and the
resume counters of agent-to-agent jobs; errors of the file watcher, changes of the
reload mode itself, and how long cooldowns and delays of a restart are; the steps,
milestones and pointers of tasks, the prompts and backoffs of the continuation
runner, and asking several agents in turn.
