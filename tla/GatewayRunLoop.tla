--------------------------- MODULE GatewayRunLoop ---------------------------
(***************************************************************************)
(* The life of the gateway process: src/cli/gateway-cli/run-loop.ts over   *)
(* the command queue it drains and resets.  Two asynchronous activities    *)
(* share the closure variables of runGatewayLoop: the loop, which awaits   *)
(* params.start() and then the restart promise, and the teardown that a    *)
(* signal begins (request), which awaits the drain, server.close() and the *)
(* lock.  Each action is one stretch of code between two awaits.           *)
(***************************************************************************)
EXTENDS Integers, Sequences, FiniteSets

CONSTANTS
  Lanes, Tasks, LaneOf,   \* as in CommandQueue
  MaxGeneration,          \* bound: in-process restarts
  RespawnModes,           \* outcomes restartGatewayProcessWithFreshPid may have
  MaxSignals              \* bound: signals delivered

ASSUME LoopAssumption ==
  /\ LaneOf \in [Tasks -> Lanes]
  /\ MaxGeneration \in Nat
  /\ RespawnModes \subseteq {"spawned", "supervised", "disabled", "failed"}
  /\ MaxSignals \in Nat

VARIABLES
  queue, active, maxConcurrent, generation, gatewayDraining,
  phase, taskGeneration, ticket, nextTicket,   \* as in CommandQueue
  lockHeld,       \* lock # null
  serverSet,      \* server # null
  listening,      \* a server that params.start() started has not been closed
  loop,           \* what the while loop awaits
  resolverArmed,  \* restartResolver would resolve the promise being awaited
  shuttingDown,
  teardown,       \* what request's async function awaits
  isRestart,      \* the action request is carrying out
  activeAtStart,  \* the tasks waitForActiveTasks waits for
  proc,           \* the process: running, or how it ended
  signals,        \* signals delivered so far
  restartAsked    \* what the loop awaited when the restart under way was accepted (history)

queueVars == <<queue, active, maxConcurrent, generation, gatewayDraining,
               phase, taskGeneration, ticket, nextTicket>>
loopVars == <<lockHeld, serverSet, listening, loop, resolverArmed, shuttingDown,
              teardown, isRestart, activeAtStart, proc, signals,
              restartAsked>>
vars == <<queueVars, loopVars>>

Q == INSTANCE CommandQueue WITH Requests <- {}

Active == UNION {active[l] : l \in Lanes}

-----------------------------------------------------------------------------
\* runGatewayLoop up to the first await of params.start(): the lock is held
\* and the signal handlers are installed.
Init ==
  /\ Q!Init
  /\ lockHeld = TRUE
  /\ serverSet = FALSE
  /\ listening = FALSE
  /\ loop = "starting"
  /\ resolverArmed = FALSE
  /\ shuttingDown = FALSE
  /\ teardown = "none"
  /\ isRestart = FALSE
  /\ activeAtStart = {}
  /\ proc = "running"
  /\ signals = 0
  /\ restartAsked = "none"

\* Agent runs and other work use the queue while the process lives.
Work ==
  /\ proc = "running"
  /\ \/ \E t \in Tasks : Q!EnqueueRefused(t) \/ Q!Enqueue(t) \/ Q!Finish(t)
     \/ \E l \in Lanes : Q!ClearLane(l)
  /\ UNCHANGED loopVars

\* server = await params.start(), then the restart promise is created.
StartDone ==
  /\ proc = "running" /\ loop = "starting"
  /\ ~listening
  /\ serverSet' = TRUE
  /\ listening' = TRUE
  /\ loop' = "waiting"
  /\ resolverArmed' = TRUE
  /\ UNCHANGED <<queueVars, lockHeld, shuttingDown, teardown, isRestart,
                 activeAtStart, proc, signals, restartAsked>>

\* params.start() rejects (it must while an earlier server still listens):
\* the finally block releases the lock and the command fails.
StartFails ==
  /\ proc = "running" /\ loop = "starting"
  /\ proc' = "crashed"
  /\ lockHeld' = FALSE
  /\ UNCHANGED <<queueVars, serverSet, listening, loop, resolverArmed, shuttingDown,
                 teardown, isRestart, activeAtStart, signals, restartAsked>>

-----------------------------------------------------------------------------
\* request("stop"): straight to server.close().
Stop ==
  /\ proc = "running" /\ signals < MaxSignals
  /\ ~shuttingDown
  /\ signals' = signals + 1
  /\ shuttingDown' = TRUE
  /\ isRestart' = FALSE
  /\ teardown' = "closing"
  /\ UNCHANGED <<queueVars, lockHeld, serverSet, listening, loop, resolverArmed,
                 activeAtStart, proc, restartAsked>>

\* An authorised SIGUSR1: request("restart") marks the gateway as draining and,
\* if tasks are active, begins to wait for them.
Restart ==
  /\ proc = "running" /\ signals < MaxSignals
  /\ ~shuttingDown
  /\ signals' = signals + 1
  /\ shuttingDown' = TRUE
  /\ isRestart' = TRUE
  /\ restartAsked' = loop
  /\ Q!MarkDraining
  /\ activeAtStart' = Active
  /\ teardown' = IF Active = {} THEN "closing" ELSE "draining"
  /\ UNCHANGED <<lockHeld, serverSet, listening, loop, resolverArmed, proc>>

\* "received ... during shutdown; ignoring".
Ignored ==
  /\ proc = "running" /\ signals < MaxSignals
  /\ shuttingDown
  /\ signals' = signals + 1
  /\ UNCHANGED <<queueVars, lockHeld, serverSet, listening, loop, resolverArmed,
                 shuttingDown, teardown, isRestart, activeAtStart, proc, restartAsked>>

-----------------------------------------------------------------------------
\* waitForActiveTasks: a poll finds none of the tasks it waits for active.
Drained ==
  /\ proc = "running" /\ teardown = "draining"
  /\ activeAtStart \cap Active = {}
  /\ teardown' = "closing"
  /\ UNCHANGED <<queueVars, lockHeld, serverSet, listening, loop, resolverArmed,
                 shuttingDown, isRestart, activeAtStart, proc, signals, restartAsked>>

\* Mutant: the slots of the tasks given up are freed at the deadline.
DrainTimeoutFreesSlots ==
  /\ proc = "running" /\ teardown = "draining"
  /\ activeAtStart \cap Active # {}
  /\ teardown' = "closing"
  /\ activeAtStart' = {}
  /\ active' = [l \in Lanes |-> active[l] \ activeAtStart]
  /\ UNCHANGED <<queue, maxConcurrent, generation, gatewayDraining, phase,
                 taskGeneration, ticket, nextTicket, lockHeld, serverSet, listening,
                 loop, resolverArmed, shuttingDown, isRestart, proc, signals, restartAsked>>

\* waitForActiveTasks: the deadline passes with some of them active.
DrainTimeout ==
  /\ proc = "running" /\ teardown = "draining"
  /\ activeAtStart \cap Active # {}
  /\ teardown' = "closing"
  /\ activeAtStart' = {}
  /\ UNCHANGED <<queueVars, lockHeld, serverSet, listening, loop, resolverArmed,
                 shuttingDown, isRestart, proc, signals, restartAsked>>

\* await server?.close(), then finally: the force-exit timer is cleared.  With
\* no server (the loop is still starting one) there is nothing to close.  A
\* close that throws is logged and may leave the server listening.
Closed ==
  /\ proc = "running" /\ teardown = "closing"
  /\ serverSet' = FALSE
  /\ listening' \in IF serverSet THEN BOOLEAN ELSE {listening}
  /\ teardown' = "releasing"
  /\ UNCHANGED <<queueVars, lockHeld, loop, resolverArmed, shuttingDown, isRestart,
                 activeAtStart, proc, signals, restartAsked>>

\* Mutant: the force-exit timer is set for restarts only.
ForceExitOfRestart ==
  /\ proc = "running" /\ teardown = "closing" /\ isRestart
  /\ proc' = "exited"
  /\ UNCHANGED <<queueVars, lockHeld, serverSet, listening, loop, resolverArmed,
                 shuttingDown, teardown, isRestart, activeAtStart, signals, restartAsked>>

\* The force-exit timer.  On a restart it is due five seconds after the drain
\* deadline, so it never fires while tasks are being drained.
ForceExit ==
  /\ proc = "running" /\ teardown = "closing"
  /\ proc' = "exited"
  /\ UNCHANGED <<queueVars, lockHeld, serverSet, listening, loop, resolverArmed,
                 shuttingDown, teardown, isRestart, activeAtStart, signals, restartAsked>>

\* releaseLockIfHeld, then the process exits: after a stop, or because a child
\* or the supervisor takes over.
ReleasedExit ==
  /\ proc = "running" /\ teardown = "releasing"
  /\ ~isRestart \/ RespawnModes \cap {"spawned", "supervised"} # {}
  /\ lockHeld' = FALSE
  /\ proc' = "exited"
  /\ UNCHANGED <<queueVars, serverSet, listening, loop, resolverArmed, shuttingDown,
                 teardown, isRestart, activeAtStart, signals, restartAsked>>

\* releaseLockIfHeld, then the fall back to an in-process restart.
ReleasedFallback ==
  /\ proc = "running" /\ teardown = "releasing"
  /\ isRestart /\ RespawnModes \cap {"disabled", "failed"} # {}
  /\ lockHeld' = FALSE
  /\ teardown' = "reacquiring"
  /\ UNCHANGED <<queueVars, serverSet, listening, loop, resolverArmed, shuttingDown,
                 isRestart, activeAtStart, proc, signals, restartAsked>>

\* The end of handleRestartAfterServerClose once the lock is back, up to where
\* the resolver makes a difference.
Reacquired ==
  /\ proc = "running" /\ teardown = "reacquiring"
  /\ lockHeld' = TRUE
  /\ shuttingDown' = FALSE
  /\ teardown' = "none"
  /\ activeAtStart' = {}
  /\ restartAsked' = "none"
  /\ UNCHANGED <<serverSet, listening, isRestart, proc, signals>>

\* Mutant: the lanes are not reset for the new lifecycle.
NextIterationNoReset ==
  /\ resolverArmed
  /\ Reacquired
  /\ resolverArmed' = FALSE
  /\ loop' = "starting"
  /\ UNCHANGED queueVars

\* The promise resolves and the loop goes round: resetAllLanes, params.start().
NextIteration ==
  /\ resolverArmed
  /\ Reacquired
  /\ resolverArmed' = FALSE
  /\ loop' = "starting"
  /\ Q!ResetAllLanes

\* restartResolver is null or belongs to a promise already resolved: the loop
\* does not notice, and nothing resets the lanes.
ResolverStale ==
  /\ ~resolverArmed
  /\ Reacquired
  /\ UNCHANGED <<queueVars, resolverArmed, loop>>

\* Another process took the lock meanwhile: exitProcess(1).
ReacquireFails ==
  /\ proc = "running" /\ teardown = "reacquiring"
  /\ proc' = "crashed"
  /\ UNCHANGED <<queueVars, lockHeld, serverSet, listening, loop, resolverArmed,
                 shuttingDown, teardown, isRestart, activeAtStart, signals, restartAsked>>

Next ==
  \/ Work
  \/ StartDone \/ StartFails
  \/ Stop \/ Restart \/ Ignored
  \/ Drained \/ DrainTimeout
  \/ Closed \/ ForceExit
  \/ ReleasedExit \/ ReleasedFallback
  \/ NextIteration \/ ResolverStale \/ ReacquireFails

Spec == Init /\ [][Next]_vars

\* Timers fire, the lock file is reached, params.start() settles; the poll and
\* its deadline end a drain, the close or the force-exit timer a close.  Tasks
\* need not return.
LoopProgress ==
  /\ WF_vars(StartDone \/ StartFails)
  /\ WF_vars(Drained \/ DrainTimeout)
  /\ WF_vars(ForceExit)
  /\ WF_vars(ReleasedExit \/ ReleasedFallback)
  /\ WF_vars(NextIteration \/ ResolverStale \/ ReacquireFails)
FairSpec == Spec /\ LoopProgress

-----------------------------------------------------------------------------
\* The run loop uses the queue as its interface promises.
QueueSpec == Q!Spec

\* A restart accepted while the server was up ends in a new lifecycle that takes
\* work, or in an exit that leaves the work to a child or a supervisor.
ServingRestartCompletes ==
  (restartAsked = "waiting") ~> (proc # "running" \/ ~gatewayDraining)

\* run-loop.ts: "Keep process alive; SIGUSR1 triggers an in-process restart."
\* Every accepted restart ends so.
EveryRestartCompletes ==
  (restartAsked # "none") ~> (proc # "running" \/ ~gatewayDraining)

\* run-loop.ts: "SIGTERM/SIGINT still exit after a graceful shutdown."  A stop that
\* is not ignored ends the process, whatever it meets on the way: a start under
\* way, a close that hangs or throws, further signals.
StopCompletes == (shuttingDown /\ ~isRestart) ~> (proc # "running")

=============================================================================
