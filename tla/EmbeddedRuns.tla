---------------------------- MODULE EmbeddedRuns -----------------------------
(***************************************************************************)
(* Agent runs over the command queue: src/agents/pi-embedded-runner.  A    *)
(* run is enqueued in its session's lane; started there, it enqueues       *)
(* itself in a global lane and holds the session's slot until it is done.  *)
(* The attempts of a run are registered per session (runs.ts), for those   *)
(* who abort a run or wait for its end: an interrupting message, /compact, *)
(* and the reset or deletion of a session.                                 *)
(*                                                                         *)
(* A run is two entries of the queue.  What a task does synchronously or   *)
(* in microtasks (enqueue the inner entry, pass its result on) is done     *)
(* before anything else happens: the other actions wait for Quiet.         *)
(***************************************************************************)
EXTENDS Integers, Sequences, FiniteSets

CONSTANTS
  Runs,           \* agent turns and compactions
  Compactions,    \* those that /compact asks for
  Sessions,
  SessionOf,      \* the session of each run, which names its lane
  GlobalOf,       \* the global lane of each run
  NoRun,
  Wishes,         \* the sets of runs that may be asked for
  Cleaned,        \* sessions that somebody resets or deletes, once
  MaxAttempts,    \* bound: attempts of a run
  MaxGeneration   \* bound: in-process restarts

ASSUME RunsAssumption ==
  /\ Compactions \subseteq Runs
  /\ \A r \in Runs : SessionOf[r] \in Sessions
  /\ \A r \in Runs : GlobalOf[r] \notin Sessions
  /\ NoRun \notin Runs
  /\ Wishes \subseteq SUBSET Runs
  /\ Cleaned \subseteq Sessions
  /\ MaxAttempts \in Nat \ {0}
  /\ MaxGeneration \in Nat

VARIABLES
  queue, active, maxConcurrent, generation, gatewayDraining,
  phase, taskGeneration, ticket, nextTicket,   \* as in CommandQueue
  registry,   \* ACTIVE_EMBEDDED_RUNS: session -> run whose handle is registered
  stage,      \* run -> what its inner task is at, once started
  tries,      \* run -> attempts begun
  stopped,    \* run -> why the present attempt is being given up
  wanted,     \* the runs that are asked for
  command,    \* compaction -> whether /compact waits for the run before it
  cleanup,    \* session -> ensureSessionRuntimeCleanup
  displaced,  \* runs whose handle another run replaced (history)
  target      \* session -> the run its cleanup aborted, while its timer has not struck (history)

queueVars == <<queue, active, maxConcurrent, generation, gatewayDraining,
               phase, taskGeneration, ticket, nextTicket>>
runVars == <<registry, stage, tries, stopped, command, cleanup,
             displaced, target, wanted>>
vars == <<queueVars, runVars>>

\* Mutant: a compaction takes the global lane first.
OuterGlobalFirst(r) == <<r, IF r \in Compactions THEN "global" ELSE "session">>

\* The entry a run begins with, and the one its task enqueues.
Outer(r) == <<r, "session">>
Inner(r) == <<r, IF Outer(r)[2] = "session" THEN "global" ELSE "session">>

Tasks == Runs \X {"session", "global"}
Lanes == Sessions \cup {GlobalOf[r] : r \in Runs}
LaneOf == [e \in Tasks |-> IF e[2] = "session" THEN SessionOf[e[1]] ELSE GlobalOf[e[1]]]

Q == INSTANCE CommandQueue WITH Requests <- {}

Session(r) == SessionOf[r]
UnderWay(r) == phase[Inner(r)] = "running"
Attempting(r) == UnderWay(r) /\ stage[r] = "attempt"

Nesting(r) == phase[Outer(r)] = "running" /\ phase[Inner(r)] = "idle"
Returning(r) == phase[Outer(r)] = "running" /\ phase[Inner(r)] \in Q!Settled
Quiet == \A r \in Runs : ~Nesting(r) /\ ~Returning(r)

-----------------------------------------------------------------------------
Init ==
  /\ Q!Init
  /\ registry = [s \in Sessions |-> NoRun]
  /\ stage = [r \in Runs |-> "preparing"]
  /\ tries = [r \in Runs |-> 0]
  /\ stopped = [r \in Runs |-> "no"]
  /\ wanted \in Wishes
  /\ command = [r \in Compactions |-> "new"]
  /\ cleanup = [s \in Sessions |-> "none"]
  /\ displaced = {}
  /\ target = [s \in Sessions |-> NoRun]

\* abortEmbeddedPiRun: the attempt registered for s, if there is one.
Abort(s) ==
  stopped' = [r \in Runs |-> IF r = registry[s] /\ stopped[r] = "no" THEN "aborted" ELSE stopped[r]]

\* r is no cleanup's target any more.
Spared(r) == [s \in Sessions |-> IF target[s] = r THEN NoRun ELSE target[s]]

\* clearCommandLane of the session's lane.
ClearSession(s) ==
  IF queue[s] = <<>> THEN UNCHANGED queueVars ELSE Q!ClearLane(s)

\* enqueueSession
Accept(r) == Q!Enqueue(Outer(r)) \/ Q!EnqueueRefused(Outer(r))

\* A message, a job or another run asks for a turn: runEmbeddedPiAgent.
Ask(r) ==
  /\ Quiet
  /\ r \notin Compactions
  /\ Accept(r)
  /\ UNCHANGED runVars

\* A message in mode interrupt, before its own turn.
Interrupt(s) ==
  /\ Quiet
  /\ queue[s] # <<>> \/ active[s] # {}
  /\ ClearSession(s)
  /\ Abort(s)
  /\ UNCHANGED <<registry, stage, tries, command, cleanup, target, displaced, wanted>>

\* /compact: abort a run that is registered and wait for it.
CompactWaits(r) ==
  /\ Quiet
  /\ r \in Compactions /\ command[r] = "new"
  /\ registry[Session(r)] # NoRun
  /\ Abort(Session(r))
  /\ command' = [command EXCEPT ![r] = "waiting"]
  /\ UNCHANGED <<queueVars, registry, stage, tries, cleanup, target, displaced, wanted>>

\* /compact: no run is registered, or the wait is over: compactEmbeddedPiSession.
Compact(r) ==
  /\ Quiet
  /\ r \in Compactions
  /\ \/ command[r] = "new" /\ registry[Session(r)] = NoRun
     \/ command[r] = "released"
  /\ Accept(r)
  /\ command' = [command EXCEPT ![r] = "done"]
  /\ UNCHANGED <<registry, stage, tries, stopped, cleanup, target, displaced, wanted>>

\* sessions.reset and sessions.delete: the lane is cleared, the run aborted and
\* its end waited for, if it is registered.
Cleanup(s) ==
  /\ Quiet
  /\ s \in Cleaned /\ cleanup[s] = "none"
  /\ ClearSession(s)
  /\ Abort(s)
  /\ target' = [target EXCEPT ![s] = IF registry[s] # NoRun /\ stopped[registry[s]] = "timedOut"
                                     THEN NoRun ELSE registry[s]]
  /\ cleanup' = [cleanup EXCEPT ![s] = IF registry[s] = NoRun THEN "quiet" ELSE "waiting"]
  /\ UNCHANGED <<registry, stage, tries, command, displaced, wanted>>

\* The timers of waitForEmbeddedPiRunEnd: a cleanup answers "still active", a
\* compaction goes on.
CommandTimesOut(r) ==
  /\ Quiet
  /\ r \in Compactions /\ command[r] = "waiting"
  /\ command' = [command EXCEPT ![r] = "released"]
  /\ UNCHANGED <<queueVars, registry, stage, tries, stopped, cleanup, target, displaced, wanted>>

CleanupTimesOut(s) ==
  /\ Quiet
  /\ cleanup[s] = "waiting"
  /\ cleanup' = [cleanup EXCEPT ![s] = "active"]
  /\ target' = [target EXCEPT ![s] = NoRun]
  /\ UNCHANGED <<queueVars, registry, stage, tries, stopped, command, displaced, wanted>>

-----------------------------------------------------------------------------
\* The outer task runs: it enqueues the inner one, which a draining gateway
\* refuses.
Nest(r) ==
  /\ Nesting(r)
  /\ Q!Enqueue(Inner(r)) \/ Q!EnqueueRefused(Inner(r))
  /\ UNCHANGED runVars

Settle(e, outcome) == Q!FinishCurrent(e, outcome) \/ Q!FinishStale(e, outcome)

\* Mutant: the outer task does not await the inner one.
ReturnEarly(r) ==
  /\ phase[Outer(r)] = "running" /\ phase[Inner(r)] # "idle"
  /\ Settle(Outer(r), "resolved")
  /\ UNCHANGED runVars

\* The inner entry has settled, and the outer one with it.
Return(r) ==
  /\ Returning(r)
  /\ Settle(Outer(r), IF phase[Inner(r)] = "resolved" THEN "resolved" ELSE "rejected")
  /\ UNCHANGED runVars

\* An attempt has its session open: setActiveEmbeddedRun.
Register(r) ==
  LET s == Session(r)
  IN  /\ Quiet
      /\ UnderWay(r) /\ stage[r] = "preparing" /\ r \notin Compactions
      /\ registry' = [registry EXCEPT ![s] = r]
      /\ stage' = [stage EXCEPT ![r] = "attempt"]
      /\ tries' = [tries EXCEPT ![r] = @ + 1]
      /\ displaced' = (displaced \ {r}) \cup ({registry[s]} \ {NoRun})
      /\ UNCHANGED <<queueVars, stopped, command, cleanup, target, wanted>>

\* The attempt's own timer: abortRun(true).
TimesOut(r) ==
  /\ Quiet
  /\ Attempting(r) /\ stopped[r] # "timedOut"
  /\ stopped' = [stopped EXCEPT ![r] = "timedOut"]
  /\ target' = Spared(r)
  /\ UNCHANGED <<queueVars, registry, stage, tries, command, cleanup, displaced, wanted>>

\* notifyEmbeddedRunEnded
Notify(s) ==
  /\ command' = [r \in Compactions |->
                   IF Session(r) = s /\ command[r] = "waiting" THEN "released" ELSE command[r]]
  /\ cleanup' = [cleanup EXCEPT ![s] = IF @ = "waiting" THEN "quiet" ELSE @]

\* Mutant: the session's handle is cleared, whosever it is.
AttemptEndsUnchecked(r) ==
  LET s == Session(r)
  IN  /\ Quiet
      /\ Attempting(r)
      /\ stage' = [stage EXCEPT ![r] = "ended"]
      /\ registry' = [registry EXCEPT ![s] = NoRun]
      /\ Notify(s)
      /\ displaced' = displaced \ {r}
      /\ UNCHANGED <<queueVars, tries, stopped, target, wanted>>

\* The attempt's finally block: clearActiveEmbeddedRun, which leaves the handle
\* of another run alone.
AttemptEnds(r) ==
  LET s == Session(r)
  IN  /\ Quiet
      /\ Attempting(r)
      /\ stage' = [stage EXCEPT ![r] = "ended"]
      /\ IF registry[s] = r
         THEN registry' = [registry EXCEPT ![s] = NoRun] /\ Notify(s)
         ELSE UNCHANGED <<registry, command, cleanup>>
      /\ displaced' = displaced \ {r}
      /\ UNCHANGED <<queueVars, tries, stopped, target, wanted>>

\* Mutant: an aborted attempt is tried again like one that failed.
RetryAborted(r) ==
  /\ Quiet
  /\ UnderWay(r) /\ stage[r] = "ended"
  /\ tries[r] < MaxAttempts
  /\ stage' = [stage EXCEPT ![r] = "preparing"]
  /\ stopped' = [stopped EXCEPT ![r] = "no"]
  /\ UNCHANGED <<queueVars, registry, tries, command, cleanup, target, displaced, wanted>>

\* Another attempt: after an overflow (the session is compacted inside the run,
\* without a lane), a failure another profile or a lower level of thinking may
\* avoid, or a timeout.  An attempt that was only aborted is not repeated.
Retry(r) ==
  /\ Quiet
  /\ UnderWay(r) /\ stage[r] = "ended"
  /\ stopped[r] # "aborted" /\ tries[r] < MaxAttempts
  /\ stage' = [stage EXCEPT ![r] = "preparing"]
  /\ stopped' = [stopped EXCEPT ![r] = "no"]
  /\ UNCHANGED <<queueVars, registry, tries, command, cleanup, target, displaced, wanted>>

\* The run is over: its last attempt has ended, none could be prepared (it
\* throws), or the compaction is done.  Whether a run with attempts behind it
\* returns or throws is all the same to the lanes.
Finish(r) ==
  /\ Quiet
  /\ UnderWay(r) /\ stage[r] # "attempt"
  /\ Settle(Inner(r), IF stage[r] = "ended" \/ r \in Compactions THEN "resolved" ELSE "rejected")
  /\ stage' = [stage EXCEPT ![r] = "preparing"]
  /\ tries' = [tries EXCEPT ![r] = 0]
  /\ stopped' = [stopped EXCEPT ![r] = "no"]
  /\ target' = Spared(r)
  /\ UNCHANGED <<registry, command, cleanup, displaced, wanted>>

-----------------------------------------------------------------------------
\* The run loop of the gateway: a restart begins to drain ...
Drain == Quiet /\ ~gatewayDraining /\ Q!MarkDraining /\ UNCHANGED runVars

\* ... and resets the lanes, with runs still under way if they outlast the drain.
Reset == Quiet /\ gatewayDraining /\ Q!ResetAllLanes /\ UNCHANGED runVars

Request(r) == Ask(r) \/ CompactWaits(r) \/ Compact(r) \/ CommandTimesOut(r)

Progress(r) ==
  Nest(r) \/ Return(r) \/ Register(r) \/ AttemptEnds(r) \/ Retry(r) \/ Finish(r)

Next ==
  \/ \E r \in wanted : Request(r) \/ Progress(r) \/ TimesOut(r)
  \/ \E s \in Sessions : Interrupt(s) \/ Cleanup(s) \/ CleanupTimesOut(s)
  \/ Drain \/ Reset

Spec == Init /\ [][Next]_vars

\* Promises settle, and a run goes on: it has a timer, and its attempts are
\* limited.  Nobody need restart the gateway.
RunProgress == \A r \in Runs : WF_vars(Progress(r))
FairSpec == Spec /\ RunProgress

-----------------------------------------------------------------------------
\* The lanes started both runs, in different lives of the gateway: a run that
\* outlasts a restart is not waited for.
Apart(q, r) ==
  /\ {phase[Outer(q)], phase[Outer(r)]} \subseteq {"running", "resolved", "rejected"}
  /\ taskGeneration[Outer(q)] # taskGeneration[Outer(r)]
\* docs/concepts/queue.md: "Per-session lanes guarantee that only one agent run
\* touches a given session at a time."  So it is in one life of the gateway.
OneRunPerSession ==
  \A q, r \in Runs :
    q # r /\ Session(q) = Session(r) /\ UnderWay(q) /\ UnderWay(r) => Apart(q, r)

\* Who aborts a session's run or waits for it finds it: the registered run is in
\* an attempt, an attempt stays registered unless a run of another life of the
\* gateway takes its place, and nobody waits for a session without a handle, of
\* whose end nobody would tell.
RegistryTruthful ==
  /\ \A s \in Sessions : registry[s] # NoRun =>
       Attempting(registry[s]) /\ Session(registry[s]) = s
  /\ \A r \in Runs : Attempting(r) => registry[Session(r)] = r \/ r \in displaced
  /\ \A r \in displaced : \E q \in Runs : Session(q) = Session(r) /\ Apart(q, r)
  /\ \A s \in Sessions : registry[s] = NoRun =>
       /\ cleanup[s] # "waiting"
       /\ \A r \in Compactions : Session(r) = s => command[r] # "waiting"

\* A session reported as quiet stays so, as far as the run its cleanup aborted
\* goes: no attempt of that run is under way or follows, unless its timer struck
\* too, which makes the run try another profile, or another life's run took its
\* place, whose end is then taken for its own.
AbortedStaysDown ==
  \A s \in Sessions :
    cleanup[s] = "quiet" /\ target[s] # NoRun =>
      ~Attempting(target[s]) \/ target[s] \in displaced

\* Every run that a lane accepted is settled, whatever is cleared, aborted or
\* reset: the two lanes of a run are taken in the same order by all ("to avoid
\* deadlocks", compact.ts).  As a run is asked for once, that is to say that in
\* the end none is left pending.
EveryRunSettles ==
  <>[](\A r \in Runs : phase[Outer(r)] \in {"idle"} \cup Q!Settled)

\* command-queue.ts: "Queued entries are intentionally preserved - they represent
\* pending user work that should still execute after restart."  A run that was
\* accepted is not turned away because the gateway drains.
AcceptedRunsSurvive ==
  \A r \in Runs : phase[Outer(r)] \in {"running", "rejected"} => phase[Inner(r)] # "refused"

=============================================================================
