--------------------------- MODULE RestartSignals ---------------------------
(***************************************************************************)
(* Who restarts the gateway: the scheduled SIGUSR1 of infra/restart.ts and *)
(* the configuration reloader of gateway/config-reload.ts with its restart *)
(* handler, composed with the run loop that takes the signal.              *)
(*                                                                         *)
(* The signal is emitted by process.emit, so the run loop's handler has    *)
(* consumed it before anything else happens: between two actions no signal *)
(* is authorised or unconsumed.  A configuration file is the numbers of    *)
(* the last edits of what needs a restart and of what is applied hot.      *)
(*                                                                         *)
(* The actions of GatewayRunLoop are used as they are, or as a conjunct of *)
(* an action here that says what else the same step does.                  *)
(*                                                                         *)
(* A start of the gateway makes a reloader; reload[i] is the one of the    *)
(* i-th life, which is stopped at the end of it but may go on with what it *)
(* awaits, as may the polls of a deferred restart.                         *)
(***************************************************************************)
EXTENDS GatewayRunLoop

CONSTANTS
  MaxMissing,       \* MISSING_CONFIG_MAX_RETRIES
  Scenarios             \* settings, and bounds on what is done to the gateway

ASSUME SignalsAssumption ==
  /\ Lanes # {}
  /\ MaxMissing \in Nat
  /\ Scenarios \subseteq [mode : {"hybrid", "restart", "hot", "off"},
                     work : BOOLEAN,   \* entries of the queue
                     requests : Nat,   \* calls of scheduleGatewaySigusr1Restart
                     edits : Nat]      \* changes of the file

VARIABLES
  scenario,       \* the settings and the bounds chosen
  file,       \* the configuration file
  edits,      \* changes of it so far
  life,       \* in-process restarts so far
  booted,     \* this start of the gateway has read its configuration
  live,       \* the configuration in effect
  reload,     \* life -> its reloader
  timer,      \* pendingRestartTimer is set
  polls,      \* polls that scheduled restarts have begun
  requests,   \* calls of scheduleGatewaySigusr1Restart so far
  owed,       \* a restart was asked for since the configuration was read (history)
  missed,     \* the file changed with nobody watching (history)
  dropped     \* a reload or the check before a restart failed (history)

fileVars == <<scenario, file, edits>>
lifeVars == <<life, booted, live>>
signalVars == <<timer, polls, requests>>
historyVars == <<owed, missed, dropped>>
allVars == <<vars, fileVars, lifeVars, reload, signalVars, historyVars>>

Lives == 0..MaxGeneration
Content == [cold |-> file.cold, hot |-> file.hot]
Running == proc = "running"
mode == scenario.mode   \* settings.mode: gateway.reload.mode

\* getTotalQueueSize finds nothing.
Idle == \A l \in Lanes : queue[l] = <<>> /\ active[l] = {}

NoReloader ==
  [watching |-> FALSE, debounce |-> FALSE, stage |-> "idle", pending |-> FALSE,
   queued |-> FALSE, checking |-> FALSE, waiting |-> FALSE, retries |-> 0,
   current |-> [cold |-> 0, hot |-> 0]]

-----------------------------------------------------------------------------
SignalsInit ==
  /\ Init
  /\ scenario \in Scenarios
  /\ file = [state |-> "valid", cold |-> 0, hot |-> 0]
  /\ edits = 0
  /\ life = 0 /\ booted = FALSE /\ live = [cold |-> 0, hot |-> 0]
  /\ reload = [i \in Lives |-> NoReloader]
  /\ timer = FALSE /\ polls = 0 /\ requests = 0
  /\ owed = FALSE /\ missed = FALSE /\ dropped = FALSE

\* The file changes: what needs a restart, what is applied hot, into something
\* invalid, or it is removed.  chokidar tells the reloader, which (re)sets its
\* timer.
EditFile(new) ==
  /\ Running /\ edits < scenario.edits
  /\ edits' = edits + 1
  /\ file' = new
  /\ reload' = [i \in Lives |-> [reload[i] EXCEPT !.debounce = @ \/ reload[i].watching]]
  /\ missed' = (missed \/ ~reload[life].watching)
  /\ UNCHANGED <<vars, scenario, lifeVars, signalVars, owed, dropped>>

Edit ==
  \/ EditFile([file EXCEPT !.state = "valid", !.cold = edits + 1])
  \/ EditFile([file EXCEPT !.state = "valid", !.hot = edits + 1])
  \/ EditFile([file EXCEPT !.state = "invalid"])
  \/ EditFile([state |-> "missing", cold |-> 0, hot |-> 0])

-----------------------------------------------------------------------------
\* emitGatewayRestart and onSigusr1: the run loop takes the signal, or ignores
\* it if it is shutting down.
Emit ==
  /\ Restart \/ Ignored
  /\ timer' = FALSE

\* scheduleGatewaySigusr1Restart, by /restart, a tool or a call of the control
\* plane: a timer is set unless there is one; the earlier of the two is kept.
Schedule ==
  /\ Running /\ requests < scenario.requests
  /\ requests' = requests + 1
  /\ timer' = TRUE
  /\ owed' = TRUE
  /\ UNCHANGED <<vars, fileVars, lifeVars, reload, polls, missed, dropped>>

\* Mutant: a busy gateway is not polled.
TimerFiresOnce ==
  /\ Running /\ timer
  /\ \/ Idle /\ Emit
     \/ timer' = FALSE /\ UNCHANGED vars
  /\ UNCHANGED <<fileVars, lifeVars, reload, polls, requests, owed, missed, dropped>>

\* The timer: deferGatewayRestartUntilIdle emits at once, or begins to poll, for
\* the queue or for replies.
TimerFires ==
  /\ Running /\ timer
  /\ \/ Idle /\ Emit /\ UNCHANGED polls
     \/ timer' = FALSE /\ polls' = polls + 1 /\ UNCHANGED vars
  /\ UNCHANGED <<fileVars, lifeVars, reload, requests, owed, missed, dropped>>

\* A poll finds nothing pending, or has gone on for long enough.
PollEnds ==
  /\ Running /\ polls > 0
  /\ polls' = polls - 1
  /\ Emit
  /\ UNCHANGED <<fileVars, lifeVars, reload, requests, owed, missed, dropped>>

-----------------------------------------------------------------------------
\* Mutant: a change during a reload is not noted.
RunReloadDrops(i) ==
  /\ Running /\ reload[i].debounce
  /\ reload' = [reload EXCEPT ![i] =
       [@ EXCEPT !.debounce = FALSE, !.stage = IF @ = "idle" THEN "reading" ELSE @]]
  /\ UNCHANGED <<vars, fileVars, lifeVars, signalVars, historyVars>>

\* runReload: at most one at a time, the file is read.
RunReload(i) ==
  /\ Running /\ reload[i].debounce
  /\ reload' = [reload EXCEPT ![i] =
       IF @.stage = "idle" THEN [@ EXCEPT !.debounce = FALSE, !.stage = "reading"]
       ELSE [@ EXCEPT !.debounce = FALSE, !.pending = TRUE]]
  /\ UNCHANGED <<vars, fileVars, lifeVars, signalVars, historyVars>>

\* Mutant: a change during a reload is forgotten.
FinishedForgets(r) == [r EXCEPT !.stage = "idle", !.pending = FALSE]

\* The finally block of runReload: a change in the meantime is scheduled, unless
\* the reloader was stopped.
Finished(r) ==
  [r EXCEPT !.stage = "idle", !.pending = FALSE,
            !.debounce = @ \/ (r.pending /\ r.watching)]

\* handleMissingSnapshot: try again a few times.
FindsMissing(i) ==
  LET r == reload[i]
      again == r.retries < MaxMissing
  IN  /\ Running /\ r.stage = "reading" /\ file.state = "missing"
      /\ reload' = [reload EXCEPT ![i] = Finished(
           [r EXCEPT !.retries = IF again THEN @ + 1 ELSE @,
                     !.debounce = @ \/ (again /\ r.watching)])]
      /\ UNCHANGED <<vars, fileVars, lifeVars, signalVars, historyVars>>

\* handleInvalidSnapshot: nothing is changed.
FindsInvalid(i) ==
  /\ Running /\ reload[i].stage = "reading" /\ file.state = "invalid"
  /\ reload' = [reload EXCEPT ![i] = Finished([@ EXCEPT !.retries = 0])]
  /\ UNCHANGED <<vars, fileVars, lifeVars, signalVars, historyVars>>

\* What applySnapshot makes of the differences between current and the file.
NeedsRestart(r) ==
  \/ mode = "restart" /\ r.current # Content
  \/ mode = "hybrid" /\ r.current.cold # file.cold
AppliesHot(r) ==
  mode \in {"hot", "hybrid"} /\ r.current.cold = file.cold /\ r.current.hot # file.hot

\* applySnapshot: queueRestart (once), onHotReload, or nothing.
ApplySnapshot(i) ==
  LET r == [reload[i] EXCEPT !.retries = 0, !.current = Content]
  IN  /\ Running /\ reload[i].stage = "reading" /\ file.state = "valid"
      /\ reload' = [reload EXCEPT ![i] =
           IF AppliesHot(reload[i]) THEN [r EXCEPT !.stage = "hot"]
           ELSE IF NeedsRestart(reload[i]) /\ ~r.queued
                THEN Finished([r EXCEPT !.queued = TRUE, !.checking = TRUE])
           ELSE Finished(r)]
      /\ missed' = (missed /\ i # life)
      /\ UNCHANGED <<vars, fileVars, lifeVars, signalVars, owed, dropped>>

\* onHotReload: the secrets are resolved and the changes applied ...
HotApplied(i) ==
  /\ Running /\ reload[i].stage = "hot"
  /\ reload' = [reload EXCEPT ![i] = Finished(@)]
  /\ live' = IF i = life THEN [live EXCEPT !.hot = reload[i].current.hot] ELSE live
  /\ UNCHANGED <<vars, fileVars, life, booted, signalVars, historyVars>>

\* ... or not.
HotFails(i) ==
  /\ Running /\ reload[i].stage = "hot"
  /\ reload' = [reload EXCEPT ![i] = Finished(@)]
  /\ dropped' = TRUE
  /\ UNCHANGED <<vars, fileVars, lifeVars, signalVars, owed, missed>>

\* onRestart: the secrets are resolved, then requestGatewayRestart emits or
\* begins to poll.
CheckPasses(i) ==
  /\ Running /\ reload[i].checking
  /\ owed' = TRUE
  /\ \/ /\ Idle /\ Emit
        /\ reload' = [reload EXCEPT ![i].checking = FALSE]
     \/ /\ reload' = [reload EXCEPT ![i].checking = FALSE, ![i].waiting = TRUE]
        /\ UNCHANGED <<vars, timer>>
  /\ UNCHANGED <<fileVars, lifeVars, polls, requests, missed, dropped>>

\* The secrets of the new configuration cannot be resolved.
CheckFails(i) ==
  /\ Running /\ reload[i].checking
  /\ reload' = [reload EXCEPT ![i].checking = FALSE, ![i].queued = FALSE]
  /\ dropped' = TRUE
  /\ UNCHANGED <<vars, fileVars, lifeVars, signalVars, owed, missed>>

\* The poll of requestGatewayRestart ends.
WaitEnds(i) ==
  /\ Running /\ reload[i].waiting
  /\ reload' = [reload EXCEPT ![i].waiting = FALSE]
  /\ Emit
  /\ UNCHANGED <<fileVars, lifeVars, polls, requests, owed, missed, dropped>>

Reload(i) ==
  \/ RunReload(i) \/ FindsMissing(i) \/ FindsInvalid(i) \/ ApplySnapshot(i)
  \/ HotApplied(i) \/ HotFails(i) \/ CheckPasses(i) \/ CheckFails(i) \/ WaitEnds(i)

-----------------------------------------------------------------------------
\* params.start reads its configuration, which must not be invalid ...
ReadConfig ==
  /\ Running /\ loop = "starting" /\ ~booted
  /\ file.state # "invalid"
  /\ booted' = TRUE
  /\ live' = Content
  /\ owed' = FALSE /\ missed' = FALSE /\ dropped' = FALSE
  /\ UNCHANGED <<vars, fileVars, life, reload, signalVars>>

\* ... and starts to watch the file when most of the server is up.
BeginsToWatch ==
  /\ booted
  /\ StartDone
  /\ reload' = [reload EXCEPT ![life] = [NoReloader EXCEPT !.watching = TRUE, !.current = live]]
  /\ UNCHANGED <<fileVars, lifeVars, signalVars, historyVars>>

\* server.close stops the reloader, unless it throws before.
StopsWatching ==
  /\ Closed
  /\ \/ /\ serverSet
        /\ reload' = [reload EXCEPT ![life].watching = FALSE, ![life].debounce = FALSE]
     \/ (~serverSet \/ listening') /\ UNCHANGED reload
  /\ UNCHANGED <<fileVars, lifeVars, signalVars, historyVars>>

BeginsLife ==
  /\ NextIteration
  /\ life' = life + 1
  /\ booted' = FALSE
  /\ UNCHANGED <<fileVars, live, reload, signalVars, historyVars>>

\* The other steps of the run loop.
Beside == UNCHANGED <<fileVars, lifeVars, reload, signalVars, historyVars>>
StartGivesUp == StartFails /\ Beside
DrainEnds == (Drained \/ DrainTimeout) /\ Beside
GivesUpClosing == ForceExit /\ Beside
Released == (ReleasedExit \/ ReleasedFallback) /\ Beside
NoIteration == (ResolverStale \/ ReacquireFails) /\ Beside

LoopStep ==
  \/ scenario.work /\ Work /\ Beside
  \/ Stop /\ Beside
  \/ StartGivesUp \/ DrainEnds \/ GivesUpClosing \/ Released \/ NoIteration

SignalsNext ==
  \/ Edit \/ Schedule \/ TimerFires \/ PollEnds
  \/ \E i \in Lives : Reload(i)
  \/ ReadConfig \/ BeginsToWatch \/ StopsWatching \/ BeginsLife \/ LoopStep

SignalsSpec == SignalsInit /\ [][SignalsNext]_allVars

\* Timers fire, promises settle, polls have a deadline, and the run loop goes on
\* as GatewayRunLoop assumes.
Progress ==
  /\ WF_allVars(TimerFires) /\ WF_allVars(PollEnds)
  /\ \A i \in Lives :
       /\ WF_allVars(RunReload(i))
       /\ WF_allVars(FindsMissing(i) \/ FindsInvalid(i) \/ ApplySnapshot(i))
       /\ WF_allVars(HotApplied(i) \/ HotFails(i))
       /\ WF_allVars(CheckPasses(i) \/ CheckFails(i))
       /\ WF_allVars(WaitEnds(i))
  /\ WF_allVars(ReadConfig \/ BeginsToWatch \/ StartGivesUp)
  /\ WF_allVars(DrainEnds) /\ WF_allVars(GivesUpClosing) /\ WF_allVars(Released)
  /\ WF_allVars(BeginsLife \/ NoIteration)
FairSignals == SignalsSpec /\ Progress

-----------------------------------------------------------------------------
\* A restart accepted while the gateway was starting leaves it refusing work
\* (EveryRestartCompletes).
Wedged == Running /\ gatewayDraining /\ ~shuttingDown

Snapshots == [cold : Nat, hot : Nat]
Reloaders ==
  [watching : BOOLEAN, debounce : BOOLEAN, stage : {"idle", "reading", "hot"},
   pending : BOOLEAN, queued : BOOLEAN, checking : BOOLEAN, waiting : BOOLEAN,
   retries : Nat, current : Snapshots]
TypeOK ==
  /\ scenario \in Scenarios
  /\ file \in [state : {"valid", "invalid", "missing"}, cold : Nat, hot : Nat]
  /\ edits \in Nat /\ polls \in Nat /\ requests \in Nat
  /\ live \in Snapshots
  /\ reload \in [Lives -> Reloaders]
  /\ booted \in BOOLEAN /\ timer \in BOOLEAN
  /\ owed \in BOOLEAN /\ missed \in BOOLEAN /\ dropped \in BOOLEAN

\* The process is to end or to begin another life, or it is Wedged.
Ending == shuttingDown \/ gatewayDraining

\* A restart that was asked for is still to come: a timer or a poll will ask for it,
\* the process is ending, or the configuration has yet to be read.
RequestPending ==
  owed => \/ timer \/ polls > 0 \/ \E i \in Lives : reload[i].waiting
          \/ Ending
          \/ loop = "starting" /\ ~booted

\* The reloader will read the file again.
Unread(r) == r.debounce \/ r.stage = "reading" \/ (r.stage = "hot" /\ r.pending)

\* A file that is not in effect is still to be: it will be read, or applied, or the
\* restart for it is to come.
EditPending ==
  mode \in {"hybrid", "restart"} /\ file.state = "valid" /\ live # Content =>
    \/ missed \/ dropped
    \/ owed \/ Ending \/ ~booted
    \/ Unread(reload[life]) \/ reload[life].stage = "hot" \/ reload[life].checking

\* In every state, what was asked for is remembered somewhere: no coalescing of
\* requests, cleared timer, ignored signal or overlap of reloads loses a restart or
\* an edit, but for the edits that ConfigTakesEffect exempts.
NothingForgotten == TypeOK /\ RequestPending /\ EditPending

\* A restart that was asked for comes: the process ends, or a later start reads
\* the configuration, whichever of timers, polls and signals were coalesced,
\* cleared or ignored.
RequestHonoured == owed ~> (~owed \/ ~Running \/ Wedged)

\* docs/gateway/configuration.md: "The Gateway watches ~/.openclaw/openclaw.json
\* and applies changes automatically".  When the edits are over, the file is in
\* effect, however they, the reloads and the restarts overlapped: unless one was
\* missed between the reading of a start and its watching, or was given up
\* because secrets could not be resolved.
ConfigTakesEffect ==
  mode \in {"hybrid", "restart"} =>
    <>[](live = Content \/ file.state # "valid" \/ missed \/ dropped \/ ~Running \/ Wedged)

=============================================================================
