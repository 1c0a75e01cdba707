------------------------ MODULE RestartSignalsProofs ------------------------
(***************************************************************************)
(* Proofs about RestartSignals and the run loop under it, for any lanes,   *)
(* entries, settings and bounds: whoever asks for restarts, the run loop   *)
(* takes the steps of GatewayRunLoop and no others, and that one is an     *)
(* implementation of the command queue.  So whatever holds of the queue in *)
(* every order of calls holds of it across signals and restarts.           *)
(***************************************************************************)
EXTENDS RestartSignals, TLAPS

\* The command queue, and what is proved about it.
P == INSTANCE CommandQueueProofs WITH Requests <- {}

\* The assumption of the command queue holds of the run loop's constants.
LEMMA QueueConstants ==
  /\ LaneOf \in [Tasks -> Lanes]
  /\ {} \subseteq Int
  /\ MaxGeneration \in Nat
BY LoopAssumption

\* Every step of the loop is one operation of the queue, or leaves it alone.
LEMMA StepRefines == [Next]_vars => [Q!Next]_queueVars
<1> SUFFICES ASSUME [Next]_vars PROVE [Q!Next]_queueVars
  OBVIOUS
<1>1. CASE Work
  BY <1>1 DEF Work, Q!Next
<1>2. CASE Restart
  BY <1>2 DEF Restart, Q!Next
<1>3. CASE NextIteration
  BY <1>3 DEF NextIteration, Q!Next
<1>4. CASE StartDone \/ StartFails \/ Stop \/ Ignored
  BY <1>4 DEF StartDone, StartFails, Stop, Ignored
<1>5. CASE Drained \/ DrainTimeout \/ Closed \/ ForceExit
  BY <1>5 DEF Drained, DrainTimeout, Closed, ForceExit
<1>6. CASE ReleasedExit \/ ReleasedFallback \/ ResolverStale \/ ReacquireFails
  BY <1>6 DEF ReleasedExit, ReleasedFallback, ResolverStale, ReacquireFails
<1>7. CASE UNCHANGED vars
  BY <1>7 DEF vars
<1> QED BY <1>1, <1>2, <1>3, <1>4, <1>5, <1>6, <1>7 DEF Next

\* The run loop implements the command queue: it never takes a slot, an entry or
\* the flag of draining by any way but the queue's operations.
THEOREM LoopUsesQueue == Spec => QueueSpec
<1>1. Init => Q!Init
  BY DEF Init
<1>2. [Next]_vars => [Q!Next]_queueVars
  BY StepRefines
<1> QED BY <1>1, <1>2, PTL DEF Spec, QueueSpec, Q!Spec, Q!queueVars, queueVars

\* The two instances of the command queue count alike, ...
LEMMA SameCardinality ==
  ASSUME NEW S
  PROVE  Q!Cardinality(S) = P!Cardinality(S)
BY DEF Q!Cardinality, P!Cardinality

\* ... and drain their lanes alike.
LEMMA SameDrain ==
  ASSUME NEW ls, NEW STATE qs, NEW STATE busy, NEW STATE lim, NEW STATE gen, NEW STATE ph
  PROVE  Q!Drain(ls, qs, busy, lim, gen, ph) <=> P!Drain(ls, qs, busy, lim, gen, ph)
<1> DEFINE nQ == [l \in Lanes |-> IF l \in ls THEN Q!PumpCount(qs[l], busy[l], lim[l]) ELSE 0]
           nP == [l \in Lanes |-> IF l \in ls THEN P!PumpCount(qs[l], busy[l], lim[l]) ELSE 0]
<1>1. \A l \in Lanes : Q!PumpCount(qs[l], busy[l], lim[l]) = P!PumpCount(qs[l], busy[l], lim[l])
  BY SameCardinality DEF Q!PumpCount, P!PumpCount
<1>2. nQ = nP
  BY <1>1
<1>3. \A l \in Lanes : /\ Q!FirstOf(qs[l], nQ[l]) = P!FirstOf(qs[l], nP[l])
                       /\ Q!RestOf(qs[l], nQ[l]) = P!RestOf(qs[l], nP[l])
  BY <1>2, Zenon DEF Q!FirstOf, P!FirstOf, Q!RestOf, P!RestOf
<1> HIDE DEF nQ, nP
<1>4. UNION {Q!FirstOf(qs[l], nQ[l]) : l \in Lanes} = UNION {P!FirstOf(qs[l], nP[l]) : l \in Lanes}
  BY <1>3
<1>5. [l \in Lanes |-> Q!RestOf(qs[l], nQ[l])] = [l \in Lanes |-> P!RestOf(qs[l], nP[l])]
  BY <1>3
<1>6. [l \in Lanes |-> busy[l] \cup Q!FirstOf(qs[l], nQ[l])]
        = [l \in Lanes |-> busy[l] \cup P!FirstOf(qs[l], nP[l])]
  BY <1>3
<1> QED
  BY <1>4, <1>5, <1>6, Zenon DEF Q!Drain, P!Drain, nQ, nP

\* The queue the loop's actions name and the one of the theorems are the same.
LEMMA SameNext == Q!Next => P!Next
<1> SUFFICES ASSUME Q!Next PROVE P!Next
  OBVIOUS
<1>1. ASSUME NEW t \in Tasks, Q!EnqueueRefused(t) PROVE P!Next
  BY <1>1 DEF Q!EnqueueRefused, P!EnqueueRefused, P!Next
<1>2. ASSUME NEW t \in Tasks, Q!Enqueue(t) PROVE P!Next
  <2>1. P!Enqueue(t)
    BY <1>2, SameDrain DEF Q!Enqueue, P!Enqueue
  <2> QED BY <2>1 DEF P!Next
<1>3. ASSUME NEW t \in Tasks, Q!Finish(t) PROVE P!Next
  <2>1. P!Finish(t)
    BY <1>3, SameDrain DEF Q!Finish, P!Finish, Q!FinishCurrent, P!FinishCurrent,
                           Q!FinishStale, P!FinishStale
  <2> QED BY <2>1 DEF P!Next
<1>4. ASSUME NEW l \in Lanes, Q!ClearLane(l) PROVE P!Next
  BY <1>4 DEF Q!ClearLane, P!ClearLane, Q!AllOf, P!AllOf, Q!FirstOf, P!FirstOf, P!Next
<1>5. CASE Q!MarkDraining
  BY <1>5 DEF Q!MarkDraining, P!MarkDraining, P!Next
<1>6. CASE Q!ResetAllLanes
  <2>1. P!ResetAllLanes
    BY <1>6, SameDrain DEF Q!ResetAllLanes, P!ResetAllLanes
  <2> QED BY <2>1 DEF P!Next
<1> QED BY <1>1, <1>2, <1>3, <1>4, <1>5, <1>6 DEF Q!Next

\* Across signals, drains, deadlines and restarts: a slot is held exactly by a
\* running task of the lane's present generation, the queues and the phases of
\* the entries agree, entries start in arrival order, and none waits beside a
\* free slot.
THEOREM LoopKeepsQueue ==
  Spec => [](Q!SlotsAccounted /\ Q!QueueMatchesPhases /\ Q!FifoPerLane /\ Q!NoIdleCapacity)
<1>1. P!Spec => []P!SlotsAccounted
  BY QueueConstants, P!SlotsAreAccounted
<1>2. P!Spec => []P!QueueMatchesPhases
  BY QueueConstants, P!QueuesMatchPhases
<1>3. P!Spec => []P!FifoPerLane
  BY QueueConstants, P!LanesAreFifo
<1>4. P!Spec => []P!NoIdleCapacity
  BY QueueConstants, P!NoIdleLane
<1>5. Init => P!Init
  BY DEF Init, Q!Init, P!Init
<1>6. [Next]_vars => [P!Next]_(P!queueVars)
  BY StepRefines, SameNext DEF queueVars, P!queueVars
<1>7. P!SlotsAccounted => Q!SlotsAccounted
  BY DEF Q!SlotsAccounted, P!SlotsAccounted
<1>8. P!QueueMatchesPhases => Q!QueueMatchesPhases
  BY DEF Q!QueueMatchesPhases, P!QueueMatchesPhases, Q!AllOf, P!AllOf, Q!FirstOf, P!FirstOf
<1>9. P!FifoPerLane => Q!FifoPerLane
  BY DEF Q!FifoPerLane, P!FifoPerLane
<1>10. P!NoIdleCapacity => Q!NoIdleCapacity
  BY SameCardinality DEF Q!NoIdleCapacity, P!NoIdleCapacity
<1> QED
  BY <1>1, <1>2, <1>3, <1>4, <1>5, <1>6, <1>7, <1>8, <1>9, <1>10, PTL DEF Spec, P!Spec

-----------------------------------------------------------------------------
(***************************************************************************)
(* Signals and reloads, over the run loop.                                 *)
(***************************************************************************)

\* A signal is taken or ignored by the loop.
LEMMA EmitIsStep == Emit => Next
BY DEF Emit, Next

LEMMA ReloadRefines ==
  ASSUME NEW i \in Lives, Reload(i)
  PROVE  [Next]_vars
<1>1. CASE CheckPasses(i)
  BY <1>1, EmitIsStep DEF CheckPasses
<1>2. CASE WaitEnds(i)
  BY <1>2, EmitIsStep DEF WaitEnds
<1>3. CASE RunReload(i) \/ FindsMissing(i) \/ FindsInvalid(i) \/ ApplySnapshot(i)
  BY <1>3 DEF RunReload, FindsMissing, FindsInvalid, ApplySnapshot
<1>4. CASE HotApplied(i) \/ HotFails(i) \/ CheckFails(i)
  BY <1>4 DEF HotApplied, HotFails, CheckFails
<1> QED BY <1>1, <1>2, <1>3, <1>4 DEF Reload

\* Every step is one of the loop, or leaves the loop alone.
LEMMA SignalsRefine == [SignalsNext]_allVars => [Next]_vars
<1> SUFFICES ASSUME [SignalsNext]_allVars PROVE [Next]_vars
  OBVIOUS
<1>1. CASE Edit \/ Schedule \/ ReadConfig
  BY <1>1 DEF Edit, EditFile, Schedule, ReadConfig
<1>2. CASE TimerFires \/ PollEnds
  BY <1>2, EmitIsStep DEF TimerFires, PollEnds
<1>3. CASE \E i \in Lives : Reload(i)
  BY <1>3, ReloadRefines
<1>4. CASE BeginsToWatch \/ StopsWatching \/ BeginsLife
  BY <1>4 DEF BeginsToWatch, StopsWatching, BeginsLife, Next
<1>5. CASE LoopStep
  BY <1>5 DEF LoopStep, StartGivesUp, DrainEnds, GivesUpClosing, Released, NoIteration, Next
<1>6. CASE UNCHANGED allVars
  BY <1>6 DEF allVars
<1> QED BY <1>1, <1>2, <1>3, <1>4, <1>5, <1>6 DEF SignalsNext

\* Requests, polls and reloads restart the gateway by the signal alone: with them,
\* the run loop takes the steps it takes without them.
THEOREM SignalsUseLoop == SignalsSpec => Spec
<1>1. SignalsInit => Init
  BY DEF SignalsInit
<1> QED BY <1>1, SignalsRefine, PTL DEF SignalsSpec, Spec

\* So the queue is used as its interface promises, whoever restarts the gateway.
THEOREM SignalsUseQueue == SignalsSpec => QueueSpec
BY SignalsUseLoop, LoopUsesQueue, PTL

\* And what holds of the queue holds of it across scheduled restarts, reloads that
\* need one and signals that are ignored.
THEOREM SignalsKeepQueue ==
  SignalsSpec => [](/\ Q!SlotsAccounted /\ Q!QueueMatchesPhases
                    /\ Q!FifoPerLane /\ Q!NoIdleCapacity)
BY SignalsUseLoop, LoopKeepsQueue, PTL

-----------------------------------------------------------------------------
(***************************************************************************)
(* What is asked for is not forgotten.                                     *)
(***************************************************************************)

\* A restart under way drains the queue, and only a restart takes the lock again.
Flags ==
  /\ shuttingDown \in BOOLEAN /\ gatewayDraining \in BOOLEAN /\ isRestart \in BOOLEAN
  /\ shuttingDown => teardown # "none"
  /\ teardown # "none" => shuttingDown
  /\ shuttingDown /\ isRestart => gatewayDraining
  /\ teardown \in {"draining", "reacquiring"} => isRestart

\* The lanes count the lives, and the lives to come have no reloader.
Counted ==
  /\ life \in Lives
  /\ \A l \in Lanes : generation[l] = life
  /\ \A i \in Lives : i > life => reload[i] = NoReloader

\* The reloader knows the file or will read it; what it knows is in effect, or is
\* being made so; and a restart it has asked for was checked, or is to come.
Known(r) == ~missed /\ file.state = "valid" => r.current = Content \/ Unread(r)
Applied(r) ==
  mode \in {"hybrid", "restart"} =>
    \/ dropped \/ owed \/ r.checking
    \/ live = r.current
    \/ r.stage = "hot" /\ live.cold = r.current.cold
QueuedOnce(r) == r.queued => r.checking \/ owed \/ dropped
Tracked(r) == r.watching /\ Known(r) /\ Applied(r) /\ QueuedOnce(r)

\* So it is of the reloader of this life, once the server is up; before, there is
\* none, and the file is what was read unless it changed unseen.
Present ==
  \/ Ending
  \/ /\ loop = "starting"
     /\ reload[life] = NoReloader
     /\ booted /\ ~missed => live = Content
  \/ loop = "waiting" /\ booted /\ Tracked(reload[life])

\* The inductive invariant.
SignalsInv ==
  /\ TypeOK
  /\ Flags
  /\ Counted
  /\ Present
  /\ RequestPending

-----------------------------------------------------------------------------
\* Work neither ends the process nor begins a life.
LEMMA WorkEffect == Work => UNCHANGED <<loopVars, gatewayDraining, generation>>
<1> SUFFICES ASSUME Work PROVE UNCHANGED <<loopVars, gatewayDraining, generation>>
  OBVIOUS
<1>1. ASSUME NEW t \in Tasks, Q!EnqueueRefused(t)
      PROVE  UNCHANGED <<gatewayDraining, generation>>
  BY <1>1 DEF Q!EnqueueRefused
<1>2. ASSUME NEW t \in Tasks, Q!Enqueue(t)
      PROVE  UNCHANGED <<gatewayDraining, generation>>
  BY <1>2 DEF Q!Enqueue, Q!Drain
<1>3. ASSUME NEW t \in Tasks, Q!Finish(t)
      PROVE  UNCHANGED <<gatewayDraining, generation>>
  BY <1>3 DEF Q!Finish, Q!FinishCurrent, Q!FinishStale, Q!Drain
<1>4. ASSUME NEW l \in Lanes, Q!ClearLane(l)
      PROVE  UNCHANGED <<gatewayDraining, generation>>
  BY <1>4 DEF Q!ClearLane
<1> QED BY <1>1, <1>2, <1>3, <1>4 DEF Work

\* A step of the loop, but the next iteration, goes on with what it was ending.
LEMMA LoopGoesOn ==
  ASSUME Flags, [Next]_vars, ~NextIteration
  PROVE  /\ Flags' /\ (Ending => Ending') /\ generation' = generation
         /\ loop' = loop \/ StartDone
<1>1. CASE Work
  BY <1>1, WorkEffect DEF loopVars, Flags, Ending
<1>2. CASE StartDone
  <2>1. UNCHANGED <<shuttingDown, gatewayDraining, isRestart, teardown, generation>>
    BY <1>2 DEF StartDone, queueVars
  <2> QED BY <1>2, <2>1 DEF Flags, Ending
<1>3. CASE StartFails \/ Ignored
  BY <1>3 DEF StartFails, Ignored, queueVars, Flags, Ending
<1>8. CASE Stop
  BY <1>8 DEF Stop, queueVars, Flags, Ending
<1>9. CASE Restart
  BY <1>9 DEF Restart, Q!MarkDraining, Flags, Ending
<1>4. CASE Drained \/ DrainTimeout \/ Closed \/ ForceExit
  BY <1>4 DEF Drained, DrainTimeout, Closed, ForceExit, queueVars, Flags, Ending
<1>5. CASE ReleasedExit \/ ReleasedFallback \/ ReacquireFails
  BY <1>5 DEF ReleasedExit, ReleasedFallback, ReacquireFails, queueVars, Flags, Ending
<1>6. CASE ResolverStale
  BY <1>6 DEF ResolverStale, Reacquired, queueVars, Flags, Ending
<1>7. CASE UNCHANGED vars
  BY <1>7 DEF vars, queueVars, loopVars, Flags, Ending
<1> QED BY <1>1, <1>2, <1>3, <1>4, <1>5, <1>6, <1>7, <1>8, <1>9 DEF Next

\* A signal that is taken or ignored leaves the process ending.
LEMMA EmitEnds ==
  ASSUME Flags, Emit
  PROVE  Flags' /\ Ending' /\ generation' = generation /\ loop' = loop /\ timer' = FALSE
<1>1. CASE Restart
  BY <1>1 DEF Emit, Restart, Q!MarkDraining, Flags, Ending
<1>2. CASE Ignored
  BY <1>2 DEF Emit, Ignored, queueVars, Flags, Ending
<1> QED BY <1>1, <1>2 DEF Emit

\* Who leaves the loop alone leaves it as it was.
LEMMA LoopAlone ==
  ASSUME Flags, UNCHANGED vars
  PROVE  /\ Flags' /\ (Ending => Ending') /\ (Ending' => Ending)
         /\ generation' = generation /\ loop' = loop
BY DEF vars, queueVars, loopVars, Flags, Ending

-----------------------------------------------------------------------------
\* A step that changes one reloader keeps the invariant, if the reloader of this
\* life stays on the track of the file.
LEMMA ReloaderKeeps ==
  ASSUME SignalsInv, NEW i \in Lives, NEW r \in Reloaders,
         reload[i] # NoReloader,
         reload' = [reload EXCEPT ![i] = r],
         UNCHANGED <<fileVars, life, booted, requests>>,
         Flags', Ending => Ending', loop' = loop, generation' = generation,
         polls' \in Nat, live' \in Snapshots, timer' \in BOOLEAN,
         owed' \in BOOLEAN, missed' \in BOOLEAN, dropped' \in BOOLEAN,
         owed => owed', dropped => dropped',
         i # life => live' = live /\ missed' = missed,
         ~Ending /\ i = life /\ booted /\ Tracked(reload[i]) => Ending' \/ Tracked(r)',
         RequestPending'
  PROVE  SignalsInv'
<1>0. /\ TypeOK /\ Counted /\ Present
      /\ reload' \in [Lives -> Reloaders] /\ reload'[i] = r
      /\ \A j \in Lives \ {i} : reload'[j] = reload[j]
      /\ life \in Lives /\ Lives \subseteq Int
  BY DEF SignalsInv, TypeOK, Counted, Lives
<1>1. TypeOK'
  BY <1>0 DEF TypeOK, fileVars
<1>2. Counted'
  BY <1>0 DEF Counted, Lives
<1>3. Present'
  <2>1. CASE Ending
    BY <2>1 DEF Present
  <2>2. CASE ~Ending /\ i = life
    <3>1. loop = "waiting" /\ booted /\ Tracked(reload[life])
      BY <1>0, <2>2 DEF Present
    <3>2. Ending' \/ Tracked(r)'
      BY <2>2, <3>1
    <3>3. Tracked(r)' => Tracked(reload[life])'
      BY <1>0, <2>2
    <3> QED BY <3>1, <3>2, <3>3 DEF Present
  <2>3. CASE ~Ending /\ i # life
    <3>1. /\ reload'[life] = reload[life] /\ life' = life /\ file' = file /\ live' = live
          /\ missed' = missed /\ scenario' = scenario /\ booted' = booted /\ loop' = loop
      BY <1>0, <2>3 DEF fileVars
    <3>2. Tracked(reload[life]) => Tracked(reload[life])'
      BY <3>1 DEF Tracked, Known, Applied, QueuedOnce, Unread, Content, mode
    <3> QED BY <1>0, <2>3, <3>1, <3>2 DEF Present, Content
  <2> QED BY <2>1, <2>2, <2>3
<1> QED BY <1>1, <1>2, <1>3 DEF SignalsInv

\* And if it does not stop to wait, what is asked for is still to come.
LEMMA StillPending ==
  ASSUME SignalsInv, NEW i \in Lives, NEW r \in Reloaders,
         reload' = [reload EXCEPT ![i] = r], reload[i].waiting => r.waiting,
         UNCHANGED <<timer, polls, owed, booted>>, Ending => Ending', loop' = loop
  PROVE  RequestPending'
<1>1. \A j \in Lives : reload[j].waiting => reload'[j].waiting
  BY DEF SignalsInv, TypeOK
<1> QED BY <1>1 DEF SignalsInv, RequestPending

\* The records, field by field.
LEMMA Records ==
  /\ NoReloader \in Reloaders
  /\ ~NoReloader.watching /\ ~NoReloader.debounce /\ NoReloader.stage = "idle"
  /\ ~NoReloader.pending /\ ~NoReloader.checking /\ ~NoReloader.waiting
BY DEF NoReloader, Reloaders, Snapshots

LEMMA FinishedIs ==
  ASSUME NEW r \in Reloaders
  PROVE  /\ Finished(r) \in Reloaders
         /\ Finished(r).stage = "idle" /\ Finished(r).pending = FALSE
         /\ Finished(r).debounce = (r.debounce \/ (r.pending /\ r.watching))
         /\ Finished(r).watching = r.watching /\ Finished(r).current = r.current
         /\ Finished(r).queued = r.queued /\ Finished(r).checking = r.checking
         /\ Finished(r).waiting = r.waiting
BY DEF Finished, Reloaders

LEMMA SetAgain ==
  ASSUME NEW r \in Reloaders, r.debounce = FALSE
  PROVE  [r EXCEPT !.debounce = FALSE] = r
<1> PICK q : q = [r EXCEPT !.debounce = FALSE]
  OBVIOUS
<1>1. q \in Reloaders /\ q.debounce = r.debounce
  BY DEF Reloaders
<1>2. /\ q.watching = r.watching /\ q.stage = r.stage /\ q.pending = r.pending
      /\ q.queued = r.queued /\ q.checking = r.checking /\ q.waiting = r.waiting
      /\ q.retries = r.retries /\ q.current = r.current
  BY DEF Reloaders
<1>3. q = r
  BY <1>1, <1>2 DEF Reloaders
<1> QED BY <1>3

\* The differences between two contents are in one field or the other.
LEMMA ContentIs ==
  ASSUME TypeOK
  PROVE  Content \in Snapshots /\ Content.cold = file.cold /\ Content.hot = file.hot
BY DEF TypeOK, Content, Snapshots

LEMMA SameSnapshot ==
  ASSUME NEW a \in Snapshots, NEW b \in Snapshots, a.cold = b.cold, a.hot = b.hot
  PROVE  a = b
BY DEF Snapshots

\* What the steps of a reload that change nothing else leave alone.
LEMMA QuietStep ==
  ASSUME SignalsInv, NEW i \in Lives, NEW r \in Reloaders,
         reload[i] # NoReloader,
         reload' = [reload EXCEPT ![i] = r], reload[i].waiting => r.waiting,
         UNCHANGED <<vars, fileVars, life, booted, signalVars, owed>>,
         live' \in Snapshots, missed' \in BOOLEAN, dropped' \in BOOLEAN, dropped => dropped',
         i # life => live' = live /\ missed' = missed,
         ~Ending /\ i = life /\ booted /\ Tracked(reload[i]) => Tracked(r)'
  PROVE  SignalsInv'
<1>1. Flags /\ TypeOK
  BY DEF SignalsInv
<1>2. Flags' /\ (Ending => Ending') /\ loop' = loop /\ generation' = generation
  BY <1>1, LoopAlone
<1>3. RequestPending'
  BY <1>2, StillPending DEF signalVars
<1> QED BY <1>1, <1>2, <1>3, ReloaderKeeps DEF signalVars, TypeOK

LEMMA RunReloadKeeps ==
  ASSUME SignalsInv, NEW i \in Lives, RunReload(i)
  PROVE  SignalsInv'
<1>0. /\ TypeOK /\ reload[i] \in Reloaders /\ reload[i].debounce
      /\ UNCHANGED <<vars, fileVars, lifeVars, signalVars, historyVars>>
  BY DEF SignalsInv, TypeOK, RunReload
<1>1. reload[i] # NoReloader
  BY <1>0, Records
<1>u. PICK r : r = IF reload[i].stage = "idle"
                   THEN [reload[i] EXCEPT !.debounce = FALSE, !.stage = "reading"]
                   ELSE [reload[i] EXCEPT !.debounce = FALSE, !.pending = TRUE]
  OBVIOUS
<1>2. reload' = [reload EXCEPT ![i] = r]
  BY <1>u DEF RunReload
<1>3. /\ r \in Reloaders /\ r.waiting = reload[i].waiting /\ r.current = reload[i].current
      /\ r.watching = reload[i].watching /\ r.queued = reload[i].queued
      /\ r.checking = reload[i].checking
      /\ reload[i].stage = "hot" => r.stage = "hot" /\ r.pending
      /\ reload[i].stage # "hot" => r.stage = "reading"
  BY <1>0, <1>u DEF Reloaders
<1>4. Tracked(reload[i]) => Tracked(r)'
  BY <1>0, <1>3 DEF Tracked, Known, Applied, QueuedOnce, Unread, Content, mode, fileVars,
     lifeVars, historyVars
<1> QED BY <1>0, <1>1, <1>2, <1>3, <1>4, QuietStep DEF lifeVars, historyVars, TypeOK

LEMMA NothingReadKeeps ==
  ASSUME SignalsInv, NEW i \in Lives, FindsMissing(i) \/ FindsInvalid(i)
  PROVE  SignalsInv'
<1>0. /\ TypeOK /\ reload[i] \in Reloaders
      /\ reload[i].stage = "reading" /\ file.state # "valid"
      /\ UNCHANGED <<vars, fileVars, lifeVars, signalVars, historyVars>>
  BY DEF SignalsInv, TypeOK, FindsMissing, FindsInvalid
<1>1. reload[i] # NoReloader
  BY <1>0, Records
<1>2. PICK q \in Reloaders :
        /\ reload' = [reload EXCEPT ![i] = Finished(q)]
        /\ q.watching = reload[i].watching /\ q.current = reload[i].current
        /\ q.queued = reload[i].queued /\ q.checking = reload[i].checking
        /\ q.waiting = reload[i].waiting
  <2>1. CASE FindsInvalid(i)
    <3>1. [reload[i] EXCEPT !.retries = 0] \in Reloaders
      BY <1>0 DEF Reloaders
    <3> QED BY <1>0, <2>1, <3>1 DEF FindsInvalid, Reloaders
  <2>2. CASE FindsMissing(i)
    <3> DEFINE again == reload[i].retries < MaxMissing
               n == IF again THEN reload[i].retries + 1 ELSE reload[i].retries
               d == reload[i].debounce \/ (again /\ reload[i].watching)
               q == [reload[i] EXCEPT !.retries = n, !.debounce = d]
    <3>1. n \in Nat /\ d \in BOOLEAN
      BY <1>0 DEF Reloaders
    <3>2. reload' = [reload EXCEPT ![i] = Finished(q)]
      BY <2>2 DEF FindsMissing
    <3> HIDE DEF n, d
    <3>3. q \in Reloaders
      BY <1>0, <3>1 DEF Reloaders
    <3> QED BY <1>0, <3>2, <3>3 DEF Reloaders
  <2> QED BY <2>1, <2>2
<1>u. PICK r : r = Finished(q)
  OBVIOUS
<1>3. /\ r \in Reloaders /\ r.waiting = reload[i].waiting /\ r.current = reload[i].current
      /\ r.watching = reload[i].watching /\ r.queued = reload[i].queued
      /\ r.checking = reload[i].checking
  BY <1>2, <1>u, FinishedIs
<1>4. Tracked(reload[i]) => Tracked(r)'
  BY <1>0, <1>3 DEF Tracked, Known, Applied, QueuedOnce, Unread, Content, mode, fileVars,
     lifeVars, historyVars
<1> QED BY <1>0, <1>1, <1>2, <1>u, <1>3, <1>4, QuietStep DEF lifeVars, historyVars, TypeOK

LEMMA ApplySnapshotKeeps ==
  ASSUME SignalsInv, NEW i \in Lives, ApplySnapshot(i)
  PROVE  SignalsInv'
<1> DEFINE hot == AppliesHot(reload[i])
           first == NeedsRestart(reload[i]) /\ ~reload[i].queued
<1>0. /\ TypeOK /\ reload[i] \in Reloaders /\ reload[i].stage = "reading"
      /\ Content \in Snapshots /\ Content.cold = file.cold /\ Content.hot = file.hot
      /\ UNCHANGED <<vars, fileVars, lifeVars, signalVars, owed, dropped>>
      /\ missed' = (missed /\ i # life)
  BY ContentIs DEF SignalsInv, TypeOK, ApplySnapshot
<1>1. reload[i] # NoReloader
  BY <1>0, Records
<1>c. PICK c : c = Content
  OBVIOUS
<1>q. PICK q : q = [reload[i] EXCEPT !.retries = 0, !.current = c]
  OBVIOUS
<1>2. /\ q \in Reloaders /\ q.current = c /\ q.stage = "reading"
      /\ q.watching = reload[i].watching /\ q.waiting = reload[i].waiting
      /\ q.queued = reload[i].queued /\ q.checking = reload[i].checking
  BY <1>0, <1>c, <1>q DEF Reloaders
<1>p. PICK p : p = [q EXCEPT !.queued = TRUE, !.checking = TRUE]
  OBVIOUS
<1>3. /\ p \in Reloaders /\ p.current = c /\ p.checking
      /\ p.watching = reload[i].watching /\ p.waiting = reload[i].waiting
  BY <1>2, <1>p DEF Reloaders
<1>h. PICK h : h = [q EXCEPT !.stage = "hot"]
  OBVIOUS
<1>4. /\ h \in Reloaders /\ h.current = c /\ h.stage = "hot"
      /\ h.watching = reload[i].watching /\ h.waiting = reload[i].waiting
      /\ h.queued = reload[i].queued /\ h.checking = reload[i].checking
  BY <1>2, <1>h DEF Reloaders
<1>u. PICK r : r = IF hot THEN h ELSE IF first THEN Finished(p) ELSE Finished(q)
  OBVIOUS
<1>5. reload' = [reload EXCEPT ![i] = r]
  <2>1. q = [reload[i] EXCEPT !.retries = 0, !.current = Content]
    BY <1>c, <1>q
  <2>2. reload' = [reload EXCEPT ![i] =
          IF hot THEN [q EXCEPT !.stage = "hot"]
          ELSE IF NeedsRestart(reload[i]) /\ ~q.queued
               THEN Finished([q EXCEPT !.queued = TRUE, !.checking = TRUE])
          ELSE Finished(q)]
    BY <2>1, Zenon DEF ApplySnapshot
  <2> QED BY <1>2, <1>p, <1>h, <1>u, <2>2, Zenon
<1>6. /\ r \in Reloaders /\ r.current = c /\ r.waiting = reload[i].waiting
      /\ r.watching = reload[i].watching
      /\ ~r.checking => r.queued = reload[i].queued /\ ~reload[i].checking
      /\ hot => r.stage = "hot"
      /\ ~hot /\ first => r.checking
  BY <1>2, <1>3, <1>4, <1>u, FinishedIs
<1>7. ASSUME Tracked(reload[i]) PROVE Tracked(r)'
  <2>1. Known(r)'
    BY <1>0, <1>c, <1>6 DEF Known, Content, fileVars
  <2>2. QueuedOnce(r)'
    BY <1>0, <1>6, <1>7 DEF Tracked, QueuedOnce
  <2>3. Applied(r)'
    <3> SUFFICES ASSUME mode \in {"hybrid", "restart"}, ~dropped, ~owed, ~r.checking
                 PROVE  live = r.current \/ (r.stage = "hot" /\ live.cold = r.current.cold)
      BY <1>0 DEF Applied, mode, fileVars, lifeVars
    <3>1. live = reload[i].current /\ ~reload[i].queued
      BY <1>0, <1>6, <1>7 DEF Tracked, Applied, QueuedOnce
    <3>2. CASE hot
      BY <1>0, <1>c, <1>6, <3>1, <3>2 DEF AppliesHot
    <3>3. CASE ~hot
      <4>1. ~NeedsRestart(reload[i])
        BY <1>6, <3>1, <3>3
      <4>2. reload[i].current \in Snapshots
        BY <1>0 DEF Reloaders
      <4>3. CASE mode = "restart"
        BY <1>c, <1>6, <3>1, <4>1, <4>3 DEF NeedsRestart
      <4>4. CASE mode = "hybrid"
        <5>1. reload[i].current.cold = Content.cold /\ reload[i].current.hot = Content.hot
          BY <1>0, <3>3, <4>1, <4>4 DEF NeedsRestart, AppliesHot
        <5> QED BY <1>0, <1>c, <1>6, <3>1, <4>2, <5>1, SameSnapshot
      <4> QED BY <4>3, <4>4
    <3> QED BY <3>2, <3>3
  <2> QED BY <1>6, <1>7, <2>1, <2>2, <2>3 DEF Tracked
<1> HIDE DEF hot, first
<1>8. /\ missed' \in BOOLEAN /\ (i # life => missed' = missed)
  BY <1>0 DEF TypeOK
<1> QED BY <1>0, <1>1, <1>5, <1>6, <1>7, <1>8, QuietStep DEF lifeVars, TypeOK

\* The reload has finished, and what it awaited was applied or not.
LEMMA HotKeeps ==
  ASSUME SignalsInv, NEW i \in Lives, HotApplied(i) \/ HotFails(i)
  PROVE  SignalsInv'
<1>0. /\ TypeOK /\ reload[i] \in Reloaders /\ reload[i].stage = "hot"
      /\ reload[i].current \in Snapshots /\ live \in Snapshots
      /\ UNCHANGED <<vars, fileVars, life, booted, signalVars, owed, missed>>
      /\ reload' = [reload EXCEPT ![i] = Finished(reload[i])]
  BY DEF SignalsInv, TypeOK, HotApplied, HotFails, lifeVars, historyVars, Reloaders
<1>1. reload[i] # NoReloader
  BY <1>0, Records
<1>u. PICK r : r = Finished(reload[i])
  OBVIOUS
<1>2. /\ r \in Reloaders /\ r.waiting = reload[i].waiting /\ r.current = reload[i].current
      /\ r.watching = reload[i].watching /\ r.queued = reload[i].queued
      /\ r.checking = reload[i].checking
      /\ r.debounce = (reload[i].debounce \/ (reload[i].pending /\ reload[i].watching))
  BY <1>0, <1>u, FinishedIs
<1>3. /\ live' \in Snapshots /\ dropped' \in BOOLEAN /\ (dropped => dropped')
      /\ i # life => live' = live
      /\ i = life /\ live.cold = r.current.cold => live' = r.current \/ dropped'
      /\ i = life /\ live = r.current => live' = r.current
  <2>1. CASE HotFails(i)
    BY <1>0, <2>1 DEF HotFails, lifeVars
  <2>2. CASE HotApplied(i)
    <3>1. /\ dropped' = dropped
          /\ live' = IF i = life THEN [live EXCEPT !.hot = reload[i].current.hot] ELSE live
      BY <2>2 DEF HotApplied, historyVars
    <3>2. live' \in Snapshots /\ (i = life => live'.cold = live.cold /\ live'.hot = r.current.hot)
      BY <1>0, <1>2, <3>1 DEF Snapshots
    <3>3. i = life /\ live.cold = r.current.cold => live' = r.current
      BY <1>0, <1>2, <3>2, SameSnapshot
    <3> QED BY <1>0, <3>1, <3>2, <3>3 DEF TypeOK
  <2> QED BY <2>1, <2>2
<1>4. ASSUME i = life, Tracked(reload[i]) PROVE Tracked(r)'
  <2>1. Known(r)'
    BY <1>0, <1>2, <1>4 DEF Tracked, Known, Unread, Content, fileVars
  <2>2. QueuedOnce(r)'
    BY <1>0, <1>2, <1>3, <1>4 DEF Tracked, QueuedOnce
  <2>3. Applied(r)'
    BY <1>0, <1>2, <1>3, <1>4 DEF Tracked, Applied, mode, fileVars
  <2> QED BY <1>2, <1>4, <2>1, <2>2, <2>3 DEF Tracked
<1> QED BY <1>0, <1>1, <1>u, <1>2, <1>3, <1>4, QuietStep DEF TypeOK

LEMMA CheckFailsKeeps ==
  ASSUME SignalsInv, NEW i \in Lives, CheckFails(i)
  PROVE  SignalsInv'
<1>0. /\ TypeOK /\ reload[i] \in Reloaders /\ reload[i].checking
      /\ UNCHANGED <<vars, fileVars, lifeVars, signalVars, owed, missed>> /\ dropped' = TRUE
  BY DEF SignalsInv, TypeOK, CheckFails
<1>1. reload[i] # NoReloader
  BY <1>0, Records
<1>u. PICK r : r = [reload[i] EXCEPT !.checking = FALSE, !.queued = FALSE]
  OBVIOUS
<1>2. reload' = [reload EXCEPT ![i] = r]
  BY <1>0, <1>u DEF CheckFails, TypeOK, Reloaders
<1>3. /\ r \in Reloaders /\ r.waiting = reload[i].waiting /\ r.current = reload[i].current
      /\ r.watching = reload[i].watching /\ r.stage = reload[i].stage
      /\ r.debounce = reload[i].debounce /\ r.pending = reload[i].pending
  BY <1>0, <1>u DEF Reloaders
<1>4. Tracked(reload[i]) => Tracked(r)'
  BY <1>0, <1>3 DEF Tracked, Known, Applied, QueuedOnce, Unread, Content, mode, fileVars,
     lifeVars
<1> QED BY <1>0, <1>1, <1>2, <1>3, <1>4, QuietStep DEF lifeVars, TypeOK

\* The check passes, or a poll ends: the signal is emitted, or will be.
LEMMA AsksKeeps ==
  ASSUME SignalsInv, NEW i \in Lives, CheckPasses(i) \/ WaitEnds(i)
  PROVE  SignalsInv'
<1>0. /\ TypeOK /\ Flags /\ reload[i] \in Reloaders
      /\ UNCHANGED <<fileVars, lifeVars, polls, requests, missed, dropped>>
  BY DEF SignalsInv, TypeOK, CheckPasses, WaitEnds
<1>1. reload[i] # NoReloader
  BY Records DEF CheckPasses, WaitEnds
<1>2. CASE Emit /\ owed' \in BOOLEAN /\ (owed => owed')
            /\ \E r \in Reloaders : reload' = [reload EXCEPT ![i] = r]
  <2>1. PICK r \in Reloaders : reload' = [reload EXCEPT ![i] = r]
    BY <1>2
  <2>2. Flags' /\ Ending' /\ generation' = generation /\ loop' = loop /\ timer' = FALSE
    BY <1>0, <1>2, EmitEnds
  <2>3. RequestPending'
    BY <2>2 DEF RequestPending
  <2> QED BY <1>0, <1>1, <1>2, <2>1, <2>2, <2>3, ReloaderKeeps DEF lifeVars, TypeOK
<1>3. CASE WaitEnds(i)
  <2>1. [reload[i] EXCEPT !.waiting = FALSE] \in Reloaders
    BY <1>0 DEF Reloaders
  <2>2. Emit /\ owed' = owed /\ reload' = [reload EXCEPT ![i] = [reload[i] EXCEPT !.waiting = FALSE]]
    BY <1>0, <1>3 DEF WaitEnds, TypeOK, Reloaders
  <2> QED BY <1>0, <1>2, <2>1, <2>2 DEF TypeOK
<1>4. CASE CheckPasses(i)
  <2>1. CASE Emit /\ reload' = [reload EXCEPT ![i].checking = FALSE]
    <3>1. [reload[i] EXCEPT !.checking = FALSE] \in Reloaders
      BY <1>0 DEF Reloaders
    <3>2. owed' = TRUE /\ reload' = [reload EXCEPT ![i] = [reload[i] EXCEPT !.checking = FALSE]]
      BY <1>0, <1>4, <2>1 DEF CheckPasses, TypeOK, Reloaders
    <3> QED BY <1>2, <2>1, <3>1, <3>2
  <2>2. CASE reload' = [reload EXCEPT ![i].checking = FALSE, ![i].waiting = TRUE]
             /\ UNCHANGED <<vars, timer>>
    <3>u. PICK r : r = [reload[i] EXCEPT !.checking = FALSE, !.waiting = TRUE]
      OBVIOUS
    <3>1. reload' = [reload EXCEPT ![i] = r]
      BY <1>0, <2>2, <3>u DEF TypeOK, Reloaders
    <3>2. /\ r \in Reloaders /\ r.waiting /\ r.current = reload[i].current
          /\ r.watching = reload[i].watching /\ r.stage = reload[i].stage
          /\ r.debounce = reload[i].debounce /\ r.pending = reload[i].pending
      BY <1>0, <3>u DEF Reloaders
    <3>3. owed' = TRUE
      BY <1>4 DEF CheckPasses
    <3>4. Tracked(reload[i]) => Tracked(r)'
      BY <1>0, <3>2, <3>3 DEF Tracked, Known, Applied, QueuedOnce, Unread, Content, mode,
         fileVars, lifeVars
    <3>5. Flags' /\ (Ending => Ending') /\ loop' = loop /\ generation' = generation
      BY <1>0, <2>2, LoopAlone
    <3>6. reload'[i].waiting
      BY <1>0, <3>1, <3>2 DEF TypeOK
    <3>7. RequestPending'
      BY <3>6 DEF RequestPending
    <3>8. /\ UNCHANGED <<fileVars, life, booted, requests, live, missed, dropped>>
          /\ polls' \in Nat /\ live' \in Snapshots /\ timer' \in BOOLEAN
          /\ owed' \in BOOLEAN /\ missed' \in BOOLEAN /\ dropped' \in BOOLEAN
      BY <1>0, <2>2, <3>3 DEF lifeVars, TypeOK
    <3> QED BY <1>1, <3>1, <3>2, <3>3, <3>4, <3>5, <3>7, <3>8, ReloaderKeeps
  <2> QED BY <1>4, <2>1, <2>2 DEF CheckPasses
<1> QED BY <1>3, <1>4

LEMMA ReloadKeeps ==
  ASSUME SignalsInv, NEW i \in Lives, Reload(i)
  PROVE  SignalsInv'
BY RunReloadKeeps, NothingReadKeeps, ApplySnapshotKeeps, HotKeeps, AsksKeeps, CheckFailsKeeps
   DEF Reload

-----------------------------------------------------------------------------
\* Steps that leave the file, the reloaders and the life alone.
LEMMA BesideKeeps ==
  ASSUME SignalsInv, Flags', Ending => Ending', loop' = loop, generation' = generation,
         UNCHANGED <<fileVars, lifeVars, reload, missed, dropped>>,
         polls' \in Nat, requests' \in Nat, timer' \in BOOLEAN, owed' \in BOOLEAN,
         owed => owed',
         RequestPending'
  PROVE  SignalsInv'
<1>1. TypeOK'
  BY DEF SignalsInv, TypeOK, fileVars, lifeVars
<1>2. Counted'
  BY DEF SignalsInv, Counted, lifeVars
<1>3. Tracked(reload[life]) => Tracked(reload[life])'
  BY DEF Tracked, Known, Applied, QueuedOnce, Unread, Content, mode, fileVars, lifeVars
<1>4. Present'
  BY <1>3 DEF SignalsInv, Present, Content, fileVars, lifeVars
<1> QED BY <1>1, <1>2, <1>4 DEF SignalsInv

LEMMA RequestKeeps ==
  ASSUME SignalsInv, Schedule \/ TimerFires \/ PollEnds
  PROVE  SignalsInv'
<1>0. TypeOK /\ Flags
  BY DEF SignalsInv
<1>1. CASE Schedule
  <2>1. Flags' /\ (Ending => Ending') /\ loop' = loop /\ generation' = generation
    BY <1>0, <1>1, LoopAlone DEF Schedule
  <2>2. RequestPending'
    BY <1>1 DEF Schedule, RequestPending
  <2> QED BY <1>0, <1>1, <2>1, <2>2, BesideKeeps DEF Schedule, TypeOK
<1>2. ASSUME Emit, UNCHANGED <<fileVars, lifeVars, reload, requests, owed, missed, dropped>>,
             polls' \in Nat
      PROVE  SignalsInv'
  <2>1. Flags' /\ Ending' /\ loop' = loop /\ generation' = generation /\ timer' = FALSE
    BY <1>0, <1>2, EmitEnds
  <2>2. RequestPending'
    BY <2>1 DEF RequestPending
  <2> QED BY <1>0, <1>2, <2>1, <2>2, BesideKeeps DEF TypeOK
<1>3. CASE TimerFires
  <2>1. CASE Emit /\ UNCHANGED polls
    BY <1>0, <1>2, <1>3, <2>1 DEF TimerFires, TypeOK
  <2>2. CASE timer' = FALSE /\ polls' = polls + 1 /\ UNCHANGED vars
    <3>1. Flags' /\ (Ending => Ending') /\ loop' = loop /\ generation' = generation
      BY <1>0, <2>2, LoopAlone
    <3>2. polls' \in Nat /\ polls' > 0
      BY <1>0, <2>2 DEF TypeOK
    <3>3. RequestPending'
      BY <3>2 DEF RequestPending
    <3> QED BY <1>0, <1>3, <2>2, <3>1, <3>2, <3>3, BesideKeeps DEF TimerFires, TypeOK
  <2> QED BY <1>3, <2>1, <2>2 DEF TimerFires
<1>4. CASE PollEnds
  BY <1>0, <1>2, <1>4 DEF PollEnds, TypeOK
<1> QED BY <1>1, <1>3, <1>4

\* The steps of the loop of which the reloader and the requests learn nothing.
LEMMA LoopStepKeeps ==
  ASSUME SignalsInv, Flags', Ending => Ending', loop' = loop, generation' = generation, Beside
  PROVE  SignalsInv'
<1>1. RequestPending'
  BY DEF SignalsInv, RequestPending, Beside, lifeVars, signalVars, historyVars
<1> QED BY <1>1, BesideKeeps DEF SignalsInv, TypeOK, Beside, signalVars, historyVars

LEMMA LoopKeeps ==
  ASSUME SignalsInv, LoopStep
  PROVE  SignalsInv'
<1>1. Flags /\ Beside
  BY DEF SignalsInv, LoopStep, StartGivesUp, DrainEnds, GivesUpClosing, Released, NoIteration
<1>2. Next /\ ~NextIteration /\ loop' = loop
  <2>1. CASE Work
    <3>1. loopVars' = loopVars
      BY <2>1, WorkEffect
    <3>2. loop' = loop /\ lockHeld' = lockHeld /\ teardown' = teardown
          /\ shuttingDown' = shuttingDown
      BY <3>1 DEF loopVars
    <3> QED BY <1>1, <2>1, <3>2 DEF Next, NextIteration, Reacquired, Flags
  <2>2. CASE Stop \/ StartFails \/ Drained \/ DrainTimeout \/ ForceExit
    BY <1>1, <2>2 DEF Stop, StartFails, Drained, DrainTimeout, ForceExit, Next,
       NextIteration, Reacquired, Flags
  <2>3. CASE ReleasedExit \/ ReleasedFallback \/ ResolverStale \/ ReacquireFails
    BY <1>1, <2>3 DEF ReleasedExit, ReleasedFallback, ResolverStale, ReacquireFails,
       Next, NextIteration, Reacquired
  <2> QED BY <2>1, <2>2, <2>3 DEF LoopStep, StartGivesUp, DrainEnds, GivesUpClosing, Released,
             NoIteration
<1>3. Flags' /\ (Ending => Ending') /\ generation' = generation
  BY <1>1, <1>2, LoopGoesOn
<1> QED BY <1>1, <1>2, <1>3, LoopStepKeeps

\* The file changes: the reloader is told, or the change was missed.
LEMMA EditKeeps ==
  ASSUME SignalsInv, Edit
  PROVE  SignalsInv'
<1>1. PICK new \in [state : {"valid", "invalid", "missing"}, cold : Nat, hot : Nat] :
        EditFile(new)
  <2> DEFINE F == [state : {"valid", "invalid", "missing"}, cold : Nat, hot : Nat]
  <2>1. file \in F /\ edits + 1 \in Nat
    BY DEF SignalsInv, TypeOK
  <2>2. /\ [file EXCEPT !.state = "valid", !.cold = edits + 1] \in F
        /\ [file EXCEPT !.state = "valid", !.hot = edits + 1] \in F
        /\ [file EXCEPT !.state = "invalid"] \in F
        /\ [state |-> "missing", cold |-> 0, hot |-> 0] \in F
    BY <2>1
  <2> HIDE DEF F
  <2>3. \E new \in F : EditFile(new)
    BY <2>2, Zenon DEF Edit
  <2> QED BY <2>3 DEF F
<1>0. /\ TypeOK /\ Flags /\ Counted /\ Present /\ RequestPending
      /\ life \in Lives /\ Lives \subseteq Int
      /\ UNCHANGED <<vars, scenario, lifeVars, signalVars, owed, dropped>>
      /\ file' = new /\ edits' = edits + 1 /\ missed' = (missed \/ ~reload[life].watching)
  BY <1>1 DEF SignalsInv, EditFile, Counted, Lives
<1>2. Flags' /\ (Ending => Ending') /\ loop' = loop /\ generation' = generation
  BY <1>0, LoopAlone
<1>3. /\ reload' \in [Lives -> Reloaders]
      /\ \A i \in Lives :
           /\ reload'[i].watching = reload[i].watching
           /\ reload'[i].debounce = (reload[i].debounce \/ reload[i].watching)
           /\ reload'[i].waiting = reload[i].waiting /\ reload'[i].stage = reload[i].stage
           /\ reload'[i].current = reload[i].current /\ reload'[i].queued = reload[i].queued
           /\ reload'[i].checking = reload[i].checking
           /\ reload[i] = NoReloader => reload'[i] = NoReloader
  <2>0. reload' = [i \in Lives |->
                    [reload[i] EXCEPT !.debounce = @ \/ reload[i].watching]]
    BY <1>1 DEF EditFile
  <2> SUFFICES ASSUME NEW i \in Lives
               PROVE  /\ reload'[i] \in Reloaders
                      /\ reload'[i].watching = reload[i].watching
                      /\ reload'[i].debounce = (reload[i].debounce \/ reload[i].watching)
                      /\ reload'[i].waiting = reload[i].waiting
                      /\ reload'[i].stage = reload[i].stage
                      /\ reload'[i].current = reload[i].current
                      /\ reload'[i].queued = reload[i].queued
                      /\ reload'[i].checking = reload[i].checking
                      /\ reload[i] = NoReloader => reload'[i] = NoReloader
    BY <2>0
  <2>1. reload[i] \in Reloaders
    BY <1>0 DEF TypeOK
  <2>2. PICK d : d = (reload[i].debounce \/ reload[i].watching)
    OBVIOUS
  <2>3. reload'[i] = [reload[i] EXCEPT !.debounce = d]
    BY <2>0, <2>2
  <2>4. d \in BOOLEAN
    BY <2>2
  <2>5. reload[i] = NoReloader => d = FALSE
    BY <2>2, Records
  <2>6. reload[i] = NoReloader => reload'[i] = NoReloader
    <3>1. NoReloader.debounce = FALSE
      BY DEF NoReloader
    <3> QED BY <2>1, <2>3, <2>5, <3>1, SetAgain
  <2> QED BY <2>1, <2>2, <2>3, <2>4, <2>6 DEF Reloaders
<1>4. TypeOK'
  BY <1>0, <1>3 DEF TypeOK, lifeVars, signalVars
<1>5. Counted'
  BY <1>0, <1>2, <1>3 DEF Counted, lifeVars
<1>6. RequestPending'
  BY <1>0, <1>2, <1>3 DEF RequestPending, lifeVars, signalVars
<1>7. Tracked(reload[life]) => Tracked(reload[life])'
  BY <1>0, <1>3 DEF Tracked, Known, Applied, QueuedOnce, Unread, mode, lifeVars
<1>8. reload[life] = NoReloader => missed' /\ reload'[life] = NoReloader
  BY <1>0, <1>3, Records
<1>9. Present'
  BY <1>0, <1>2, <1>7, <1>8 DEF Present, lifeVars
<1> QED BY <1>2, <1>4, <1>5, <1>6, <1>9 DEF SignalsInv

-----------------------------------------------------------------------------
\* The start reads the configuration: everything that was asked for is in it.
LEMMA ReadConfigKeeps ==
  ASSUME SignalsInv, ReadConfig
  PROVE  SignalsInv'
<1>0. /\ TypeOK /\ Flags /\ Counted /\ Present /\ Content \in Snapshots
      /\ loop = "starting" /\ booted' = TRUE /\ live' = Content
      /\ owed' = FALSE /\ missed' = FALSE /\ dropped' = FALSE
      /\ UNCHANGED <<vars, fileVars, life, reload, signalVars>>
  BY ContentIs DEF SignalsInv, ReadConfig
<1>1. Flags' /\ (Ending => Ending') /\ loop' = loop /\ generation' = generation
  BY <1>0, LoopAlone
<1>2. TypeOK' /\ Counted' /\ RequestPending'
  BY <1>0, <1>1 DEF TypeOK, Counted, RequestPending, fileVars, signalVars
<1>3. Present'
  BY <1>0, <1>1 DEF Present, Content, fileVars
<1> QED BY <1>1, <1>2, <1>3 DEF SignalsInv

\* The reloader begins with the configuration that was read.
LEMMA StartDoneKeeps ==
  ASSUME SignalsInv, BeginsToWatch
  PROVE  SignalsInv'
<1>u. PICK r : r = [NoReloader EXCEPT !.watching = TRUE, !.current = live]
  OBVIOUS
<1>0. /\ TypeOK /\ Flags /\ Counted /\ Present /\ RequestPending
      /\ booted /\ loop = "starting" /\ loop' = "waiting" /\ StartDone
      /\ reload' = [reload EXCEPT ![life] = r]
      /\ UNCHANGED <<fileVars, lifeVars, signalVars, historyVars>>
      /\ life \in Lives /\ Lives \subseteq Int /\ live \in Snapshots
  BY <1>u DEF SignalsInv, BeginsToWatch, StartDone, Counted, Lives, TypeOK
<1>1. Flags' /\ (Ending => Ending') /\ generation' = generation
  <2>1. Next /\ ~NextIteration
    BY <1>0 DEF Next, NextIteration
  <2> QED BY <1>0, <2>1, LoopGoesOn
<1>2. /\ r \in Reloaders /\ r.watching /\ r.current = live /\ r.queued = FALSE
  BY <1>0, <1>u, Records DEF NoReloader, Reloaders
<1>3. /\ reload' \in [Lives -> Reloaders] /\ reload'[life] = r
      /\ \A i \in Lives \ {life} : reload'[i] = reload[i]
  BY <1>0, <1>2 DEF TypeOK
<1>4. TypeOK'
  BY <1>0, <1>3 DEF TypeOK, fileVars, lifeVars, signalVars, historyVars
<1>5. Counted'
  BY <1>0, <1>1, <1>3 DEF Counted, lifeVars
<1>6. CASE Ending
  BY <1>1, <1>4, <1>5, <1>6 DEF SignalsInv, Present, RequestPending
<1>7. CASE ~Ending
  <2>1. reload[life] = NoReloader /\ (~missed => live = Content)
    BY <1>0, <1>7 DEF Present
  <2>2. Tracked(r)'
    BY <1>0, <1>2, <2>1 DEF Tracked, Known, Applied, QueuedOnce, Content, fileVars, lifeVars,
       historyVars
  <2>3. Tracked(r)' => Tracked(reload[life])'
    BY <1>0, <1>3 DEF lifeVars
  <2>4. Present'
    BY <1>0, <2>2, <2>3 DEF Present, lifeVars
  <2>5. \A i \in Lives : reload[i].waiting => reload'[i].waiting
    BY <1>3, <2>1, Records
  <2>6. RequestPending'
    BY <1>0, <1>7, <2>5 DEF RequestPending, lifeVars, signalVars, historyVars
  <2> QED BY <1>1, <1>4, <1>5, <2>4, <2>6 DEF SignalsInv
<1> QED BY <1>6, <1>7

\* The reloader is stopped by an ending process.
LEMMA ClosedKeeps ==
  ASSUME SignalsInv, StopsWatching
  PROVE  SignalsInv'
<1>0. /\ TypeOK /\ Flags /\ Counted /\ Closed
      /\ UNCHANGED <<fileVars, lifeVars, signalVars, historyVars>>
      /\ life \in Lives /\ Lives \subseteq Int
  BY DEF SignalsInv, StopsWatching, Counted, Lives
<1>1. Flags' /\ Ending' /\ generation' = generation
  <2>1. Next /\ ~NextIteration
    BY <1>0 DEF Closed, Next, NextIteration, Reacquired
  <2>2. Ending
    BY <1>0 DEF Closed, Flags, Ending
  <2> QED BY <1>0, <2>1, <2>2, LoopGoesOn
<1>2. /\ reload' \in [Lives -> Reloaders]
      /\ \A i \in Lives \ {life} : reload'[i] = reload[i]
  <2>1. CASE UNCHANGED reload
    BY <1>0, <2>1 DEF TypeOK
  <2>2. CASE reload' = [reload EXCEPT ![life].watching = FALSE, ![life].debounce = FALSE]
    <3>u. PICK r : r = [reload[life] EXCEPT !.watching = FALSE, !.debounce = FALSE]
      OBVIOUS
    <3>0. reload \in [Lives -> Reloaders] /\ reload[life] \in Reloaders
      BY <1>0 DEF TypeOK
    <3>1. r \in Reloaders
      BY <3>0, <3>u DEF Reloaders
    <3>2. reload' = [reload EXCEPT ![life] = r]
      BY <1>0, <2>2, <3>0, <3>u DEF Reloaders
    <3> QED BY <1>0, <3>1, <3>2 DEF TypeOK
  <2> QED BY <2>1, <2>2 DEF StopsWatching
<1>3. TypeOK'
  BY <1>0, <1>2 DEF TypeOK, fileVars, lifeVars, signalVars, historyVars
<1>4. Counted'
  BY <1>0, <1>1, <1>2 DEF Counted, lifeVars
<1> QED BY <1>1, <1>3, <1>4 DEF SignalsInv, Present, RequestPending

\* The next life begins: it has no reloader, and will read the configuration.
LEMMA IterationKeeps ==
  ASSUME SignalsInv, BeginsLife
  PROVE  SignalsInv'
<1>0. /\ TypeOK /\ Flags /\ Counted /\ NextIteration
      /\ life' = life + 1 /\ booted' = FALSE
      /\ UNCHANGED <<fileVars, live, reload, signalVars, historyVars>>
  BY DEF SignalsInv, BeginsLife
<1>1. /\ loop' = "starting" /\ shuttingDown' = FALSE /\ teardown' = "none"
      /\ UNCHANGED isRestart /\ gatewayDraining' = FALSE
      /\ \A l \in Lanes : generation[l] < MaxGeneration
      /\ generation' = [l \in Lanes |-> generation[l] + 1]
  BY <1>0 DEF NextIteration, Reacquired, Q!ResetAllLanes, Q!Drain
<1>2. Flags'
  BY <1>0, <1>1 DEF Flags
<1>3. life \in Nat /\ life < MaxGeneration /\ MaxGeneration \in Nat
  BY <1>0, <1>1, LoopAssumption, SignalsAssumption DEF Counted, Lives
<1>4. life' \in Lives /\ life' > life
  BY <1>0, <1>3 DEF Lives
<1>5. TypeOK'
  BY <1>0 DEF TypeOK, fileVars, signalVars, historyVars
<1>6. Counted'
  <2>1. \A l \in Lanes : generation'[l] = life'
    BY <1>0, <1>1 DEF Counted
  <2>2. \A i \in Lives : i > life' => reload'[i] = NoReloader
    BY <1>0, <1>3 DEF Counted, Lives
  <2> QED BY <1>4, <2>1, <2>2 DEF Counted
<1>7. reload'[life'] = NoReloader
  BY <1>0, <1>4 DEF Counted
<1> QED BY <1>0, <1>1, <1>2, <1>5, <1>6, <1>7 DEF SignalsInv, Present, RequestPending

LEMMA StutterKeeps ==
  ASSUME SignalsInv, UNCHANGED allVars
  PROVE  SignalsInv'
<1>1. UNCHANGED vars /\ Beside
  BY DEF allVars, Beside
<1>2. Flags' /\ (Ending => Ending') /\ loop' = loop /\ generation' = generation
  BY <1>1, LoopAlone DEF SignalsInv
<1> QED BY <1>1, <1>2, LoopStepKeeps

\* Every step keeps the invariant.
LEMMA SignalsStep == SignalsInv /\ [SignalsNext]_allVars => SignalsInv'
<1> SUFFICES ASSUME SignalsInv, [SignalsNext]_allVars PROVE SignalsInv'
  OBVIOUS
<1>1. CASE Edit
  BY <1>1, EditKeeps
<1>2. CASE Schedule \/ TimerFires \/ PollEnds
  BY <1>2, RequestKeeps
<1>3. CASE \E i \in Lives : Reload(i)
  BY <1>3, ReloadKeeps
<1>4. CASE ReadConfig
  BY <1>4, ReadConfigKeeps
<1>5. CASE BeginsToWatch
  BY <1>5, StartDoneKeeps
<1>6. CASE StopsWatching
  BY <1>6, ClosedKeeps
<1>7. CASE BeginsLife
  BY <1>7, IterationKeeps
<1>8. CASE LoopStep
  BY <1>8, LoopKeeps
<1>9. CASE UNCHANGED allVars
  BY <1>9, StutterKeeps
<1> QED BY <1>1, <1>2, <1>3, <1>4, <1>5, <1>6, <1>7, <1>8, <1>9 DEF SignalsNext

LEMMA SignalsStart == SignalsInit => SignalsInv
<1> SUFFICES ASSUME SignalsInit PROVE SignalsInv
  OBVIOUS
<1>0. 0 \in Lives /\ Lives \subseteq Int
  BY LoopAssumption DEF Lives
<1>1. TypeOK
  BY Records DEF SignalsInit, TypeOK, Snapshots
<1>2. Flags
  BY DEF SignalsInit, Init, Q!Init, Flags
<1>3. Counted
  BY <1>0 DEF SignalsInit, Init, Q!Init, Counted
<1>4. Present /\ RequestPending
  BY <1>0 DEF SignalsInit, Init, Present, RequestPending
<1> QED BY <1>1, <1>2, <1>3, <1>4 DEF SignalsInv

\* The inductive invariant of requests, polls, reloaders and lives.
THEOREM SignalsInvariant == SignalsSpec => []SignalsInv
BY SignalsStart, SignalsStep, PTL DEF SignalsSpec

\* No restart that was asked for is forgotten, whichever timers, polls and signals
\* are coalesced, cleared or ignored: until a later start reads the configuration,
\* somebody is to ask for it again or the process is ending.
THEOREM RequestsStayPending == SignalsSpec => []RequestPending
<1>1. SignalsInv => RequestPending
  BY DEF SignalsInv
<1> QED BY <1>1, SignalsInvariant, PTL

\* No edit is forgotten, however edits, reloads and restarts overlap: while the file
\* is not in effect it is still to be read, applied or followed by a restart, but
\* for the changes nobody watched and those given up.
THEOREM EditsStayPending == SignalsSpec => []EditPending
<1>1. SignalsInv => EditPending
  BY DEF SignalsInv, Present, Tracked, Known, Applied, EditPending
<1> QED BY <1>1, SignalsInvariant, PTL

\* So nothing that was asked for is forgotten.
THEOREM NothingIsForgotten == SignalsSpec => []NothingForgotten
<1>1. SignalsInv => TypeOK
  BY DEF SignalsInv
<1> QED BY <1>1, SignalsInvariant, RequestsStayPending, EditsStayPending, PTL DEF NothingForgotten

=============================================================================
