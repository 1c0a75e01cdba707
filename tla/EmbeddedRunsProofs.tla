------------------------- MODULE EmbeddedRunsProofs -------------------------
(***************************************************************************)
(* Proofs about EmbeddedRuns, for any runs, sessions, lanes and bounds.    *)
(* The runs use the command queue by its operations only, so its theorems  *)
(* hold of their lanes; as nobody asks for more than one slot, the lanes   *)
(* are serial, and on that rests what is said of the registry.             *)
(***************************************************************************)
EXTENDS EmbeddedRuns, TLAPS

\* The command queue, and what is proved about it.
P == INSTANCE CommandQueueProofs WITH Requests <- {}

-----------------------------------------------------------------------------
\* The inductive invariant, with P!IInv and P!Serial of the lanes.

\* The type invariant of the runs.
RunTypes ==
  /\ registry \in [Sessions -> Runs \cup {NoRun}]
  /\ stage \in [Runs -> {"preparing", "attempt", "ended"}]
  /\ tries \in [Runs -> Nat]
  /\ stopped \in [Runs -> {"no", "aborted", "timedOut"}]
  /\ wanted \subseteq Runs
  /\ command \in [Compactions -> {"new", "waiting", "released", "done"}]
  /\ cleanup \in [Sessions -> {"none", "waiting", "quiet", "active"}]
  /\ displaced \subseteq Runs
  /\ target \in [Sessions -> Runs \cup {NoRun}]

\* The inner entry lives within the outer one.
Nested ==
  \A r \in Runs :
    /\ phase[Inner(r)] # "idle" => phase[Outer(r)] \in {"running", "resolved", "rejected"}
    /\ phase[Inner(r)] \in {"queued", "running"} => phase[Outer(r)] = "running"

\* A run that is not under way is at its beginning, and nothing stops it yet.
FreshUnlessUnderWay ==
  \A r \in Runs : ~UnderWay(r) => stage[r] = "preparing" /\ stopped[r] = "no"

\* A cleanup's target is a run of the session whose attempt was aborted: it
\* is in that attempt or after it, and will not begin another.
TargetIsDoomed ==
  \A s \in Sessions : target[s] # NoRun =>
    /\ cleanup[s] \in {"waiting", "quiet"}
    /\ Session(target[s]) = s
    /\ UnderWay(target[s])
    /\ stage[target[s]] \in {"attempt", "ended"}
    /\ stopped[target[s]] = "aborted"

\* The inductive invariant of the runs, on top of the command queue's.
RunInv ==
  /\ RunTypes
  /\ Nested
  /\ FreshUnlessUnderWay
  /\ RegistryTruthful
  /\ TargetIsDoomed
  /\ AbortedStaysDown

-----------------------------------------------------------------------------
(***************************************************************************)
(* The runs and the queue.                                                 *)
(***************************************************************************)

\* The assumption of the command queue holds of the lanes and entries of runs,
\* and nobody asks for a second slot.
LEMMA QueueConstants ==
  /\ LaneOf \in [Tasks -> Lanes]
  /\ {} \subseteq Int
  /\ MaxGeneration \in Nat
  /\ {} \subseteq {n \in Int : n <= 1}
<1>1. \A e \in Tasks : (IF e[2] = "session" THEN SessionOf[e[1]] ELSE GlobalOf[e[1]]) \in Lanes
  BY RunsAssumption DEF Tasks, Lanes
<1> QED BY <1>1, RunsAssumption DEF LaneOf

\* The entries of runs, and the lanes they are enqueued in.
LEMMA Entries ==
  ASSUME NEW r \in Runs
  PROVE  /\ Outer(r) \in Tasks /\ Inner(r) \in Tasks
         /\ \A q \in Runs : Outer(r) # Inner(q) /\ Inner(q) # Outer(r)
         /\ \A q \in Runs : q # r => Outer(q) # Outer(r) /\ Inner(q) # Inner(r)
         /\ LaneOf[Outer(r)] = Session(r)
         /\ LaneOf[Inner(r)] \notin Sessions
<1>1. Outer(r) = <<r, "session">> /\ Inner(r) = <<r, "global">>
  BY DEF Outer, Inner
<1>2. \A q \in Runs : Outer(q) = <<q, "session">> /\ Inner(q) = <<q, "global">>
  BY DEF Outer, Inner
<1>3. Outer(r) \in Tasks /\ Inner(r) \in Tasks
  BY <1>1 DEF Tasks
<1>4. LaneOf[Outer(r)] = Session(r)
  BY <1>1, <1>3 DEF LaneOf, Session
<1>5. LaneOf[Inner(r)] = GlobalOf[r]
  BY <1>1, <1>3 DEF LaneOf
<1> QED BY <1>1, <1>2, <1>3, <1>4, <1>5, RunsAssumption

\* The end of an entry is one of the command queue.
LEMMA SettleFinishes ==
  ASSUME NEW e \in Tasks, NEW outcome \in {"resolved", "rejected"}, Settle(e, outcome)
  PROVE  Q!Finish(e)
BY DEF Settle, Q!Finish

\* Who is asked for does not change.
WantedRuns == wanted \subseteq Runs

\* It never does.
LEMMA WantedStays == Spec => []WantedRuns
<1>1. Init => WantedRuns
  BY RunsAssumption DEF Init, WantedRuns
<1>2. WantedRuns /\ [Next]_vars => WantedRuns'
  BY DEF WantedRuns, vars, runVars, Next, Request, Progress, Ask, Interrupt, CompactWaits,
         Compact, Cleanup, CommandTimesOut, CleanupTimesOut, Nest, Return, Register,
         TimesOut, AttemptEnds, Retry, Finish, Drain, Reset
<1> QED BY <1>1, <1>2, PTL DEF Spec

\* Every step of a run is one operation of the queue, or leaves it alone.
LEMMA StepRefines == WantedRuns /\ [Next]_vars => [Q!Next]_queueVars
<1> SUFFICES ASSUME WantedRuns, [Next]_vars PROVE [Q!Next]_queueVars
  OBVIOUS
<1>1. ASSUME NEW r \in Runs, Accept(r) PROVE Q!Next
  BY <1>1, Entries DEF Accept, Q!Next
<1>2. ASSUME NEW s \in Sessions, ClearSession(s) PROVE [Q!Next]_queueVars
  BY <1>2 DEF ClearSession, Lanes, Q!Next
<1>3. ASSUME NEW r \in Runs, Request(r) PROVE [Q!Next]_queueVars
  BY <1>1, <1>3 DEF Request, Ask, CompactWaits, Compact, CommandTimesOut
<1>4. ASSUME NEW r \in Runs, Nest(r) PROVE Q!Next
  BY <1>4, Entries DEF Nest, Q!Next
<1>5. ASSUME NEW r \in Runs, Return(r) PROVE Q!Next
  BY <1>5, Entries, SettleFinishes DEF Return, Q!Next
<1>6. ASSUME NEW r \in Runs, Finish(r) PROVE Q!Next
  BY <1>6, Entries, SettleFinishes DEF Finish, Q!Next
<1>7. ASSUME NEW r \in Runs, Register(r) \/ AttemptEnds(r) \/ Retry(r) \/ TimesOut(r)
      PROVE  UNCHANGED queueVars
  BY <1>7 DEF Register, AttemptEnds, Retry, TimesOut
<1>8. ASSUME NEW s \in Sessions, Interrupt(s) \/ Cleanup(s) \/ CleanupTimesOut(s)
      PROVE  [Q!Next]_queueVars
  BY <1>2, <1>8 DEF Interrupt, Cleanup, CleanupTimesOut
<1>9. CASE Drain \/ Reset
  BY <1>9 DEF Drain, Reset, Q!Next
<1>10. CASE UNCHANGED vars
  BY <1>10 DEF vars
<1> QED BY <1>3, <1>4, <1>5, <1>6, <1>7, <1>8, <1>9, <1>10 DEF Next, Progress, WantedRuns

\* The runs implement the command queue: a run takes no slot, and leaves no
\* lane, by any way but the queue's operations.
THEOREM RunsUseQueue == Spec => Q!Spec
<1>1. Init => Q!Init
  BY DEF Init
<1>2. WantedRuns /\ [Next]_vars => [Q!Next]_queueVars
  BY StepRefines
<1> QED BY <1>1, <1>2, WantedStays, PTL DEF Spec, Q!Spec, Q!queueVars, queueVars

\* The two instances of the command queue count alike, ...
LEMMA SameCardinality ==
  ASSUME NEW S
  PROVE  Q!Cardinality(S) = P!Cardinality(S)
BY DEF Q!Cardinality, P!Cardinality

\* ... drain their lanes alike, ...
LEMMA SameDrain ==
  ASSUME NEW ls, NEW STATE qs, NEW STATE busy, NEW STATE lim, NEW STATE gen, NEW STATE ph
  PROVE  Q!Drain(ls, qs, busy, lim, gen, ph) <=> P!Drain(ls, qs, busy, lim, gen, ph)
<1> DEFINE nQ == [l \in Lanes |-> IF l \in ls THEN Q!PumpCount(qs[l], busy[l], lim[l]) ELSE 0]
           nP == [l \in Lanes |-> IF l \in ls THEN P!PumpCount(qs[l], busy[l], lim[l]) ELSE 0]
<1>1. \A l \in Lanes : Q!PumpCount(qs[l], busy[l], lim[l]) = P!PumpCount(qs[l], busy[l], lim[l])
  BY SameCardinality DEF Q!PumpCount, P!PumpCount
<1>2. nQ = nP
  BY <1>1
<1>3. \A l \in Lanes : /\ Q!FirstOf(qs[l], nQ[l]) = P!FirstOf(qs[l], nP[l])
                       /\ Q!RestOf(qs[l], nQ[l]) = P!RestOf(qs[l], nP[l])
  BY <1>2, Zenon DEF Q!FirstOf, P!FirstOf, Q!RestOf, P!RestOf
<1> HIDE DEF nQ, nP
<1>4. UNION {Q!FirstOf(qs[l], nQ[l]) : l \in Lanes} = UNION {P!FirstOf(qs[l], nP[l]) : l \in Lanes}
  BY <1>3
<1>5. [l \in Lanes |-> Q!RestOf(qs[l], nQ[l])] = [l \in Lanes |-> P!RestOf(qs[l], nP[l])]
  BY <1>3
<1>6. [l \in Lanes |-> busy[l] \cup Q!FirstOf(qs[l], nQ[l])]
        = [l \in Lanes |-> busy[l] \cup P!FirstOf(qs[l], nP[l])]
  BY <1>3
<1> QED
  BY <1>4, <1>5, <1>6, Zenon DEF Q!Drain, P!Drain, nQ, nP

\* The operations the runs' actions name and those of the theorems are the same.
LEMMA SameOperations ==
  /\ \A e \in Tasks : /\ Q!EnqueueRefused(e) => P!EnqueueRefused(e)
                      /\ Q!Enqueue(e) => P!Enqueue(e)
                      /\ \A o \in {"resolved", "rejected"} :
                           Settle(e, o) => P!FinishCurrent(e, o) \/ P!FinishStale(e, o)
  /\ \A l \in Lanes : Q!ClearLane(l) => P!ClearLane(l)
  /\ Q!MarkDraining => P!MarkDraining
  /\ Q!ResetAllLanes => P!ResetAllLanes
<1>1. ASSUME NEW e \in Tasks, Q!EnqueueRefused(e) PROVE P!EnqueueRefused(e)
  BY <1>1 DEF Q!EnqueueRefused, P!EnqueueRefused
<1>2. ASSUME NEW e \in Tasks, Q!Enqueue(e) PROVE P!Enqueue(e)
  BY <1>2, SameDrain DEF Q!Enqueue, P!Enqueue
<1>3. ASSUME NEW e \in Tasks, NEW o \in {"resolved", "rejected"}, Settle(e, o)
      PROVE  P!FinishCurrent(e, o) \/ P!FinishStale(e, o)
  BY <1>3, SameDrain DEF Settle, Q!FinishCurrent, P!FinishCurrent, Q!FinishStale, P!FinishStale
<1>4. ASSUME NEW l \in Lanes, Q!ClearLane(l) PROVE P!ClearLane(l)
  BY <1>4 DEF Q!ClearLane, P!ClearLane, Q!AllOf, P!AllOf, Q!FirstOf, P!FirstOf
<1>5. ASSUME Q!MarkDraining PROVE P!MarkDraining
  BY <1>5 DEF Q!MarkDraining, P!MarkDraining
<1>6. ASSUME Q!ResetAllLanes PROVE P!ResetAllLanes
  BY <1>6, SameDrain DEF Q!ResetAllLanes, P!ResetAllLanes
<1> QED BY <1>1, <1>2, <1>3, <1>4, <1>5, <1>6

\* ... and take the same steps.
LEMMA SameNext == Q!Next => P!Next
<1> SUFFICES ASSUME Q!Next PROVE P!Next
  OBVIOUS
<1>1. ASSUME NEW e \in Tasks, Q!Finish(e) PROVE P!Finish(e)
  <2>1. PICK o \in {"resolved", "rejected"} : Settle(e, o)
    BY <1>1 DEF Q!Finish, Settle
  <2> QED BY <2>1, SameOperations DEF P!Finish
<1> QED BY <1>1, SameOperations DEF Q!Next, P!Next

\* What the theorems about the queue say of the lanes of runs.
LEMMA LanesHold == Spec => [](P!IInv /\ P!Serial /\ WantedRuns)
<1>1. P!Spec => []P!IInv
  BY QueueConstants, P!QueueInvariant
<1>2. P!Spec => []P!Serial
  BY QueueConstants, P!LanesAreSerial
<1>3. Init => P!Init
  BY DEF Init, Q!Init, P!Init
<1>4. WantedRuns /\ [Next]_vars => [P!Next]_(P!queueVars)
  BY StepRefines, SameNext DEF queueVars, P!queueVars
<1> QED BY <1>1, <1>2, <1>3, <1>4, WantedStays, PTL DEF Spec, P!Spec

-----------------------------------------------------------------------------
(***************************************************************************)
(* What a step does to the entries of runs.                                *)
(***************************************************************************)

\* An entry that is idle or running is left so.
Undisturbed(t) ==
  /\ phase[t] = "idle" => phase'[t] = "idle"
  /\ phase[t] = "running" => phase'[t] = "running"

\* The operations of the queue disturb no entry but the one they are about.
LEMMA OperationsDisturb ==
  ASSUME P!IInv
  PROVE  /\ \A e \in Tasks : Q!Enqueue(e) \/ Q!EnqueueRefused(e) =>
              /\ phase[e] = "idle"
              /\ \A t \in Tasks \ {e} : Undisturbed(t)
         /\ \A e \in Tasks : \A o \in {"resolved", "rejected"} : Settle(e, o) =>
              /\ phase[e] = "running"
              /\ \A t \in Tasks \ {e} : Undisturbed(t)
         /\ \A s \in Sessions : ClearSession(s) => \A t \in Tasks : Undisturbed(t)
         /\ Q!MarkDraining \/ Q!ResetAllLanes => \A t \in Tasks : Undisturbed(t)
<1> USE DEF Undisturbed, P!MayStart
<1>1. ASSUME NEW e \in Tasks, Q!Enqueue(e)
      PROVE  phase[e] = "idle" /\ \A t \in Tasks \ {e} : Undisturbed(t)
  <2>1. P!Enqueue(e)
    BY <1>1, SameOperations
  <2>2. phase[e] = "idle" /\ \A t \in Tasks \ {e} : P!MayStart(t)
    BY <2>1, QueueConstants, P!EnqueueEffect
  <2> QED BY <2>2
<1>2. ASSUME NEW e \in Tasks, Q!EnqueueRefused(e)
      PROVE  phase[e] = "idle" /\ \A t \in Tasks \ {e} : Undisturbed(t)
  BY <1>2 DEF Q!EnqueueRefused, P!IInv, P!TypeOK
<1>3. ASSUME NEW e \in Tasks, NEW o \in {"resolved", "rejected"}, Settle(e, o)
      PROVE  phase[e] = "running" /\ \A t \in Tasks \ {e} : Undisturbed(t)
  <2>1. P!FinishCurrent(e, o) \/ P!FinishStale(e, o)
    BY <1>3, SameOperations
  <2>2. phase[e] = "running" /\ \A t \in Tasks \ {e} : P!MayStart(t)
    BY <2>1, QueueConstants, P!FinishEffect
  <2> QED BY <2>2
<1>4. ASSUME NEW s \in Sessions, ClearSession(s)
      PROVE  \A t \in Tasks : Undisturbed(t)
  <2>1. CASE UNCHANGED queueVars
    BY <2>1 DEF queueVars
  <2>2. CASE Q!ClearLane(s)
    <3>1. s \in Lanes
      BY DEF Lanes
    <3>2. P!ClearLane(s)
      BY <2>2, <3>1, SameOperations
    <3>3. \A t \in Tasks :
            phase'[t] = IF LaneOf[t] = s /\ phase[t] = "queued" THEN "cleared" ELSE phase[t]
      BY <3>1, <3>2, QueueConstants, P!ClearEffect
    <3> QED BY <3>3
  <2> QED BY <1>4, <2>1, <2>2 DEF ClearSession
<1>5. ASSUME Q!MarkDraining PROVE \A t \in Tasks : Undisturbed(t)
  BY <1>5 DEF Q!MarkDraining
<1>6. ASSUME Q!ResetAllLanes PROVE \A t \in Tasks : Undisturbed(t)
  <2>1. P!ResetAllLanes
    BY <1>6, SameOperations
  <2>2. \A t \in Tasks : P!MayStart(t)
    BY <2>1, QueueConstants, P!ResetEffect
  <2> QED BY <2>2
<1> QED BY <1>1, <1>2, <1>3, <1>4, <1>5, <1>6

\* The entries of r from one step to the next: only its own task enqueues the
\* inner one, ends it, and passes its end on.
RunStep(r) ==
  /\ phase[Inner(r)] = "idle" => phase'[Inner(r)] = "idle" \/ Nest(r)
  /\ UnderWay(r) => UnderWay(r)' \/ Finish(r)
  /\ phase[Outer(r)] = "running" => phase'[Outer(r)] = "running" \/ Return(r)

\* Every step is one of these.
LEMMA RunSteps ==
  ASSUME P!IInv, WantedRuns, [Next]_vars
  PROVE  \A r \in Runs : RunStep(r)
<1> SUFFICES ASSUME NEW r \in Runs PROVE RunStep(r)
  OBVIOUS
<1> USE DEF RunStep, UnderWay
<1>1. /\ Outer(r) \in Tasks /\ Inner(r) \in Tasks
      /\ \A q \in Runs : /\ Outer(q) \in Tasks /\ Inner(q) \in Tasks
                         /\ Outer(r) # Inner(q) /\ Inner(r) # Outer(q)
                         /\ q # r => Outer(q) # Outer(r) /\ Inner(q) # Inner(r)
  BY Entries
<1>2. ASSUME \A t \in Tasks : Undisturbed(t) PROVE RunStep(r)
  BY <1>1, <1>2 DEF Undisturbed
<1>3. ASSUME UNCHANGED queueVars PROVE RunStep(r)
  BY <1>3 DEF queueVars
<1>4. ASSUME NEW q \in Runs, Accept(q) PROVE RunStep(r)
  <2>1. phase[Outer(q)] = "idle" /\ \A t \in Tasks \ {Outer(q)} : Undisturbed(t)
    BY <1>1, <1>4, OperationsDisturb DEF Accept
  <2> QED BY <1>1, <2>1 DEF Undisturbed
<1>5. ASSUME NEW q \in Runs, Request(q) PROVE RunStep(r)
  BY <1>3, <1>4, <1>5 DEF Request, Ask, CompactWaits, Compact, CommandTimesOut
<1>6. ASSUME NEW q \in Runs, Nest(q) PROVE RunStep(r)
  <2>1. phase[Inner(q)] = "idle" /\ \A t \in Tasks \ {Inner(q)} : Undisturbed(t)
    BY <1>1, <1>6, OperationsDisturb DEF Nest
  <2> QED BY <1>1, <1>6, <2>1 DEF Undisturbed
<1>7. ASSUME NEW q \in Runs, Return(q) PROVE RunStep(r)
  <2>1. \A t \in Tasks \ {Outer(q)} : Undisturbed(t)
    BY <1>1, <1>7, OperationsDisturb DEF Return
  <2> QED BY <1>1, <1>7, <2>1 DEF Undisturbed
<1>8. ASSUME NEW q \in Runs, Finish(q) PROVE RunStep(r)
  <2>1. phase[Inner(q)] = "running" /\ \A t \in Tasks \ {Inner(q)} : Undisturbed(t)
    BY <1>1, <1>8, OperationsDisturb DEF Finish
  <2> QED BY <1>1, <1>8, <2>1 DEF Undisturbed
<1>9. ASSUME NEW q \in Runs, Register(q) \/ AttemptEnds(q) \/ Retry(q) \/ TimesOut(q)
      PROVE  RunStep(r)
  BY <1>3, <1>9 DEF Register, AttemptEnds, Retry, TimesOut
<1>10. ASSUME NEW s \in Sessions, Interrupt(s) \/ Cleanup(s) \/ CleanupTimesOut(s)
       PROVE  RunStep(r)
  BY <1>2, <1>3, <1>10, OperationsDisturb DEF Interrupt, Cleanup, CleanupTimesOut
<1>11. CASE Drain \/ Reset
  BY <1>2, <1>11, OperationsDisturb DEF Drain, Reset
<1>12. CASE UNCHANGED vars
  BY <1>3, <1>12 DEF vars
<1> QED BY <1>5, <1>6, <1>7, <1>8, <1>9, <1>10, <1>11, <1>12 DEF Next, Progress, WantedRuns

\* What P!EntrySteps says of this step.
LEMMA EntriesStep ==
  ASSUME P!IInv, WantedRuns, [Next]_vars
  PROVE  \A t \in Tasks :
           /\ phase[t] \in {"running", "resolved", "rejected"} =>
                /\ phase'[t] \in {"running", "resolved", "rejected"}
                /\ taskGeneration'[t] = taskGeneration[t]
           /\ phase[t] \in Q!Settled => phase'[t] = phase[t]
<1>1. [P!Next]_(P!queueVars)
  BY StepRefines, SameNext DEF queueVars, P!queueVars
<1>2. \A t \in Tasks : P!EntryStep(t)
  BY <1>1, QueueConstants, P!EntrySteps
<1> QED BY <1>2 DEF P!EntryStep, P!Settled, Q!Settled

\* The inner entry stays within the outer one.
LEMMA NestedStep ==
  ASSUME P!IInv, WantedRuns, [Next]_vars, Nested
  PROVE  Nested'
<1> SUFFICES ASSUME NEW r \in Runs
             PROVE  /\ phase'[Inner(r)] # "idle" =>
                         phase'[Outer(r)] \in {"running", "resolved", "rejected"}
                    /\ phase'[Inner(r)] \in {"queued", "running"} => phase'[Outer(r)] = "running"
  BY DEF Nested
<1>1. RunStep(r)
  BY RunSteps
<1>2. Outer(r) \in Tasks /\ Inner(r) \in Tasks
  BY Entries
<1>3. /\ phase[Outer(r)] \in {"running", "resolved", "rejected"} =>
           phase'[Outer(r)] \in {"running", "resolved", "rejected"}
      /\ phase[Inner(r)] \in Q!Settled => phase'[Inner(r)] = phase[Inner(r)]
  BY <1>2, EntriesStep
<1>4. phase[Inner(r)] \in P!Phases
  BY <1>2 DEF P!IInv, P!TypeOK
<1>5. CASE phase[Inner(r)] = "idle"
  <2>1. CASE Nest(r)
    <3>1. phase[Outer(r)] = "running" /\ ~Return(r)
      BY <2>1, <1>5 DEF Nest, Nesting, Return, Returning, Q!Settled
    <3> QED BY <1>1, <3>1 DEF RunStep
  <2> QED BY <1>1, <1>5, <2>1 DEF RunStep
<1>6. CASE phase[Inner(r)] \in {"queued", "running"}
  <2>1. ~Return(r)
    BY <1>6 DEF Return, Returning, Q!Settled
  <2> QED BY <1>1, <1>6, <2>1 DEF RunStep, Nested
<1>7. CASE phase[Inner(r)] \in Q!Settled
  BY <1>3, <1>7 DEF Nested, Q!Settled
<1> QED BY <1>4, <1>5, <1>6, <1>7 DEF P!Phases, Q!Settled

\* Two runs under way in a session hold its lane in different generations: each
\* holds the outer entry's slot, and the lane is serial.
LEMMA Alone == P!Serial /\ Nested => OneRunPerSession
<1> SUFFICES ASSUME P!Serial, Nested,
                    NEW q \in Runs, NEW r \in Runs,
                    q # r, Session(q) = Session(r), UnderWay(q), UnderWay(r)
             PROVE  Apart(q, r)
  BY DEF OneRunPerSession
<1>1. phase[Outer(q)] = "running" /\ phase[Outer(r)] = "running"
  BY DEF Nested, UnderWay
<1>2. /\ Outer(q) \in Tasks /\ Outer(r) \in Tasks /\ Outer(q) # Outer(r)
      /\ LaneOf[Outer(q)] = LaneOf[Outer(r)]
  BY Entries
<1>3. taskGeneration[Outer(q)] # taskGeneration[Outer(r)]
  BY <1>1, <1>2 DEF P!Serial
<1> QED BY <1>1, <1>3 DEF Apart

-----------------------------------------------------------------------------
(***************************************************************************)
(* The registry, the abort and the wait, one action at a time.  What the   *)
(* lanes give is that runs under way stay so, but for one that finishes,   *)
(* and that runs of different lives of the gateway stay apart.             *)
(***************************************************************************)

\* A step ends no run, ...
Persist == \A r \in Runs : UnderWay(r) => UnderWay(r)'

\* ... and brings no two of different lives together.
StayApart == \A q, r \in Runs : Apart(q, r) => Apart(q, r)'

\* What is to be shown of each action, but for Nested.
Handles ==
  /\ RunTypes
  /\ FreshUnlessUnderWay
  /\ RegistryTruthful
  /\ TargetIsDoomed
  /\ AbortedStaysDown

\* A step that leaves the registry alone keeps it truthful.
LEMMA SameHandles ==
  ASSUME Handles, Persist, StayApart, UNCHANGED runVars
  PROVE  Handles'
<1> USE DEF Handles, RunTypes, runVars
<1>1. RunTypes'
  OBVIOUS
<1>2. FreshUnlessUnderWay'
  BY DEF FreshUnlessUnderWay, Persist
<1>3. RegistryTruthful'
  <2>1. \A r \in Runs : Attempting(r) => Attempting(r)'
    BY DEF Attempting, Persist
  <2>2. \A r \in Runs : Attempting(r)' => Attempting(r)
    BY DEF Attempting, FreshUnlessUnderWay
  <2> QED BY <2>1, <2>2 DEF RegistryTruthful, StayApart
<1>4. TargetIsDoomed'
  BY DEF TargetIsDoomed, Persist
<1>5. AbortedStaysDown'
  <2>1. \A r \in Runs : Attempting(r)' => Attempting(r)
    BY DEF Attempting, FreshUnlessUnderWay
  <2> QED BY <2>1 DEF AbortedStaysDown
<1> QED BY <1>1, <1>2, <1>3, <1>4, <1>5

\* An abort gives up no attempt but the registered one's.
LEMMA AbortHandles ==
  ASSUME Handles, Persist, StayApart, NEW s \in Sessions, Abort(s),
         UNCHANGED <<registry, stage, tries, command, cleanup, displaced, target, wanted>>
  PROVE  Handles'
<1> USE DEF Handles, RunTypes, Abort
<1>1. RunTypes'
  OBVIOUS
<1>2. FreshUnlessUnderWay'
  BY RunsAssumption DEF FreshUnlessUnderWay, Persist, RegistryTruthful, Attempting
<1>3. RegistryTruthful'
  <2>1. \A r \in Runs : Attempting(r)' <=> Attempting(r)
    BY DEF Attempting, FreshUnlessUnderWay, Persist
  <2> QED BY <2>1 DEF RegistryTruthful, StayApart
<1>4. TargetIsDoomed'
  BY DEF TargetIsDoomed, Persist
<1>5. AbortedStaysDown'
  <2>1. \A r \in Runs : Attempting(r)' => Attempting(r)
    BY DEF Attempting, FreshUnlessUnderWay
  <2> QED BY <2>1 DEF AbortedStaysDown
<1> QED BY <1>1, <1>2, <1>3, <1>4, <1>5

\* A compaction begins to wait only while a handle is registered.
LEMMA CompactWaitsHandles ==
  ASSUME Handles, Persist, StayApart, NEW r \in Runs, CompactWaits(r)
  PROVE  Handles'
<1> USE DEF Handles, RunTypes, Abort, CompactWaits, Session
<1>1. RunTypes'
  OBVIOUS
<1>2. FreshUnlessUnderWay'
  BY RunsAssumption DEF FreshUnlessUnderWay, Persist, RegistryTruthful, Attempting
<1>3. RegistryTruthful'
  <2>1. \A q \in Runs : Attempting(q)' <=> Attempting(q)
    BY DEF Attempting, FreshUnlessUnderWay, Persist
  <2> QED BY <2>1 DEF RegistryTruthful, StayApart
<1>4. TargetIsDoomed'
  BY DEF TargetIsDoomed, Persist
<1>5. AbortedStaysDown'
  <2>1. \A q \in Runs : Attempting(q)' => Attempting(q)
    BY DEF Attempting, FreshUnlessUnderWay
  <2> QED BY <2>1 DEF AbortedStaysDown
<1> QED BY <1>1, <1>2, <1>3, <1>4, <1>5

\* A compaction that goes on waits no more.
LEMMA CommandHandles ==
  ASSUME Handles, Persist, StayApart, NEW r \in Runs, Compact(r) \/ CommandTimesOut(r)
  PROVE  Handles'
<1> USE DEF Handles, RunTypes, Compact, CommandTimesOut, Session
<1>1. RunTypes'
  OBVIOUS
<1>2. FreshUnlessUnderWay'
  BY DEF FreshUnlessUnderWay, Persist
<1>3. RegistryTruthful'
  <2>1. \A q \in Runs : Attempting(q)' <=> Attempting(q)
    BY DEF Attempting, FreshUnlessUnderWay, Persist
  <2>2. \A q \in Compactions : command'[q] = "waiting" => command[q] = "waiting"
    OBVIOUS
  <2>3. UNCHANGED <<registry, cleanup, displaced>>
    OBVIOUS
  <2> QED BY <2>1, <2>2, <2>3 DEF RegistryTruthful, StayApart
<1>4. TargetIsDoomed'
  BY DEF TargetIsDoomed, Persist
<1>5. AbortedStaysDown'
  <2>1. \A q \in Runs : Attempting(q)' => Attempting(q)
    BY DEF Attempting, FreshUnlessUnderWay
  <2> QED BY <2>1 DEF AbortedStaysDown
<1> QED BY <1>1, <1>2, <1>3, <1>4, <1>5

\* A cleanup waits only for a registered run, and that run's attempt is aborted.
LEMMA CleanupHandles ==
  ASSUME Handles, Persist, StayApart, NEW s \in Sessions, Cleanup(s)
  PROVE  Handles'
<1> USE DEF Handles, RunTypes, Abort, Cleanup, Session
<1>1. RunTypes'
  OBVIOUS
<1>2. FreshUnlessUnderWay'
  BY RunsAssumption DEF FreshUnlessUnderWay, Persist, RegistryTruthful, Attempting
<1>3. \A q \in Runs : Attempting(q)' <=> Attempting(q)
  BY DEF Attempting, FreshUnlessUnderWay, Persist
<1>4. RegistryTruthful'
  BY <1>3 DEF RegistryTruthful, StayApart
<1>5. TargetIsDoomed'
  <2>1. ASSUME NEW k \in Sessions, k # s, target'[k] # NoRun
        PROVE  /\ target'[k] = target[k] /\ cleanup'[k] = cleanup[k]
               /\ stopped'[target[k]] = "aborted"
    BY <2>1 DEF TargetIsDoomed
  <2>2. ASSUME target'[s] # NoRun
        PROVE  /\ target'[s] = registry[s] /\ cleanup'[s] = "waiting"
               /\ stopped'[registry[s]] = "aborted"
    BY <2>2
  <2> QED BY <2>1, <2>2 DEF TargetIsDoomed, Persist, RegistryTruthful, Attempting
<1>6. AbortedStaysDown'
  BY <1>3 DEF AbortedStaysDown
<1> QED BY <1>1, <1>2, <1>4, <1>5, <1>6

\* The reset or deletion of a session gives up on its run.
LEMMA CleanupTimesOutHandles ==
  ASSUME Handles, Persist, StayApart, NEW s \in Sessions, CleanupTimesOut(s)
  PROVE  Handles'
<1> USE DEF Handles, RunTypes, CleanupTimesOut, Session
<1>1. RunTypes'
  OBVIOUS
<1>2. FreshUnlessUnderWay'
  BY DEF FreshUnlessUnderWay, Persist
<1>3. \A q \in Runs : Attempting(q)' <=> Attempting(q)
  BY DEF Attempting, FreshUnlessUnderWay, Persist
<1>4. RegistryTruthful'
  BY <1>3 DEF RegistryTruthful, StayApart
<1>5. TargetIsDoomed'
  BY DEF TargetIsDoomed, Persist
<1>6. AbortedStaysDown'
  BY <1>3 DEF AbortedStaysDown
<1> QED BY <1>1, <1>2, <1>4, <1>5, <1>6

\* A handle displaces only one of a run the lanes set apart, and an attempt that
\* was aborted for a cleanup does not begin again.
LEMMA RegisterHandles ==
  ASSUME Handles, Persist, StayApart, OneRunPerSession, NEW r \in Runs, Register(r)
  PROVE  Handles'
<1> USE DEF Handles, RunTypes, Register, Session
<1>0. Session(r) \in Sessions
  BY RunsAssumption
<1>1. RunTypes'
  BY <1>0
<1>2. FreshUnlessUnderWay'
  BY DEF FreshUnlessUnderWay, Persist
<1>3. /\ Attempting(r)' /\ ~Attempting(r)
      /\ \A q \in Runs \ {r} : Attempting(q)' <=> Attempting(q)
  BY DEF Attempting, FreshUnlessUnderWay, Persist
<1>4. RegistryTruthful'
  <2>1. \A k \in Sessions : registry'[k] # NoRun => Attempting(registry[k])' /\ Session(registry'[k]) = k
    BY <1>0, <1>3, RunsAssumption DEF RegistryTruthful
  <2>2. \A q \in Runs : Attempting(q)' => registry'[Session(q)] = q \/ q \in displaced'
    BY <1>0, <1>3, RunsAssumption DEF RegistryTruthful
  <2>3. ASSUME NEW p \in displaced' PROVE \E q \in Runs : Session(q) = Session(p) /\ Apart(q, p)'
    <3>1. CASE p \in displaced
      BY <3>1 DEF RegistryTruthful, StayApart
    <3>2. CASE p = registry[Session(r)] /\ p # NoRun
      <4>1. Attempting(p) /\ Session(p) = Session(r) /\ p \in Runs /\ p # r
        BY <1>0, <1>3, <3>2 DEF RegistryTruthful
      <4>2. Apart(r, p)
        BY <4>1 DEF OneRunPerSession, Attempting
      <4> QED BY <4>1, <4>2 DEF StayApart
    <3> QED BY <2>3, <3>1, <3>2
  <2>4. \A k \in Sessions : registry'[k] = NoRun =>
          /\ cleanup'[k] # "waiting"
          /\ \A q \in Compactions : Session(q) = k => command'[q] # "waiting"
    BY RunsAssumption DEF RegistryTruthful
  <2> QED BY <2>1, <2>2, <2>3, <2>4 DEF RegistryTruthful
<1>5. TargetIsDoomed'
  BY DEF TargetIsDoomed, Persist
<1>6. AbortedStaysDown'
  <2>1. \A k \in Sessions : target[k] # NoRun => target[k] # r
    BY DEF TargetIsDoomed
  <2> QED BY <1>3, <2>1 DEF AbortedStaysDown
<1> QED BY <1>1, <1>2, <1>4, <1>5, <1>6

\* The timer of a run strikes.
LEMMA TimesOutHandles ==
  ASSUME Handles, Persist, StayApart, NEW r \in Runs, TimesOut(r)
  PROVE  Handles'
<1> USE DEF Handles, RunTypes, TimesOut, Session, Spared
<1>1. RunTypes'
  OBVIOUS
<1>2. FreshUnlessUnderWay'
  BY DEF FreshUnlessUnderWay, Persist, Attempting
<1>3. \A q \in Runs : Attempting(q)' <=> Attempting(q)
  BY DEF Attempting, FreshUnlessUnderWay, Persist
<1>4. RegistryTruthful'
  BY <1>3 DEF RegistryTruthful, StayApart
<1>5. TargetIsDoomed'
  BY DEF TargetIsDoomed, Persist
<1>6. AbortedStaysDown'
  BY <1>3 DEF AbortedStaysDown
<1> QED BY <1>1, <1>2, <1>4, <1>5, <1>6

\* The end of an attempt releases all who wait for its session, if the handle is
\* still its own; a cleanup then learns of the end of the attempt it aborted, or
\* of one that displaced it.
LEMMA AttemptEndsHandles ==
  ASSUME Handles, Persist, StayApart, NEW r \in Runs, AttemptEnds(r)
  PROVE  Handles'
<1> USE DEF Handles, RunTypes, AttemptEnds, Session, Notify
<1>0. Session(r) \in Sessions /\ Attempting(r)
  BY RunsAssumption
<1>1. RunTypes'
  BY <1>0
<1>2. FreshUnlessUnderWay'
  BY <1>0 DEF FreshUnlessUnderWay, Persist, Attempting
<1>3. /\ ~Attempting(r)'
      /\ \A q \in Runs \ {r} : Attempting(q)' <=> Attempting(q)
  BY DEF Attempting, FreshUnlessUnderWay, Persist
<1>4. CASE registry[Session(r)] = r
  <2>1. /\ registry' = [registry EXCEPT ![Session(r)] = NoRun]
        /\ \A q \in Compactions : command'[q] = "waiting" => command[q] = "waiting" /\ Session(q) # Session(r)
        /\ \A k \in Sessions : /\ cleanup'[k] = "waiting" => cleanup[k] = "waiting" /\ k # Session(r)
                               /\ cleanup'[k] # cleanup[k] => k = Session(r) /\ cleanup[k] = "waiting"
                                                              /\ cleanup'[k] = "quiet"
    BY <1>0, <1>4
  <2>2. RegistryTruthful'
    <3>1. \A k \in Sessions : registry'[k] # NoRun => Attempting(registry[k])' /\ Session(registry'[k]) = k
      BY <1>0, <1>3, <2>1, RunsAssumption DEF RegistryTruthful
    <3>2. \A q \in Runs : Attempting(q)' => registry'[Session(q)] = q \/ q \in displaced'
      BY <1>0, <1>3, <1>4, <2>1, RunsAssumption DEF RegistryTruthful
    <3>3. \A p \in displaced' : \E q \in Runs : Session(q) = Session(p) /\ Apart(q, p)'
      BY DEF RegistryTruthful, StayApart
    <3>4. \A k \in Sessions : registry'[k] = NoRun =>
            /\ cleanup'[k] # "waiting"
            /\ \A q \in Compactions : Session(q) = k => command'[q] # "waiting"
      BY <1>0, <2>1 DEF RegistryTruthful
    <3> QED BY <3>1, <3>2, <3>3, <3>4 DEF RegistryTruthful
  <2>3. AbortedStaysDown'
    <3> SUFFICES ASSUME NEW k \in Sessions, cleanup'[k] = "quiet", target[k] # NoRun,
                        Attempting(target[k])'
                 PROVE  target[k] \in displaced'
      BY DEF AbortedStaysDown
    <3>1. /\ target[k] \in Runs /\ target[k] # r /\ Attempting(target[k])
          /\ Session(target[k]) = k
      BY <1>3 DEF TargetIsDoomed
    <3>2. target[k] \in displaced
      <4>1. CASE cleanup[k] = "quiet"
        BY <3>1, <4>1 DEF AbortedStaysDown
      <4>2. CASE cleanup[k] # "quiet"
        BY <1>4, <2>1, <3>1, <4>2 DEF RegistryTruthful
      <4> QED BY <4>1, <4>2
    <3> QED BY <3>1, <3>2
  <2>4. TargetIsDoomed'
    BY <2>1 DEF TargetIsDoomed, Persist
  <2> QED BY <1>1, <1>2, <2>2, <2>3, <2>4
<1>5. CASE registry[Session(r)] # r
  <2>1. UNCHANGED <<registry, command, cleanup, target>>
    BY <1>5
  <2>2. RegistryTruthful'
    <3>1. \A k \in Sessions : registry[k] # r
      BY <1>5, RunsAssumption DEF RegistryTruthful
    <3> QED BY <1>3, <2>1, <3>1, RunsAssumption DEF RegistryTruthful, StayApart
  <2>3. AbortedStaysDown'
    BY <1>3, <2>1 DEF AbortedStaysDown
  <2>4. TargetIsDoomed'
    BY <2>1 DEF TargetIsDoomed, Persist
  <2> QED BY <1>1, <1>2, <2>2, <2>3, <2>4
<1> QED BY <1>4, <1>5

\* An attempt that was only aborted is not followed by another.
LEMMA RetryHandles ==
  ASSUME Handles, Persist, StayApart, NEW r \in Runs, Retry(r)
  PROVE  Handles'
<1> USE DEF Handles, RunTypes, Retry, Session
<1>1. RunTypes'
  OBVIOUS
<1>2. FreshUnlessUnderWay'
  BY DEF FreshUnlessUnderWay, Persist
<1>3. \A q \in Runs : Attempting(q)' <=> Attempting(q)
  BY DEF Attempting, FreshUnlessUnderWay, Persist
<1>4. RegistryTruthful'
  BY <1>3 DEF RegistryTruthful, StayApart
<1>5. TargetIsDoomed'
  BY DEF TargetIsDoomed, Persist
<1>6. AbortedStaysDown'
  BY <1>3 DEF AbortedStaysDown
<1> QED BY <1>1, <1>2, <1>4, <1>5, <1>6

\* A run that finishes is in no attempt, so that no handle of it is left.
LEMMA FinishHandles ==
  ASSUME Handles, StayApart, NEW r \in Runs, Finish(r),
         \A q \in Runs \ {r} : UnderWay(q) => UnderWay(q)'
  PROVE  Handles'
<1> USE DEF Handles, RunTypes, Finish, Session, Spared
<1>1. RunTypes'
  OBVIOUS
<1>2. FreshUnlessUnderWay'
  BY DEF FreshUnlessUnderWay
<1>3. \A q \in Runs : Attempting(q)' <=> Attempting(q)
  BY DEF Attempting, FreshUnlessUnderWay
<1>4. RegistryTruthful'
  BY <1>3 DEF RegistryTruthful, StayApart
<1>5. TargetIsDoomed'
  BY DEF TargetIsDoomed
<1>6. AbortedStaysDown'
  BY <1>3 DEF AbortedStaysDown
<1> QED BY <1>1, <1>2, <1>4, <1>5, <1>6

-----------------------------------------------------------------------------
\* Runs of different lives of the gateway stay apart: what the lanes started
\* keeps its generation.
LEMMA ApartStays ==
  ASSUME P!IInv, WantedRuns, [Next]_vars
  PROVE  StayApart
<1>1. \A r \in Runs : Outer(r) \in Tasks
  BY Entries
<1> QED BY <1>1, EntriesStep DEF StayApart, Apart

\* While r finishes, the other runs stay under way.
LEMMA OthersPersist ==
  ASSUME P!IInv, NEW r \in Runs, Finish(r)
  PROVE  \A q \in Runs \ {r} : UnderWay(q) => UnderWay(q)'
<1>1. \A t \in Tasks \ {Inner(r)} : Undisturbed(t)
  BY Entries, OperationsDisturb DEF Finish
<1>2. \A q \in Runs \ {r} : Inner(q) \in Tasks \ {Inner(r)}
  BY Entries
<1> QED BY <1>1, <1>2 DEF Undisturbed, UnderWay

\* Every step keeps the invariant.
LEMMA RunInvStep ==
  ASSUME P!IInv, P!Serial, WantedRuns, RunInv, [Next]_vars
  PROVE  RunInv'
<1>1. Nested' /\ OneRunPerSession
  BY NestedStep, Alone DEF RunInv
<1>2. Handles /\ StayApart
  BY ApartStays DEF RunInv, Handles
<1>3. ASSUME NEW r \in Runs, Finish(r)
      PROVE  Handles'
  BY <1>2, <1>3, OthersPersist, FinishHandles
<1>4. ASSUME ~\E r \in Runs : Finish(r)
      PROVE  Handles'
  <2>1. Persist
    BY <1>4, RunSteps DEF RunStep, Persist
  <2>2. CASE UNCHANGED runVars
    BY <1>2, <2>1, <2>2, SameHandles
  <2>3. ASSUME NEW r \in Runs, Request(r) PROVE Handles'
    BY <1>2, <2>1, <2>2, <2>3, CompactWaitsHandles, CommandHandles DEF Request, Ask
  <2>4. ASSUME NEW r \in Runs, Progress(r) \/ TimesOut(r) PROVE Handles'
    BY <1>2, <1>4, <2>1, <2>2, <2>4, RegisterHandles, AttemptEndsHandles, RetryHandles,
       TimesOutHandles, <1>1 DEF Progress, Nest, Return
  <2>5. ASSUME NEW s \in Sessions, Interrupt(s) \/ Cleanup(s) \/ CleanupTimesOut(s)
        PROVE  Handles'
    <3>1. CASE Interrupt(s)
      BY <1>2, <2>1, <3>1, AbortHandles DEF Interrupt
    <3> QED BY <1>2, <2>1, <2>5, <3>1, CleanupHandles, CleanupTimesOutHandles
  <2>6. CASE Drain \/ Reset
    BY <2>2, <2>6 DEF Drain, Reset
  <2>7. CASE UNCHANGED vars
    BY <2>2, <2>7 DEF vars
  <2> QED BY <2>3, <2>4, <2>5, <2>6, <2>7 DEF Next, WantedRuns
<1> QED BY <1>1, <1>3, <1>4 DEF RunInv, Handles

\* In Init no entry has been enqueued and no handle is registered.
LEMMA RunInvInit == Init => RunInv
<1> SUFFICES ASSUME Init PROVE RunInv
  OBVIOUS
<1>1. \A r \in Runs : phase[Inner(r)] = "idle"
  BY Entries DEF Init, Q!Init
<1> USE DEF Init
<1>2. RunTypes
  BY RunsAssumption DEF RunTypes
<1>3. Nested /\ FreshUnlessUnderWay
  BY <1>1 DEF Nested, FreshUnlessUnderWay, UnderWay
<1>4. RegistryTruthful
  BY <1>1 DEF RegistryTruthful, Attempting, UnderWay
<1>5. TargetIsDoomed /\ AbortedStaysDown
  BY DEF TargetIsDoomed, AbortedStaysDown
<1> QED BY <1>2, <1>3, <1>4, <1>5 DEF RunInv

\* The invariant of the runs, for any runs, sessions, limits and restarts.
THEOREM RunInvariant == Spec => []RunInv
<1>1. P!IInv /\ P!Serial /\ WantedRuns /\ RunInv /\ [Next]_vars => RunInv'
  BY RunInvStep
<1> QED BY <1>1, RunInvInit, LanesHold, PTL DEF Spec

\* docs/concepts/queue.md: "only one agent run touches a given session at a
\* time", in one life of the gateway: two runs under way in a session were
\* started by different generations of its lane.
THEOREM OneRunInASession == Spec => []OneRunPerSession
<1>1. P!Serial /\ RunInv => OneRunPerSession
  BY Alone DEF RunInv
<1> QED BY <1>1, RunInvariant, LanesHold, PTL

\* The registry of runs.ts tells the truth to those who abort a run or wait for
\* its end, whatever is aborted, displaced, reset or retried.
THEOREM RegistryIsTruthful == Spec => []RegistryTruthful
BY RunInvariant, PTL DEF RunInv

\* The run a reset or deletion aborted is not found running again in a session
\* reported as quiet, unless its handle was displaced or its timer struck.
THEOREM AbortedRunsStayDown == Spec => []AbortedStaysDown
BY RunInvariant, PTL DEF RunInv

=============================================================================
