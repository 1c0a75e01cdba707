---------------------------- MODULE HeartbeatWake ----------------------------
(***************************************************************************)
(* The wake queue of the heartbeats: src/infra/heartbeat-wake.  Callers    *)
(* ask for a heartbeat of a target; requests of one target are coalesced   *)
(* and a timer hands the batch to the registered handler.  The module's    *)
(* variables are the fields of one record, so that the operations compose: *)
(* a segment of code that calls two of them applies two operators.         *)
(*                                                                         *)
(* A reason is represented by its priority: interval, default or action    *)
(* (no caller passes the reason "retry").  A handler is represented by the *)
(* number of the runner that registered it, 0 for none.                    *)
(***************************************************************************)
EXTENDS Integers, Sequences, Functions

CONSTANTS
  Targets,    \* wake targets: agentId and sessionKey of a request
  Coalesce,   \* DEFAULT_COALESCE_MS, in ticks
  Retry       \* DEFAULT_RETRY_MS, in ticks

ASSUME WakeAssumption == Coalesce \in Nat /\ Retry \in Nat

IntervalReason == 1
DefaultReason == 2
ActionReason == 3
Priorities == {IntervalReason, DefaultReason, ActionReason}

NoTimer == [left |-> 0, kind |-> "none", delay |-> 0]

\* The wakes of the map pendingWakes, in insertion order.
Wakes == [target : Targets, priority : Priorities]

Idle == [handler |-> 0, pending |-> <<>>, scheduled |-> FALSE,
         running |-> FALSE, timer |-> NoTimer]

PendingOf(w, t) == {i \in DOMAIN w.pending : w.pending[i].target = t}

\* queuePendingWakeReason: a request of a higher priority replaces the pending
\* one in place; so does a later one of the same priority, which is the same
\* value here.
Queue(w, t, p) ==
  IF PendingOf(w, t) = {}
  THEN [w EXCEPT !.pending = Append(@, [target |-> t, priority |-> p])]
  ELSE [w EXCEPT !.pending[CHOOSE i \in PendingOf(w, t) : TRUE].priority =
                    IF p >= @ THEN p ELSE @]

\* schedule(): a retry timer is never preempted, nor one that is due sooner.
Schedule(w, delay, kind) ==
  IF w.timer # NoTimer /\ (w.timer.kind = "retry" \/ w.timer.left <= delay)
  THEN w
  ELSE [w EXCEPT !.timer = [left |-> delay, kind |-> kind, delay |-> delay]]

\* requestHeartbeatNow.
RequestHeartbeatNow(w, t, p, coalesce) ==
  Schedule(Queue(w, t, p), coalesce, "normal")

\* Mutant: a new handler waits for the next request.
SetHandlerWaits(w, g) ==
  [w EXCEPT !.handler = g, !.timer = NoTimer, !.running = FALSE, !.scheduled = FALSE]

\* setHeartbeatWakeHandler(next) for a new handler: timer and flags start anew.
SetHandler(w, g) ==
  LET reset == [w EXCEPT !.handler = g, !.timer = NoTimer, !.running = FALSE,
                         !.scheduled = FALSE]
  IN  IF w.pending = <<>> THEN reset ELSE Schedule(reset, Coalesce, "normal")

\* The disposer of handler g: nothing once another handler is registered.
Dispose(w, g) == IF w.handler = g THEN [w EXCEPT !.handler = 0] ELSE w

\* The timer callback up to its first call of the handler: it consumes the
\* timer, and takes the batch unless there is no handler or a batch is running.
TakesBatch(w) == w.handler # 0 /\ ~w.running
Fire(w) ==
  LET fired == [w EXCEPT !.timer = NoTimer, !.scheduled = FALSE]
  IN  IF w.handler = 0 THEN fired
      ELSE IF w.running
           THEN Schedule([fired EXCEPT !.scheduled = TRUE], w.timer.delay, w.timer.kind)
           ELSE [fired EXCEPT !.pending = <<>>, !.running = TRUE]

\* The handler answered "requests-in-flight": the wake is queued again.
Requeue(w, t, p) == Schedule(Queue(w, t, p), Retry, "retry")

\* The finally block of a batch started by a timer of that delay.
FinishBatch(w, delay) ==
  LET idle == [w EXCEPT !.running = FALSE]
  IN  IF w.pending # <<>> \/ w.scheduled THEN Schedule(idle, delay, "normal") ELSE idle

\* One tick of the clock.
Elapse(w) ==
  IF w.timer # NoTimer /\ w.timer.left > 0 THEN [w EXCEPT !.timer.left = @ - 1] ELSE w

WakeType(w, handlers, maxDelay) ==
  /\ w.handler \in handlers \cup {0}
  /\ w.pending \in Seq(Wakes)
  /\ IsInjective([i \in DOMAIN w.pending |-> w.pending[i].target])
  /\ w.scheduled \in BOOLEAN
  /\ w.running \in BOOLEAN
  /\ w.timer \in [left : 0..maxDelay, kind : {"none", "normal", "retry"},
                  delay : 0..maxDelay]
===============================================================================
