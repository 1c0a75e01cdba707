--------------------------- MODULE FollowupQueue ----------------------------
(***************************************************************************)
(* The followup queue of one session: src/auto-reply/reply/queue/*.ts and  *)
(* src/utils/queue-helpers.ts, with the runs around it (get-reply-run.ts,  *)
(* agent-runner.ts).  A message that arrives during a run waits here; the  *)
(* end of the run starts a drain, which runs what waits as further turns.  *)
(*                                                                         *)
(* FOLLOWUP_QUEUES maps the session's key to a queue object.  A drain      *)
(* holds on to the object it began with, so a clear may leave it working   *)
(* on an object the map no longer has: objects are numbered, and current   *)
(* is the one in the map (0 if none).                                      *)
(***************************************************************************)
EXTENDS Integers, Sequences, FiniteSets

CONSTANTS
  Msgs,         \* inbound messages of the session
  MessageId,    \* their provider message ids
  NoId,         \* ... for a message that has none
  Route,        \* their originating channel, target, account and thread
  NoRoute,      \* ... for a message without any
  CrossRoutes,  \* routes that cannot be replied to directly
  Settings,     \* resolved queue settings: [mode, cap, drop]
  Objects,      \* numbers of queue objects (bound)
  MayClear,     \* whether the session's queues are ever cleared
  RepliesThrow  \* whether runReplyAgent may throw once its run is over

ASSUME FollowupAssumption ==
  /\ Objects \subseteq Nat \ {0}
  /\ Settings # {}
  /\ \A s \in Settings : /\ s.mode \in {"followup", "collect", "steer", "steer-backlog"}
                         /\ s.cap \in Nat \ {0}
                         /\ s.drop \in {"old", "new", "summarize"}
  /\ {MayClear, RepliesThrow} \subseteq BOOLEAN

VARIABLES
  current,   \* FOLLOWUP_QUEUES.get(key)
  obj,       \* queue objects with the drain working on each
  inbound,   \* what became of each message before the queue
  accepted,  \* messages pushed on a queue (history)
  ran,       \* messages whose prompt some turn carried (history)
  told,      \* messages a delivered summary listed (history)
  dropped,   \* messages the drop policy gave up for good (history)
  cleared,   \* messages a clear removed (history)
  failed,    \* messages of turns that threw and were not repeated yet (history)
  arrivals   \* messages in the order they were pushed (history)

vars == <<current, obj, inbound, accepted, ran, told, dropped, cleared, failed, arrivals>>
history == <<accepted, ran, told, dropped, cleared, failed, arrivals>>

\* A queue object and its drain.  draining <=> pc # "none".  batch, lines0 and
\* summary0 are what the drain captured before it awaited the turn.
Fresh(s) ==
  [items |-> <<>>, droppedCount |-> 0, summaryLines |-> <<>>, settings |-> s,
   lastRun |-> FALSE, pc |-> "none", kind |-> "none", batch |-> <<>>,
   lines0 |-> <<>>, summary0 |-> FALSE, force |-> FALSE]

Elements(seq) == {seq[i] : i \in 1..Len(seq)}
Without(seq, n) == SubSeq(seq, n + 1, Len(seq))   \* splice(0, n)

Pending(o) == o.items # <<>> \/ o.droppedCount > 0

\* previewQueueSummaryPrompt returns a prompt.
HasSummary(o) == o.settings.drop = "summarize" /\ o.droppedCount > 0

-----------------------------------------------------------------------------
\* Mutant: messages without any route are not told apart from the others.
CrossChannelIgnoringUnkeyed(items) ==
  LET routes == {Route[m] : m \in Elements(items)}
  IN  \/ routes \cap CrossRoutes # {}
      \/ Cardinality(routes \ {NoRoute}) > 1

\* hasCrossChannelItems(items, resolveCrossChannelKey)
CrossChannel(items) ==
  LET routes == {Route[m] : m \in Elements(items)}
  IN  \/ routes \cap CrossRoutes # {}
      \/ Cardinality(routes \ {NoRoute}) > 1
      \/ NoRoute \in routes /\ routes # {NoRoute}

\* isRunAlreadyQueued, by message id
AlreadyQueued(m, items) ==
  /\ MessageId[m] # NoId
  /\ \E k \in Elements(items) : MessageId[k] = MessageId[m] /\ Route[k] = Route[m]

\* A drain goes on to its next turn: a debounce first, nothing captured ...
Paused(o) == [o EXCEPT !.pc = "debounce", !.kind = "none", !.batch = <<>>,
                       !.lines0 = <<>>, !.summary0 = FALSE]

\* ... or it is over: draining = false.
Idle(o) == [o EXCEPT !.pc = "none", !.kind = "none", !.batch = <<>>,
                     !.lines0 = <<>>, !.summary0 = FALSE, !.force = FALSE]

\* scheduleFollowupDrain when the map holds object c: begin unless a drain works
\* on it, up to the first debounce.
Schedule(os, c) ==
  IF c = 0 \/ os[c].pc # "none"
  THEN obj' = os /\ current' = c
  ELSE IF Pending(os[c])
       THEN obj' = [os EXCEPT ![c].pc = "debounce"] /\ current' = c
       ELSE obj' = os /\ current' = 0

\* Mutant: what remains is left for a later message.
EndDrainNoReschedule(os, q, c) ==
  /\ obj' = [os EXCEPT ![q] = Idle(@)]
  /\ current' = IF Pending(os[q]) THEN c ELSE 0

\* The finally block of the drain of object q: the key is deleted, whatever the
\* map holds for it now, or what remains is scheduled again.
EndDrain(os, q, c) ==
  LET ended == [os EXCEPT ![q] = Idle(@)]
  IN  IF Pending(os[q]) THEN Schedule(ended, c)
      ELSE obj' = ended /\ current' = 0

\* The head of the drain's loop, for the object as a turn left it.
LoopHead(os, q, c) ==
  IF Pending(os[q])
  THEN obj' = [os EXCEPT ![q] = Paused(@)] /\ current' = c
  ELSE EndDrain(os, q, c)

-----------------------------------------------------------------------------
Init ==
  /\ current = 0
  /\ obj = [q \in Objects |-> Fresh(CHOOSE s \in Settings : TRUE)]
  /\ inbound = [m \in Msgs |-> "new"]
  /\ accepted = {} /\ ran = {} /\ told = {} /\ dropped = {} /\ cleared = {}
  /\ failed = {} /\ arrivals = <<>>

\* A message arrives and isEmbeddedPiRunActive is read: true is possible only
\* while a run or a followup turn is under way, false always (a run is
\* registered only once it has left its lanes).  Then
\* resolveSessionAuthProfileOverride is awaited with the answer in hand.
ArriveActive(m) ==
  /\ inbound[m] = "new"
  /\ \/ \E k \in Msgs : inbound[k] = "running"
     \/ \E q \in Objects : obj[q].pc = "running"
  /\ inbound' = [inbound EXCEPT ![m] = "checked"]
  /\ UNCHANGED <<current, obj, history>>

\* No run is active: the message runs at once.
ArriveIdle(m) ==
  /\ inbound[m] = "new"
  /\ inbound' = [inbound EXCEPT ![m] = "running"]
  /\ ran' = ran \cup {m}
  /\ UNCHANGED <<current, obj, accepted, told, dropped, cleared, failed, arrivals>>

\* The run of an inbound message ends: clearActiveEmbeddedRun.
RunEnds(m) ==
  /\ inbound[m] = "running"
  /\ inbound' = [inbound EXCEPT ![m] = "finishing"]
  /\ UNCHANGED <<current, obj, history>>

\* finalizeWithFollowup, at the end of runReplyAgent.
Finalize(m) ==
  /\ inbound[m] = "finishing"
  /\ inbound' = [inbound EXCEPT ![m] = "done"]
  /\ Schedule(obj, current)
  /\ UNCHANGED history

\* runReplyAgent throws after the run: nothing is scheduled.
ReplyThrows(m) ==
  /\ RepliesThrow
  /\ inbound[m] = "finishing"
  /\ inbound' = [inbound EXCEPT ![m] = "done"]
  /\ UNCHANGED <<current, obj, history>>

-----------------------------------------------------------------------------
\* The object enqueueFollowupRun works on: the one in the map or a new one,
\* with the message's settings applied.
Target(s) ==
  IF current # 0 THEN [obj[current] EXCEPT !.settings = s] ELSE Fresh(s)

FreeObjects == {q \in Objects : q # current /\ obj[q].pc = "none"}

Slot == IF current # 0 THEN {current}
        ELSE {q \in FreeObjects : \A k \in FreeObjects : q <= k}

\* enqueueFollowupRun: the same message is already queued.
EnqueueDuplicate(m, s) ==
  /\ inbound[m] = "checked"
  /\ AlreadyQueued(m, Target(s).items)
  /\ inbound' = [inbound EXCEPT ![m] = "skipped"]
  /\ \E q \in Slot : obj' = [obj EXCEPT ![q] = Target(s)] /\ current' = q
  /\ UNCHANGED history

\* enqueueFollowupRun: the queue is full and the policy keeps the old messages.
EnqueueRefused(m, s) ==
  /\ inbound[m] = "checked"
  /\ ~AlreadyQueued(m, Target(s).items)
  /\ Len(Target(s).items) >= s.cap /\ s.drop = "new"
  /\ inbound' = [inbound EXCEPT ![m] = "refused"]
  /\ \E q \in Slot : /\ obj' = [obj EXCEPT ![q] = [Target(s) EXCEPT !.lastRun = TRUE]]
                     /\ current' = q
  /\ UNCHANGED history

\* applyQueueDropPolicy made room for one message: o without its n oldest
\* items, which "summarize" counts and lists, up to cap lines.
MadeRoom(o, n) ==
  LET gone == SubSeq(o.items, 1, n)
      lines == o.summaryLines \o gone
      kept == Without(lines, IF Len(lines) > o.settings.cap
                             THEN Len(lines) - o.settings.cap ELSE 0)
  IN  IF o.settings.drop = "summarize"
      THEN [o EXCEPT !.items = Without(@, n), !.droppedCount = @ + n,
                     !.summaryLines = kept]
      ELSE [o EXCEPT !.items = Without(@, n)]

\* enqueueFollowupRun otherwise: make room if the queue is full, then push.
Enqueue(m, s) ==
  /\ inbound[m] = "checked"
  /\ LET o == [Target(s) EXCEPT !.lastRun = TRUE]
         full == Len(o.items) >= s.cap
         roomy == IF full THEN MadeRoom(o, Len(o.items) - s.cap + 1) ELSE o
     IN  /\ ~AlreadyQueued(m, o.items)
         /\ ~(full /\ s.drop = "new")
         /\ \E q \in Slot :
              /\ obj' = [obj EXCEPT ![q] = [roomy EXCEPT !.items = Append(@, m)]]
              /\ current' = q
         /\ dropped' = dropped \cup ((Elements(o.items) \cup Elements(o.summaryLines))
                         \ (Elements(roomy.items) \cup Elements(roomy.summaryLines)))
  /\ inbound' = [inbound EXCEPT ![m] = "queued"]
  /\ accepted' = accepted \cup {m}
  /\ arrivals' = Append(arrivals, m)
  /\ UNCHANGED <<ran, told, cleared, failed>>

\* clearFollowupQueue: the object is emptied and taken out of the map; a drain
\* at work on it goes on.
Clear ==
  /\ MayClear /\ current # 0
  /\ cleared' = cleared \cup Elements(obj[current].items)
                        \cup Elements(obj[current].summaryLines)
  /\ obj' = [obj EXCEPT ![current] =
               [@ EXCEPT !.items = <<>>, !.droppedCount = 0, !.summaryLines = <<>>,
                         !.lastRun = FALSE]]
  /\ current' = 0
  /\ UNCHANGED <<inbound, accepted, ran, told, dropped, failed, arrivals>>

-----------------------------------------------------------------------------
\* The drain awaits a turn that carries the prompts of batch, or a summary.
StartTurn(q, kind, batch, force) ==
  LET o == obj[q]
      summary == HasSummary(o) /\ kind # "item"
  IN  /\ obj' = [obj EXCEPT ![q] =
                   [o EXCEPT !.pc = "running", !.kind = kind, !.batch = batch,
                             !.lines0 = IF summary THEN o.summaryLines ELSE <<>>,
                             !.summary0 = summary, !.force = force]]
      /\ ran' = IF kind = "summary" THEN ran ELSE ran \cup Elements(batch)
      /\ UNCHANGED <<current, inbound, accepted, told, dropped, cleared, failed, arrivals>>

Break(q) == EndDrain(obj, q, current) /\ UNCHANGED <<inbound, history>>

\* After the debounce, mode collect, with items of different channels (seen now
\* or earlier in this drain): one item is run by itself.
CollectOne(q) ==
  LET o == obj[q]
      force == o.force \/ CrossChannel(o.items)
  IN  /\ o.pc = "debounce" /\ o.settings.mode = "collect" /\ force
      /\ IF o.items = <<>> THEN Break(q)
         ELSE StartTurn(q, "item", <<Head(o.items)>>, force)

\* Mode collect otherwise: everything that waits in one turn, with the summary.
CollectAll(q) ==
  LET o == obj[q]
  IN  /\ o.pc = "debounce" /\ o.settings.mode = "collect"
      /\ ~o.force /\ ~CrossChannel(o.items)
      /\ IF o.items = <<>> /\ ~o.lastRun THEN Break(q)
         ELSE StartTurn(q, "collect", o.items, FALSE)

\* Other modes, with dropped messages to report: the summary goes out in the
\* place of the oldest item.
RunSummary(q) ==
  LET o == obj[q]
  IN  /\ o.pc = "debounce" /\ o.settings.mode # "collect" /\ HasSummary(o)
      /\ IF ~o.lastRun \/ o.items = <<>> THEN Break(q)
         ELSE StartTurn(q, "summary", <<Head(o.items)>>, o.force)

\* Other modes otherwise: the oldest item.
RunNext(q) ==
  LET o == obj[q]
  IN  /\ o.pc = "debounce" /\ o.settings.mode # "collect" /\ ~HasSummary(o)
      /\ IF o.items = <<>> THEN Break(q)
         ELSE StartTurn(q, "item", <<Head(o.items)>>, o.force)

\* Mutant: a collected batch is not removed from the queue.
TurnDoneKeepsBatch(q) ==
  /\ obj[q].pc = "running"
  /\ LET o == obj[q]
         left == [o EXCEPT !.items = IF o.kind = "collect" THEN @ ELSE Without(@, 1)]
     IN  LoopHead([obj EXCEPT ![q] = left], q, current)
  /\ told' = told \cup Elements(obj[q].lines0)
  /\ failed' = failed \ Elements(obj[q].batch)
  /\ UNCHANGED <<inbound, accepted, ran, dropped, cleared, arrivals>>

\* Mutant: after a turn the queue is emptied, not only of what the turn carried.
TurnDoneEmpties(q) ==
  /\ obj[q].pc = "running"
  /\ LET left == [obj[q] EXCEPT !.items = <<>>, !.droppedCount = 0,
                                !.summaryLines = <<>>]
     IN  LoopHead([obj EXCEPT ![q] = left], q, current)
  /\ told' = told \cup Elements(obj[q].lines0)
  /\ failed' = failed \ Elements(obj[q].batch)
  /\ UNCHANGED <<inbound, accepted, ran, dropped, cleared, arrivals>>

\* The turn returned: as many items as it carried leave the front of the queue,
\* whatever is there now, and a summary it carried is cleared.
TurnDone(q) ==
  /\ obj[q].pc = "running"
  /\ LET o == obj[q]
         n == IF o.kind = "collect" THEN Len(o.batch) ELSE 1
         left == [o EXCEPT !.items = Without(@, IF n < Len(@) THEN n ELSE Len(@)),
                           !.droppedCount = IF o.summary0 THEN 0 ELSE @,
                           !.summaryLines = IF o.summary0 THEN <<>> ELSE @]
     IN  LoopHead([obj EXCEPT ![q] = left], q, current)
  /\ told' = told \cup Elements(obj[q].lines0)
  /\ failed' = failed \ Elements(obj[q].batch)
  /\ UNCHANGED <<inbound, accepted, ran, dropped, cleared, arrivals>>

\* The turn threw: nothing is removed, the drain ends and is scheduled again.
TurnThrows(q) ==
  /\ obj[q].pc = "running"
  /\ EndDrain(obj, q, current)
  /\ failed' = failed \cup Elements(obj[q].batch)
  /\ UNCHANGED <<inbound, accepted, ran, told, dropped, cleared, arrivals>>

Proceed(q) == CollectOne(q) \/ CollectAll(q) \/ RunSummary(q) \/ RunNext(q)

Next ==
  \/ \E m \in Msgs :
       \/ ArriveActive(m) \/ ArriveIdle(m)
       \/ RunEnds(m) \/ Finalize(m) \/ ReplyThrows(m)
       \/ \E s \in Settings : EnqueueDuplicate(m, s) \/ EnqueueRefused(m, s) \/ Enqueue(m, s)
  \/ Clear
  \/ \E q \in Objects : Proceed(q) \/ TurnDone(q) \/ TurnThrows(q)

Spec == Init /\ [][Next]_vars

\* Timers fire and turns return; a turn that is tried again and again is not
\* always interrupted by an exception.
DrainProgress ==
  \A q \in Objects : /\ WF_vars(Proceed(q))
                     /\ WF_vars(TurnDone(q) \/ TurnThrows(q))
                     /\ SF_vars(TurnDone(q))
\* The code paths around the queue go on too.
RunProgress ==
  \A m \in Msgs : /\ WF_vars(RunEnds(m))
                  /\ WF_vars(Finalize(m))
                  /\ WF_vars(\E s \in Settings : EnqueueDuplicate(m, s)
                                                 \/ EnqueueRefused(m, s) \/ Enqueue(m, s))
FairSpec == Spec /\ DrainProgress /\ RunProgress

-----------------------------------------------------------------------------
TypeOK ==
  /\ current \in Objects \cup {0}
  /\ \A q \in Objects :
       /\ Elements(obj[q].items) \cup Elements(obj[q].summaryLines)
            \cup Elements(obj[q].batch) \subseteq accepted
       /\ obj[q].droppedCount \in 0..Cardinality(accepted)
       /\ obj[q].settings \in Settings
       /\ obj[q].pc \in {"none", "debounce", "running"}
       /\ obj[q].kind \in {"none", "item", "collect", "summary"}
       /\ (obj[q].pc = "running") <=> (obj[q].kind # "none")
  /\ inbound \in [Msgs -> {"new", "checked", "running", "finishing", "done",
                           "queued", "skipped", "refused"}]
  /\ UNION {told, dropped, cleared, failed} \subseteq accepted

\* Where an accepted message may still be found.
Held(m) == \E q \in Objects :
             /\ q = current \/ obj[q].pc # "none"
             /\ m \in Elements(obj[q].items) \cup Elements(obj[q].summaryLines)

Settled == ran \cup told \cup dropped \cup cleared

\* Nothing has been dropped or cleared so far: messages were only ever refused.
NothingDropped ==
  /\ dropped \cup told \cup cleared = {}
  /\ \A q \in Objects : obj[q].droppedCount = 0

\* docs/concepts/queue.md: "followup: enqueue for the next agent turn after the
\* current run ends."  Until a full queue first gives up a message, or the session
\* is cleared, a message leaves the queue only by being run.
NothingLost == NothingDropped => \A m \in accepted : m \in Settled \/ Held(m)

\* A turn never mixes messages of different origins, so its reply goes where
\* every message in it came from.  (And every variable keeps its type.)
NoMixedTurn ==
  TypeOK /\ \A q \in Objects :
    obj[q].kind = "collect" =>
      \A i, j \in 1..Len(obj[q].batch) : Route[obj[q].batch[i]] = Route[obj[q].batch[j]]

\* What begins a turn leaves nothing older waiting behind it in the same queue.
OldestFirst(q) ==
  \A i, j \in 1..Len(arrivals) :
    (i < j /\ arrivals[j] \in Elements(obj'[q].batch) /\ arrivals[i] \in Elements(obj[q].items))
      => arrivals[i] \in Elements(obj'[q].batch)

\* Messages run in the order they were queued, and one runs twice only if the
\* first turn threw.
RunsOnceInOrder ==
  [][\A q \in Objects :
       (obj'[q].kind \in {"item", "collect"} /\ obj[q].kind = "none") =>
         /\ OldestFirst(q)
         /\ \A m \in Elements(obj'[q].batch) : m \in ran => m \in failed]_vars

\* Once a drain is at work on the queue, everything in it is settled, unless the
\* drop policy or a clear takes a hand in it.
DrainSettles ==
  \A m \in Msgs :
    (current # 0 /\ obj[current].pc # "none" /\ m \in Elements(obj[current].items))
      ~> (m \in Settled \/ ~NothingDropped)

=============================================================================
