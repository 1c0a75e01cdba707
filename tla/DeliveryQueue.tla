---------------------------- MODULE DeliveryQueue ----------------------------
(***************************************************************************)
(* The write-ahead queue of outbound messages (src/infra/outbound/         *)
(* delivery-queue.ts) and its two users: deliverOutboundPayloads           *)
(* (deliver.ts), which keeps a file per message while it is being sent,    *)
(* and the recovery each gateway start runs over the files it finds        *)
(* (src/gateway/server.impl.ts).                                           *)
(*                                                                         *)
(* Every await is a step, so deliveries, recoveries and process crashes    *)
(* interleave.  An in-process restart starts another recovery while the    *)
(* deliveries, and the recovery, of the start before may still be going.   *)
(***************************************************************************)
EXTENDS Integers, Sequences

CONSTANTS
  Deliveries,    \* calls of deliverOutboundPayloads
  BestEffort,    \* ... that may have bestEffort: errors of single payloads do not throw
  Watched,       \* ... with an onError callback
  Abortable,     \* ... with an abortSignal
  SelfAborting,  \* ... on a channel whose client aborts its own request in time
  Recoveries,    \* recoveries that may be at work at once (bound)
  MaxRetries,    \* MAX_RETRIES
  MayCrash,      \* whether the process may die
  DiskFails      \* whether operations on the queue directory may fail

ASSUME DeliveryAssumption ==
  /\ UNION {BestEffort, Watched, Abortable, SelfAborting} \subseteq Deliveries
  /\ Recoveries # {} /\ MaxRetries \in Nat \ {0}
  /\ {MayCrash, DiskFails} \subseteq BOOLEAN

VARIABLES
  disk,       \* retryCount in <id>.json, Absent without such a file
  failedDir,  \* ids with a file in failed/
  live,       \* each call: where it is, the count it read, whether it is queued
              \* and whether it has bestEffort, which its file keeps
  rec,        \* each recovery: where it is, the entries it has yet to do
  arrivals,   \* calls in the order of their enqueuedAt
  complete,   \* messages some attempt sent in full (history)
  given,      \* messages given up on what looked like the caller's abort (history)
  swallowed,  \* messages of which payloads failed and nobody was told (history)
  failures    \* failed attempts of each message, all MaxRetries of them once an
              \* attempt failed for good (history)

vars == <<disk, failedDir, live, rec, arrivals, complete, given, swallowed, failures>>

Absent == -1
OnDisk == {d \in Deliveries : disk[d] # Absent}

\* A recovery at rest; tried: it has awaited a delivery or a move.
Resting == [pc |-> "idle", seen |-> 0, todo |-> <<>>, tried |-> FALSE]
OnlyRecovery(r) ==
  [q \in Recoveries |-> IF q = r THEN [Resting EXCEPT !.pc = "loading"] ELSE Resting]

Init ==
  /\ disk = [d \in Deliveries |-> Absent]
  /\ failedDir = {}
  /\ \E B \in SUBSET BestEffort :
       live = [d \in Deliveries |->
                 [pc |-> "new", seen |-> 0, queued |-> FALSE, bestEffort |-> d \in B]]
  /\ \E r \in Recoveries : rec = OnlyRecovery(r)
  /\ arrivals = <<>>
  /\ complete = {} /\ given = {} /\ swallowed = {}
  /\ failures = [d \in Deliveries |-> 0]

-----------------------------------------------------------------------------
(* Operations on the queue directory; each is one file system call.         *)

\* ackDelivery: a file that is gone already is no error.
AckDelivery(d) == disk' = [disk EXCEPT ![d] = Absent]

\* failDelivery, second half: the count it read plus one replaces the file, or
\* makes it anew if it is gone by now.
WriteFailure(d, seen) == disk' = [disk EXCEPT ![d] = seen + 1]

\* moveToFailed
MoveToFailed(d) ==
  IF disk[d] = Absent THEN UNCHANGED <<disk, failedDir>>
  ELSE disk' = [disk EXCEPT ![d] = Absent] /\ failedDir' = failedDir \cup {d}

EnqueuedBefore(d, e) ==
  \E i, j \in 1..Len(arrivals) : i < j /\ arrivals[i] = d /\ arrivals[j] = e

\* loadPendingDeliveries: the one sequence of all entries that is sorted by
\* enqueuedAt, with the counts as they are.
\* (The directory is read at one instant; the code reads it file by file.)
Pending ==
  LET sorted == {ids \in UNION {[1..n -> OnDisk] : n \in 0..Len(arrivals)} :
                   /\ OnDisk \subseteq {ids[i] : i \in DOMAIN ids}
                   /\ \A i, j \in DOMAIN ids : i < j => EnqueuedBefore(ids[i], ids[j])}
  IN  {[i \in DOMAIN ids |-> [id |-> ids[i], retryCount |-> disk[ids[i]]]] : ids \in sorted}

-----------------------------------------------------------------------------
(* deliverOutboundPayloads, without skipQueue.                              *)

Goto(d, pc) == live' = [live EXCEPT ![d].pc = pc]

\* The entry's enqueuedAt is fixed; the file is being written.
Begin(d) ==
  /\ live[d].pc = "new"
  /\ Goto(d, "writing")
  /\ arrivals' = Append(arrivals, d)
  /\ UNCHANGED <<disk, failedDir, rec, complete, given, swallowed, failures>>

\* Mutant: the message is sent before its file is in place.
PersistLater(d) ==
  /\ live[d].pc = "writing"
  /\ live' = [live EXCEPT ![d].pc = "sending", ![d].queued = TRUE]
  /\ UNCHANGED <<disk, failedDir, rec, arrivals, complete, given, swallowed, failures>>

\* enqueueDelivery renames the file into place.
Persist(d) ==
  /\ live[d].pc = "writing"
  /\ live' = [live EXCEPT ![d].pc = "sending", ![d].queued = TRUE]
  /\ disk' = [disk EXCEPT ![d] = 0]
  /\ UNCHANGED <<failedDir, rec, arrivals, complete, given, swallowed, failures>>

\* enqueueDelivery throws: the message is sent without a file.
PersistFails(d) ==
  /\ DiskFails /\ live[d].pc = "writing"
  /\ Goto(d, "sending")
  /\ UNCHANGED <<disk, failedDir, rec, arrivals, complete, given, swallowed, failures>>

CountFailure(d) ==
  failures' = [failures EXCEPT ![d] = IF @ < MaxRetries THEN @ + 1 ELSE @]

\* Only a message with a file has its outcome recorded.
After(d, pc) == Goto(d, IF live[d].queued THEN pc ELSE "done")

\* Every payload is sent.
SentAll(d) ==
  /\ live[d].pc = "sending"
  /\ After(d, "acking")
  /\ complete' = complete \cup {d}
  /\ UNCHANGED <<disk, failedDir, rec, arrivals, given, swallowed, failures>>

\* Some payload is not, and bestEffort goes on; only an onError tells.
SentPart(d) ==
  /\ live[d].pc = "sending" /\ live[d].bestEffort
  /\ After(d, IF d \in Watched THEN "failing" ELSE "acking")
  /\ CountFailure(d)
  /\ swallowed' = IF d \in Watched THEN swallowed ELSE swallowed \cup {d}
  /\ UNCHANGED <<disk, failedDir, rec, arrivals, complete, given>>

\* The attempt throws.
SendThrows(d) ==
  /\ live[d].pc = "sending"
  /\ After(d, "failing")
  /\ CountFailure(d)
  /\ UNCHANGED <<disk, failedDir, rec, arrivals, complete, given, swallowed>>

\* The attempt throws an AbortError because the caller has aborted it.
SendAborted(d) ==
  /\ live[d].pc = "sending" /\ d \in Abortable
  /\ After(d, "acking")
  /\ given' = given \cup {d}
  /\ UNCHANGED <<disk, failedDir, rec, arrivals, complete, swallowed, failures>>

\* The attempt throws an AbortError because the channel's client has timed out
\* (fetchWithTimeout).
SendTimesOut(d) ==
  /\ live[d].pc = "sending" /\ d \in SelfAborting /\ ~live[d].bestEffort
  /\ After(d, "acking")
  /\ given' = given \cup {d}
  /\ UNCHANGED <<disk, failedDir, rec, arrivals, complete, swallowed, failures>>

LiveAck(d) ==
  /\ live[d].pc = "acking"
  /\ Goto(d, "done")
  /\ AckDelivery(d)
  /\ UNCHANGED <<failedDir, rec, arrivals, complete, given, swallowed, failures>>

\* failDelivery, first half.
LiveFailRead(d) ==
  /\ live[d].pc = "failing" /\ disk[d] # Absent
  /\ live' = [live EXCEPT ![d].pc = "rewriting", ![d].seen = disk[d]]
  /\ UNCHANGED <<disk, failedDir, rec, arrivals, complete, given, swallowed, failures>>

LiveFailWrite(d) ==
  /\ live[d].pc = "rewriting"
  /\ Goto(d, "done")
  /\ WriteFailure(d, live[d].seen)
  /\ UNCHANGED <<failedDir, rec, arrivals, complete, given, swallowed, failures>>

\* ackDelivery or failDelivery throws, or finds no file to read: ignored.
LiveGivesUp(d) ==
  /\ \/ DiskFails /\ live[d].pc \in {"acking", "failing", "rewriting"}
     \/ live[d].pc = "failing" /\ disk[d] = Absent
  /\ Goto(d, "done")
  /\ UNCHANGED <<disk, failedDir, rec, arrivals, complete, given, swallowed, failures>>

-----------------------------------------------------------------------------
(* recoverPendingDeliveries                                                 *)

Cur(r) == Head(rec[r].todo)
RecGoto(r, pc) == rec' = [rec EXCEPT ![r].pc = pc]
NextEntry(r, tried) ==
  rec' = [rec EXCEPT ![r] = [pc |-> "next", seen |-> 0, todo |-> Tail(@.todo),
                             tried |-> @.tried \/ tried]]

Load(r) ==
  /\ rec[r].pc = "loading"
  /\ \E entries \in Pending : rec' = [rec EXCEPT ![r].pc = "next", ![r].todo = entries]
  /\ UNCHANGED <<disk, failedDir, live, arrivals, complete, given, swallowed, failures>>

\* All entries are done, or the time budget is used up: not before the first
\* attempt, for time passes only in the awaits.
RecoveryEnds(r) ==
  /\ rec[r].pc = "next" /\ (rec[r].todo = <<>> \/ rec[r].tried)
  /\ rec' = [rec EXCEPT ![r] = Resting]
  /\ UNCHANGED <<disk, failedDir, live, arrivals, complete, given, swallowed, failures>>

\* Mutant: the attempt to come is counted as one that failed.
TakeExhaustedEarly(r) ==
  /\ rec[r].pc = "next" /\ rec[r].todo # <<>>
  /\ Cur(r).retryCount + 1 >= MaxRetries
  /\ RecGoto(r, "moving")
  /\ UNCHANGED <<disk, failedDir, live, arrivals, complete, given, swallowed, failures>>

\* Mutant: an entry that has used up its retries is passed over.
TakeExhaustedSkips(r) ==
  /\ rec[r].pc = "next" /\ rec[r].todo # <<>>
  /\ Cur(r).retryCount >= MaxRetries
  /\ NextEntry(r, FALSE)
  /\ UNCHANGED <<disk, failedDir, live, arrivals, complete, given, swallowed, failures>>

\* The entry has used up its retries.
TakeExhausted(r) ==
  /\ rec[r].pc = "next" /\ rec[r].todo # <<>>
  /\ Cur(r).retryCount >= MaxRetries
  /\ RecGoto(r, "moving")
  /\ UNCHANGED <<disk, failedDir, live, arrivals, complete, given, swallowed, failures>>

\* The entry's backoff is not over; an entry no failure is
\* recorded of has none.
TakeDeferred(r) ==
  /\ rec[r].pc = "next" /\ rec[r].todo # <<>>
  /\ Cur(r).retryCount \in 1..(MaxRetries - 1)
  /\ NextEntry(r, FALSE)
  /\ UNCHANGED <<disk, failedDir, live, arrivals, complete, given, swallowed, failures>>

\* The entry is tried again.
TakeEligible(r) ==
  /\ rec[r].pc = "next" /\ rec[r].todo # <<>>
  /\ Cur(r).retryCount < MaxRetries
  /\ RecGoto(r, "sending")
  /\ UNCHANGED <<disk, failedDir, live, arrivals, complete, given, swallowed, failures>>

RecSentAll(r) ==
  /\ rec[r].pc = "sending"
  /\ RecGoto(r, "acking")
  /\ complete' = complete \cup {Cur(r).id}
  /\ UNCHANGED <<disk, failedDir, live, arrivals, given, swallowed, failures>>

\* Some payload is not sent, and bestEffort goes on.
RecSentPart(r) ==
  /\ rec[r].pc = "sending" /\ live[Cur(r).id].bestEffort
  /\ RecGoto(r, "acking")
  /\ swallowed' = swallowed \cup {Cur(r).id}
  /\ UNCHANGED <<disk, failedDir, live, arrivals, complete, given, failures>>

\* The attempt throws, with an error that may pass or with a permanent one.
RecSendThrows(r) ==
  /\ rec[r].pc = "sending"
  /\ \/ RecGoto(r, "failing") /\ CountFailure(Cur(r).id)
     \/ /\ RecGoto(r, "moving")
        /\ failures' = [failures EXCEPT ![Cur(r).id] = MaxRetries]
  /\ UNCHANGED <<disk, failedDir, live, arrivals, complete, given, swallowed>>

RecAck(r) ==
  /\ rec[r].pc = "acking"
  /\ NextEntry(r, TRUE)
  /\ AckDelivery(Cur(r).id)
  /\ UNCHANGED <<failedDir, live, arrivals, complete, given, swallowed, failures>>

\* ackDelivery throws: the attempt counts as failed.
RecAckFails(r) ==
  /\ DiskFails /\ rec[r].pc = "acking"
  /\ RecGoto(r, "failing")
  /\ CountFailure(Cur(r).id)
  /\ UNCHANGED <<disk, failedDir, live, arrivals, complete, given, swallowed>>

RecFailRead(r) ==
  /\ rec[r].pc = "failing" /\ disk[Cur(r).id] # Absent
  /\ rec' = [rec EXCEPT ![r].pc = "rewriting", ![r].seen = disk[Cur(r).id]]
  /\ UNCHANGED <<disk, failedDir, live, arrivals, complete, given, swallowed, failures>>

RecFailWrite(r) ==
  /\ rec[r].pc = "rewriting"
  /\ NextEntry(r, TRUE)
  /\ WriteFailure(Cur(r).id, rec[r].seen)
  /\ UNCHANGED <<failedDir, live, arrivals, complete, given, swallowed, failures>>

RecMove(r) ==
  /\ rec[r].pc = "moving"
  /\ NextEntry(r, TRUE)
  /\ MoveToFailed(Cur(r).id)
  /\ UNCHANGED <<live, arrivals, complete, given, swallowed, failures>>

\* failDelivery or moveToFailed throws, or finds no file to read: ignored.
RecGivesUp(r) ==
  /\ \/ DiskFails /\ rec[r].pc \in {"failing", "rewriting", "moving"}
     \/ rec[r].pc = "failing" /\ disk[Cur(r).id] = Absent
  /\ NextEntry(r, TRUE)
  /\ UNCHANGED <<disk, failedDir, live, arrivals, complete, given, swallowed, failures>>

-----------------------------------------------------------------------------
(* Starts of the gateway.                                                   *)

\* The process dies with all it was doing and starts again.
Crash ==
  /\ MayCrash
  /\ live' = [d \in Deliveries |->
                IF live[d].pc = "new" THEN live[d]
                ELSE [live[d] EXCEPT !.pc = "done", !.seen = 0]]
  /\ \E r \in Recoveries : rec' = OnlyRecovery(r)
  /\ UNCHANGED <<disk, failedDir, arrivals, complete, given, swallowed, failures>>

\* The gateway is closed and started again in the process: what is under way
\* goes on beside the new recovery.
Restart(r) ==
  /\ rec[r].pc = "idle"
  /\ RecGoto(r, "loading")
  /\ UNCHANGED <<disk, failedDir, live, arrivals, complete, given, swallowed, failures>>

LiveStep(d) ==
  \/ Persist(d) \/ PersistFails(d)
  \/ SentAll(d) \/ SentPart(d) \/ SendThrows(d) \/ SendAborted(d) \/ SendTimesOut(d)
  \/ LiveAck(d) \/ LiveFailRead(d) \/ LiveFailWrite(d) \/ LiveGivesUp(d)

Take(r) == TakeExhausted(r) \/ TakeDeferred(r) \/ TakeEligible(r)
Send(r) == RecSentAll(r) \/ RecSentPart(r) \/ RecSendThrows(r)
Record(r) ==
  \/ RecAck(r) \/ RecAckFails(r) \/ RecFailRead(r) \/ RecFailWrite(r)
  \/ RecMove(r) \/ RecGivesUp(r)

Next ==
  \/ \E d \in Deliveries : Begin(d) \/ LiveStep(d)
  \/ \E r \in Recoveries :
       Load(r) \/ RecoveryEnds(r) \/ Take(r) \/ Send(r) \/ Record(r) \/ Restart(r)
  \/ Crash

Spec == Init /\ [][Next]_vars

\* What the process has begun goes on; a backoff does not last for ever; the
\* gateway is started again and again.
FairSpec ==
  /\ Spec
  /\ \A d \in Deliveries :
       /\ WF_vars(LiveStep(d))
       /\ SF_vars(\E r \in Recoveries :
                    rec[r].todo # <<>> /\ Cur(r).id = d /\ (TakeExhausted(r) \/ TakeEligible(r)))
  /\ \A r \in Recoveries :
       /\ WF_vars(Load(r)) /\ WF_vars(RecoveryEnds(r) \/ Take(r))
       /\ WF_vars(Send(r)) /\ WF_vars(Record(r))
       /\ WF_vars(Restart(r))

-----------------------------------------------------------------------------
TypeOK ==
  /\ disk \in [Deliveries -> Nat \cup {Absent}]
  /\ failedDir \subseteq Deliveries
  /\ \A d \in Deliveries :
       /\ live[d].pc \in {"new", "writing", "sending", "acking", "failing",
                          "rewriting", "done"}
       /\ live[d].pc \in {"acking", "failing", "rewriting"} => live[d].queued
  /\ \A r \in Recoveries :
       /\ rec[r].pc \in {"idle", "loading", "next", "sending", "acking", "failing",
                         "rewriting", "moving"}
       /\ rec[r].pc \in {"sending", "acking", "failing", "rewriting", "moving"}
            => rec[r].todo # <<>>
       /\ rec[r].pc \in {"idle", "loading"} => rec[r].todo = <<>>

\* deliver.ts: "Write-ahead delivery queue: persist before sending, remove after
\* success."  A message whose call went on to send it from the queue is sent in
\* full, or was given up on an AbortError, or its file is still there to be tried
\* again or kept in failed/: whatever crashes, restarts and failed writes there
\* were in between.  A best-effort message of which payloads failed is exempt once
\* an attempt had no onError to tell, as no attempt of the recovery has.
NoMessageLost ==
  \A d \in Deliveries \ swallowed :
    live[d].queued => d \in OnDisk \cup failedDir \cup complete \cup given

\* A message is put aside in failed/ for a permanent error or after MaxRetries
\* attempts that failed, never because attempts were counted that were not made.
\* (And every variable keeps its type.)
PutAsideForCause == TypeOK /\ \A d \in failedDir : failures[d] = MaxRetries

\* Nothing is under way, so that a crash is no different from a restart.
AtRest ==
  /\ \A d \in Deliveries : live[d].pc \in {"new", "done"}
  /\ \A r \in Recoveries : rec[r].pc = "idle"

\* A crash cuts off what is under way, or a write of the recovery fails.
Disturbed ==
  \/ Crash /\ ~AtRest
  \/ \E r \in Recoveries : RecAckFails(r) \/ (RecGivesUp(r) /\ Cur(r).id \in OnDisk)

\* As long as the gateway is started again and again, and neither crashes nor a
\* failing disk cut off its work for ever, no message stays in the queue: it is
\* sent, or it uses up its retries.
EveryEntryLeaves ==
  <>[][~Disturbed]_vars => \A d \in Deliveries : d \in OnDisk ~> d \notin OnDisk

=============================================================================
