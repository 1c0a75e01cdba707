------------------------ MODULE DurableQueuesProofs -------------------------
(***************************************************************************)
(* Proofs about the two queues of files that a starting gateway goes       *)
(* through.  DeliveryQueue, for any messages, recoveries and limits, any   *)
(* crashes, restarts and failures of the disk: no message is lost, and     *)
(* none is put aside without cause.  A2AJobs, for any jobs and any number  *)
(* of crashes and of restarts in the process: a job has one flow, its file *)
(* tells how far the flow is, and a job that has finished stays finished.  *)
(***************************************************************************)
EXTENDS DeliveryQueue, A2AJobs, FiniteSetTheorems, SequenceTheorems, TLAPS

\* What a call has in hand, ...
CallPcs == {"new", "writing", "sending", "acking", "failing", "rewriting", "done"}
Calls == [pc : CallPcs, seen : Nat, queued : BOOLEAN, bestEffort : BOOLEAN]

\* ... and what a recovery has.
Entries == [id : Deliveries, retryCount : Nat]
RecPcs == {"idle", "loading", "next", "sending", "acking", "failing", "rewriting", "moving"}
Works == [pc : RecPcs, seen : Nat, todo : Seq(Entries), tried : BOOLEAN]

\* The type invariant.
Types ==
  /\ disk \in [Deliveries -> Nat \cup {Absent}]
  /\ live \in [Deliveries -> Calls]
  /\ rec \in [Recoveries -> Works]
  /\ arrivals \in Seq(Deliveries)
  /\ failedDir \subseteq Deliveries
  /\ complete \subseteq Deliveries /\ given \subseteq Deliveries
  /\ swallowed \subseteq Deliveries
  /\ failures \in [Deliveries -> 0..MaxRetries]

\* Only a call whose message is queued records an outcome, and only a recovery
\* that has an entry in hand works on one.
InHand ==
  /\ \A d \in Deliveries :
       live[d].pc \in {"acking", "failing", "rewriting"} => live[d].queued
  /\ \A r \in Recoveries :
       /\ rec[r].pc \in {"sending", "acking", "failing", "rewriting", "moving"}
            => rec[r].todo # <<>>
       /\ rec[r].pc \in {"idle", "loading"} => rec[r].todo = <<>>

\* A file is removed only for a message that was sent, given up on, or of which
\* nobody was to be told.
AcksEarned ==
  /\ \A d \in Deliveries : live[d].pc = "acking" => d \in complete \cup given \cup swallowed
  /\ \A r \in Recoveries : rec[r].pc = "acking" => Cur(r).id \in complete \cup swallowed

\* The recoveries that have yet to record a failed attempt of d, and how many
\* there are with its call.
Recording(d) ==
  {r \in Recoveries : rec[r].pc \in {"failing", "rewriting"} /\ Cur(r).id = d}
CallRecords(d) == IF live[d].pc \in {"failing", "rewriting"} THEN 1 ELSE 0
Owed(d) == Cardinality(Recording(d)) + CallRecords(d)

\* The attempts that the file of d counts.
Count(d) == IF disk[d] = Absent THEN 0 ELSE disk[d]

\* No count promises more than the attempts that failed, not when all who have
\* yet to record theirs have done so.
Books(d) ==
  failures[d] # MaxRetries =>
    /\ Count(d) + Owed(d) <= failures[d]
    /\ live[d].pc = "rewriting" => live[d].seen + Owed(d) <= failures[d]
    /\ \A r \in Recording(d) :
         rec[r].pc = "rewriting" => rec[r].seen + Owed(d) <= failures[d]

\* So it is for every message.
Accounted == \A d \in Deliveries : Books(d)

\* The same of the counts a recovery has loaded.
LoadedCounts ==
  \A r \in Recoveries : \A i \in 1..Len(rec[r].todo) :
    LET e == rec[r].todo[i]
    IN  failures[e.id] # MaxRetries => e.retryCount <= failures[e.id]

\* A file is put aside only after MaxRetries attempts that failed.
MovesForCause ==
  /\ \A r \in Recoveries : rec[r].pc = "moving" => failures[Cur(r).id] = MaxRetries
  /\ \A d \in failedDir : failures[d] = MaxRetries

\* The recoveries that have yet to record a failure can be counted.
FiniteRecording == \A d \in Deliveries : IsFiniteSet(Recording(d))

\* The inductive invariant.
IInv ==
  /\ Types
  /\ InHand
  /\ AcksEarned
  /\ NoMessageLost
  /\ FiniteRecording
  /\ Accounted
  /\ LoadedCounts
  /\ MovesForCause

-----------------------------------------------------------------------------
(***************************************************************************)
(* The entries a recovery has loaded.                                      *)
(***************************************************************************)

\* The entry in hand is the first, and what follows it keeps its order.
LEMMA EntryInHand ==
  ASSUME Types, NEW r \in Recoveries, rec[r].todo # <<>>
  PROVE  /\ Cur(r) \in Entries /\ Cur(r).id \in Deliveries /\ Cur(r).retryCount \in Nat
         /\ 1 \in 1..Len(rec[r].todo) /\ Cur(r) = rec[r].todo[1]
         /\ Tail(rec[r].todo) \in Seq(Entries)
         /\ \A i \in 1..Len(Tail(rec[r].todo)) :
              i + 1 \in 1..Len(rec[r].todo) /\ Tail(rec[r].todo)[i] = rec[r].todo[i + 1]
<1> DEFINE s == rec[r].todo
<1>1. s \in Seq(Entries) /\ s # <<>>
  BY DEF Types, Works
<1>2. Cur(r) = Head(s)
  BY DEF Cur
<1> HIDE DEF s
<1>3. Head(s) \in Entries /\ Head(s) = s[1] /\ Len(s) \in Nat /\ Len(s) # 0
  BY <1>1
<1>4. /\ Tail(s) \in Seq(Entries) /\ Len(Tail(s)) = Len(s) - 1
      /\ \A i \in 1..Len(Tail(s)) : Tail(s)[i] = s[i + 1]
  BY <1>1, HeadTailProperties
<1>5. Cur(r).id \in Deliveries /\ Cur(r).retryCount \in Nat
  BY <1>2, <1>3 DEF Entries
<1>6. 1 \in 1..Len(s) /\ \A i \in 1..Len(Tail(s)) : i + 1 \in 1..Len(s)
  BY <1>3, <1>4
<1> QED BY <1>2, <1>3, <1>4, <1>5, <1>6 DEF s

\* What is loaded are the files there are, with their counts.
LEMMA PendingEntries ==
  ASSUME Types, NEW entries \in Pending
  PROVE  /\ entries \in Seq(Entries)
         /\ \A i \in 1..Len(entries) :
              /\ entries[i].id \in Deliveries
              /\ disk[entries[i].id] \in Nat /\ entries[i].retryCount = disk[entries[i].id]
<1>0. PICK ids \in UNION {[1..n -> OnDisk] : n \in 0..Len(arrivals)} :
        entries = [i \in DOMAIN ids |-> [id |-> ids[i], retryCount |-> disk[ids[i]]]]
  BY DEF Pending
<1>1. PICK n \in 0..Len(arrivals) : ids \in [1..n -> OnDisk]
  BY <1>0
<1>2. n \in Nat /\ DOMAIN ids = 1..n
  BY <1>1, LenProperties DEF Types
<1>3. \A i \in 1..n : /\ entries[i] \in Entries
                      /\ entries[i].id \in Deliveries
                      /\ disk[entries[i].id] \in Nat
                      /\ entries[i].retryCount = disk[entries[i].id]
  BY <1>0, <1>1, <1>2 DEF Types, OnDisk, Entries, Absent
<1>4. entries \in [1..n -> Entries]
  BY <1>0, <1>2, <1>3
<1>5. entries \in Seq(Entries) /\ Len(entries) = n
  BY <1>2, <1>4
<1> QED BY <1>3, <1>5

-----------------------------------------------------------------------------
(***************************************************************************)
(* How a call and a recovery go on.                                        *)
(***************************************************************************)

\* A call goes on to x; its message stays queued, if it was.
LEMMA CallGoes ==
  ASSUME NEW d \in Deliveries, live \in [Deliveries -> Calls], NEW x \in CallPcs, Goto(d, x)
  PROVE  /\ live' \in [Deliveries -> Calls]
         /\ live'[d].pc = x /\ live'[d].queued = live[d].queued
         /\ live'[d].seen = live[d].seen
         /\ \A e \in Deliveries \ {d} : live'[e] = live[e]
BY DEF Goto, Calls

\* A call has read the count it is to raise.
LEMMA CallReads ==
  ASSUME NEW d \in Deliveries, live \in [Deliveries -> Calls], NEW n \in Nat,
         live' = [live EXCEPT ![d].pc = "rewriting", ![d].seen = n]
  PROVE  /\ live' \in [Deliveries -> Calls]
         /\ live'[d].pc = "rewriting" /\ live'[d].queued = live[d].queued
         /\ live'[d].seen = n
         /\ \A e \in Deliveries \ {d} : live'[e] = live[e]
BY DEF Calls, CallPcs

\* A call's message is in the queue.
LEMMA CallQueued ==
  ASSUME NEW d \in Deliveries, live \in [Deliveries -> Calls], Persist(d)
  PROVE  /\ live' \in [Deliveries -> Calls]
         /\ live'[d].pc = "sending" /\ live'[d].queued
         /\ \A e \in Deliveries \ {d} : live'[e] = live[e]
BY DEF Calls, CallPcs, Persist

\* A recovery goes on with the entry it has in hand.
LEMMA RecGoes ==
  ASSUME NEW r \in Recoveries, rec \in [Recoveries -> Works], NEW x \in RecPcs, RecGoto(r, x)
  PROVE  /\ rec' \in [Recoveries -> Works]
         /\ rec'[r].pc = x /\ rec'[r].todo = rec[r].todo
         /\ rec'[r].seen = rec[r].seen
         /\ \A q \in Recoveries \ {r} : rec'[q] = rec[q]
BY DEF RecGoto, Works

\* A recovery has read the count it is to raise.
LEMMA RecReads ==
  ASSUME NEW r \in Recoveries, rec \in [Recoveries -> Works], NEW n \in Nat,
         rec' = [rec EXCEPT ![r].pc = "rewriting", ![r].seen = n]
  PROVE  /\ rec' \in [Recoveries -> Works]
         /\ rec'[r].pc = "rewriting" /\ rec'[r].todo = rec[r].todo
         /\ rec'[r].seen = n
         /\ \A q \in Recoveries \ {r} : rec'[q] = rec[q]
BY DEF Works, RecPcs

\* A recovery has loaded the files.
LEMMA RecLoads ==
  ASSUME NEW r \in Recoveries, rec \in [Recoveries -> Works], NEW es \in Seq(Entries),
         rec' = [rec EXCEPT ![r].pc = "next", ![r].todo = es]
  PROVE  /\ rec' \in [Recoveries -> Works]
         /\ rec'[r].pc = "next" /\ rec'[r].todo = es
         /\ \A q \in Recoveries \ {r} : rec'[q] = rec[q]
BY DEF Works, RecPcs

\* A recovery is over.
LEMMA RecRests ==
  ASSUME NEW r \in Recoveries, rec \in [Recoveries -> Works], 
         rec' = [rec EXCEPT ![r] = Resting]
  PROVE  /\ rec' \in [Recoveries -> Works]
         /\ rec'[r].pc = "idle" /\ rec'[r].todo = <<>>
         /\ \A q \in Recoveries \ {r} : rec'[q] = rec[q]
BY DEF Works, RecPcs, Resting

\* A recovery leaves the entry it had in hand.
LEMMA RecNext ==
  ASSUME NEW r \in Recoveries, rec \in [Recoveries -> Works], rec[r].todo # <<>>,
         NEW tried \in BOOLEAN, NextEntry(r, tried)
  PROVE  /\ rec' \in [Recoveries -> Works]
         /\ rec'[r].pc = "next" /\ rec'[r].todo = Tail(rec[r].todo)
         /\ \A q \in Recoveries \ {r} : rec'[q] = rec[q]
<1>1. Tail(rec[r].todo) \in Seq(Entries) /\ rec[r].tried \in BOOLEAN
  BY HeadTailProperties DEF Works
<1>2. rec' = [rec EXCEPT ![r] = [pc |-> "next", seen |-> 0, todo |-> Tail(rec[r].todo),
                                 tried |-> rec[r].tried \/ tried]]
  BY DEF NextEntry
<1> QED BY <1>1, <1>2 DEF Works, RecPcs

-----------------------------------------------------------------------------
(***************************************************************************)
(* Types, and what is in hand.                                             *)
(***************************************************************************)

\* What the lemmas about one actor's step start from.
Sound == Types /\ InHand

\* One more failure of d is counted, up to MaxRetries.
LEMMA FailureTypes ==
  ASSUME failures \in [Deliveries -> 0..MaxRetries], NEW d \in Deliveries, CountFailure(d)
  PROVE  failures' \in [Deliveries -> 0..MaxRetries]
BY DeliveryAssumption DEF CountFailure

\* A file is written or removed.
LEMMA WriteTypes ==
  ASSUME disk \in [Deliveries -> Nat \cup {Absent}], NEW d, NEW n \in Nat, WriteFailure(d, n)
  PROVE  disk' \in [Deliveries -> Nat \cup {Absent}]
<1>1. n + 1 \in Nat
  OBVIOUS
<1> QED BY <1>1 DEF WriteFailure

\* The steps of a call.
LEMMA CallSound ==
  ASSUME Sound, NEW d \in Deliveries, Begin(d) \/ LiveStep(d)
  PROVE  Sound'
<1> USE DEF Sound, Types, InHand
<1>1. CASE Begin(d)
  <2>1. Goto(d, "writing") /\ arrivals' \in Seq(Deliveries)
    BY <1>1 DEF Begin
  <2> QED BY <1>1, <2>1, CallGoes DEF Begin, CallPcs
<1>2. CASE Persist(d)
  <2>1. disk' \in [Deliveries -> Nat \cup {Absent}]
    BY <1>2 DEF Persist
  <2> QED BY <1>2, <2>1, CallQueued DEF Persist
<1>3. CASE PersistFails(d)
  BY <1>3, CallGoes DEF PersistFails, CallPcs
<1>4. CASE SentAll(d)
  BY <1>4, CallGoes DEF SentAll, After, CallPcs
<1>5. CASE SentPart(d)
  BY <1>5, CallGoes, FailureTypes DEF SentPart, After, CallPcs
<1>6. CASE SendThrows(d)
  BY <1>6, CallGoes, FailureTypes DEF SendThrows, After, CallPcs
<1>7. CASE SendAborted(d) \/ SendTimesOut(d)
  BY <1>7, CallGoes DEF SendAborted, SendTimesOut, After, CallPcs
<1>8. CASE LiveAck(d)
  <2>1. disk' \in [Deliveries -> Nat \cup {Absent}]
    BY <1>8 DEF LiveAck, AckDelivery
  <2> QED BY <1>8, <2>1, CallGoes DEF LiveAck, CallPcs
<1>9. CASE LiveFailRead(d)
  BY <1>9, CallReads DEF LiveFailRead
<1>10. CASE LiveFailWrite(d)
  <2>1. live[d].seen \in Nat
    BY DEF Calls
  <2>2. disk' \in [Deliveries -> Nat \cup {Absent}]
    BY <1>10, <2>1 DEF LiveFailWrite, WriteFailure
  <2> QED BY <1>10, <2>2, CallGoes DEF LiveFailWrite, CallPcs
<1>11. CASE LiveGivesUp(d)
  BY <1>11, CallGoes DEF LiveGivesUp, CallPcs
<1> QED BY <1>1, <1>2, <1>3, <1>4, <1>5, <1>6, <1>7, <1>8, <1>9, <1>10, <1>11 DEF LiveStep

\* The steps of a recovery.
LEMMA RecSound ==
  ASSUME Sound, NEW r \in Recoveries,
         Load(r) \/ RecoveryEnds(r) \/ Take(r) \/ Send(r) \/ Record(r) \/ Restart(r)
  PROVE  Sound'
<1> USE DEF Sound, Types, InHand
<1>1. CASE Load(r)
  <2>1. PICK entries \in Pending : rec' = [rec EXCEPT ![r].pc = "next", ![r].todo = entries]
    BY <1>1 DEF Load
  <2>2. entries \in Seq(Entries)
    BY PendingEntries
  <2> QED BY <1>1, <2>1, <2>2, RecLoads DEF Load
<1>2. CASE RecoveryEnds(r)
  BY <1>2, RecRests DEF RecoveryEnds
<1>3. CASE TakeExhausted(r) \/ TakeEligible(r)
  BY <1>3, RecGoes, ZenonT(30) DEF TakeExhausted, TakeEligible, RecPcs
<1>4. CASE TakeDeferred(r)
  BY <1>4, RecNext DEF TakeDeferred
<1>5. CASE RecSentAll(r) \/ RecSentPart(r)
  <2>1. Cur(r).id \in Deliveries
    BY <1>5, EntryInHand DEF RecSentAll, RecSentPart
  <2>2. /\ rec[r].pc = "sending" /\ RecGoto(r, "acking")
        /\ complete' \subseteq Deliveries /\ swallowed' \subseteq Deliveries
        /\ UNCHANGED <<disk, failedDir, live, arrivals, given, failures>>
    BY <1>5, <2>1 DEF RecSentAll, RecSentPart
  <2> QED BY <2>2, RecGoes, SMTT(30) DEF RecPcs
<1>6. CASE RecSendThrows(r) \/ RecAckFails(r)
  <2>1. Cur(r).id \in Deliveries
    BY <1>6, EntryInHand DEF RecSendThrows, RecAckFails
  <2>2. failures' \in [Deliveries -> 0..MaxRetries]
    BY <1>6, <2>1, FailureTypes, DeliveryAssumption DEF RecSendThrows, RecAckFails
  <2>3. /\ rec[r].pc \in {"sending", "acking"}
        /\ \E x \in {"failing", "moving"} : RecGoto(r, x)
        /\ UNCHANGED <<disk, failedDir, live, arrivals, complete, given, swallowed>>
    BY <1>6 DEF RecSendThrows, RecAckFails
  <2>4. PICK x \in {"failing", "moving"} : RecGoto(r, x)
    BY <2>3
  <2>5. /\ rec' \in [Recoveries -> Works]
        /\ rec'[r].pc \in {"failing", "moving"} /\ rec'[r].todo = rec[r].todo
        /\ \A q \in Recoveries \ {r} : rec'[q] = rec[q]
    BY <2>4, RecGoes DEF RecPcs
  <2> QED BY <2>2, <2>3, <2>5
<1>7. CASE RecAck(r)
  <2>1. disk' \in [Deliveries -> Nat \cup {Absent}]
    BY <1>7 DEF RecAck, AckDelivery
  <2> QED BY <1>7, <2>1, RecNext DEF RecAck
<1>8. CASE RecFailRead(r)
  <2>1. disk[Cur(r).id] \in Nat
    BY <1>8, EntryInHand DEF RecFailRead
  <2>2. /\ rec[r].pc = "failing"
        /\ rec' = [rec EXCEPT ![r].pc = "rewriting", ![r].seen = disk[Cur(r).id]]
        /\ UNCHANGED <<disk, failedDir, live, arrivals, complete, given, swallowed, failures>>
    BY <1>8 DEF RecFailRead
  <2>3. /\ rec' \in [Recoveries -> Works]
        /\ rec'[r].pc = "rewriting" /\ rec'[r].todo = rec[r].todo
        /\ \A q \in Recoveries \ {r} : rec'[q] = rec[q]
    BY <2>1, <2>2, RecReads
  <2> QED BY <2>2, <2>3
<1>9. CASE RecFailWrite(r)
  <2>1. rec[r].seen \in Nat
    BY DEF Works
  <2>2. disk' \in [Deliveries -> Nat \cup {Absent}]
    BY <1>9, <2>1, WriteTypes DEF RecFailWrite
  <2> QED BY <1>9, <2>2, RecNext DEF RecFailWrite
<1>10. CASE RecMove(r)
  <2>1. disk' \in [Deliveries -> Nat \cup {Absent}] /\ failedDir' \subseteq Deliveries
    BY <1>10, EntryInHand DEF RecMove, MoveToFailed
  <2> QED BY <1>10, <2>1, RecNext DEF RecMove
<1>11. CASE RecGivesUp(r)
  BY <1>11, RecNext DEF RecGivesUp
<1>12. CASE Restart(r)
  <2>1. /\ rec[r].pc = "idle"
        /\ rec' \in [Recoveries -> Works]
        /\ rec'[r].pc = "loading" /\ rec'[r].todo = rec[r].todo
        /\ \A q \in Recoveries \ {r} : rec'[q] = rec[q]
    BY <1>12, RecGoes DEF Restart, RecPcs
  <2>2. UNCHANGED <<disk, failedDir, live, arrivals, complete, given, swallowed, failures>>
    BY <1>12 DEF Restart
  <2> QED BY <2>1, <2>2
<1> QED BY <1>1, <1>2, <1>3, <1>4, <1>5, <1>6, <1>7, <1>8, <1>9, <1>10, <1>11, <1>12
        DEF Take, Send, Record

\* After a crash nothing is in hand.
LEMMA CrashEffect ==
  ASSUME Types, Crash
  PROVE  /\ live' \in [Deliveries -> Calls]
         /\ \A d \in Deliveries : /\ live'[d].pc \in {"new", "done"}
                                  /\ live'[d].queued = live[d].queued
         /\ rec' \in [Recoveries -> Works]
         /\ \A r \in Recoveries : rec'[r].todo = <<>> /\ rec'[r].pc \in {"idle", "loading"}
<1>1. live \in [Deliveries -> Calls]
  BY DEF Types
<1>2. /\ live' \in [Deliveries -> Calls]
      /\ \A d \in Deliveries : /\ live'[d].pc \in {"new", "done"}
                               /\ live'[d].queued = live[d].queued
  BY <1>1 DEF Crash, Calls, CallPcs
<1>3. PICK r \in Recoveries : rec' = OnlyRecovery(r)
  BY DEF Crash
<1>4. <<>> \in Seq(Entries)
  OBVIOUS
<1>5. rec' \in [Recoveries -> Works]
  BY <1>3, <1>4 DEF OnlyRecovery, Resting, Works, RecPcs
<1>6. \A q \in Recoveries : rec'[q].todo = <<>> /\ rec'[q].pc \in {"idle", "loading"}
  BY <1>3 DEF OnlyRecovery, Resting
<1> QED BY <1>2, <1>5, <1>6

\* After a crash nobody has anything in hand.
LEMMA CrashSound == Sound /\ Crash => Sound'
BY CrashEffect DEF Sound, Types, InHand, Crash

-----------------------------------------------------------------------------
(***************************************************************************)
(* No message is lost.                                                     *)
(***************************************************************************)

\* NoMessageLost, with who may remove a file.
Kept == AcksEarned /\ NoMessageLost

\* The step of a call loses no message.
LEMMA CallKept ==
  ASSUME Sound, Kept, NEW d \in Deliveries, Begin(d) \/ LiveStep(d)
  PROVE  Kept'
<1> USE DEF Kept, AcksEarned, NoMessageLost, OnDisk, Cur
<1>0. /\ live \in [Deliveries -> Calls]
      /\ disk \in [Deliveries -> Nat \cup {Absent}]
  BY DEF Sound, Types
<1>1. CASE Begin(d)
  BY <1>0, <1>1, CallGoes DEF Begin, CallPcs
<1>2. CASE Persist(d)
  <2>1. disk'[d] # Absent /\ \A e \in Deliveries \ {d} : disk'[e] = disk[e]
    BY <1>0, <1>2 DEF Persist, Absent
  <2> QED BY <1>0, <1>2, <2>1, CallQueued DEF Persist
<1>3. CASE PersistFails(d)
  BY <1>0, <1>3, CallGoes DEF PersistFails, CallPcs
<1>4. CASE SentAll(d)
  BY <1>0, <1>4, CallGoes DEF SentAll, After, CallPcs
<1>5. CASE SentPart(d)
  BY <1>0, <1>5, CallGoes DEF SentPart, After, CallPcs
<1>6. CASE SendThrows(d)
  BY <1>0, <1>6, CallGoes DEF SendThrows, After, CallPcs
<1>7. CASE SendAborted(d) \/ SendTimesOut(d)
  BY <1>0, <1>7, CallGoes DEF SendAborted, SendTimesOut, After, CallPcs
<1>8. CASE LiveAck(d)
  <2>1. d \in complete \cup given \cup swallowed /\ \A e \in Deliveries \ {d} : disk'[e] = disk[e]
    BY <1>0, <1>8 DEF LiveAck, AckDelivery
  <2> QED BY <1>0, <1>8, <2>1, CallGoes DEF LiveAck, CallPcs
<1>9. CASE LiveFailRead(d)
  <2>1. disk[d] \in Nat
    BY <1>0, <1>9 DEF LiveFailRead
  <2>2. /\ live'[d].pc = "rewriting" /\ live'[d].queued = live[d].queued
        /\ \A e \in Deliveries \ {d} : live'[e] = live[e]
    BY <1>0, <1>9, <2>1, CallReads DEF LiveFailRead
  <2> QED BY <1>9, <2>2 DEF LiveFailRead
<1>10. CASE LiveFailWrite(d)
  <2>1. live[d].seen \in Nat
    BY <1>0 DEF Calls
  <2>2. disk'[d] # Absent /\ \A e \in Deliveries \ {d} : disk'[e] = disk[e]
    BY <1>0, <1>10, <2>1 DEF LiveFailWrite, WriteFailure, Absent
  <2> QED BY <1>0, <1>10, <2>2, CallGoes DEF LiveFailWrite, CallPcs
<1>11. CASE LiveGivesUp(d)
  BY <1>0, <1>11, CallGoes DEF LiveGivesUp, CallPcs
<1> QED BY <1>1, <1>2, <1>3, <1>4, <1>5, <1>6, <1>7, <1>8, <1>9, <1>10, <1>11 DEF LiveStep

\* Where a recovery goes on without the file or the message being touched.
LEMMA RecOnlyKept ==
  ASSUME Kept, NEW r \in Recoveries, rec'[r].pc # "acking",
         \A q \in Recoveries \ {r} : rec'[q] = rec[q],
         UNCHANGED <<disk, failedDir, live, complete, given, swallowed>>
  PROVE  Kept'
BY DEF Kept, AcksEarned, NoMessageLost, OnDisk, Cur

\* The step of a recovery loses none.
LEMMA RecKept ==
  ASSUME Sound, Kept, NEW r \in Recoveries,
         Load(r) \/ RecoveryEnds(r) \/ Take(r) \/ Send(r) \/ Record(r) \/ Restart(r)
  PROVE  Kept'
<1>0. /\ live \in [Deliveries -> Calls]
      /\ rec \in [Recoveries -> Works]
      /\ disk \in [Deliveries -> Nat \cup {Absent}]
      /\ rec[r].pc \in {"sending", "acking", "failing", "rewriting", "moving"} =>
           rec[r].todo # <<>> /\ Cur(r).id \in Deliveries
  BY EntryInHand DEF Sound, Types, InHand
<1>1. CASE Load(r)
  <2>1. PICK entries \in Pending : rec' = [rec EXCEPT ![r].pc = "next", ![r].todo = entries]
    BY <1>1 DEF Load
  <2>2. entries \in Seq(Entries)
    BY PendingEntries DEF Sound
  <2> QED BY <1>0, <1>1, <2>1, <2>2, RecLoads, RecOnlyKept DEF Load
<1>2. CASE RecoveryEnds(r)
  BY <1>0, <1>2, RecRests, RecOnlyKept DEF RecoveryEnds
<1>3. CASE TakeExhausted(r) \/ TakeEligible(r)
  BY <1>0, <1>3, RecGoes, RecOnlyKept DEF TakeExhausted, TakeEligible, RecPcs
<1>4. CASE TakeDeferred(r)
  BY <1>0, <1>4, RecNext, RecOnlyKept DEF TakeDeferred
<1>5. CASE RecSentAll(r) \/ RecSentPart(r)
  <2>1. /\ rec[r].pc = "sending" /\ RecGoto(r, "acking")
        /\ complete \subseteq complete' /\ swallowed \subseteq swallowed'
        /\ Cur(r).id \in complete' \cup swallowed'
        /\ UNCHANGED <<disk, failedDir, live, given>>
    BY <1>5 DEF RecSentAll, RecSentPart
  <2>2. /\ rec'[r].todo = rec[r].todo
        /\ \A q \in Recoveries \ {r} : rec'[q] = rec[q]
    BY <1>0, <2>1, RecGoes DEF RecPcs
  <2>3. \A q \in Recoveries : Cur(q)' = Cur(q)
    BY <2>2 DEF Cur
  <2> QED BY <2>1, <2>2, <2>3 DEF Kept, AcksEarned, NoMessageLost, OnDisk
<1>6. CASE RecSendThrows(r) \/ RecAckFails(r)
  <2>1. PICK x \in {"failing", "moving"} : RecGoto(r, x)
    BY <1>6 DEF RecSendThrows, RecAckFails
  <2>2. UNCHANGED <<disk, failedDir, live, complete, given, swallowed>>
    BY <1>6 DEF RecSendThrows, RecAckFails
  <2> QED BY <1>0, <2>1, <2>2, RecGoes, RecOnlyKept DEF RecPcs
<1>7. CASE RecAck(r)
  <2>1. Cur(r).id \in complete \cup swallowed
    BY <1>7 DEF RecAck, Kept, AcksEarned
  <2>2. \A e \in Deliveries : disk'[e] = disk[e] \/ e \in complete \cup swallowed
    BY <1>0, <1>7, <2>1 DEF RecAck, AckDelivery
  <2>3. rec'[r].pc = "next" /\ \A q \in Recoveries \ {r} : rec'[q] = rec[q]
    BY <1>0, <1>7, RecNext DEF RecAck
  <2> QED BY <1>7, <2>2, <2>3 DEF RecAck, Kept, AcksEarned, NoMessageLost, OnDisk, Cur
<1>8. CASE RecFailRead(r)
  <2>1. disk[Cur(r).id] \in Nat
    BY <1>0, <1>8 DEF RecFailRead
  <2> QED BY <1>0, <1>8, <2>1, RecReads, RecOnlyKept DEF RecFailRead
<1>9. CASE RecFailWrite(r)
  <2>1. rec[r].seen \in Nat
    BY <1>0 DEF Works
  <2>2. \A e \in Deliveries : disk'[e] = disk[e] \/ disk'[e] # Absent
    BY <1>0, <1>9, <2>1 DEF RecFailWrite, WriteFailure, Absent
  <2>3. rec'[r].pc = "next" /\ \A q \in Recoveries \ {r} : rec'[q] = rec[q]
    BY <1>0, <1>9, RecNext DEF RecFailWrite
  <2> QED BY <1>9, <2>2, <2>3 DEF RecFailWrite, Kept, AcksEarned, NoMessageLost, OnDisk, Cur
<1>10. CASE RecMove(r)
  <2>1. /\ failedDir \subseteq failedDir'
        /\ \A e \in Deliveries : disk'[e] = disk[e] \/ e \in failedDir'
    BY <1>0, <1>10 DEF RecMove, MoveToFailed
  <2>2. rec'[r].pc = "next" /\ \A q \in Recoveries \ {r} : rec'[q] = rec[q]
    BY <1>0, <1>10, RecNext DEF RecMove
  <2> QED BY <1>10, <2>1, <2>2 DEF RecMove, Kept, AcksEarned, NoMessageLost, OnDisk, Cur
<1>11. CASE RecGivesUp(r)
  <2>1. rec'[r].pc = "next" /\ \A q \in Recoveries \ {r} : rec'[q] = rec[q]
    BY <1>0, <1>11, RecNext DEF RecGivesUp
  <2> QED BY <1>11, <2>1, RecOnlyKept DEF RecGivesUp
<1>12. CASE Restart(r)
  BY <1>0, <1>12, RecGoes, RecOnlyKept DEF Restart, RecPcs
<1> QED BY <1>1, <1>2, <1>3, <1>4, <1>5, <1>6, <1>7, <1>8, <1>9, <1>10, <1>11, <1>12
        DEF Take, Send, Record

\* Nor does a crash.
LEMMA CrashKept == Sound /\ Kept /\ Crash => Kept'
BY CrashEffect DEF Sound, Kept, AcksEarned, NoMessageLost, OnDisk, Crash

-----------------------------------------------------------------------------
(***************************************************************************)
(* Counts and failures.                                                    *)
(***************************************************************************)

\* Sets that differ in one element only.
LEMMA DifferByOne ==
  ASSUME NEW R, NEW S, NEW r, IsFiniteSet(R), R \ {r} = S \ {r}
  PROVE  /\ IsFiniteSet(S)
         /\ Cardinality(R) \in Nat /\ Cardinality(S) \in Nat
         /\ r \in R => Cardinality(R) > 0
         /\ Cardinality(S) = Cardinality(R) + (IF r \in S THEN 1 ELSE 0)
                                            - (IF r \in R THEN 1 ELSE 0)
<1> DEFINE T == R \ {r}
<1>1. IsFiniteSet(T) /\ Cardinality(T) = IF r \in R THEN Cardinality(R) - 1 ELSE Cardinality(R)
  BY FS_RemoveElement
<1>2. S = T \/ S = T \cup {r}
  OBVIOUS
<1>3. r \notin T
  OBVIOUS
<1> HIDE DEF T
<1>4. /\ IsFiniteSet(T \cup {r})
      /\ Cardinality(T \cup {r}) = Cardinality(T) + 1
  BY <1>1, <1>3, FS_AddElement
<1>5. IsFiniteSet(S)
  BY <1>1, <1>2, <1>4
<1>6. Cardinality(R) \in Nat /\ Cardinality(S) \in Nat /\ Cardinality(T) \in Nat
  BY <1>1, <1>5, FS_CardinalityType
<1>7. r \in S => S = T \cup {r}
  BY <1>2, <1>3
<1>8. r \notin S => S = T
  BY <1>2
<1>9. Cardinality(S) = Cardinality(T) + (IF r \in S THEN 1 ELSE 0)
  BY <1>4, <1>6, <1>7, <1>8
<1> QED BY <1>1, <1>5, <1>6, <1>9

\* One recovery's step moves no other into or out of those that have yet to
\* record a failure.
LEMMA RecordingStep ==
  ASSUME NEW r \in Recoveries, \A q \in Recoveries \ {r} : rec'[q] = rec[q],
         NEW d \in Deliveries, IsFiniteSet(Recording(d))
  PROVE  /\ IsFiniteSet(Recording(d)')
         /\ Cardinality(Recording(d)) \in Nat /\ Cardinality(Recording(d)') \in Nat
         /\ r \in Recording(d) => Cardinality(Recording(d)) > 0
         /\ Cardinality(Recording(d)')
              = Cardinality(Recording(d)) + (IF r \in Recording(d)' THEN 1 ELSE 0)
                                          - (IF r \in Recording(d) THEN 1 ELSE 0)
<1>1. Recording(d) \ {r} = Recording(d)' \ {r}
  BY DEF Recording, Cur
<1> QED BY <1>1, DifferByOne

\* The numbers of the books.
LEMMA BookTypes ==
  ASSUME Sound, NEW d \in Deliveries, IsFiniteSet(Recording(d))
  PROVE  /\ Owed(d) \in Nat /\ Count(d) \in Nat
         /\ failures[d] \in 0..MaxRetries /\ live[d].seen \in Nat
         /\ CallRecords(d) \in {0, 1}
         /\ \A r \in Recording(d) : rec[r].seen \in Nat
<1>1. Cardinality(Recording(d)) \in Nat
  BY FS_CardinalityType
<1>2. CallRecords(d) \in {0, 1}
  BY DEF CallRecords
<1>3. Owed(d) \in Nat
  BY <1>1, <1>2 DEF Owed
<1>4. Count(d) \in Nat
  BY DEF Count, Sound, Types
<1>5. failures[d] \in 0..MaxRetries /\ live[d].seen \in Nat
  BY DEF Sound, Types, Calls
<1>6. \A r \in Recording(d) : rec[r].seen \in Nat
  BY DEF Recording, Sound, Types, Works
<1> QED BY <1>2, <1>3, <1>4, <1>5, <1>6

\* The books stay in order where the owed grow by no more than the failures.
LEMMA BooksKept ==
  ASSUME Sound, Sound', NEW d \in Deliveries, Books(d), IsFiniteSet(Recording(d)),
         IsFiniteSet(Recording(d)'),
         Count(d)' <= Count(d),
         live'[d].pc = "rewriting" => live[d].pc = "rewriting" /\ live'[d].seen = live[d].seen,
         \A r \in Recording(d)' : rec'[r].pc = "rewriting" =>
            r \in Recording(d) /\ rec[r].pc = "rewriting" /\ rec'[r].seen = rec[r].seen,
         failures'[d] # MaxRetries =>
           /\ failures[d] # MaxRetries
           /\ Owed(d)' - Owed(d) <= failures'[d] - failures[d]
  PROVE  Books(d)'
<1>1. /\ Owed(d) \in Nat /\ Count(d) \in Nat
      /\ failures[d] \in 0..MaxRetries /\ live[d].seen \in Nat
      /\ \A r \in Recording(d) : rec[r].seen \in Nat
  BY BookTypes
<1>2. /\ Owed(d)' \in Nat /\ Count(d)' \in Nat
      /\ failures'[d] \in 0..MaxRetries
  <2>1. Owed(d)' \in Nat
    <3>1. Cardinality(Recording(d)') \in Nat
      BY FS_CardinalityType
    <3>2. CallRecords(d)' \in {0, 1}
      BY DEF CallRecords
    <3> QED BY <3>1, <3>2 DEF Owed
  <2>2. Count(d)' \in Nat /\ failures'[d] \in 0..MaxRetries
    BY DEF Count, Sound, Types
  <2> QED BY <2>1, <2>2
<1>3. MaxRetries \in Nat
  BY DeliveryAssumption
<1> QED BY <1>1, <1>2, <1>3 DEF Books

\* A failure that is counted lets one more be owed.
LEMMA Counted ==
  ASSUME failures \in [Deliveries -> 0..MaxRetries], NEW d \in Deliveries, CountFailure(d)
  PROVE  /\ failures'[d] # MaxRetries =>
              failures[d] # MaxRetries /\ failures'[d] = failures[d] + 1
         /\ \A e \in Deliveries \ {d} : failures'[e] = failures[e]
BY DeliveryAssumption DEF CountFailure

\* The step of a call counts no attempt that did not fail.
LEMMA CallAccounted ==
  ASSUME Sound, FiniteRecording, Accounted, NEW d \in Deliveries, Begin(d) \/ LiveStep(d)
  PROVE  FiniteRecording' /\ Accounted'
<1>0. /\ live \in [Deliveries -> Calls]
      /\ disk \in [Deliveries -> Nat \cup {Absent}]
      /\ failures \in [Deliveries -> 0..MaxRetries]
      /\ IsFiniteSet(Recording(d)) /\ Books(d)
      /\ Sound'
  BY CallSound DEF Sound, Types, FiniteRecording, Accounted
<1>1. UNCHANGED rec
  BY DEF Begin, LiveStep, Persist, PersistFails, SentAll, SentPart, SendThrows, SendAborted,
         SendTimesOut, LiveAck, LiveFailRead, LiveFailWrite, LiveGivesUp
<1>2. \A e \in Deliveries : Recording(e)' = Recording(e)
  BY <1>1 DEF Recording, Cur
<1>3. Owed(d)' - Owed(d) = CallRecords(d)' - CallRecords(d)
  <2>1. Cardinality(Recording(d)) \in Nat
    BY <1>0, FS_CardinalityType
  <2>2. CallRecords(d) \in {0, 1} /\ CallRecords(d)' \in {0, 1}
    BY DEF CallRecords
  <2> QED BY <1>2, <2>1, <2>2 DEF Owed
<1>4. ASSUME Count(d)' <= Count(d),
             live'[d].pc = "rewriting" => live[d].pc = "rewriting" /\ live'[d].seen = live[d].seen,
             failures'[d] # MaxRetries =>
               /\ failures[d] # MaxRetries
               /\ CallRecords(d)' - CallRecords(d) <= failures'[d] - failures[d]
      PROVE  Books(d)'
  BY <1>0, <1>1, <1>2, <1>3, <1>4, BooksKept
<1>5. Count(d) \in Nat /\ CallRecords(d) \in {0, 1} /\ failures[d] \in Int
  BY <1>0, BookTypes
<1>6. \A e \in Deliveries \ {d} : live'[e] = live[e] /\ disk'[e] = disk[e] /\ failures'[e] = failures[e]
  <2>1. \A e \in Deliveries \ {d} : failures'[e] = failures[e] /\ disk'[e] = disk[e]
    BY <1>0 DEF Begin, LiveStep, Persist, PersistFails, SentAll, SentPart, SendThrows, SendAborted,
           SendTimesOut, LiveAck, LiveFailRead, LiveFailWrite, LiveGivesUp, CountFailure,
           AckDelivery, WriteFailure
  <2>2. \A e \in Deliveries \ {d} : live'[e] = live[e]
    BY <1>0 DEF Begin, LiveStep, Persist, PersistFails, SentAll, SentPart, SendThrows, SendAborted,
           SendTimesOut, LiveAck, LiveFailRead, LiveFailWrite, LiveGivesUp, Goto, After
  <2> QED BY <2>1, <2>2
<1>7. \A e \in Deliveries \ {d} : Books(e)'
  BY <1>1, <1>2, <1>6 DEF Accounted, Books, Count, Owed, CallRecords
<1>8. Books(d)'
  <2>1. CASE Begin(d)
    <3>1. live'[d].pc = "writing" /\ UNCHANGED <<disk, failures>>
      BY <1>0, <2>1, CallGoes DEF Begin, CallPcs
    <3> QED BY <1>4, <1>5, <3>1 DEF Count, CallRecords
  <2>2. CASE Persist(d)
    <3>1. live'[d].pc = "sending" /\ disk'[d] = 0 /\ UNCHANGED failures
      BY <1>0, <2>2, CallQueued DEF Persist
    <3>2. Count(d)' = 0
      BY <3>1 DEF Count, Absent
    <3> QED BY <1>4, <1>5, <3>1, <3>2 DEF CallRecords
  <2>3. CASE PersistFails(d)
    <3>1. live'[d].pc = "sending" /\ UNCHANGED <<disk, failures>>
      BY <1>0, <2>3, CallGoes DEF PersistFails, CallPcs
    <3> QED BY <1>4, <1>5, <3>1 DEF Count, CallRecords
  <2>4. CASE SentAll(d) \/ SendAborted(d) \/ SendTimesOut(d)
    <3>1. live'[d].pc \in {"acking", "done"} /\ UNCHANGED <<disk, failures>>
      BY <1>0, <2>4, CallGoes DEF SentAll, SendAborted, SendTimesOut, After, CallPcs
    <3> QED BY <1>4, <1>5, <3>1 DEF Count, CallRecords
  <2>5. CASE SentPart(d) \/ SendThrows(d)
    <3>1. /\ live[d].pc = "sending" /\ live'[d].pc \in {"acking", "failing", "done"}
          /\ CountFailure(d) /\ UNCHANGED disk
      BY <1>0, <2>5, CallGoes DEF SentPart, SendThrows, After, CallPcs
    <3>2. failures'[d] # MaxRetries => failures[d] # MaxRetries /\ failures'[d] = failures[d] + 1
      BY <1>0, <3>1, Counted
    <3>3. CallRecords(d) = 0 /\ CallRecords(d)' \in {0, 1}
      BY <3>1 DEF CallRecords
    <3> QED BY <1>4, <1>5, <3>1, <3>2, <3>3 DEF Count
  <2>6. CASE LiveAck(d)
    <3>1. live'[d].pc = "done" /\ disk'[d] = Absent /\ UNCHANGED failures
      BY <1>0, <2>6, CallGoes DEF LiveAck, AckDelivery, CallPcs
    <3>2. Count(d)' = 0
      BY <3>1 DEF Count, Absent
    <3> QED BY <1>4, <1>5, <3>1, <3>2 DEF CallRecords
  <2>7. CASE LiveFailRead(d)
    <3>1. disk[d] \in Nat /\ disk[d] # Absent
      BY <1>0, <2>7 DEF LiveFailRead
    <3>2. /\ live[d].pc = "failing" /\ live'[d].pc = "rewriting" /\ live'[d].seen = disk[d]
          /\ UNCHANGED <<disk, failures>>
      BY <1>0, <2>7, <3>1, CallReads DEF LiveFailRead
    <3>3. Count(d)' = Count(d) /\ live'[d].seen = Count(d)
      BY <3>1, <3>2 DEF Count
    <3>4. Owed(d)' = Owed(d)
      BY <1>2, <3>2 DEF Owed, CallRecords
    <3> QED BY <1>0, <1>1, <1>2, <3>2, <3>3, <3>4 DEF Books
  <2>8. CASE LiveFailWrite(d)
    <3>1. live[d].seen \in Nat
      BY <1>0 DEF Calls
    <3>2. /\ live[d].pc = "rewriting" /\ live'[d].pc = "done" /\ disk'[d] = live[d].seen + 1
          /\ UNCHANGED failures
      BY <1>0, <2>8, CallGoes DEF LiveFailWrite, WriteFailure, CallPcs
    <3>3. Count(d)' = live[d].seen + 1
      BY <3>1, <3>2 DEF Count, Absent
    <3>4. Owed(d) \in Nat /\ Cardinality(Recording(d)) \in Nat
      BY <1>0, BookTypes, FS_CardinalityType
    <3>5. Owed(d) = Cardinality(Recording(d)) + 1 /\ Owed(d)' = Cardinality(Recording(d))
      BY <1>2, <3>2, <3>4 DEF Owed, CallRecords
    <3>6. \A r \in Recording(d) : rec[r].seen \in Nat
      BY <1>0, BookTypes
    <3> QED BY <1>0, <1>1, <1>2, <1>5, <3>1, <3>2, <3>3, <3>4, <3>5, <3>6 DEF Books
  <2>9. CASE LiveGivesUp(d)
    <3>1. live'[d].pc = "done" /\ UNCHANGED <<disk, failures>>
      BY <1>0, <2>9, CallGoes DEF LiveGivesUp, CallPcs
    <3> QED BY <1>4, <1>5, <3>1 DEF Count, CallRecords
  <2> QED BY <2>1, <2>2, <2>3, <2>4, <2>5, <2>6, <2>7, <2>8, <2>9 DEF LiveStep
<1> QED BY <1>2, <1>7, <1>8 DEF FiniteRecording, Accounted

\* What a recovery's step does to its own place, the others' staying.
LEMMA RecPlace ==
  ASSUME Sound, NEW r \in Recoveries,
         Load(r) \/ RecoveryEnds(r) \/ Take(r) \/ Send(r) \/ Record(r) \/ Restart(r)
  PROVE  /\ UNCHANGED live
         /\ \A q \in Recoveries \ {r} : rec'[q] = rec[q]
         /\ Load(r) => \E entries \in Pending : rec'[r].pc = "next" /\ rec'[r].todo = entries
         /\ RecoveryEnds(r) => rec'[r].pc = "idle" /\ rec'[r].todo = <<>>
         /\ TakeExhausted(r) => rec'[r].pc = "moving" /\ rec'[r].todo = rec[r].todo
         /\ TakeEligible(r) => rec'[r].pc = "sending" /\ rec'[r].todo = rec[r].todo
         /\ RecSentAll(r) \/ RecSentPart(r) => rec'[r].pc = "acking" /\ rec'[r].todo = rec[r].todo
         /\ RecSendThrows(r) \/ RecAckFails(r) =>
              /\ rec'[r].todo = rec[r].todo
              /\ \/ rec'[r].pc = "failing" /\ CountFailure(Cur(r).id)
                 \/ /\ rec'[r].pc = "moving"
                    /\ failures' = [failures EXCEPT ![Cur(r).id] = MaxRetries]
         /\ RecFailRead(r) => /\ rec'[r].pc = "rewriting" /\ rec'[r].todo = rec[r].todo
                              /\ rec'[r].seen = disk[Cur(r).id] /\ disk[Cur(r).id] \in Nat
         /\ Restart(r) => rec'[r].pc = "loading" /\ rec'[r].todo = rec[r].todo
         /\ TakeDeferred(r) \/ RecAck(r) \/ RecFailWrite(r) \/ RecMove(r) \/ RecGivesUp(r) =>
              rec'[r].pc = "next" /\ rec[r].todo # <<>> /\ rec'[r].todo = Tail(rec[r].todo)
<1>0. /\ rec \in [Recoveries -> Works]
      /\ disk \in [Deliveries -> Nat \cup {Absent}]
      /\ rec[r].pc \in {"sending", "acking", "failing", "rewriting", "moving"} =>
           rec[r].todo # <<>> /\ Cur(r).id \in Deliveries
  BY EntryInHand DEF Sound, Types, InHand
<1> DEFINE Others == UNCHANGED live /\ \A q \in Recoveries \ {r} : rec'[q] = rec[q]
<1>1. ASSUME Load(r)
      PROVE  Others /\ \E entries \in Pending : rec'[r].pc = "next" /\ rec'[r].todo = entries
  <2>1. PICK entries \in Pending : rec' = [rec EXCEPT ![r].pc = "next", ![r].todo = entries]
    BY <1>1 DEF Load
  <2>2. entries \in Seq(Entries)
    BY PendingEntries DEF Sound
  <2> QED BY <1>0, <1>1, <2>1, <2>2, RecLoads DEF Load
<1>2. ASSUME RecoveryEnds(r) PROVE Others /\ rec'[r].pc = "idle" /\ rec'[r].todo = <<>>
  BY <1>0, <1>2, RecRests DEF RecoveryEnds
<1>3. ASSUME TakeExhausted(r)
      PROVE  Others /\ rec'[r].pc = "moving" /\ rec'[r].todo = rec[r].todo
  BY <1>0, <1>3, RecGoes DEF TakeExhausted, RecPcs
<1>4. ASSUME TakeEligible(r)
      PROVE  Others /\ rec'[r].pc = "sending" /\ rec'[r].todo = rec[r].todo
  BY <1>0, <1>4, RecGoes DEF TakeEligible, RecPcs
<1>5. ASSUME RecSentAll(r) \/ RecSentPart(r)
      PROVE  Others /\ rec'[r].pc = "acking" /\ rec'[r].todo = rec[r].todo
  <2>1. RecGoto(r, "acking") /\ UNCHANGED live
    BY <1>5 DEF RecSentAll, RecSentPart
  <2> QED BY <1>0, <2>1, RecGoes DEF RecPcs
<1>6. ASSUME RecSendThrows(r) \/ RecAckFails(r)
      PROVE  /\ Others /\ rec'[r].todo = rec[r].todo
             /\ \/ rec'[r].pc = "failing" /\ CountFailure(Cur(r).id)
                \/ /\ rec'[r].pc = "moving"
                   /\ failures' = [failures EXCEPT ![Cur(r).id] = MaxRetries]
  <2>1. UNCHANGED live
    BY <1>6 DEF RecSendThrows, RecAckFails
  <2>2. CASE RecGoto(r, "failing") /\ CountFailure(Cur(r).id)
    BY <1>0, <2>1, <2>2, RecGoes DEF RecPcs
  <2>3. CASE RecGoto(r, "moving") /\ failures' = [failures EXCEPT ![Cur(r).id] = MaxRetries]
    BY <1>0, <2>1, <2>3, RecGoes DEF RecPcs
  <2> QED BY <1>6, <2>2, <2>3 DEF RecSendThrows, RecAckFails
<1>7. ASSUME RecFailRead(r)
      PROVE  /\ Others /\ rec'[r].pc = "rewriting" /\ rec'[r].todo = rec[r].todo
             /\ rec'[r].seen = disk[Cur(r).id] /\ disk[Cur(r).id] \in Nat
  <2>1. disk[Cur(r).id] \in Nat /\ UNCHANGED live
    BY <1>0, <1>7 DEF RecFailRead
  <2>2. rec' = [rec EXCEPT ![r].pc = "rewriting", ![r].seen = disk[Cur(r).id]]
    BY <1>7 DEF RecFailRead
  <2> QED BY <1>0, <2>1, <2>2, RecReads
<1>8. ASSUME Restart(r) PROVE Others /\ rec'[r].pc = "loading" /\ rec'[r].todo = rec[r].todo
  BY <1>0, <1>8, RecGoes DEF Restart, RecPcs
<1>9. ASSUME TakeDeferred(r) \/ RecAck(r) \/ RecFailWrite(r) \/ RecMove(r) \/ RecGivesUp(r)
      PROVE  Others /\ rec'[r].pc = "next" /\ rec[r].todo # <<>> /\ rec'[r].todo = Tail(rec[r].todo)
  <2>1. UNCHANGED live /\ rec[r].todo # <<>> /\ \E tried \in BOOLEAN : NextEntry(r, tried)
    BY <1>0, <1>9 DEF TakeDeferred, RecAck, RecFailWrite, RecMove, RecGivesUp
  <2> QED BY <1>0, <2>1, RecNext
<1> HIDE DEF Others
<1>10. Others
  BY <1>1, <1>2, <1>3, <1>4, <1>5, <1>6, <1>7, <1>8, <1>9 DEF Take, Send, Record
<1> QED BY <1>1, <1>2, <1>3, <1>4, <1>5, <1>6, <1>7, <1>8, <1>9, <1>10 DEF Others

\* Failures are never forgotten.
FailuresGrow ==
  \A d \in Deliveries : failures'[d] # MaxRetries =>
    failures[d] # MaxRetries /\ failures[d] <= failures'[d]

\* A recovery's step takes no failure back.
LEMMA RecFailuresGrow ==
  ASSUME Sound, NEW r \in Recoveries,
         Load(r) \/ RecoveryEnds(r) \/ Take(r) \/ Send(r) \/ Record(r) \/ Restart(r)
  PROVE  FailuresGrow
<1>1. failures \in [Deliveries -> 0..MaxRetries] /\ MaxRetries \in Nat
  BY DeliveryAssumption DEF Sound, Types
<1>2. CASE RecSendThrows(r) \/ RecAckFails(r)
  <2>1. Cur(r).id \in Deliveries
    BY <1>2, EntryInHand DEF RecSendThrows, RecAckFails, Sound, InHand
  <2>2. \/ CountFailure(Cur(r).id)
        \/ failures' = [failures EXCEPT ![Cur(r).id] = MaxRetries]
    BY <1>2, RecPlace
  <2> QED BY <1>1, <2>1, <2>2 DEF FailuresGrow, CountFailure
<1>3. CASE ~(RecSendThrows(r) \/ RecAckFails(r))
  <2>1. UNCHANGED failures
    BY <1>3 DEF Load, RecoveryEnds, Take, TakeExhausted, TakeDeferred, TakeEligible, Send,
       RecSentAll, RecSentPart, Record, RecAck, RecFailRead, RecFailWrite, RecMove, RecGivesUp,
       Restart
  <2> QED BY <1>1, <2>1 DEF FailuresGrow
<1> QED BY <1>2, <1>3

\* The step of a recovery counts no attempt that did not fail.
LEMMA RecAccounted ==
  ASSUME Sound, FiniteRecording, Accounted, NEW r \in Recoveries,
         Load(r) \/ RecoveryEnds(r) \/ Take(r) \/ Send(r) \/ Record(r) \/ Restart(r)
  PROVE  FiniteRecording' /\ Accounted'
<1>0. /\ Sound' /\ UNCHANGED live
      /\ \A q \in Recoveries \ {r} : rec'[q] = rec[q]
      /\ \A e \in Deliveries : IsFiniteSet(Recording(e)) /\ Books(e)
      /\ failures \in [Deliveries -> 0..MaxRetries]
      /\ disk \in [Deliveries -> Nat \cup {Absent}]
      /\ rec[r].pc \in {"sending", "acking", "failing", "rewriting", "moving"} =>
           rec[r].todo # <<>> /\ Cur(r).id \in Deliveries
  BY RecSound, RecPlace, EntryInHand DEF FiniteRecording, Accounted, Sound, Types, InHand
<1>1. \A e \in Deliveries :
        /\ IsFiniteSet(Recording(e)')
        /\ Owed(e) \in Nat /\ Owed(e)' \in Nat
        /\ Owed(e)' = Owed(e) + (IF r \in Recording(e)' THEN 1 ELSE 0)
                              - (IF r \in Recording(e) THEN 1 ELSE 0)
  <2> SUFFICES ASSUME NEW e \in Deliveries
               PROVE  /\ IsFiniteSet(Recording(e)')
                      /\ Owed(e) \in Nat /\ Owed(e)' \in Nat
                      /\ Owed(e)' = Owed(e) + (IF r \in Recording(e)' THEN 1 ELSE 0)
                                            - (IF r \in Recording(e) THEN 1 ELSE 0)
    OBVIOUS
  <2>1. /\ IsFiniteSet(Recording(e)')
        /\ Cardinality(Recording(e)) \in Nat /\ Cardinality(Recording(e)') \in Nat
        /\ Cardinality(Recording(e)')
              = Cardinality(Recording(e)) + (IF r \in Recording(e)' THEN 1 ELSE 0)
                                          - (IF r \in Recording(e) THEN 1 ELSE 0)
    BY <1>0, RecordingStep
  <2>2. CallRecords(e) \in {0, 1} /\ CallRecords(e)' = CallRecords(e)
    BY <1>0 DEF CallRecords
  <2> QED BY <2>1, <2>2 DEF Owed
<1>2. \A e \in Deliveries, q \in Recoveries \ {r} : q \in Recording(e)' => q \in Recording(e)
  BY <1>0 DEF Recording, Cur
<1>3. FailuresGrow /\ \A e \in Deliveries : failures[e] \in Int /\ failures'[e] \in Int
                                            /\ Count(e) \in Nat
  <2>1. \A e \in Deliveries : failures[e] \in Int /\ failures'[e] \in Int
    BY <1>0 DEF Sound, Types
  <2> QED BY <1>0, <2>1, RecFailuresGrow, BookTypes
<1>4. ASSUME rec'[r].pc \notin {"failing", "rewriting"},
             \A e \in Deliveries : Count(e)' <= Count(e)
      PROVE  Accounted'
  <2> SUFFICES ASSUME NEW e \in Deliveries PROVE Books(e)'
    BY DEF Accounted
  <2>1. r \notin Recording(e)'
    BY <1>4 DEF Recording
  <2>2. \A q \in Recording(e)' : q \in Recording(e) /\ rec'[q] = rec[q]
    <3>1. \A q \in Recording(e)' : q \in Recoveries \ {r}
      BY <2>1 DEF Recording
    <3> QED BY <1>0, <1>2, <3>1
  <2>3. failures'[e] # MaxRetries =>
           failures[e] # MaxRetries /\ Owed(e)' - Owed(e) <= failures'[e] - failures[e]
    BY <1>1, <1>3, <2>1 DEF FailuresGrow
  <2> QED BY <1>0, <1>1, <1>4, <2>2, <2>3, BooksKept
<1>5. FiniteRecording'
  BY <1>1 DEF FiniteRecording
<1>6. CASE Load(r) \/ RecoveryEnds(r) \/ Take(r) \/ RecSentAll(r) \/ RecSentPart(r) \/ Restart(r)
  <2>1. UNCHANGED disk
    BY <1>6 DEF Load, RecoveryEnds, Take, TakeExhausted, TakeDeferred, TakeEligible,
       RecSentAll, RecSentPart, Restart
  <2>2. \A e \in Deliveries : Count(e)' <= Count(e)
    BY <1>3, <2>1 DEF Count
  <2>3. rec'[r].pc \notin {"failing", "rewriting"}
    BY <1>6, RecPlace DEF Take
  <2> QED BY <1>4, <1>5, <2>2, <2>3
<1>7. CASE RecAck(r) \/ RecMove(r) \/ RecGivesUp(r)
  <2>1. \A e \in Deliveries : disk'[e] = Absent \/ disk'[e] = disk[e]
    BY <1>0, <1>7 DEF RecAck, AckDelivery, RecMove, MoveToFailed, RecGivesUp
  <2>2. \A e \in Deliveries : Count(e)' <= Count(e)
    BY <1>3, <2>1 DEF Count
  <2>3. rec'[r].pc = "next"
    BY <1>7, RecPlace
  <2> QED BY <1>4, <1>5, <2>2, <2>3
<1>8. CASE RecSendThrows(r) \/ RecAckFails(r)
  <2>1. UNCHANGED disk /\ rec[r].pc \in {"sending", "acking"}
    BY <1>8 DEF RecSendThrows, RecAckFails
  <2>2. \A e \in Deliveries : Count(e)' <= Count(e)
    BY <1>3, <2>1 DEF Count
  <2>3. rec'[r].todo = rec[r].todo /\
        \/ rec'[r].pc = "failing" /\ CountFailure(Cur(r).id)
        \/ rec'[r].pc = "moving"
    BY <1>8, RecPlace
  <2>4. CASE rec'[r].pc = "moving"
    BY <1>4, <1>5, <2>2, <2>4
  <2>5. CASE rec'[r].pc = "failing" /\ CountFailure(Cur(r).id)
    <3> SUFFICES ASSUME NEW e \in Deliveries PROVE Books(e)'
      BY <1>5 DEF Accounted
    <3>1. r \in Recording(e)' <=> e = Cur(r).id
      BY <2>3, <2>5 DEF Recording, Cur
    <3>2. r \notin Recording(e)
      BY <2>1 DEF Recording
    <3>3. failures'[e] # MaxRetries =>
             failures[e] # MaxRetries /\ Owed(e)' - Owed(e) <= failures'[e] - failures[e]
      <4>1. CASE e = Cur(r).id
        <5>1. failures'[e] # MaxRetries => failures[e] # MaxRetries /\ failures'[e] = failures[e] + 1
          BY <1>0, <2>5, <4>1, Counted
        <5> QED BY <1>1, <1>3, <3>1, <3>2, <4>1, <5>1
      <4>2. CASE e # Cur(r).id
        BY <1>1, <1>3, <3>1, <3>2, <4>2 DEF FailuresGrow
      <4> QED BY <4>1, <4>2
    <3>4. \A q \in Recording(e)' : rec'[q].pc = "rewriting" =>
            q \in Recording(e) /\ rec[q].pc = "rewriting" /\ rec'[q].seen = rec[q].seen
      <4>1. \A q \in Recording(e)' : q \in Recoveries
        BY DEF Recording
      <4> QED BY <1>0, <1>2, <2>5, <4>1
    <3> QED BY <1>0, <1>1, <2>2, <3>3, <3>4, BooksKept
  <2> QED BY <2>3, <2>4, <2>5
<1>9. CASE RecFailRead(r)
  <2>1. /\ UNCHANGED <<disk, failures>> /\ rec[r].pc = "failing"
        /\ rec'[r].pc = "rewriting" /\ rec'[r].todo = rec[r].todo
        /\ rec'[r].seen = disk[Cur(r).id] /\ disk[Cur(r).id] \in Nat
    BY <1>9, RecPlace DEF RecFailRead
  <2> SUFFICES ASSUME NEW e \in Deliveries PROVE Books(e)'
    BY <1>5 DEF Accounted
  <2>2. Recording(e)' = Recording(e)
    BY <1>0, <2>1 DEF Recording, Cur
  <2>3. Owed(e)' = Owed(e) /\ Count(e)' = Count(e)
    BY <1>1, <2>1, <2>2 DEF Count
  <2>4. r \in Recording(e) => rec'[r].seen = Count(e)
    BY <2>1 DEF Recording, Count, Absent
  <2>5. \A q \in Recording(e) : q = r \/ rec'[q] = rec[q]
    BY <1>0 DEF Recording
  <2> QED BY <1>0, <2>1, <2>2, <2>3, <2>4, <2>5 DEF Books
<1>10. CASE RecFailWrite(r)
  <2>1. /\ rec[r].pc = "rewriting" /\ rec'[r].pc = "next"
        /\ disk' = [disk EXCEPT ![Cur(r).id] = rec[r].seen + 1] /\ UNCHANGED failures
        /\ Cur(r).id \in Deliveries
    BY <1>0, <1>10, RecPlace DEF RecFailWrite, WriteFailure
  <2>2. rec[r].seen \in Nat
    BY DEF Sound, Types, Works
  <2> SUFFICES ASSUME NEW e \in Deliveries PROVE Books(e)'
    BY <1>5 DEF Accounted
  <2>3. r \notin Recording(e)' /\ (r \in Recording(e) <=> e = Cur(r).id)
    BY <2>1 DEF Recording
  <2>4. \A q \in Recording(e)' : q \in Recording(e) /\ rec'[q] = rec[q]
    <3>1. \A q \in Recording(e)' : q \in Recoveries \ {r}
      BY <2>3 DEF Recording
    <3> QED BY <1>0, <1>2, <3>1
  <2>5. CASE e # Cur(r).id
    <3>1. Count(e)' = Count(e) /\ Owed(e)' = Owed(e)
      BY <1>0, <1>1, <2>1, <2>3, <2>5 DEF Count
    <3> QED BY <1>0, <2>1, <2>4, <3>1 DEF Books
  <2>6. CASE e = Cur(r).id
    <3>1. Count(e)' = rec[r].seen + 1
      BY <1>0, <2>1, <2>2, <2>6 DEF Count, Absent
    <3>2. Owed(e)' = Owed(e) - 1
      BY <1>1, <2>3, <2>6
    <3>3. /\ live[e].seen \in Nat
          /\ \A q \in Recording(e) : rec[q].seen \in Nat
      BY <1>0, BookTypes
    <3>4. /\ Owed(e) \in Nat /\ Owed(e)' \in Nat
          /\ failures[e] \in Int /\ failures'[e] = failures[e]
          /\ r \in Recording(e)
      BY <1>1, <1>3, <2>1, <2>3, <2>6
    <3>5. failures[e] # MaxRetries =>
            /\ rec[r].seen + Owed(e) <= failures[e]
            /\ live[e].pc = "rewriting" => live[e].seen + Owed(e) <= failures[e]
            /\ \A q \in Recording(e) :
                 rec[q].pc = "rewriting" => rec[q].seen + Owed(e) <= failures[e]
      BY <1>0, <2>1, <3>4 DEF Books
    <3>6. failures[e] # MaxRetries => Count(e)' + Owed(e)' <= failures[e]
      BY <2>2, <3>1, <3>2, <3>4, <3>5
    <3>7. failures[e] # MaxRetries /\ live[e].pc = "rewriting" =>
            live[e].seen + Owed(e)' <= failures[e]
      BY <3>2, <3>3, <3>4, <3>5
    <3>8. \A q \in Recording(e) : failures[e] # MaxRetries /\ rec[q].pc = "rewriting" =>
            rec[q].seen + Owed(e)' <= failures[e]
      BY <3>2, <3>3, <3>4, <3>5
    <3> HIDE DEF Recording, Owed, Count
    <3> QED BY <1>0, <2>4, <3>4, <3>6, <3>7, <3>8 DEF Books
  <2> QED BY <2>5, <2>6
<1> QED BY <1>6, <1>7, <1>8, <1>9, <1>10 DEF Send, Record

\* An empty set of those who have yet to record a failure counts nothing.
LEMMA NoneRecording ==
  ASSUME NEW S, S = {}
  PROVE  IsFiniteSet(S) /\ Cardinality(S) = 0
BY FS_EmptySet

\* After a crash nobody has a failure yet to record.
LEMMA CrashAccounted ==
  ASSUME Sound, FiniteRecording, Accounted, Crash
  PROVE  FiniteRecording' /\ Accounted'
<1>1. \A e \in Deliveries : Recording(e)' = {}
  BY CrashEffect DEF Recording, Sound
<1>2. ASSUME NEW e \in Deliveries PROVE IsFiniteSet(Recording(e)') /\ Owed(e)' = 0
  <2>1. IsFiniteSet(Recording(e)') /\ Cardinality(Recording(e)') = 0
    BY <1>1, NoneRecording
  <2>2. CallRecords(e)' = 0
    BY CrashEffect DEF CallRecords, Sound
  <2> QED BY <2>1, <2>2 DEF Owed
<1>3. ASSUME NEW e \in Deliveries PROVE Books(e)'
  <2>1. Books(e) /\ Owed(e) \in Nat /\ Count(e) \in Nat /\ failures[e] \in Int
    BY BookTypes DEF Accounted, FiniteRecording
  <2>2. Count(e)' = Count(e) /\ failures'[e] = failures[e]
    BY DEF Count, Crash
  <2>3. live'[e].pc # "rewriting"
    BY CrashEffect DEF Sound
  <2> QED BY <1>1, <1>2, <2>1, <2>2, <2>3 DEF Books
<1> QED BY <1>2, <1>3 DEF FiniteRecording, Accounted

-----------------------------------------------------------------------------
(***************************************************************************)
(* The counts a recovery goes by.                                          *)
(***************************************************************************)

\* The types of a loaded entry and of the failures of its message.
LEMMA LoadedTypes ==
  ASSUME Sound, NEW r \in Recoveries, NEW i \in 1..Len(rec[r].todo)
  PROVE  /\ rec[r].todo[i].id \in Deliveries /\ rec[r].todo[i].retryCount \in Nat
         /\ failures[rec[r].todo[i].id] \in Nat
<1> DEFINE s == rec[r].todo
<1>1. s \in Seq(Entries)
  BY DEF Sound, Types, Works
<1>2. s[i] \in Entries
  <2> HIDE DEF s
  <2>1. i \in 1..Len(s)
    BY DEF s
  <2> QED BY <1>1, <2>1
<1> QED BY <1>2, DeliveryAssumption DEF Entries, Sound, Types

\* They stay honest while entries are only dropped and failures only added.
LEMMA LoadedKept ==
  ASSUME Sound, Sound', LoadedCounts, FailuresGrow, NEW r \in Recoveries,
         \A q \in Recoveries \ {r} : rec'[q] = rec[q],
         \/ rec'[r].todo = rec[r].todo \/ rec'[r].todo = <<>>
         \/ rec[r].todo # <<>> /\ rec'[r].todo = Tail(rec[r].todo)
  PROVE  LoadedCounts'
<1> SUFFICES ASSUME NEW q \in Recoveries, NEW i \in 1..Len(rec'[q].todo),
                    failures'[rec'[q].todo[i].id] # MaxRetries
             PROVE  rec'[q].todo[i].retryCount <= failures'[rec'[q].todo[i].id]
  BY DEF LoadedCounts
<1>1. PICK j \in 1..Len(rec[q].todo) : rec'[q].todo[i] = rec[q].todo[j]
  <2>1. CASE rec'[q].todo = rec[q].todo
    BY <2>1
  <2>2. CASE rec'[q].todo = <<>>
    BY <2>2
  <2>3. CASE q = r /\ rec[r].todo # <<>> /\ rec'[r].todo = Tail(rec[r].todo)
    BY <2>3, EntryInHand DEF Sound
  <2> QED BY <2>1, <2>2, <2>3
<1>2. /\ rec[q].todo[j].id \in Deliveries /\ rec[q].todo[j].retryCount \in Nat
      /\ failures[rec[q].todo[j].id] \in Nat
  BY LoadedTypes
<1>3. failures'[rec[q].todo[j].id] \in Nat
  BY <1>2, DeliveryAssumption DEF Sound, Types
<1>4. failures[rec[q].todo[j].id] # MaxRetries =>
         rec[q].todo[j].retryCount <= failures[rec[q].todo[j].id]
  BY DEF LoadedCounts
<1> QED BY <1>1, <1>2, <1>3, <1>4 DEF FailuresGrow

\* A recovery loads counts that are honest, for those on disk are.
LEMMA RecLoaded ==
  ASSUME Sound, FiniteRecording, Accounted, LoadedCounts, NEW r \in Recoveries,
         Load(r) \/ RecoveryEnds(r) \/ Take(r) \/ Send(r) \/ Record(r) \/ Restart(r)
  PROVE  LoadedCounts'
<1>0. Sound' /\ FailuresGrow /\ \A q \in Recoveries \ {r} : rec'[q] = rec[q]
  BY RecSound, RecFailuresGrow, RecPlace
<1>1. CASE Load(r)
  <2>1. PICK entries \in Pending : rec'[r].todo = entries
    BY <1>1, RecPlace
  <2>2. UNCHANGED failures
    BY <1>1 DEF Load
  <2> SUFFICES ASSUME NEW q \in Recoveries, NEW i \in 1..Len(rec'[q].todo),
                      failures[rec'[q].todo[i].id] # MaxRetries
               PROVE  rec'[q].todo[i].retryCount <= failures[rec'[q].todo[i].id]
    BY <2>2 DEF LoadedCounts
  <2>3. CASE q = r
    <3> DEFINE e == entries[i].id
    <3>1. e \in Deliveries /\ disk[e] \in Nat /\ entries[i].retryCount = disk[e]
      BY <2>1, <2>3, PendingEntries DEF Sound
    <3>2. Count(e) = disk[e]
      BY <3>1 DEF Count, Absent
    <3>3. Books(e) /\ Owed(e) \in Nat /\ failures[e] \in Int
      BY <3>1, BookTypes DEF Accounted, FiniteRecording
    <3>4. failures[e] # MaxRetries => Count(e) + Owed(e) <= failures[e]
      BY <3>3 DEF Books
    <3>5. rec'[q].todo[i] = entries[i] /\ failures[e] # MaxRetries
      BY <2>1, <2>3
    <3>6. entries[i].retryCount <= failures[e]
      BY <3>1, <3>2, <3>3, <3>4, <3>5
    <3> QED BY <3>5, <3>6
  <2>4. CASE q # r
    BY <1>0, <2>4 DEF LoadedCounts
  <2> QED BY <2>3, <2>4
<1>2. CASE ~Load(r)
  <2>1. \/ rec'[r].todo = rec[r].todo \/ rec'[r].todo = <<>>
        \/ rec[r].todo # <<>> /\ rec'[r].todo = Tail(rec[r].todo)
    BY <1>2, RecPlace DEF Take, Send, Record
  <2> QED BY <1>0, <2>1, LoadedKept
<1> QED BY <1>1, <1>2

-----------------------------------------------------------------------------
(***************************************************************************)
(* Messages are put aside for cause.                                       *)
(***************************************************************************)

\* What moves messages to failed/, and what it goes by.
Caused == LoadedCounts /\ MovesForCause

\* What has the failures it takes keeps them.
LEMMA CauseStays ==
  ASSUME Sound, FailuresGrow, NEW d \in Deliveries, failures[d] = MaxRetries
  PROVE  failures'[d] = MaxRetries
BY DEF FailuresGrow

\* A recovery moves an entry after a permanent error, or when the count it goes
\* by, which is no more than the failures there were, has reached the limit.
LEMMA RecCaused ==
  ASSUME Sound, FiniteRecording, Accounted, Caused, NEW r \in Recoveries,
         Load(r) \/ RecoveryEnds(r) \/ Take(r) \/ Send(r) \/ Record(r) \/ Restart(r)
  PROVE  Caused'
<1>0. /\ Sound' /\ FailuresGrow
      /\ \A q \in Recoveries \ {r} : rec'[q] = rec[q]
      /\ \A q \in Recoveries : rec[q].pc \in {"sending", "acking", "failing", "rewriting", "moving"} =>
           rec[q].todo # <<>> /\ Cur(q).id \in Deliveries
  BY RecSound, RecFailuresGrow, RecPlace, EntryInHand DEF Sound, InHand
<1>1. LoadedCounts'
  BY RecLoaded DEF Caused
<1>2. ASSUME NEW q \in Recoveries, rec'[q].pc = "moving" PROVE failures'[Cur(q)'.id] = MaxRetries
  <2>1. CASE q # r
    <3>1. rec'[q] = rec[q] /\ Cur(q)' = Cur(q)
      BY <1>0, <2>1 DEF Cur
    <3>2. Cur(q).id \in Deliveries /\ failures[Cur(q).id] = MaxRetries
      BY <1>0, <1>2, <3>1 DEF Caused, MovesForCause
    <3> QED BY <1>0, <3>1, <3>2, CauseStays
  <2>2. CASE q = r /\ TakeExhausted(r)
    <3>1. /\ rec[r].todo # <<>> /\ Cur(r).retryCount >= MaxRetries /\ UNCHANGED failures
          /\ rec'[r].todo = rec[r].todo
      BY <2>2, RecPlace DEF TakeExhausted
    <3>2. /\ 1 \in 1..Len(rec[r].todo) /\ Cur(r) = rec[r].todo[1]
          /\ Cur(r).id \in Deliveries /\ Cur(r).retryCount \in Nat
      BY <3>1, EntryInHand DEF Sound
    <3>3. failures[Cur(r).id] \in 0..MaxRetries /\ MaxRetries \in Nat
      BY <3>2, DeliveryAssumption DEF Sound, Types
    <3>4. failures[Cur(r).id] # MaxRetries => Cur(r).retryCount <= failures[Cur(r).id]
      BY <3>2 DEF Caused, LoadedCounts
    <3>5. failures[Cur(r).id] = MaxRetries
      BY <3>1, <3>2, <3>3, <3>4
    <3>6. Cur(r)' = Cur(r)
      BY <3>1 DEF Cur
    <3> QED BY <2>2, <3>1, <3>5, <3>6
  <2>3. CASE q = r /\ (RecSendThrows(r) \/ RecAckFails(r))
    <3>1. rec[r].pc \in {"sending", "acking"}
      BY <2>3 DEF RecSendThrows, RecAckFails
    <3>2. /\ rec'[r].todo = rec[r].todo
          /\ failures' = [failures EXCEPT ![Cur(r).id] = MaxRetries]
      BY <1>2, <2>3, RecPlace
    <3>3. Cur(r)' = Cur(r) /\ Cur(r).id \in Deliveries
      BY <1>0, <3>1, <3>2 DEF Cur
    <3> QED BY <2>3, <3>2, <3>3 DEF Sound, Types
  <2>4. CASE q = r /\ ~(TakeExhausted(r) \/ RecSendThrows(r) \/ RecAckFails(r))
    BY <1>2, <2>4, RecPlace DEF Take, Send, Record
  <2> QED BY <2>1, <2>2, <2>3, <2>4
<1>3. ASSUME NEW d \in failedDir' PROVE failures'[d] = MaxRetries
  <2>1. d \in Deliveries
    BY <1>0, <1>3 DEF Sound, Types
  <2>2. CASE d \in failedDir
    BY <1>0, <2>1, <2>2, CauseStays DEF Caused, MovesForCause
  <2>3. CASE d \notin failedDir
    <3>1. RecMove(r) /\ d = Cur(r).id
      BY <1>3, <2>3 DEF Load, RecoveryEnds, Take, TakeExhausted, TakeDeferred, TakeEligible, Send,
         RecSentAll, RecSentPart, RecSendThrows, Record, RecAck, RecAckFails, RecFailRead,
         RecFailWrite, RecMove, MoveToFailed, RecGivesUp, Restart
    <3>2. rec[r].pc = "moving" /\ UNCHANGED failures
      BY <3>1 DEF RecMove
    <3> QED BY <3>1, <3>2 DEF Caused, MovesForCause
  <2> QED BY <2>2, <2>3
<1> QED BY <1>1, <1>2, <1>3 DEF Caused, MovesForCause, Cur

\* The steps of a call put nothing aside, and add only failures.
LEMMA CallCaused ==
  ASSUME Sound, Caused, NEW d \in Deliveries, Begin(d) \/ LiveStep(d)
  PROVE  Caused'
<1>1. UNCHANGED <<rec, failedDir>> /\ (UNCHANGED failures \/ CountFailure(d))
  BY DEF Begin, LiveStep, Persist, PersistFails, SentAll, SentPart, SendThrows, SendAborted,
         SendTimesOut, LiveAck, LiveFailRead, LiveFailWrite, LiveGivesUp
<1>2. FailuresGrow
  <2>1. failures \in [Deliveries -> 0..MaxRetries] /\ MaxRetries \in Nat
    BY DeliveryAssumption DEF Sound, Types
  <2> QED BY <1>1, <2>1 DEF FailuresGrow, CountFailure
<1>3. Sound'
  BY CallSound
<1>4. LoadedCounts'
  <2>1. PICK r \in Recoveries : TRUE
    BY DeliveryAssumption
  <2> QED BY <1>1, <1>2, <1>3, <2>1, LoadedKept DEF Caused
<1>5. \A r \in Recoveries : rec[r].pc = "moving" => Cur(r).id \in Deliveries
  BY EntryInHand DEF Sound, InHand
<1>6. \A r \in Recoveries : rec'[r].pc = rec[r].pc /\ Cur(r)' = Cur(r)
  BY <1>1 DEF Cur
<1>7. \A r \in Recoveries : rec[r].pc = "moving" => failures'[Cur(r).id] = MaxRetries
  BY <1>2, <1>5, CauseStays DEF Caused, MovesForCause
<1>8. \A e \in failedDir : failures'[e] = MaxRetries
  BY <1>2, CauseStays DEF Caused, MovesForCause, Sound, Types
<1> QED BY <1>1, <1>4, <1>6, <1>7, <1>8 DEF Caused, MovesForCause

\* After a crash nothing is loaded.
LEMMA CrashCaused == Sound /\ Caused /\ Crash => Caused'
<1> SUFFICES ASSUME Sound, Caused, Crash PROVE Caused'
  OBVIOUS
<1>1. \A r \in Recoveries : rec'[r].todo = <<>> /\ rec'[r].pc # "moving"
  BY CrashEffect DEF Sound
<1>2. UNCHANGED <<failedDir, failures>>
  BY DEF Crash
<1>3. LoadedCounts'
  BY <1>1 DEF LoadedCounts
<1> QED BY <1>1, <1>2, <1>3 DEF Caused, MovesForCause

-----------------------------------------------------------------------------
(***************************************************************************)
(* The theorems about outbound messages.                                   *)
(***************************************************************************)

\* IInv, in the groups its steps are proved in.
LEMMA Groups == IInv <=> Sound /\ Kept /\ FiniteRecording /\ Accounted /\ Caused
BY DEF IInv, Sound, Kept, Caused

\* At the first start nothing is queued and one recovery is about to load.
LEMMA InitIInv == Init => IInv
<1> SUFFICES ASSUME Init PROVE IInv
  OBVIOUS
<1>1. PICK r \in Recoveries : rec = OnlyRecovery(r)
  BY DEF Init
<1>2. <<>> \in Seq(Entries)
  OBVIOUS
<1>3. /\ rec \in [Recoveries -> Works]
      /\ \A q \in Recoveries : rec[q].todo = <<>> /\ rec[q].pc \in {"idle", "loading"}
  BY <1>1, <1>2 DEF OnlyRecovery, Resting, Works, RecPcs
<1>4. /\ live \in [Deliveries -> Calls]
      /\ \A d \in Deliveries : live[d].pc = "new" /\ ~live[d].queued
  BY DEF Init, Calls, CallPcs
<1>5. Sound
  BY <1>3, <1>4, DeliveryAssumption DEF Init, Sound, Types, InHand
<1>6. Kept
  BY <1>3, <1>4 DEF Kept, AcksEarned, NoMessageLost
<1>7. \A d \in Deliveries : Recording(d) = {}
  BY <1>3 DEF Recording
<1>8. ASSUME NEW d \in Deliveries
      PROVE  /\ IsFiniteSet(Recording(d)) /\ Owed(d) = 0
             /\ Count(d) = 0 /\ failures[d] = 0
  <2>1. IsFiniteSet(Recording(d)) /\ Cardinality(Recording(d)) = 0
    BY <1>7, NoneRecording
  <2>2. CallRecords(d) = 0
    BY <1>4 DEF CallRecords
  <2>3. Owed(d) = 0
    BY <2>1, <2>2 DEF Owed
  <2>4. Count(d) = 0 /\ failures[d] = 0
    BY DEF Count, Init
  <2> QED BY <2>1, <2>3, <2>4
<1>9. FiniteRecording /\ Accounted
  BY <1>4, <1>7, <1>8 DEF FiniteRecording, Accounted, Books
<1>10. Caused
  BY <1>3 DEF Init, Caused, LoadedCounts, MovesForCause
<1> QED BY <1>5, <1>6, <1>9, <1>10, Groups

\* Every step of a call, of a recovery or of the process keeps IInv.
LEMMA NextIInv == IInv /\ [Next]_vars => IInv'
<1> SUFFICES ASSUME Sound, Kept, FiniteRecording, Accounted, Caused, [Next]_vars
             PROVE  Sound' /\ Kept' /\ FiniteRecording' /\ Accounted' /\ Caused'
  BY Groups DEF IInv, Sound, Kept, Caused
<1>1. CASE \E d \in Deliveries : Begin(d) \/ LiveStep(d)
  BY <1>1, CallSound, CallKept, CallAccounted, CallCaused
<1>2. CASE \E r \in Recoveries :
             Load(r) \/ RecoveryEnds(r) \/ Take(r) \/ Send(r) \/ Record(r) \/ Restart(r)
  BY <1>2, RecSound, RecKept, RecAccounted, RecCaused
<1>3. CASE Crash
  BY <1>3, CrashSound, CrashKept, CrashAccounted, CrashCaused
<1>4. CASE UNCHANGED vars
  BY <1>4 DEF vars, Sound, Types, InHand, Kept, AcksEarned, NoMessageLost, OnDisk,
     FiniteRecording, Accounted, Books, Owed, Recording, CallRecords, Count, Cur, Caused,
     LoadedCounts, MovesForCause
<1> QED BY <1>1, <1>2, <1>3, <1>4 DEF Next

\* IInv holds in every state, for any messages, recoveries and limits.
THEOREM DeliveryInvariant == Spec => []IInv
BY InitIInv, NextIInv, PTL DEF Spec

\* The write-ahead promise of deliver.ts: a message that was queued before it was
\* sent is sent in full, given up on an AbortError, or on disk, whatever crashes,
\* restarts, overlapping recoveries and failing file operations there are.
THEOREM NoMessageIsLost == Spec => []NoMessageLost
<1>1. IInv => NoMessageLost
  BY DEF IInv
<1> QED BY <1>1, DeliveryInvariant, PTL

\* recoverPendingDeliveries puts a message aside only after a permanent error or
\* MaxRetries attempts that failed, however recoveries that overlap read, count
\* and rewrite the same file.
THEOREM NotPutAsideWithoutCause == Spec => []PutAsideForCause
<1>1. IInv => PutAsideForCause
  <2> SUFFICES ASSUME IInv PROVE PutAsideForCause
    OBVIOUS
  <2>1. \A d \in Deliveries : live[d].pc \in CallPcs
    BY DEF IInv, Types, Calls
  <2>2. \A r \in Recoveries : rec[r].pc \in RecPcs
    BY DEF IInv, Types, Works
  <2>3. TypeOK
    BY <2>1, <2>2 DEF IInv, Types, InHand, TypeOK, CallPcs, RecPcs
  <2> QED BY <2>3 DEF IInv, MovesForCause, PutAsideForCause
<1> QED BY <1>1, DeliveryInvariant, PTL

-----------------------------------------------------------------------------
(***************************************************************************)
(* The jobs of agent-to-agent conversations.                               *)
(***************************************************************************)

\* What a job's file and the boot sequence may hold, and a flow may be at.
Status == Statuses \cup {"none"}
Stages == {"create", "start", "wait", "talk", "finish", "fail"}
BootType ==
  [pc : {"down", "scan", "reap", "clean", "collect", "up", "failed"}, todo : SUBSET Jobs,
   seen : [Jobs -> Status \cup {"STALE"}], job : Jobs \cup {"none"},
   io : {"read", "write", "rename"}]

\* The type invariant.
JobTypes ==
  /\ file \in [Jobs -> Status] /\ age \in [Jobs -> 0..2] /\ tmp \in [Jobs -> Status]
  /\ asked \subseteq Jobs /\ survived \subseteq Jobs
  /\ flows \subseteq FlowType
  /\ boot \in BootType
  /\ starts \in Nat /\ (boot.pc # "down" => starts > 0)

\* Only what was asked for has a flow or a file.
Asked ==
  /\ \A f \in flows : f.job \in asked
  /\ survived \subseteq asked
  /\ \A j \in Jobs : file[j] # "none" => j \in asked

\* While the jobs of the last process are dealt with, only flows that outlived a
\* restart are under way.
Quiet == boot.pc \notin {"up", "failed"} => \A f \in flows : f.job \in survived

\* The status in the file of a job whose flow is at a stage.
StatusAt(stage) ==
  CASE stage = "create" -> "none"
    [] stage = "start"  -> "PENDING"
    [] OTHER            -> "RUNNING"

\* The file is at the stage of the flow, and the temporary file is the flow's own.
Following(f) ==
  /\ f.stage # "fail" /\ file[f.job] = StatusAt(f.stage)
  /\ f.io = "rename" => tmp[f.job] = Writing(f.stage)

\* So it is for every job that was not found after a restart.
Followed == \A f \in flows : f.job \notin survived => Following(f)

\* Only the stages that change the status have anything to write.
WritingStages ==
  \A f \in flows : f.io # "read" => f.stage \in {"create", "start", "finish", "fail"}

\* What the starting gateway has read of a job, and what it has yet to change, is
\* as it was read.
Judged ==
  /\ boot.io # "read" => boot.pc = "reap" /\ boot.job \in Jobs \ boot.todo
  /\ boot.pc \in {"scan", "collect"} => \A j \in Jobs \ survived :
       /\ boot.seen[j] \in {"RUNNING", "STALE"} => file[j] = "RUNNING"
       /\ boot.seen[j] = "PENDING" => file[j] = "PENDING"
  /\ boot.pc = "reap" => \A j \in Jobs \ survived :
       j \in boot.todo \/ (boot.io # "read" /\ j = boot.job) => file[j] = "RUNNING"

\* The inductive invariant.
JobsInv ==
  /\ JobTypes
  /\ Asked
  /\ Quiet
  /\ OneFlowPerJob
  /\ Followed
  /\ WritingStages
  /\ Judged

-----------------------------------------------------------------------------
(***************************************************************************)
(* What a step of a flow does.                                             *)
(***************************************************************************)

\* A flow that goes on keeps its job.
LEMMA Moved ==
  ASSUME JobTypes, NEW f \in flows, NEW stage \in Stages, NEW io \in {"read", "write", "rename"},
         Move(f, stage, io)
  PROVE  \E g \in FlowType : /\ g.job = f.job /\ g.stage = stage /\ g.io = io
                               /\ flows' = (flows \ {f}) \cup {g}
<1> DEFINE g == [f EXCEPT !.stage = stage, !.io = io]
<1>1. f \in FlowType
  BY DEF JobTypes
<1>2. g \in FlowType /\ g.job = f.job /\ g.stage = stage /\ g.io = io
  BY <1>1 DEF FlowType, Stages
<1> QED BY <1>2 DEF Move

\* The fields of a flow.
LEMMA FlowFields ==
  ASSUME JobTypes, NEW f \in flows
  PROVE  f.job \in Jobs /\ f.stage \in Stages /\ f.io \in {"read", "write", "rename"}
BY DEF JobTypes, FlowType, Stages

\* The flow is over, or g goes on in its place, with the file at g's stage.
Succeeds(f, g) ==
  /\ g.job = f.job
  /\ flows' = (flows \ {f}) \cup {g}
  /\ g.io # "read" => g.stage \in {"create", "start", "finish", "fail"}
  /\ f.job \notin survived => Following(g)'

\* A flow's step touches the files of its own job alone; or it ends the process.
FlowEffect(f) ==
  \/ Died /\ UNCHANGED <<jobFiles, asked, starts>>
  \/ /\ UNCHANGED <<asked, boot, starts, survived>>
     /\ file' \in [Jobs -> Status] /\ age' \in [Jobs -> 0..2] /\ tmp' \in [Jobs -> Status]
     /\ \A j \in Jobs \ {f.job} : file'[j] = file[j] /\ tmp'[j] = tmp[j]
     /\ Leave(f) \/ \E g \in FlowType : Succeeds(f, g)

\* What each step of a flow does to the flow and to the files of its job.
LEMMA FlowSteps ==
  ASSUME JobsInv, NEW f \in flows, FlowStep(f)
  PROVE  FlowEffect(f)
<1>0. /\ JobTypes /\ f.job \in Jobs /\ f.stage \in Stages
      /\ f.io # "read" => f.stage \in {"create", "start", "finish", "fail"}
      /\ f.job \notin survived => Following(f)
  BY FlowFields DEF JobsInv, Followed, WritingStages
<1>1. ASSUME UNCHANGED jobFiles
      PROVE  /\ file' \in [Jobs -> Status] /\ age' \in [Jobs -> 0..2] /\ tmp' \in [Jobs -> Status]
             /\ \A j \in Jobs \ {f.job} : file'[j] = file[j] /\ tmp'[j] = tmp[j]
             /\ \A g : g.job = f.job => file'[g.job] = file[f.job]
  BY <1>0, <1>1 DEF jobFiles, JobTypes
<1>2. CASE FlowReads(f)
  <2>1. /\ UNCHANGED <<jobFiles, asked, boot, starts, survived>>
        /\ f.stage \in {"start", "finish", "fail"}
    BY <1>2 DEF FlowReads
  <2>2. CASE file[f.job] = "none"
    <3>1. f.job \in survived
      BY <1>0, <2>1, <2>2 DEF Following, StatusAt
    <3>2. Leave(f) \/ Move(f, "wait", "read")
      BY <1>2, <2>2 DEF FlowReads, Continue
    <3>3. Leave(f) \/ \E g \in FlowType : Succeeds(f, g)
      BY <1>0, <3>1, <3>2, Moved DEF Succeeds, Stages
    <3> QED BY <1>1, <2>1, <3>3 DEF FlowEffect
  <2>3. CASE file[f.job] # "none"
    <3>1. Move(f, f.stage, "write")
      BY <1>2, <2>3 DEF FlowReads
    <3>2. PICK g \in FlowType : /\ g.job = f.job /\ g.stage = f.stage /\ g.io = "write"
                                  /\ flows' = (flows \ {f}) \cup {g}
      BY <1>0, <3>1, Moved
    <3>3. f.job \notin survived => Following(g)'
      BY <1>0, <2>1, <3>2 DEF Following, jobFiles
    <3>4. Succeeds(f, g)
      BY <2>1, <3>2, <3>3 DEF Succeeds
    <3> QED BY <1>1, <2>1, <3>4 DEF FlowEffect
  <2> QED BY <2>2, <2>3
<1>3. CASE FlowWrites(f)
  <2>1. /\ f.io = "write" /\ Move(f, f.stage, "rename")
        /\ UNCHANGED <<file, age, asked, boot, starts, survived>>
        /\ tmp' = [tmp EXCEPT ![f.job] = Writing(f.stage)]
    BY <1>3 DEF FlowWrites, WriteTmp
  <2>2. Writing(f.stage) \in Status
    BY <1>0, <2>1 DEF Writing, Status, Statuses, Open, Finished
  <2>3. /\ tmp' \in [Jobs -> Status] /\ tmp'[f.job] = Writing(f.stage)
        /\ \A j \in Jobs \ {f.job} : tmp'[j] = tmp[j]
    BY <1>0, <2>1, <2>2 DEF JobTypes
  <2>4. PICK g \in FlowType : /\ g.job = f.job /\ g.stage = f.stage /\ g.io = "rename"
                                /\ flows' = (flows \ {f}) \cup {g}
    BY <1>0, <2>1, Moved
  <2>5. f.job \notin survived => Following(g)'
    BY <1>0, <2>1, <2>3, <2>4 DEF Following
  <2>6. Succeeds(f, g)
    BY <1>0, <2>1, <2>4, <2>5 DEF Succeeds
  <2> QED BY <1>0, <2>1, <2>3, <2>6 DEF FlowEffect, JobTypes
<1>4. CASE FlowRenames(f)
  <2>1. /\ f.io = "rename" /\ Continue(f)
        /\ UNCHANGED <<asked, boot, starts, survived>>
        /\ file' = [file EXCEPT ![f.job] = tmp[f.job]]
        /\ age' = [age EXCEPT ![f.job] = 0]
        /\ tmp' = [tmp EXCEPT ![f.job] = "none"]
    BY <1>4 DEF FlowRenames, RenameTmp
  <2>2. /\ file' \in [Jobs -> Status] /\ age' \in [Jobs -> 0..2] /\ tmp' \in [Jobs -> Status]
        /\ file'[f.job] = tmp[f.job]
        /\ \A j \in Jobs \ {f.job} : file'[j] = file[j] /\ tmp'[j] = tmp[j]
    BY <1>0, <2>1 DEF JobTypes, Status
  <2>3. f.job \notin survived => file'[f.job] = Writing(f.stage)
    BY <1>0, <2>1, <2>2 DEF Following
  <2>4. CASE f.stage \in {"create", "start"}
    <3> DEFINE next == IF f.stage = "create" THEN "start" ELSE "wait"
    <3>1. Move(f, next, "read") /\ next \in Stages
      BY <2>1, <2>4 DEF Continue, Stages
    <3>2. f.job \notin survived => file'[f.job] = StatusAt(next)
      BY <2>3, <2>4 DEF Writing, StatusAt
    <3>3. next # "fail"
      OBVIOUS
    <3> HIDE DEF next
    <3>4. PICK g \in FlowType : /\ g.job = f.job /\ g.stage = next /\ g.io = "read"
                                  /\ flows' = (flows \ {f}) \cup {g}
      BY <1>0, <3>1, Moved
    <3>5. f.job \notin survived => Following(g)'
      BY <3>2, <3>3, <3>4 DEF Following
    <3>6. Succeeds(f, g)
      BY <3>4, <3>5 DEF Succeeds
    <3> QED BY <2>1, <2>2, <3>6 DEF FlowEffect
  <2>5. CASE f.stage \notin {"create", "start"}
    <3>1. Leave(f)
      BY <2>1, <2>5 DEF Continue
    <3> QED BY <2>1, <2>2, <3>1 DEF FlowEffect
  <2> QED BY <2>4, <2>5
<1>5. CASE FlowRenameThrows(f)
  <2>1. f.io = "rename" /\ tmp[f.job] = "none" /\ UNCHANGED <<jobFiles, asked, starts>>
    BY <1>5 DEF FlowRenameThrows
  <2>2. f.job \in survived
    BY <1>0, <2>1 DEF Following, Writing
  <2>3. CASE Died
    BY <2>1, <2>3 DEF FlowEffect
  <2>4. CASE f.stage = "create" /\ Leave(f) /\ UNCHANGED <<boot, survived>>
    BY <1>1, <2>1, <2>4 DEF FlowEffect
  <2>5. CASE Move(f, "fail", "read") /\ UNCHANGED <<boot, survived>>
    <3>1. \E g \in FlowType : Succeeds(f, g)
      BY <1>0, <2>2, <2>5, Moved DEF Succeeds, Stages
    <3> QED BY <1>1, <2>1, <2>5, <3>1 DEF FlowEffect
  <2> QED BY <1>5, <2>3, <2>4, <2>5 DEF FlowRenameThrows
<1>6. CASE FirstReply(f) \/ NoReply(f) \/ TalkEnds(f)
  <2>1. /\ UNCHANGED <<jobFiles, asked, boot, starts, survived>> /\ f.stage \in {"wait", "talk"}
        /\ Move(f, "talk", "read") \/ Move(f, "finish", "read")
    BY <1>6 DEF FirstReply, NoReply, TalkEnds
  <2>2. PICK g \in FlowType : /\ g.job = f.job /\ g.stage \in {"talk", "finish"} /\ g.io = "read"
                                /\ flows' = (flows \ {f}) \cup {g}
    BY <1>0, <2>1, Moved DEF Stages
  <2>3. f.job \notin survived => Following(g)'
    BY <1>0, <2>1, <2>2 DEF Following, StatusAt, jobFiles
  <2>4. Succeeds(f, g)
    BY <2>2, <2>3 DEF Succeeds
  <2> QED BY <1>1, <2>1, <2>4 DEF FlowEffect
<1> QED BY <1>2, <1>3, <1>4, <1>5, <1>6 DEF FlowStep

-----------------------------------------------------------------------------
(***************************************************************************)
(* Every step keeps the invariant.                                         *)
(***************************************************************************)

\* The gateway's start at rest.
LEMMA RestTypes ==
  ASSUME NEW pc \in {"down", "scan", "reap", "clean", "collect", "up", "failed"},
         NEW todo \in SUBSET Jobs, NEW seen \in [Jobs -> Status \cup {"STALE"}]
  PROVE  /\ Phase(pc, todo, seen) \in BootType
         /\ Phase(pc, todo, seen).pc = pc /\ Phase(pc, todo, seen).todo = todo
         /\ Phase(pc, todo, seen).seen = seen /\ Phase(pc, todo, seen).io = "read"
BY DEF Phase, BootType

\* Nothing has been read of a job yet.
LEMMA UnseenTypes ==
  Unseen \in [Jobs -> Status \cup {"STALE"}] /\ \A j \in Jobs : Unseen[j] = "none"
BY DEF Unseen, Status

\* The process dies, in whatever state its flows are.
LEMMA DeathKeeps ==
  ASSUME JobsInv, Died, UNCHANGED <<jobFiles, asked, starts>>
  PROVE  JobsInv'
<1>1. boot' \in BootType /\ boot'.pc = "down" /\ boot'.io = "read" /\ flows' = {} /\ survived' = {}
  BY RestTypes, UnseenTypes DEF Died, Down
<1> QED BY <1>1 DEF JobsInv, JobTypes, Asked, Quiet, OneFlowPerJob, Followed,
     WritingStages, Judged, jobFiles

\* A flow's step keeps the invariant.
LEMMA FlowKeeps ==
  ASSUME JobsInv, NEW f \in flows, FlowStep(f)
  PROVE  JobsInv'
<1>0. FlowEffect(f)
  BY FlowSteps
<1>1. CASE Died /\ UNCHANGED <<jobFiles, asked, starts>>
  BY <1>1, DeathKeeps
<1>2. CASE ~(Died /\ UNCHANGED <<jobFiles, asked, starts>>)
  <2>1. /\ UNCHANGED <<asked, boot, starts, survived>>
        /\ file' \in [Jobs -> Status] /\ age' \in [Jobs -> 0..2] /\ tmp' \in [Jobs -> Status]
        /\ \A j \in Jobs \ {f.job} : file'[j] = file[j] /\ tmp'[j] = tmp[j]
    BY <1>0, <1>2 DEF FlowEffect
  <2>2. /\ f.job \in Jobs /\ f.job \in asked
        /\ \A h \in flows : h.job \in Jobs
    BY FlowFields DEF JobsInv, Asked
  <2>3. \A h \in flows' :
          \/ h \in flows \ {f}
          \/ /\ h \in FlowType /\ h.job = f.job /\ flows' = (flows \ {f}) \cup {h}
             /\ h.io # "read" => h.stage \in {"create", "start", "finish", "fail"}
             /\ f.job \notin survived => Following(h)'
    BY <1>0, <1>2 DEF FlowEffect, Leave, Succeeds
  <2>4. JobTypes'
    BY <2>1, <2>3 DEF JobsInv, JobTypes, FlowType
  <2>5. Asked'
    BY <2>1, <2>2, <2>3 DEF JobsInv, Asked
  <2>6. Quiet'
    BY <2>1, <2>3 DEF JobsInv, Quiet
  <2>7. OneFlowPerJob'
    BY <2>1, <2>3 DEF JobsInv, OneFlowPerJob
  <2>8. Followed'
    <3> SUFFICES ASSUME NEW h \in flows', h.job \notin survived PROVE Following(h)'
      BY <2>1 DEF Followed
    <3>1. CASE h \in flows \ {f}
      <4>1. h.job # f.job
        BY <3>1 DEF JobsInv, OneFlowPerJob
      <4> QED BY <2>1, <2>2, <3>1, <4>1 DEF JobsInv, Followed, Following
    <3>2. CASE h \notin flows \ {f}
      BY <2>3, <3>2
    <3> QED BY <3>1, <3>2
  <2>9. WritingStages'
    BY <2>3 DEF JobsInv, WritingStages
  <2>10. Judged'
    <3>1. boot.pc \in {"scan", "collect", "reap"} => \A j \in Jobs \ survived : file'[j] = file[j]
      BY <2>1 DEF JobsInv, Quiet
    <3> QED BY <2>1, <3>1 DEF JobsInv, Judged
  <2> QED BY <2>4, <2>5, <2>6, <2>7, <2>8, <2>9, <2>10 DEF JobsInv
<1> QED BY <1>1, <1>2

\* A flow that begins.
LEMMA NewFlow ==
  ASSUME NEW j \in Jobs, NEW kind \in {"new", "resumed"}, NEW stage \in Stages,
         NEW io \in {"read", "write", "rename"}, starts \in 1..starts
  PROVE  /\ Flow(j, kind, stage, io) \in FlowType
         /\ Flow(j, kind, stage, io).job = j /\ Flow(j, kind, stage, io).stage = stage
         /\ Flow(j, kind, stage, io).io = io
BY DEF Flow, FlowType, Stages

\* A message asks for a job: its flow is the first, for there is no file of it.
LEMMA CreateKeeps ==
  ASSUME JobsInv, NEW j \in Jobs, CreateAndStartFlow(j)
  PROVE  JobsInv'
<1>0. /\ boot.pc \in {"up", "failed"} /\ j \notin asked
      /\ asked' = asked \cup {j} /\ flows' = flows \cup {Flow(j, "new", "create", "write")}
      /\ UNCHANGED <<jobFiles, boot, starts, survived>>
  BY DEF CreateAndStartFlow
<1>1. starts \in Nat /\ starts > 0 /\ starts \in 1..starts
  BY <1>0 DEF JobsInv, JobTypes
<1>2. PICK g \in FlowType : /\ flows' = flows \cup {g}
                           /\ g.job = j /\ g.stage = "create" /\ g.io = "write"
  <2>1. \E g : g = Flow(j, "new", "create", "write")
    OBVIOUS
  <2> QED BY <1>0, <1>1, <2>1, NewFlow DEF Stages
<1>3. file[j] = "none" /\ \A f \in flows : f.job # j
  BY <1>0 DEF JobsInv, Asked
<1>4. Following(g)'
  BY <1>0, <1>2, <1>3 DEF Following, StatusAt, jobFiles
<1>5. JobTypes'
  BY <1>0, <1>2 DEF JobsInv, JobTypes, jobFiles, FlowType
<1>6. Asked'
  BY <1>0, <1>2 DEF JobsInv, Asked, jobFiles
<1>7. Quiet' /\ OneFlowPerJob' /\ WritingStages'
  BY <1>0, <1>2, <1>3 DEF JobsInv, Quiet, OneFlowPerJob, WritingStages
<1>8. Followed'
  <2> SUFFICES ASSUME NEW f \in flows', f.job \notin survived PROVE Following(f)'
    BY <1>0 DEF Followed
  <2>1. CASE f \in flows
    BY <1>0, <2>1 DEF JobsInv, Followed, Following, jobFiles
  <2> QED BY <1>2, <1>4, <2>1
<1>9. Judged'
  BY <1>0 DEF JobsInv, Judged, jobFiles
<1> QED BY <1>5, <1>6, <1>7, <1>8, <1>9 DEF JobsInv

\* A start begins, with nothing but flows that outlived a restart under way.
LEMMA BeginKeeps ==
  ASSUME JobsInv, StartProcess \/ RestartInProcess
  PROVE  JobsInv'
<1>0. /\ UNCHANGED <<jobFiles, asked, flows>> /\ starts' = starts + 1
      /\ boot' = Phase("scan", Files, Unseen)
      /\ survived \subseteq survived' /\ survived' \subseteq survived \cup {f.job : f \in flows}
      /\ \A f \in flows : f.job \in survived'
  BY DEF StartProcess, RestartInProcess, RunOnStartup, JobsInv, Quiet
<1>1. /\ boot' \in BootType /\ boot'.pc = "scan" /\ boot'.io = "read"
      /\ \A j \in Jobs : boot'.seen[j] = "none"
  BY <1>0, RestTypes, UnseenTypes DEF Files
<1>2. survived' \subseteq Jobs
  BY <1>0, FlowFields DEF JobsInv, JobTypes
<1>3. flows' \subseteq FlowType'
  <2>1. 1..starts \subseteq 1..(starts + 1)
    BY DEF JobsInv, JobTypes
  <2>2. \A f \in FlowType : f \in FlowType'
    BY <1>0, <2>1 DEF FlowType
  <2> QED BY <1>0, <2>2 DEF JobsInv, JobTypes
<1>4. JobTypes'
  BY <1>0, <1>1, <1>2, <1>3 DEF JobsInv, JobTypes, jobFiles
<1>5. Asked' /\ Quiet' /\ OneFlowPerJob' /\ WritingStages'
  BY <1>0 DEF JobsInv, Asked, Quiet, OneFlowPerJob, WritingStages, jobFiles
<1>6. Followed' /\ Judged'
  BY <1>0, <1>1 DEF Followed, Judged
<1> QED BY <1>4, <1>5, <1>6 DEF JobsInv

\* While a start is at work no flow but those that outlived a restart is, and it
\* is enough that its own notes stay right and that it makes no file.
LEMMA StartKeeps ==
  ASSUME JobsInv, boot.pc \in {"scan", "reap", "clean", "collect"},
         UNCHANGED <<asked, flows, starts, survived>>,
         file' \in [Jobs -> Status], age' \in [Jobs -> 0..2], tmp' \in [Jobs -> Status],
         boot' \in BootType, \A j \in Jobs : file'[j] # "none" => j \in asked,
         Judged'
  PROVE  JobsInv'
<1>1. \A f \in flows : f.job \in survived
  BY DEF JobsInv, Quiet
<1>2. JobTypes'
  BY DEF JobsInv, JobTypes, FlowType
<1>3. Asked' /\ Quiet' /\ Followed'
  BY <1>1 DEF JobsInv, Asked, Quiet, Followed
<1>4. OneFlowPerJob' /\ WritingStages'
  BY DEF JobsInv, OneFlowPerJob, WritingStages
<1> QED BY <1>2, <1>3, <1>4 DEF JobsInv

\* It reads a file and notes what it reads.
LEMMA ReadKeeps ==
  ASSUME JobsInv, NEW j \in Jobs, ReadJob(j)
  PROVE  JobsInv'
<1> DEFINE note == IF file[j] = "RUNNING" /\ age[j] > 0 THEN "STALE" ELSE file[j]
<1>0. /\ boot.pc \in {"scan", "collect"} /\ boot \in BootType /\ note \in Status \cup {"STALE"}
      /\ UNCHANGED <<jobFiles, asked, flows, starts, survived>>
      /\ boot' = [boot EXCEPT !.todo = @ \ {j}, !.seen[j] = note]
      /\ file[j] = "STALE" => FALSE
  BY DEF ReadJob, JobsInv, JobTypes, Status, Statuses, Open, Finished
<1>1. /\ note \in {"RUNNING", "STALE"} => file[j] = "RUNNING"
      /\ note = "PENDING" => file[j] = "PENDING"
  BY <1>0
<1> HIDE DEF note
<1>2. /\ boot' \in BootType /\ boot'.pc = boot.pc /\ boot'.io = boot.io
      /\ boot'.seen[j] = note /\ \A i \in Jobs \ {j} : boot'.seen[i] = boot.seen[i]
  BY <1>0 DEF BootType
<1>3. Judged'
  BY <1>0, <1>1, <1>2 DEF JobsInv, Judged, jobFiles
<1> QED BY <1>0, <1>2, <1>3, StartKeeps DEF JobsInv, JobTypes, Asked, jobFiles

\* The jobs it has read as RUNNING are those it will judge.
LEMMA ScannedKeeps ==
  ASSUME JobsInv, Scanned
  PROVE  JobsInv'
<1> DEFINE todo == {j \in Jobs : boot.seen[j] \in {"RUNNING", "STALE"}}
<1>0. /\ boot.pc = "scan" /\ boot.seen \in [Jobs -> Status \cup {"STALE"}]
      /\ UNCHANGED <<jobFiles, asked, flows, starts, survived>>
      /\ boot' = Phase("reap", todo, boot.seen)
  BY DEF Scanned, JobsInv, JobTypes, BootType
<1>1. \A j \in Jobs \ survived : j \in todo => file[j] = "RUNNING"
  BY <1>0 DEF JobsInv, Judged
<1>2. todo \subseteq Jobs
  OBVIOUS
<1> HIDE DEF todo
<1>3. boot' \in BootType /\ boot'.pc = "reap" /\ boot'.io = "read" /\ boot'.todo = todo
  BY <1>0, <1>2, RestTypes
<1>4. Judged'
  BY <1>0, <1>1, <1>3 DEF Judged, jobFiles
<1> QED BY <1>0, <1>3, <1>4, StartKeeps DEF JobsInv, JobTypes, Asked, jobFiles

\* The reaper changes a status in three steps, as a flow does.
LEMMA ReapKeeps ==
  ASSUME JobsInv, ReapWrites \/ ReapRenames \/ ReapThrows \/ \E j \in Jobs : ReapReads(j)
  PROVE  JobsInv'
<1>0. /\ boot \in BootType /\ boot.pc = "reap"
      /\ boot.io # "read" => boot.job \in Jobs \ boot.todo
      /\ UNCHANGED <<asked, flows, starts, survived>>
      /\ JobTypes
  BY DEF ReapWrites, ReapRenames, ReapThrows, ReapReads, JobsInv, Judged, JobTypes
<1>1. CASE \E j \in Jobs : ReapReads(j)
  <2>1. PICK j \in Jobs : ReapReads(j)
    BY <1>1
  <2>2. /\ boot.io = "read" /\ j \in boot.todo /\ UNCHANGED jobFiles
        /\ boot' = IF file[j] = "none" THEN [boot EXCEPT !.todo = @ \ {j}]
                   ELSE [boot EXCEPT !.todo = @ \ {j}, !.job = j, !.io = "write"]
    BY <2>1 DEF ReapReads
  <2>3. /\ boot' \in BootType /\ boot'.pc = "reap" /\ boot'.todo = boot.todo \ {j}
        /\ boot'.io # "read" => boot'.job = j
    BY <1>0, <2>2 DEF BootType
  <2>4. Judged'
    BY <1>0, <2>2, <2>3 DEF JobsInv, Judged, jobFiles
  <2> QED BY <1>0, <2>2, <2>3, <2>4, StartKeeps DEF JobsInv, JobTypes, Asked, jobFiles
<1>2. CASE ReapWrites
  <2>1. /\ boot.io = "write" /\ UNCHANGED <<file, age>> /\ boot' = [boot EXCEPT !.io = "rename"]
        /\ tmp' = [tmp EXCEPT ![boot.job] = Verdict(boot.job)]
    BY <1>2 DEF ReapWrites, WriteTmp
  <2>2. tmp' \in [Jobs -> Status]
    BY <1>0, <2>1 DEF Verdict, Status, Statuses, Open, Finished, JobTypes
  <2>3. /\ boot' \in BootType /\ boot'.pc = "reap" /\ boot'.todo = boot.todo
        /\ boot'.job = boot.job
    BY <1>0, <2>1 DEF BootType
  <2>4. Judged'
    BY <1>0, <2>1, <2>3 DEF JobsInv, Judged
  <2> QED BY <1>0, <2>1, <2>2, <2>3, <2>4, StartKeeps DEF JobsInv, JobTypes, Asked
<1>3. CASE ReapRenames
  <2>1. /\ boot.io = "rename" /\ boot' = [boot EXCEPT !.io = "read", !.job = "none"]
        /\ file' = [file EXCEPT ![boot.job] = tmp[boot.job]]
        /\ age' = [age EXCEPT ![boot.job] = 0]
        /\ tmp' = [tmp EXCEPT ![boot.job] = "none"]
    BY <1>3 DEF ReapRenames, RenameTmp
  <2>2. /\ file' \in [Jobs -> Status] /\ age' \in [Jobs -> 0..2] /\ tmp' \in [Jobs -> Status]
        /\ \A j \in Jobs \ {boot.job} : file'[j] = file[j]
    BY <1>0, <2>1 DEF JobTypes, Status
  <2>3. boot' \in BootType /\ boot'.pc = "reap" /\ boot'.todo = boot.todo /\ boot'.io = "read"
    BY <1>0, <2>1 DEF BootType
  <2>4. Judged'
    BY <1>0, <2>1, <2>2, <2>3 DEF JobsInv, Judged
  <2>5. boot.job \in asked
    BY <1>0, <2>1 DEF JobsInv, Judged, Asked
  <2>6. \A j \in Jobs : file'[j] # "none" => j \in asked
    BY <1>0, <2>2, <2>5 DEF JobsInv, Asked
  <2> QED BY <1>0, <2>1, <2>2, <2>3, <2>4, <2>6, StartKeeps
<1>4. CASE ReapThrows
  <2>1. UNCHANGED jobFiles /\ boot' = Phase("failed", {}, Unseen)
    BY <1>4 DEF ReapThrows
  <2>2. boot' \in BootType /\ boot'.pc = "failed" /\ boot'.io = "read"
    BY <2>1, RestTypes, UnseenTypes
  <2>3. Judged'
    BY <2>2 DEF Judged
  <2> QED BY <1>0, <2>1, <2>2, <2>3, StartKeeps DEF JobsInv, JobTypes, Asked, jobFiles
<1> QED BY <1>1, <1>2, <1>3, <1>4

\* The phases that follow: the jobs judged, the old ones cleaned up.
LEMMA CleanKeeps ==
  ASSUME JobsInv, Reaped \/ Cleaned \/ \E j \in Jobs : Clean(j)
  PROVE  JobsInv'
<1>0. /\ boot.pc \in {"reap", "clean"} /\ boot.io = "read" /\ boot \in BootType
      /\ UNCHANGED <<age, tmp, asked, flows, starts, survived>>
  BY DEF Reaped, Cleaned, Clean, jobFiles, JobsInv, Judged, JobTypes
<1>1. CASE Reaped \/ Cleaned
  <2>1. /\ UNCHANGED file
        /\ \E pc \in {"clean", "collect"} : boot' = Phase(pc, Files, Unseen)
    BY <1>1 DEF Reaped, Cleaned, jobFiles
  <2>2. /\ boot' \in BootType /\ boot'.pc \in {"clean", "collect"} /\ boot'.io = "read"
        /\ \A j \in Jobs : boot'.seen[j] = "none"
    BY <2>1, RestTypes, UnseenTypes DEF Files
  <2>3. Judged'
    BY <2>2 DEF Judged
  <2> QED BY <1>0, <2>1, <2>2, <2>3, StartKeeps DEF JobsInv, JobTypes, Asked
<1>2. CASE \E j \in Jobs : Clean(j)
  <2>1. PICK j \in Jobs : Clean(j)
    BY <1>2
  <2>2. /\ boot.pc = "clean" /\ boot' = [boot EXCEPT !.todo = @ \ {j}]
        /\ file' = IF file[j] \in Finished /\ age[j] = 2
                   THEN [file EXCEPT ![j] = "none"] ELSE file
    BY <2>1 DEF Clean
  <2>3. boot' \in BootType /\ boot'.pc = "clean" /\ boot'.io = "read"
    BY <1>0, <2>2 DEF BootType
  <2>4. file' \in [Jobs -> Status] /\ \A i \in Jobs : file'[i] # "none" => file[i] # "none"
    BY <2>2 DEF JobsInv, JobTypes, Status
  <2>5. Judged'
    BY <2>3 DEF Judged
  <2> QED BY <1>0, <2>3, <2>4, <2>5, StartKeeps DEF JobsInv, JobTypes, Asked
<1> QED BY <1>1, <1>2

\* The jobs resumed are PENDING, and no flow holds them but what outlived a restart.
LEMMA ResumeKeeps ==
  ASSUME JobsInv, Resume
  PROVE  JobsInv'
<1> DEFINE pending == {i \in Jobs : boot.seen[i] = "PENDING"}
           resumed == {Flow(j, "resumed", "start", "read") : j \in pending}
<1>0. /\ boot.pc = "collect" /\ UNCHANGED <<jobFiles, asked, starts, survived>>
      /\ flows' = flows \cup resumed
      /\ boot' = Phase("up", {}, Unseen)
  BY DEF Resume
<1>1. boot' \in BootType /\ boot'.pc = "up" /\ boot'.io = "read"
  BY <1>0, RestTypes, UnseenTypes
<1>2. starts > 0 /\ starts \in 1..starts
  BY <1>0 DEF JobsInv, JobTypes
<1>3. \A f \in flows : f.job \in survived
  BY <1>0 DEF JobsInv, Quiet
<1>4. \A j \in pending : j \in Jobs /\ (j \notin survived => file[j] = "PENDING" /\ j \in asked)
  BY <1>0 DEF JobsInv, Judged, Asked
<1>5. \A f \in resumed : /\ f \in FlowType /\ f.job \in pending
                         /\ f.stage = "start" /\ f.io = "read"
                         /\ f = Flow(f.job, "resumed", "start", "read")
  <2> SUFFICES ASSUME NEW j \in pending
               PROVE  LET f == Flow(j, "resumed", "start", "read")
                      IN  /\ f \in FlowType /\ f.job = j
                          /\ f.stage = "start" /\ f.io = "read"
    OBVIOUS
  <2> QED BY <1>2, <1>4, NewFlow DEF Stages
<1>6. \A f \in flows' : f \in flows \/ f \in resumed
  BY <1>0
<1> HIDE DEF pending, resumed
<1>7. JobTypes'
  BY <1>0, <1>1, <1>2, <1>5 DEF JobsInv, JobTypes, jobFiles, FlowType
<1>8. Asked'
  BY <1>0, <1>4, <1>5, <1>6 DEF JobsInv, Asked, jobFiles
<1>9. Quiet' /\ Judged' /\ WritingStages'
  BY <1>1, <1>5, <1>6 DEF JobsInv, Quiet, Judged, WritingStages
<1>10. OneFlowPerJob'
  <2> SUFFICES ASSUME NEW f \in flows', NEW g \in flows', f.job = g.job, f.job \notin survived
               PROVE  f = g
    BY <1>0 DEF OneFlowPerJob
  <2>1. f \in resumed /\ g \in resumed
    BY <1>3, <1>6
  <2> QED BY <1>5, <2>1
<1>11. Followed'
  <2> SUFFICES ASSUME NEW f \in flows', f.job \notin survived PROVE Following(f)'
    BY <1>0 DEF Followed
  <2>1. f \in resumed
    BY <1>3, <1>6
  <2> QED BY <1>0, <1>4, <1>5, <2>1 DEF Following, StatusAt, jobFiles
<1> QED BY <1>7, <1>8, <1>9, <1>10, <1>11 DEF JobsInv

\* Time that passes changes no status.
LEMMA LaterKeeps ==
  ASSUME JobsInv, Later
  PROVE  JobsInv'
<1>1. UNCHANGED <<file, tmp, asked, flows, boot, starts, survived>> /\ age' \in [Jobs -> 0..2]
  BY DEF Later, JobsInv, JobTypes
<1> QED BY <1>1 DEF JobsInv, JobTypes, FlowType, Asked, Quiet, OneFlowPerJob,
     Followed, Following,
       WritingStages, Judged

\* Every step keeps the invariant.
LEMMA NextKeeps == JobsInv /\ [JobsNext]_jobsVars => JobsInv'
<1> SUFFICES ASSUME JobsInv, [JobsNext]_jobsVars PROVE JobsInv'
  OBVIOUS
<1>1. CASE \E j \in Jobs : CreateAndStartFlow(j)
  BY <1>1, CreateKeeps
<1>2. CASE \E f \in flows : FlowStep(f)
  BY <1>2, FlowKeeps
<1>3. CASE RestartInProcess \/ StartProcess
  BY <1>3, BeginKeeps
<1>4. CASE BootStep
  <2>1. CASE \E j \in Jobs : ReadJob(j)
    BY <2>1, ReadKeeps
  <2>2. CASE Scanned
    BY <2>2, ScannedKeeps
  <2>3. CASE ReapWrites \/ ReapRenames \/ ReapThrows \/ \E j \in Jobs : ReapReads(j)
    BY <2>3, ReapKeeps
  <2>4. CASE Reaped \/ Cleaned \/ \E j \in Jobs : Clean(j)
    BY <2>4, CleanKeeps
  <2>5. CASE Resume
    BY <2>5, ResumeKeeps
  <2> QED BY <1>3, <1>4, <2>1, <2>2, <2>3, <2>4, <2>5 DEF BootStep
<1>5. CASE ProcessDies
  BY <1>5, DeathKeeps DEF ProcessDies
<1>6. CASE Later
  BY <1>6, LaterKeeps
<1>7. CASE UNCHANGED jobsVars
  BY <1>7 DEF jobsVars, JobsInv, JobTypes, FlowType, Asked, Quiet, OneFlowPerJob,
     Followed, Following,
     WritingStages, Judged
<1> QED BY <1>1, <1>2, <1>3, <1>4, <1>5, <1>6, <1>7 DEF JobsNext

\* Before the first start there is nothing.
LEMMA InitKeeps == JobsInit => JobsInv
<1> SUFFICES ASSUME JobsInit PROVE JobsInv
  OBVIOUS
<1>1. boot \in BootType /\ boot.pc = "down" /\ boot.io = "read"
  BY RestTypes, UnseenTypes DEF JobsInit, Down
<1> QED BY <1>1 DEF JobsInit, JobsInv, JobTypes, Status, Asked, Quiet, OneFlowPerJob, Followed,
       WritingStages, Judged

-----------------------------------------------------------------------------
(***************************************************************************)
(* The theorems about jobs.                                                *)
(***************************************************************************)

\* The invariant, for any jobs and any number of crashes and restarts.
THEOREM JobsInvariant == JobsSpec => []JobsInv
BY InitKeeps, NextKeeps, PTL DEF JobsSpec

\* A job has one flow: whatever starts, crashes and new messages there are, the
\* reaper resumes no job whose flow is under way, but for flows that outlived a
\* restart of the lifecycle.
THEOREM JobHasOneFlow == JobsSpec => []OneFlowPerJob
<1>1. JobsInv => OneFlowPerJob
  BY DEF JobsInv
<1> QED BY <1>1, JobsInvariant, PTL

\* The file of a job tells how far its flow is, in every state between two file
\* operations, so that the next start judges it rightly.
THEOREM FileTellsStage == JobsSpec => []RecordFollowsFlow
<1>1. JobsInv => RecordFollowsFlow
  <2> SUFFICES ASSUME JobsInv PROVE RecordFollowsFlow
    OBVIOUS
  <2>1. JobsTypeOK
    BY DEF JobsInv, JobTypes, JobsTypeOK, BootType, Status
  <2>2. \A f \in flows : f.job \notin survived =>
          /\ f.stage = "start" => file[f.job] = "PENDING"
          /\ f.stage \in {"wait", "talk", "finish"} => file[f.job] = "RUNNING"
    BY DEF JobsInv, Followed, Following, StatusAt
  <2> QED BY <2>1, <2>2 DEF RecordFollowsFlow
<1> QED BY <1>1, JobsInvariant, PTL

\* A finished job is never opened again: no flow, no reaper and no start changes
\* its status, until cleanupFinishedJobs removes the file a week later.
THEOREM FinishedForGood == JobsSpec => FinishedStaysFinished
<1> DEFINE Stays == \A j \in Jobs : file[j] \in Finished /\ j \notin survived =>
                      file'[j] = file[j] \/ (file'[j] = "none" /\ age[j] = 2)
<1>1. JobsInv /\ [JobsNext]_jobsVars => [Stays]_jobsVars
  <2> SUFFICES ASSUME JobsInv, JobsNext, NEW j \in Jobs, file[j] \in Finished, j \notin survived,
                      file'[j] # file[j]
               PROVE  file'[j] = "none" /\ age[j] = 2
    BY DEF jobsVars
  <2>1. file[j] \notin {"none", "PENDING", "RUNNING"}
    BY DEF Finished
  <2>2. CASE \E f \in flows : FlowStep(f)
    <3>1. PICK f \in flows : FlowStep(f)
      BY <2>2
    <3>2. f.job = j
      BY <3>1, FlowSteps DEF FlowEffect, jobFiles
    <3> QED BY <2>1, <3>2 DEF JobsInv, Followed, Following, StatusAt
  <2>3. CASE ReapRenames
    <3>1. /\ boot.io = "rename" /\ file' = [file EXCEPT ![boot.job] = tmp[boot.job]]
      BY <2>3 DEF ReapRenames, RenameTmp
    <3>2. j = boot.job /\ boot.pc = "reap"
      BY <3>1 DEF JobsInv, JobTypes, Judged
    <3> QED BY <2>1, <3>1, <3>2 DEF JobsInv, Judged
  <2>4. CASE \E i \in Jobs : Clean(i)
    BY <2>4 DEF Clean, JobsInv, JobTypes
  <2>5. CASE UNCHANGED file
    BY <2>5
  <2> QED BY <2>2, <2>3, <2>4, <2>5 DEF JobsNext, CreateAndStartFlow,
         RestartInProcess, BootStep,
         StartProcess, Scanned, ReapWrites, ReapThrows, Reaped, Cleaned, Resume,
         ReadJob,
         ReapReads, ProcessDies, Later, jobFiles
<1> QED BY <1>1, JobsInvariant, PTL DEF JobsSpec, FinishedStaysFinished

=============================================================================
