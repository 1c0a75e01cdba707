--------------------------- MODULE TaskFilesProofs ----------------------------
(***************************************************************************)
(* Proofs about TaskFiles, for any tasks, tool calls, chains of checks,    *)
(* limits and settings: no task vanishes, who writes under a lock          *)
(* overwrites nobody, and the requests about a blocked task are bounded.   *)
(***************************************************************************)
EXTENDS TaskFiles, TLAPS

\* What an actor does, where it is in it and what it holds; the lock files.
Ops == {"update", "complete", "cancel", "approve", "block", "resume", "pick", "delegate"}
Pcs == {"rest", "next", "probe", "unlink", "open", "fill", "look", "reread", "write",
        "agent", "archive", "delete", "release"}
ActorType ==
  [pc : Pcs, op : Ops \cup Stages \cup {"none"}, task : Tasks \cup {None},
   key : Keys \cup {None}, copy : Content \cup {None}, todo : SUBSET Tasks, stale : BOOLEAN]
LockType == [state : {"free", "torn", "fresh", "old", "dead"}, by : Actors \cup {None}]

\* The type invariant.
Types ==
  /\ file \in [Tasks -> Content \cup {None}]
  /\ lock \in [Keys -> LockType]
  /\ act \in [Actors -> ActorType]
  /\ scenario \in Scenarios
  /\ crashes \in Nat
  /\ sent \in [Tasks -> Nat]
  /\ bypassed \subseteq Keys

\* What an actor a at r has in hand: the key it asks for or holds, its task and
\* the copy.
Acquiring == {"probe", "unlink", "open", "fill"}
Shape(a, r) ==
  /\ a \in Calls => r.op \in Ops \cup {"none"} /\ r.pc \notin {"next", "look", "agent"}
  /\ a \in Chains => r.op \in Stages \cup {"none"} /\ r.pc \notin {"archive", "delete"}
  /\ r.pc # "rest" => r.op # "none"
  /\ r.pc \in {"rest", "next"} => r.key = None
  /\ r.pc \in Acquiring => \/ r.key = r.task /\ r.task \in Tasks
                           \/ r.key = Pickup /\ r.op = "pickup"
  /\ r.pc \in Acquiring /\ r.op \notin Rereading \cup Stages => r.copy \in Content
  /\ r.pc = "look" => r.key = Pickup /\ r.op = "pickup"
  /\ r.pc \in {"reread", "write"} =>
       /\ r.task \in Tasks
       /\ r.key = r.task \/ (r.key = None /\ r.op \in {"approve", "delegate"})
  /\ r.pc = "write" => r.copy \in Content
  /\ r.pc \in {"archive", "delete"} => r.key = r.task /\ r.task \in Tasks
  /\ r.pc = "delete" => r.task \in archived
  /\ r.pc = "agent" => r.op \in Stages
  /\ r.pc = "agent" /\ r.op # "pickup" => r.key = r.task /\ r.task \in Tasks
  /\ r.pc = "agent" /\ r.op = "unblock" =>
       r.copy \in Content /\ r.copy.status = "blocked" /\ r.copy.requests < MaxRequests
  /\ r.pc \in {"agent", "release"} =>
       r.key \in Keys \/ (r.key = None /\ r.op \in {"approve", "delegate"})
  /\ r.task \in born \cup {None} /\ r.todo \subseteq born
  /\ r.op = "pickup" => r.todo = {}

\* So it is for every actor.
Shapes == \A a \in Actors : Shape(a, act[a])

\* Who is at r counts on the lock of k: it created it and has not given it up.
Holds(r, k) ==
  \/ /\ r.key = k
     /\ r.pc \in {"fill", "look", "reread", "write", "agent", "archive", "delete", "release"}
  \/ k = Pickup /\ r.op = "pickup" /\ r.key \in Tasks

\* A lock that nobody bypassed has the holder who counts on it, and no other.
Locked ==
  /\ \A k \in Keys : lock[k].state = "free" => lock[k].by = None
  /\ \A k \in Keys \ bypassed : \A a \in Actors : lock[k].by = a <=> Holds(act[a], k)

\* What was read under the lock is what is in the file.
Fresh(r) ==
  /\ r.pc = "write" /\ r.op \in Rereading \cup Stages /\ r.key # None => ~r.stale
  /\ r.pc = "agent" /\ r.op = "unblock" => ~r.stale /\ r.copy = file[r.task]

\* So it is for every task whose lock nobody bypassed.
AllFresh == \A a \in Actors : act[a].task \notin bypassed => Fresh(act[a])

\* A request about t that is answered and not yet written down.
Asking(r, t) == r.pc = "write" /\ r.op = "unblock" /\ r.task = t

\* A copy that is to replace the file of t counts every request.
Counts(r, t) ==
  /\ r.pc = "write" /\ r.task = t /\ r.key # None
  /\ r.copy.status = "blocked" /\ r.op # "block"
  => sent[t] <= r.copy.requests

\* The file of a blocked task, or the copy that replaces it, counts every request.
Counted(t) ==
  /\ sent[t] <= MaxRequests
  /\ Exists(t) /\ file[t].status = "blocked" /\ (\A a \in Actors : ~Asking(act[a], t)) =>
       sent[t] <= file[t].requests
  /\ \A a \in Actors : Counts(act[a], t)

\* So it is for every such task, as long as nothing crashed.
AllCounted == crashes > 0 \/ \A t \in Tasks \ bypassed : Counted(t)

\* Every task that has a file was created, and none of them vanishes.
Born == (\A t \in Tasks : Exists(t) => t \in born) /\ NothingVanishes

\* The inductive invariant.
IInv ==
  /\ Types
  /\ Shapes
  /\ Born
  /\ Locked
  /\ AllFresh
  /\ AllCounted

-----------------------------------------------------------------------------
(***************************************************************************)
(* Locks that are created and given up.                                    *)
(***************************************************************************)

\* The step of an actor: others keep where they are.
Others(a) == \A b \in Actors \ {a} :
  \/ act'[b] = act[b]
  \/ act[b].pc \in {"write", "agent"} /\ act'[b] = [act[b] EXCEPT !.stale = TRUE]

\* Being told that a copy is stale changes nothing of what an actor has in hand.
LEMMA OthersHold ==
  ASSUME Types, NEW a \in Actors, Others(a), NEW b \in Actors \ {a}
  PROVE  /\ act'[b] \in ActorType
         /\ act'[b].pc = act[b].pc /\ act'[b].op = act[b].op /\ act'[b].task = act[b].task
         /\ act'[b].key = act[b].key /\ act'[b].copy = act[b].copy /\ act'[b].todo = act[b].todo
<1>1. act[b] \in ActorType
  BY DEF Types
<1>2. CASE act'[b] = act[b]
  BY <1>1, <1>2
<1>3. CASE act'[b] = [act[b] EXCEPT !.stale = TRUE]
  BY <1>1, <1>3 DEF ActorType
<1> QED BY <1>2, <1>3 DEF Others

\* The others keep their shape and what they hold.
LEMMA OthersKeep ==
  ASSUME Types, Shapes, NEW a \in Actors, Others(a), archived \subseteq archived', born \subseteq born',
         NEW b \in Actors \ {a}
  PROVE  /\ Shape(b, act[b])' /\ \A k : Holds(act'[b], k) <=> Holds(act[b], k)
         /\ \A t : Asking(act'[b], t) <=> Asking(act[b], t)
<1>1. Shape(b, act[b])
  BY DEF Shapes
<1> QED BY <1>1, OthersHold DEF Shape, Holds, Asking

\* Nobody creates or gives up a lock.
LEMMA LockStays ==
  ASSUME Types, Shapes, Locked, NEW a \in Actors, Others(a), bypassed \subseteq bypassed',
         archived \subseteq archived', born \subseteq born',
         \A k \in Keys : lock'[k].by = lock[k].by
                         /\ (lock'[k].state = "free" => lock[k].state = "free"),
         \A k \in Keys : Holds(act'[a], k) <=> Holds(act[a], k)
  PROVE  Locked'
<1>1. \A b \in Actors, k \in Keys : Holds(act'[b], k) <=> Holds(act[b], k)
  BY OthersKeep
<1> HIDE DEF Holds
<1> QED BY <1>1 DEF Locked

\* A lock that was free is created.
LEMMA LockTaken ==
  ASSUME Types, Shapes, Locked, NEW a \in Actors, Others(a), bypassed' = bypassed,
         archived \subseteq archived', born \subseteq born', NEW k \in Keys, lock[k].by = None,
         lock' = [lock EXCEPT ![k] = [state |-> "torn", by |-> a]],
         Holds(act'[a], k), \A i \in Keys \ {k} : Holds(act'[a], i) <=> Holds(act[a], i)
  PROVE  Locked'
<1>1. \A b \in Actors \ {a}, i \in Keys : Holds(act'[b], i) <=> Holds(act[b], i)
  BY OthersKeep
<1>2. lock'[k].by = a /\ lock'[k].state = "torn" /\ \A i \in Keys \ {k} : lock'[i] = lock[i]
  BY DEF Types
<1>3. None \notin Actors
  BY TasksAssumption DEF Actors
<1> HIDE DEF Holds
<1>4. ASSUME NEW i \in Keys \ bypassed, NEW b \in Actors
      PROVE  lock'[i].by = b <=> Holds(act'[b], i)
  <2>1. lock[i].by = b <=> Holds(act[b], i)
    BY DEF Locked
  <2>2. CASE i = k
    BY <1>1, <1>2, <1>3, <2>1, <2>2
  <2>3. CASE i # k
    BY <1>1, <1>2, <2>1, <2>3
  <2> QED BY <2>2, <2>3
<1> QED BY <1>2, <1>4 DEF Locked

\* The file of a lock is removed by one who no longer counts on it: if it was
\* another's, it is bypassed.
LEMMA LockRemoved ==
  ASSUME Types, Shapes, Locked, NEW a \in Actors, Others(a),
         archived \subseteq archived', born \subseteq born', NEW k \in Keys, Removed(a, k),
         ~Holds(act'[a], k), \A i \in Keys \ {k} : Holds(act'[a], i) <=> Holds(act[a], i)
  PROVE  Locked'
<1>1. \A b \in Actors \ {a}, i \in Keys : Holds(act'[b], i) <=> Holds(act[b], i)
  BY OthersKeep
<1>2. lock'[k] = Free /\ \A i \in Keys \ {k} : lock'[i] = lock[i]
  BY DEF Types, Removed
<1>3. None \notin Actors /\ Free.by = None
  BY TasksAssumption DEF Actors, Free
<1>4. bypassed \subseteq bypassed' /\ (k \notin bypassed' => lock[k].by \notin Actors \ {a})
  BY DEF Removed
<1> HIDE DEF Holds, Free
<1>5. ASSUME NEW i \in Keys \ bypassed', NEW b \in Actors
      PROVE  lock'[i].by = b <=> Holds(act'[b], i)
  <2>1. lock[i].by = b <=> Holds(act[b], i)
    BY <1>4 DEF Locked
  <2>2. CASE i = k
    BY <1>1, <1>2, <1>3, <1>4, <2>1, <2>2
  <2>3. CASE i # k
    BY <1>1, <1>2, <2>1, <2>3
  <2> QED BY <2>2, <2>3
<1> QED BY <1>2, <1>3, <1>5 DEF Locked

-----------------------------------------------------------------------------
(***************************************************************************)
(* Steps that leave the files of the tasks alone.                          *)
(***************************************************************************)

\* Two who count on the same lock are one.
LEMMA OneHolder ==
  ASSUME Locked, NEW k \in Keys \ bypassed, NEW a \in Actors, NEW b \in Actors,
         Holds(act[a], k), Holds(act[b], k)
  PROVE  a = b
BY DEF Locked

\* An actor goes on to r without a task's file being touched; if it goes on to
\* write, or to wait for an answer, it has a fresh copy.
LEMMA ActorStep ==
  ASSUME IInv, NEW a \in Actors, NEW r \in ActorType, act' = [act EXCEPT ![a] = r],
         UNCHANGED <<file, scenario, crashes, born>>, archived \subseteq archived',
         sent' \in [Tasks -> Nat], lock' \in [Keys -> LockType],
         bypassed \subseteq bypassed', bypassed' \subseteq Keys,
         Shape(a, r)', Locked', r.task \notin bypassed => Fresh(r), AllCounted'
  PROVE  IInv'
<1>1. act' \in [Actors -> ActorType] /\ act'[a] = r
      /\ \A b \in Actors \ {a} : act'[b] = act[b]
  BY DEF IInv, Types
<1>2. Types'
  BY <1>1 DEF IInv, Types
<1>3. Others(a)
  BY <1>1 DEF Others
<1>4. Shapes'
  <2> SUFFICES ASSUME NEW b \in Actors PROVE Shape(b, act[b])'
    BY DEF Shapes
  <2>1. CASE b = a
    BY <1>1, <2>1
  <2>2. CASE b # a
    BY <1>3, <2>2, OthersKeep DEF IInv
  <2> QED BY <2>1, <2>2
<1>5. Born'
  BY DEF IInv, Born, Exists, NothingVanishes
<1>6. AllFresh'
  BY <1>1 DEF IInv, AllFresh, Fresh
<1> QED BY <1>2, <1>4, <1>5, <1>6 DEF IInv

\* The same for one that asks nobody: if it goes on to write, its copy counts
\* every request.
LEMMA QuietStep ==
  ASSUME IInv, NEW a \in Actors, NEW r \in ActorType, act' = [act EXCEPT ![a] = r],
         UNCHANGED <<file, sent, scenario, crashes, born>>, archived \subseteq archived',
         lock' \in [Keys -> LockType],
         bypassed \subseteq bypassed', bypassed' \subseteq Keys,
         Shape(a, r)', Locked', act[a].pc # "write", r.task \notin bypassed => Fresh(r),
         crashes = 0 => \A t \in Tasks \ bypassed : Counts(r, t)
  PROVE  IInv'
<1>1. act'[a] = r /\ \A b \in Actors \ {a} : act'[b] = act[b]
  BY DEF IInv, Types
<1>2. AllCounted'
  <2> SUFFICES ASSUME crashes = 0, NEW t \in Tasks \ bypassed' PROVE Counted(t)'
    BY DEF AllCounted, IInv, Types
  <2>1. Counted(t)
    BY DEF IInv, AllCounted
  <2>2. \A b \in Actors : Counts(act'[b], t)
    BY <1>1, <2>1 DEF Counted
  <2>3. (\A b \in Actors : ~Asking(act'[b], t)) => (\A b \in Actors : ~Asking(act[b], t))
    BY <1>1 DEF Asking
  <2> QED BY <2>1, <2>2, <2>3 DEF Counted, Counts, Exists
<1>3. sent' \in [Tasks -> Nat]
  BY DEF IInv, Types
<1> QED BY <1>2, <1>3, ActorStep

\* The same for an actor that has no copy to write.
LEMMA CalmStep ==
  ASSUME IInv, NEW a \in Actors, NEW r \in ActorType, act' = [act EXCEPT ![a] = r],
         UNCHANGED <<file, sent, scenario, crashes, born>>, archived \subseteq archived',
         lock' \in [Keys -> LockType], bypassed \subseteq bypassed', bypassed' \subseteq Keys,
         Shape(a, r)', Locked', act[a].pc # "write",
         r.pc # "write", r.pc # "agent" \/ r.op # "unblock"
  PROVE  IInv'
<1>1. Fresh(r) /\ \A t : Counts(r, t)
  BY DEF Fresh, Counts
<1> QED BY <1>1, QuietStep

\* An actor that goes on tells the others nothing.
LEMMA MoveAlone ==
  ASSUME Types, NEW a \in Actors, NEW r, act' = [act EXCEPT ![a] = r]
  PROVE  Others(a) /\ act'[a] = r
BY DEF Types, Others

\* An actor that does nothing.
LEMMA RestTypes ==
  /\ AtRest \in ActorType /\ AtRest.pc = "rest"
  /\ \A a \in Actors : Shape(a, AtRest)
  /\ \A k \in Keys : ~Holds(AtRest, k)
<1>1. None \notin Keys
  BY TasksAssumption DEF Keys, Pickup
<1>2. AtRest \in ActorType
  BY DEF AtRest, ActorType, Pcs
<1> QED BY <1>1, <1>2, TasksAssumption
        DEF AtRest, Shape, Holds, Acquiring, Actors, Keys, Pickup

\* What an actor at a lock asks for.
LEMMA AskedKey ==
  ASSUME Types, Shapes, NEW a \in Actors, act[a].pc \in Acquiring
  PROVE  /\ act[a] \in ActorType /\ Shape(a, act[a])
         /\ act[a].key \in Keys
         /\ act[a].pc # "fill" => ~Holds(act[a], act[a].key)
<1>1. act[a] \in ActorType /\ Shape(a, act[a])
  BY DEF Types, Shapes
<1>2. Pickup \notin Tasks
  BY TasksAssumption DEF Pickup
<1>3. act[a].key \in Keys
  BY <1>1 DEF Shape, Keys
<1> QED BY <1>1, <1>2, <1>3 DEF Holds, Acquiring, Shape

\* Where an actor goes that does not get a lock; it counts on the locks it had.
LEMMA RefusedGoes ==
  ASSUME Types, Shapes, NEW a \in Actors, act[a].pc \in {"probe", "open"}
  PROVE  /\ Refused(a) \in ActorType /\ Shape(a, Refused(a))
         /\ Refused(a).pc \notin {"write", "agent"}
         /\ \A k \in Keys : Holds(Refused(a), k) <=> Holds(act[a], k)
<1> DEFINE r == act[a]
<1>0. /\ r \in ActorType /\ Shape(a, r) /\ r.key \in Keys
      /\ r.pc \in {"probe", "open"} /\ (a \in Calls \/ a \in Chains)
  BY AskedKey DEF Acquiring, Actors
<1>1. None \notin Keys /\ Pickup \notin Tasks /\ Calls \cap Chains = {} /\ Pickup \in Keys
      /\ Tasks \subseteq Keys
  BY TasksAssumption DEF Keys, Pickup
<1>2. "delegate" \notin Stages \cup {"pickup"}
  BY DEF Stages
<1>3. CASE r.op = "delegate"
  <2>1. Refused(a) = [r EXCEPT !.pc = "reread", !.key = None]
    BY <1>3 DEF Refused
  <2> DEFINE n == [r EXCEPT !.pc = "reread", !.key = None]
  <2>2. n \in ActorType /\ n.pc = "reread" /\ n.key = None /\ n.task = r.task /\ n.op = r.op
       /\ n.todo = r.todo
    BY <1>0 DEF ActorType, Pcs
  <2> HIDE DEF n
  <2>3. a \in Calls /\ a \notin Chains /\ r.task \in Tasks
    BY <1>0, <1>1, <1>2, <1>3 DEF Shape, Acquiring
  <2>4. Shape(a, n)
    BY <1>0, <1>3, <2>2, <2>3 DEF Shape, Acquiring
  <2>5. \A k \in Keys : ~Holds(n, k) /\ ~Holds(r, k)
    BY <1>0, <1>1, <1>3, <2>2 DEF Holds
  <2> QED BY <2>1, <2>2, <2>4, <2>5 DEF n
<1>4. CASE r.op # "delegate" /\ a \in Calls
  <2>1. Refused(a) = AtRest
    BY <1>4 DEF Refused
  <2>2. r.op # "pickup"
    BY <1>0, <1>4 DEF Shape, Ops
  <2>3. \A k \in Keys : ~Holds(r, k)
    BY <1>0, <2>2 DEF Holds
  <2> QED BY <2>1, <2>3, RestTypes
<1>5. CASE r.op # "delegate" /\ a \notin Calls /\ r.op = "pickup" /\ r.key # Pickup
  <2>1. Refused(a) = [r EXCEPT !.pc = "release", !.key = Pickup]
    BY <1>5 DEF Refused
  <2> DEFINE n == [r EXCEPT !.pc = "release", !.key = Pickup]
  <2>2. n \in ActorType /\ n.pc = "release" /\ n.key = Pickup /\ n.task = r.task /\ n.op = r.op
       /\ n.todo = r.todo
    BY <1>0, <1>1 DEF ActorType, Pcs
  <2> HIDE DEF n
  <2>3. Shape(a, n)
    BY <1>0, <1>1, <1>5, <2>2 DEF Shape, Acquiring
  <2>4. \A k \in Keys : Holds(n, k) <=> k = Pickup
    BY <1>1, <1>5, <2>2 DEF Holds
  <2>5. \A k \in Keys : Holds(r, k) <=> k = Pickup
    BY <1>0, <1>5 DEF Holds, Keys
  <2> QED BY <2>1, <2>2, <2>3, <2>4, <2>5 DEF n
<1>6. CASE r.op # "delegate" /\ a \notin Calls /\ ~(r.op = "pickup" /\ r.key # Pickup)
  <2>1. Refused(a) = [r EXCEPT !.pc = "next", !.key = None, !.task = None]
    BY <1>6 DEF Refused
  <2> DEFINE n == [r EXCEPT !.pc = "next", !.key = None, !.task = None]
  <2>2. n \in ActorType /\ n.pc = "next" /\ n.key = None /\ n.op = r.op
       /\ n.task = None /\ n.todo = r.todo
    BY <1>0 DEF ActorType, Pcs
  <2> HIDE DEF n
  <2>3. Shape(a, n)
    BY <1>0, <1>6, <2>2 DEF Shape, Acquiring
  <2>4. \A k \in Keys : ~Holds(n, k) /\ ~Holds(r, k)
    BY <1>0, <1>1, <1>6, <2>2 DEF Holds
  <2> QED BY <2>1, <2>2, <2>3, <2>4 DEF n
<1> QED BY <1>3, <1>4, <1>5, <1>6

-----------------------------------------------------------------------------
(***************************************************************************)
(* acquireTaskLock and release.                                            *)
(***************************************************************************)

\* A lock that nobody has is created.
LEMMA OpenedKeeps ==
  ASSUME IInv, NEW a \in Actors, act[a].pc \in {"probe", "open"}, Opened(a),
         lock[act[a].key].state = "free",
         UNCHANGED <<bounds, file, archived, sent, bypassed>>
  PROVE  IInv'
<1>0. Types /\ Shapes /\ Locked
  BY DEF IInv
<1> PICK r, k : r = act[a] /\ k = act[a].key
  OBVIOUS
<1>1. r \in ActorType /\ Shape(a, r) /\ k \in Keys /\ ~Holds(r, k)
      /\ r.pc \in {"probe", "open"} /\ k = r.key
  BY <1>0, AskedKey DEF Acquiring
<1> PICK n : n = [r EXCEPT !.pc = "fill"]
  OBVIOUS
<1>2. act' = [act EXCEPT ![a] = n] /\ lock' = [lock EXCEPT ![k] = [state |-> "torn", by |-> a]]
  BY DEF Opened, Move
<1>3. n \in ActorType /\ n.pc = "fill" /\ n.key = k /\ n.op = r.op /\ n.task = r.task
      /\ n.copy = r.copy /\ n.todo = r.todo
  BY <1>1 DEF ActorType, Pcs
<1>4. Shape(a, n)
  BY <1>1, <1>3 DEF Shape, Acquiring
<1>5. Holds(n, k) /\ \A i \in Keys \ {k} : Holds(n, i) <=> Holds(r, i)
  BY <1>1, <1>3 DEF Holds
<1>6. lock[k].by = None
  BY <1>0, <1>1 DEF Locked
<1>7. lock' \in [Keys -> LockType]
  BY <1>0, <1>2 DEF Types, LockType
<1>8. Locked'
  <2>1. Others(a) /\ act'[a] = n
    BY <1>0, <1>2, MoveAlone
  <2>2. Holds(act'[a], k) /\ \A i \in Keys \ {k} : Holds(act'[a], i) <=> Holds(act[a], i)
    BY <1>5, <2>1
  <2>3. bypassed' = bypassed /\ archived \subseteq archived' /\ born \subseteq born'
    BY DEF bounds
  <2> HIDE DEF Holds, Others
  <2> QED BY <1>0, <1>1, <1>2, <1>6, <2>1, <2>2, <2>3, LockTaken
<1>9. Shape(a, n)'
  BY <1>4 DEF Shape, bounds
<1> QED BY <1>0, <1>1, <1>2, <1>3, <1>7, <1>8, <1>9, CalmStep DEF bounds, Types

\* One that another has is left to it, or is to be removed.
LEMMA NotOpenedKeeps ==
  ASSUME IInv, NEW a \in Actors, act[a].pc \in {"probe", "open"},
         NEW n \in ActorType, act' = [act EXCEPT ![a] = n],
         n = Refused(a) \/ (act[a].pc = "probe" /\ n = [act[a] EXCEPT !.pc = "unlink"]),
         UNCHANGED <<bounds, lock, file, archived, sent, bypassed>>
  PROVE  IInv'
<1>0. Types /\ Shapes /\ Locked
  BY DEF IInv
<1>1. /\ Shape(a, n) /\ n.pc \notin {"write", "agent"}
      /\ \A k \in Keys : Holds(n, k) <=> Holds(act[a], k)
  <2>1. CASE n = Refused(a)
    BY <1>0, <2>1, RefusedGoes
  <2>2. CASE act[a].pc = "probe" /\ n = [act[a] EXCEPT !.pc = "unlink"]
    <3>1. act[a] \in ActorType /\ Shape(a, act[a])
      BY <1>0 DEF Types, Shapes
    <3>2. n.pc = "unlink" /\ n.key = act[a].key /\ n.op = act[a].op /\ n.task = act[a].task
          /\ n.copy = act[a].copy /\ n.todo = act[a].todo
      BY <2>2, <3>1 DEF ActorType
    <3> QED BY <2>2, <3>1, <3>2 DEF Shape, Acquiring, Holds
  <2> QED BY <2>1, <2>2
<1>2. Locked'
  BY <1>0, <1>1, MoveAlone, LockStays DEF bounds
<1>3. Shape(a, n)'
  BY <1>1 DEF Shape, bounds
<1> QED BY <1>0, <1>1, <1>2, <1>3, CalmStep DEF bounds, Types

\* An actor looks whether the lock is free.
LEMMA ProbeKeeps ==
  ASSUME IInv, NEW a \in Actors, Probe(a)
  PROVE  IInv'
<1>0. act[a].pc = "probe" /\ act[a] \in ActorType
  BY DEF Probe, At, IInv, Types
<1>1. CASE Opened(a) /\ lock[act[a].key].state = "free"
  BY <1>0, <1>1, OpenedKeeps DEF Probe
<1>2. CASE Move(a, Refused(a)) /\ UNCHANGED lock
  <2>1. Refused(a) \in ActorType
    BY <1>0, RefusedGoes DEF IInv
  <2> QED BY <1>0, <1>2, <2>1, NotOpenedKeeps DEF Probe, Move
<1>3. CASE Move(a, [act[a] EXCEPT !.pc = "unlink"]) /\ UNCHANGED lock
  <2>1. [act[a] EXCEPT !.pc = "unlink"] \in ActorType
    BY <1>0 DEF ActorType, Pcs
  <2> QED BY <1>0, <1>3, <2>1, NotOpenedKeeps DEF Probe, Move
<1> QED BY <1>1, <1>2, <1>3 DEF Probe

\* An actor creates the lock file, or finds one.
LEMMA OpenKeeps ==
  ASSUME IInv, NEW a \in Actors, Open(a)
  PROVE  IInv'
<1>0. act[a].pc = "open"
  BY DEF Open, At
<1>1. CASE lock[act[a].key] = Free
  <2>1. Opened(a) /\ lock[act[a].key].state = "free"
    BY <1>1 DEF Open, Free
  <2> QED BY <1>0, <2>1, OpenedKeeps DEF Open
<1>2. CASE lock[act[a].key] # Free
  <2>1. Refused(a) \in ActorType
    BY <1>0, RefusedGoes DEF IInv
  <2> QED BY <1>0, <1>2, <2>1, NotOpenedKeeps DEF Open, Move
<1> QED BY <1>1, <1>2

\* The file of a lock found old, dead or malformed is removed: if it is
\* another's by now, the lock is bypassed.
LEMMA UnlinkKeeps ==
  ASSUME IInv, NEW a \in Actors, Unlink(a)
  PROVE  IInv'
<1>0. Types /\ Shapes /\ Locked
  BY DEF IInv
<1> PICK r, k : r = act[a] /\ k = act[a].key
  OBVIOUS
<1>1. r \in ActorType /\ Shape(a, r) /\ k \in Keys /\ ~Holds(r, k)
      /\ r.pc = "unlink" /\ k = r.key
  BY <1>0, AskedKey DEF Acquiring, Unlink, At
<1> PICK n : n = [r EXCEPT !.pc = "open"]
  OBVIOUS
<1>2. act' = [act EXCEPT ![a] = n] /\ Removed(a, k)
  BY DEF Unlink, Move
<1>3. n \in ActorType /\ n.pc = "open" /\ n.key = k /\ n.op = r.op /\ n.task = r.task
      /\ n.copy = r.copy /\ n.todo = r.todo
  BY <1>1 DEF ActorType, Pcs
<1>4. Shape(a, n)'
  BY <1>1, <1>3 DEF Shape, Acquiring, Unlink, bounds
<1>5. \A i \in Keys : Holds(n, i) <=> Holds(r, i)
  BY <1>1, <1>3 DEF Holds
<1>6. lock' \in [Keys -> LockType]
  BY <1>0, <1>2 DEF Types, LockType, Removed, Free
<1>7. bypassed \subseteq bypassed' /\ bypassed' \subseteq Keys /\ archived \subseteq archived' /\ born \subseteq born'
  BY <1>0, <1>1, <1>2 DEF Removed, Types, Unlink, bounds
<1>8. Locked'
  <2>1. Others(a) /\ act'[a] = n
    BY <1>0, <1>2, MoveAlone
  <2>2. ~Holds(act'[a], k) /\ \A i \in Keys \ {k} : Holds(act'[a], i) <=> Holds(act[a], i)
    BY <1>1, <1>5, <2>1
  <2> HIDE DEF Holds, Others
  <2> QED BY <1>0, <1>1, <1>2, <1>7, <2>1, <2>2, LockRemoved
<1>9. UNCHANGED <<file, sent, scenario, crashes, born>>
  BY DEF Unlink, bounds
<1>10. act[a].pc # "write" /\ n.pc # "write" /\ n.pc # "agent"
  BY <1>1, <1>3
<1> QED BY <1>2, <1>3, <1>4, <1>6, <1>7, <1>8, <1>9, <1>10, CalmStep

\* What a tool makes of a copy: only those that read again leave a task blocked
\* without a new block, and its requests stand.
LEMMA EffectsOf ==
  ASSUME NEW o \in Ops, NEW f \in Content, NEW g \in Effects(o, f)
  PROVE  /\ g \in Content
         /\ g.status = "blocked" /\ o # "block" =>
              o \in Rereading /\ f.status = "blocked" /\ g.requests = f.requests
<1>1. 0 \in 0..MaxRequests /\ 0 \in 0..MaxFailures
  BY TasksAssumption
<1>2. CASE o \in {"update", "delegate"}
  BY <1>2 DEF Effects, Content, Touched, Rereading
<1>3. CASE o = "complete"
  BY <1>3 DEF Effects, Content, Touched, Rereading, Statuses
<1>4. CASE o = "cancel"
  BY <1>4 DEF Effects, Content, Statuses
<1>5. CASE o \in {"approve", "pick"}
  BY <1>5 DEF Effects, Content, Touched, Statuses
<1>6. CASE o = "block"
  BY <1>1, <1>6 DEF Effects, Content, Touched, Statuses
<1>7. CASE o = "resume"
  BY <1>1, <1>7 DEF Effects, Content, Touched, Statuses
<1> QED BY <1>2, <1>3, <1>4, <1>5, <1>6, <1>7 DEF Ops

\* A lock that was created is written, if it is still there.
LEMMA FillKeeps ==
  ASSUME IInv, NEW a \in Actors, Fill(a)
  PROVE  IInv'
<1>0. Types /\ Shapes /\ Locked
  BY DEF IInv
<1> PICK r, k : r = act[a] /\ k = act[a].key
  OBVIOUS
<1>1. r \in ActorType /\ Shape(a, r) /\ k \in Keys /\ r.pc = "fill" /\ k = r.key
      /\ (a \in Calls \/ a \in Chains) /\ r.op # "none"
  BY <1>0, AskedKey DEF Acquiring, Fill, At, Actors, Shape
<1>2. lock' \in [Keys -> LockType]
      /\ \A i \in Keys : lock'[i].by = lock[i].by
                         /\ (lock'[i].state = "free" => lock[i].state = "free")
  BY <1>0, <1>1, ZenonT(30) DEF Types, LockType, Fill
<1>3. UNCHANGED <<file, sent, scenario, crashes, born, archived, bypassed>>
  BY DEF Fill, bounds
<1>4. Pickup \notin Tasks
  BY TasksAssumption DEF Pickup
<1>5. CASE r.op \in Rereading \cup Stages
  <2> PICK n : n = [r EXCEPT !.pc = IF r.key = Pickup THEN "look" ELSE "reread"]
    OBVIOUS
  <2>1. act' = [act EXCEPT ![a] = n]
    BY <1>5 DEF Fill, Move
  <2>2. n \in ActorType /\ n.key = k /\ n.op = r.op /\ n.task = r.task
        /\ n.copy = r.copy /\ n.todo = r.todo
        /\ n.pc = (IF k = Pickup THEN "look" ELSE "reread")
    BY <1>1 DEF ActorType, Pcs
  <2>3. Shape(a, n)'
    <3>1. CASE k = Pickup
      <4>1. n.pc = "look" /\ r.op = "pickup"
        BY <1>1, <1>4, <2>2, <3>1 DEF Shape, Acquiring
      <4>2. r.op \notin Ops
        BY <4>1 DEF Ops
      <4> QED BY <1>1, <1>3, <2>2, <3>1, <4>1, <4>2 DEF Shape, Acquiring
    <3>2. CASE k # Pickup
      BY <1>1, <1>3, <2>2, <3>2 DEF Shape, Acquiring
    <3> QED BY <3>1, <3>2
  <2>4. \A i \in Keys : Holds(n, i) <=> Holds(r, i)
    BY <1>1, <2>2 DEF Holds
  <2>5. Locked'
    <3> HIDE DEF Holds, Others
    <3>1. act' = [act EXCEPT ![a] = n]
      BY <2>1
    <3>2. Others(a) /\ act'[a] = n
      BY <1>0, <3>1, MoveAlone
    <3>3. \A i \in Keys : Holds(act'[a], i) <=> Holds(act[a], i)
      BY <2>4, <3>2
    <3> QED BY <1>0, <1>2, <1>3, <3>2, <3>3, LockStays
  <2>6. act[a].pc # "write" /\ n.pc # "write" /\ n.pc # "agent"
    BY <1>1, <2>2
  <2> QED BY <1>0, <1>2, <1>3, <2>1, <2>2, <2>3, <2>5, <2>6, CalmStep DEF Types
<1>6. CASE r.op \notin Rereading \cup Stages
  <2>0. r.op \in Ops \ Rereading /\ r.copy \in Content
    BY <1>1, <1>6 DEF Shape, Acquiring
  <2>1. PICK f \in Effects(r.op, r.copy) :
             act' = [act EXCEPT ![a] = [r EXCEPT !.pc = "write", !.copy = f]]
    BY <1>6 DEF Fill, Move
  <2> PICK n : n = [r EXCEPT !.pc = "write", !.copy = f]
    OBVIOUS
  <2>2. f \in Content /\ (f.status # "blocked" \/ r.op = "block")
    BY <2>0, EffectsOf
  <2>3. n \in ActorType /\ n.key = k /\ n.op = r.op /\ n.task = r.task
        /\ n.copy = f /\ n.todo = r.todo /\ n.pc = "write"
    BY <1>1, <2>2 DEF ActorType, Pcs
  <2>4. Shape(a, n)'
    <3>1. r.op \notin {"pickup", "unblock", "remind", "zombies"}
      BY <1>6 DEF Stages
    <3> QED BY <1>1, <1>3, <2>2, <2>3, <3>1 DEF Shape, Acquiring
  <2>5. \A i \in Keys : Holds(n, i) <=> Holds(r, i)
    BY <1>1, <2>3 DEF Holds
  <2>6. Locked'
    <3> HIDE DEF Holds, Others
    <3>1. act' = [act EXCEPT ![a] = n]
      BY <2>1
    <3>2. Others(a) /\ act'[a] = n
      BY <1>0, <3>1, MoveAlone
    <3>3. \A i \in Keys : Holds(act'[a], i) <=> Holds(act[a], i)
      BY <2>5, <3>2
    <3> QED BY <1>0, <1>2, <1>3, <3>2, <3>3, LockStays
  <2>7. Fresh(n) /\ \A t \in Tasks \ bypassed : Counts(n, t)
    BY <1>6, <2>2, <2>3 DEF Fresh, Counts
  <2>8. act[a].pc # "write"
    BY <1>1
  <2> QED BY <1>0, <1>2, <1>3, <2>1, <2>3, <2>4, <2>6, <2>7, <2>8, QuietStep DEF Types
<1> QED BY <1>5, <1>6

\* A lock is given up; who picks up a task gives up two.
LEMMA ReleaseKeeps ==
  ASSUME IInv, NEW a \in Actors, Release(a)
  PROVE  IInv'
<1>0. Types /\ Shapes /\ Locked
  BY DEF IInv
<1> PICK r : r = act[a]
  OBVIOUS
<1>1. r \in ActorType /\ Shape(a, r) /\ r.pc = "release"
      /\ (a \in Calls \/ a \in Chains) /\ r.op # "none"
      /\ (r.key \in Keys \/ (r.key = None /\ r.op \in {"approve", "delegate"}))
  BY <1>0 DEF Types, Shapes, Shape, Release, At, Actors
<1>2. UNCHANGED <<file, sent, scenario, crashes, born, archived>>
  BY DEF Release, bounds
<1>3. Pickup \notin Tasks /\ None \notin Keys /\ Pickup \in Keys /\ Calls \cap Chains = {}
      /\ Keys = Tasks \cup {Pickup}
  BY TasksAssumption DEF Pickup, Keys
<1> PICK n : n = IF a \in Calls THEN AtRest
                 ELSE IF r.op = "pickup" /\ r.key # Pickup THEN [r EXCEPT !.key = Pickup]
                 ELSE [r EXCEPT !.pc = "next", !.key = None, !.task = None]
  OBVIOUS
<1>4. act' = [act EXCEPT ![a] = n]
  BY DEF Release, Move
<1>5. n \in ActorType /\ Shape(a, n)' /\ n.pc \notin {"write", "agent"}
      /\ (r.key = None => \A i \in Keys : Holds(n, i) <=> Holds(r, i))
      /\ (r.key \in Keys => /\ ~Holds(n, r.key)
                            /\ \A i \in Keys \ {r.key} : Holds(n, i) <=> Holds(r, i))
  <2>1. CASE a \in Calls
    <3>1. n = AtRest
      BY <2>1
    <3>2. r.op # "pickup"
      BY <1>1, <2>1 DEF Shape, Ops
    <3>3. Shape(a, n)'
      BY <1>2, <3>1, RestTypes DEF Shape
    <3>4. \A i \in Keys : ~Holds(n, i)
      BY <3>1, RestTypes
    <3>5. \A i \in Keys \ {r.key} : ~Holds(r, i)
      BY <3>2 DEF Holds
    <3> QED BY <1>3, <3>1, <3>3, <3>4, <3>5, RestTypes
  <2>2. CASE a \notin Calls /\ r.op = "pickup" /\ r.key # Pickup
    <3>1. n = [r EXCEPT !.key = Pickup]
      BY <2>2
    <3>2. n \in ActorType /\ n.pc = "release" /\ n.key = Pickup /\ n.op = r.op
          /\ n.task = r.task /\ n.todo = r.todo
      BY <1>1, <1>3, <3>1 DEF ActorType
    <3>3. Shape(a, n)'
      BY <1>1, <1>2, <1>3, <2>2, <3>2 DEF Shape, Acquiring
    <3>4. r.key \in Tasks
      BY <1>1, <1>3, <2>2
    <3>5. \A i \in Keys : Holds(n, i) <=> i = Pickup
      BY <1>3, <2>2, <3>2 DEF Holds
    <3>6. \A i \in Keys \ {r.key} : Holds(r, i) <=> i = Pickup
      BY <2>2, <3>4 DEF Holds
    <3> QED BY <1>3, <3>2, <3>3, <3>4, <3>5, <3>6
  <2>3. CASE a \notin Calls /\ ~(r.op = "pickup" /\ r.key # Pickup)
    <3>1. n = [r EXCEPT !.pc = "next", !.key = None, !.task = None]
      BY <2>3
    <3>2. n \in ActorType /\ n.pc = "next" /\ n.key = None /\ n.op = r.op
          /\ n.task = None /\ n.todo = r.todo
      BY <1>1, <3>1 DEF ActorType, Pcs
    <3>3. Shape(a, n)'
      BY <1>1, <1>2, <2>3, <3>2 DEF Shape, Acquiring
    <3>4. \A i \in Keys : ~Holds(n, i)
      BY <1>3, <3>2 DEF Holds
    <3>5. \A i \in Keys \ {r.key} : ~Holds(r, i)
      BY <1>3, <2>3 DEF Holds
    <3> QED BY <1>1, <1>3, <3>2, <3>3, <3>4, <3>5
  <2> QED BY <2>1, <2>2, <2>3
<1>6. Others(a) /\ act'[a] = n
  BY <1>0, <1>4, MoveAlone
<1> HIDE DEF Holds, Others, Shape
<1>7. Locked' /\ lock' \in [Keys -> LockType] /\ bypassed \subseteq bypassed' /\ bypassed' \subseteq Keys
  <2>1. CASE r.key = None
    <3>1. UNCHANGED <<lock, bypassed>>
      BY <2>1 DEF Release
    <3>2. \A i \in Keys : Holds(act'[a], i) <=> Holds(act[a], i)
      BY <1>5, <1>6, <2>1
    <3> QED BY <1>0, <1>2, <1>6, <3>1, <3>2, LockStays DEF Types
  <2>2. CASE r.key \in Keys
    <3>1. Removed(a, r.key)
      BY <1>3, <2>2 DEF Release
    <3>2. ~Holds(act'[a], r.key)
          /\ \A i \in Keys \ {r.key} : Holds(act'[a], i) <=> Holds(act[a], i)
      BY <1>5, <1>6, <2>2
    <3>3. Locked'
      BY <1>0, <1>2, <1>6, <2>2, <3>1, <3>2, LockRemoved
    <3> QED BY <1>0, <2>2, <3>1, <3>3 DEF Types, LockType, Removed, Free
  <2> QED BY <1>1, <2>1, <2>2
<1>8. act[a].pc # "write"
  BY <1>1
<1> QED BY <1>0, <1>2, <1>4, <1>5, <1>7, <1>8, CalmStep DEF Types

\* No actor does anything, and the files of the tasks stay as they are.
LEMMA AloneKeeps ==
  ASSUME IInv, UNCHANGED <<file, sent, scenario, act, bypassed, archived, born, crashes>>,
         lock' \in [Keys -> LockType], Locked'
  PROVE  IInv'
<1>1. Types' /\ Born' /\ AllFresh' /\ AllCounted'
  BY DEF IInv, Types, Born, Exists, NothingVanishes, AllFresh, Fresh, AllCounted, Counted,
         Counts, Asking
<1>2. Shapes'
  BY DEF IInv, Shapes, Shape
<1> QED BY <1>1, <1>2 DEF IInv

\* A lock gets old.
LEMMA AgesKeeps ==
  ASSUME IInv, NEW k \in Keys, Ages(k)
  PROVE  IInv'
<1>1. lock' \in [Keys -> LockType] /\ \A i \in Keys : lock'[i].by = lock[i].by
      /\ (lock'[i].state = "free" => lock[i].state = "free")
  BY DEF IInv, Types, LockType, Ages
<1>2. UNCHANGED <<file, sent, scenario, act, bypassed, archived, born, crashes>>
  BY DEF Ages, bounds
<1>3. Locked'
  BY <1>1, <1>2 DEF IInv, Locked, Holds
<1> QED BY <1>1, <1>2, <1>3, AloneKeeps

-----------------------------------------------------------------------------
(***************************************************************************)
(* Steps that replace or remove the file of a task.                        *)
(***************************************************************************)

\* Who replaces the file of t and goes on to n, having the lock of t or having
\* bypassed it, spoils no copy that was read under the lock.
LEMMA ReplaceKeeps ==
  ASSUME IInv, NEW a \in Actors, NEW t \in Tasks, NEW f \in Content \cup {None},
         NEW n \in ActorType, Replaced(a, t, f, n),
         act[a].task = t, act[a].pc \in {"write", "delete"},
         UNCHANGED <<lock, archived, scenario, crashes, born>>,
         sent' \in [Tasks -> Nat], \A u \in Tasks \ {t} : sent'[u] = sent[u],
         sent'[t] \in {0, sent[t]},
         IF act[a].key = None THEN bypassed' = bypassed \cup {t} ELSE bypassed' = bypassed,
         Shape(a, n)', n.pc # "write", n.pc = "agent" => n.op # "unblock",
         \A k \in Keys : Holds(n, k) <=> Holds(act[a], k),
         f = None => t \in archived,
         crashes = 0 /\ f # None /\ f.status = "blocked" /\ t \notin bypassed' =>
           sent'[t] <= f.requests
  PROVE  IInv'
<1>0. Types /\ Shapes /\ Locked /\ t \in Keys
  BY DEF IInv, Keys
<1>1. act'[a] = n /\ Others(a) /\ act' \in [Actors -> ActorType]
  <2>1. act'[a] = n
    BY DEF Replaced
  <2>2. Others(a)
    BY DEF Replaced, Others
  <2>3. \A b \in Actors : act'[b] \in ActorType
    BY <1>0, <2>1, <2>2, OthersHold
  <2>4. act' = [b \in Actors |-> act'[b]]
    BY DEF Replaced
  <2> QED BY <2>1, <2>2, <2>3, <2>4
<1>2. file' = [file EXCEPT ![t] = f] /\ file'[t] = f /\ \A u \in Tasks \ {t} : file'[u] = file[u]
  BY <1>0 DEF Replaced, Types
<1>3. Types'
  BY <1>0, <1>1, <1>2 DEF Types
<1>4. bypassed \subseteq bypassed'
  OBVIOUS
<1>5. Shapes'
  <2> SUFFICES ASSUME NEW b \in Actors PROVE Shape(b, act[b])'
    BY DEF Shapes
  <2>1. CASE b = a
    BY <1>1, <2>1
  <2>2. CASE b # a
    BY <1>0, <1>1, <2>2, OthersKeep
  <2> QED BY <2>1, <2>2
<1>6. Locked'
  <2>1. \A k \in Keys : Holds(act'[a], k) <=> Holds(act[a], k)
    BY <1>1
  <2> HIDE DEF Holds, Others
  <2> QED BY <1>0, <1>1, <1>4, <2>1, LockStays
<1>7. Born'
  <2>1. t \in born
    BY <1>0, NoContent, TasksAssumption DEF Shapes, Shape
  <2>2. \A u \in Tasks : file'[u] # None => u \in born
    BY <1>2, <2>1 DEF IInv, Born, Exists
  <2>3. \A u \in born : file'[u] # None \/ u \in archived
    BY <1>2 DEF IInv, Born, Exists, NothingVanishes
  <2> QED BY <2>2, <2>3 DEF Born, Exists, NothingVanishes
\* Nobody else has the lock of t, unless it is bypassed.
<1>8. ASSUME NEW b \in Actors \ {a}, t \notin bypassed'
      PROVE  ~Holds(act[b], t)
  <2>1. Holds(act[a], t)
    <3>1. act[a].key # None
      BY <1>8
    <3>2. act[a].key = t
      BY <1>0, <3>1 DEF Shapes, Shape
    <3> QED BY <3>2 DEF Holds
  <2>2. t \in Keys \ bypassed
    BY <1>0, <1>8
  <2> HIDE DEF Holds
  <2> QED BY <1>0, <2>1, <2>2, OneHolder
<1>9. AllFresh'
  <2> SUFFICES ASSUME NEW b \in Actors, act'[b].task \notin bypassed' PROVE Fresh(act[b])'
    BY DEF AllFresh
  <2>1. CASE b = a
    BY <1>1, <2>1 DEF Fresh
  <2>2. CASE b # a
    <3>1. act[b] \in ActorType /\ Shape(b, act[b])
      BY <1>0 DEF Types, Shapes
    <3>2. act'[b].pc = act[b].pc /\ act'[b].op = act[b].op /\ act'[b].task = act[b].task
          /\ act'[b].key = act[b].key /\ act'[b].copy = act[b].copy
      BY <1>0, <1>1, <2>2, OthersHold
    <3>3. Fresh(act[b])
      BY <3>2 DEF IInv, AllFresh
    <3>4. CASE act[b].task = t
      <4>1. ~Holds(act[b], t)
        BY <1>8, <2>2, <3>2, <3>4
      <4>2. act[b].key # t \/ act[b].pc \notin {"write", "agent"}
        BY <4>1 DEF Holds
      <4> QED BY <3>1, <3>2, <3>4, <4>2 DEF Fresh, Shape
    <3>5. CASE act[b].task # t
      <4>1. act'[b] = act[b]
        BY <2>2, <3>5 DEF Replaced
      <4>2. CASE act[b].pc = "agent" /\ act[b].op = "unblock"
        <5>1. act[b].task \in Tasks \ {t}
          BY <3>1, <3>5, <4>2 DEF Shape
        <5> QED BY <1>2, <3>3, <4>1, <4>2, <5>1 DEF Fresh
      <4> QED BY <3>3, <4>1, <4>2 DEF Fresh
    <3> QED BY <3>4, <3>5
  <2> QED BY <2>1, <2>2
<1>10. AllCounted'
  <2> SUFFICES ASSUME crashes = 0, NEW u \in Tasks \ bypassed' PROVE Counted(u)'
    BY <1>0 DEF AllCounted, Types
  <2>0. Counted(u)
    BY DEF IInv, AllCounted
  <2>1. \A b \in Actors \ {a} :
          /\ act'[b].pc = act[b].pc /\ act'[b].op = act[b].op /\ act'[b].task = act[b].task
          /\ act'[b].key = act[b].key /\ act'[b].copy = act[b].copy
    BY <1>0, <1>1, OthersHold
  <2>2. CASE u # t
    <3>1. sent'[u] = sent[u] /\ file'[u] = file[u]
      BY <1>2, <2>2
    <3>2. ~Asking(act'[a], u) /\ ~Asking(act[a], u)
      BY <1>1, <2>2 DEF Asking
    <3>3. \A b \in Actors : Asking(act'[b], u) <=> Asking(act[b], u)
      BY <2>1, <3>2 DEF Asking
    <3>4. \A b \in Actors : Counts(act[b], u)'
      <4> SUFFICES ASSUME NEW b \in Actors PROVE Counts(act[b], u)'
        OBVIOUS
      <4>1. CASE b = a
        BY <1>1, <4>1 DEF Counts
      <4>2. CASE b # a
        BY <2>0, <2>1, <3>1, <4>2 DEF Counted, Counts
      <4> QED BY <4>1, <4>2
    <3> QED BY <2>0, <3>1, <3>3, <3>4 DEF Counted, Exists
  <2>3. CASE u = t
    <3>1. sent'[t] <= MaxRequests
      BY <1>0, <2>0, <2>3, TasksAssumption DEF Counted, Types
    <3>2. file'[t] # None /\ file'[t].status = "blocked" => sent'[t] <= file'[t].requests
      BY <1>2, <2>3
    <3>3. \A b \in Actors : Counts(act[b], t)'
      <4> SUFFICES ASSUME NEW b \in Actors PROVE Counts(act[b], t)'
        OBVIOUS
      <4>1. CASE b = a
        BY <1>1, <4>1 DEF Counts
      <4>2. CASE b # a
        <5>1. ~Holds(act[b], t) /\ Shape(b, act[b])
          BY <1>0, <1>8, <2>3, <4>2 DEF Shapes
        <5>2. ~(act[b].pc = "write" /\ act[b].key = t)
          BY <5>1 DEF Holds
        <5>3. ~(act[b].pc = "write" /\ act[b].task = t /\ act[b].key # None)
          BY <5>1, <5>2 DEF Shape
        <5> QED BY <2>1, <4>2, <5>3 DEF Counts
      <4> QED BY <4>1, <4>2
    <3> QED BY <2>3, <3>1, <3>2, <3>3 DEF Counted, Exists
  <2> QED BY <2>2, <2>3
<1> QED BY <1>3, <1>5, <1>6, <1>7, <1>9, <1>10 DEF IInv

\* An actor that gives up no lock and creates none goes on to n.
LEMMA GoesOn ==
  ASSUME IInv, NEW a \in Actors, NEW n \in ActorType, Move(a, n),
         UNCHANGED <<file, sent, scenario, crashes, born, lock, bypassed>>,
         archived \subseteq archived', Shape(a, n)', act[a].pc # "write",
         \A k \in Keys : Holds(n, k) <=> Holds(act[a], k),
         n.task \notin bypassed => Fresh(n),
         crashes = 0 => \A t \in Tasks \ bypassed : Counts(n, t)
  PROVE  IInv'
<1>0. Types /\ Shapes /\ Locked /\ act' = [act EXCEPT ![a] = n]
  BY DEF IInv, Move
<1>1. Locked'
  <2> HIDE DEF Holds, Others
  <2>1. Others(a) /\ act'[a] = n
    BY <1>0, MoveAlone
  <2>2. \A k \in Keys : Holds(act'[a], k) <=> Holds(act[a], k)
    BY <2>1
  <2> QED BY <1>0, <2>1, <2>2, LockStays
<1>2. lock' \in [Keys -> LockType] /\ bypassed \subseteq bypassed' /\ bypassed' \subseteq Keys
  BY <1>0 DEF Types
<1> QED BY <1>0, <1>1, <1>2, QuietStep

\* The same for an actor that has no copy to write.
LEMMA GoesOnCalmly ==
  ASSUME IInv, NEW a \in Actors, NEW n \in ActorType, Move(a, n),
         UNCHANGED <<file, sent, scenario, crashes, born, lock, bypassed>>,
         archived \subseteq archived', Shape(a, n)', act[a].pc # "write",
         \A k \in Keys : Holds(n, k) <=> Holds(act[a], k),
         n.pc # "write", n.pc # "agent" \/ n.op # "unblock"
  PROVE  IInv'
<1>1. Fresh(n) /\ \A t : Counts(n, t)
  BY DEF Fresh, Counts
<1> QED BY <1>1, GoesOn

\* Who has read a task under its lock finds every request counted in its file:
\* whoever is to write one down would have the lock.
LEMMA FileCounts ==
  ASSUME IInv, crashes = 0, NEW a \in Actors, NEW t \in Tasks \ bypassed,
         act[a].pc \in {"reread", "agent"}, act[a].key = t
  PROVE  /\ sent[t] <= MaxRequests
         /\ Exists(t) /\ file[t].status = "blocked" => sent[t] <= file[t].requests
         /\ \A b \in Actors \ {a} :
              ~(act[b].pc = "write" /\ act[b].task = t /\ act[b].key # None)
<1>0. Locked /\ Shapes /\ Counted(t) /\ t \in Keys \ bypassed
  BY DEF IInv, AllCounted, Keys
<1>1. Holds(act[a], t)
  BY DEF Holds
<1>2. ASSUME NEW b \in Actors, act[b].pc = "write", act[b].task = t, act[b].key # None
      PROVE  FALSE
  <2>1. act[b].key = t
    BY <1>0, <1>2 DEF Shapes, Shape
  <2>2. Holds(act[b], t)
    BY <1>2, <2>1 DEF Holds
  <2>3. a = b
    BY <1>0, <1>1, <2>2, OneHolder
  <2> QED BY <1>2, <2>3
<1>3. \A b \in Actors : ~Asking(act[b], t)
  <2> SUFFICES ASSUME NEW b \in Actors, Asking(act[b], t) PROVE FALSE
    OBVIOUS
  <2>1. act[b].key # None
    BY <1>0, TasksAssumption DEF Asking, Shapes, Shape
  <2> QED BY <1>2, <2>1 DEF Asking
<1> QED BY <1>0, <1>2, <1>3 DEF Counted

-----------------------------------------------------------------------------
(***************************************************************************)
(* The steps of a tool call.                                               *)
(***************************************************************************)

\* The process runs, and an actor at pc is one.
LEMMA AtWhere ==
  ASSUME IInv, NEW a \in Actors, NEW pc, At(a, pc)
  PROVE  act[a].pc = pc /\ act[a] \in ActorType /\ Shape(a, act[a])
BY DEF IInv, Types, Shapes, At

\* What an actor holds has the type of a file.
LEMMA FileContent ==
  ASSUME IInv, NEW t \in Tasks, Exists(t)
  PROVE  file[t] \in Content /\ t \in born
BY DEF IInv, Types, Exists, Born

\* A tool is called.
LEMMA CallKeeps ==
  ASSUME IInv, NEW c \in Calls, NEW o \in Ops, NEW t \in Tasks, Call(c, o, t)
  PROVE  IInv'
<1>0. c \in Actors /\ c \notin Chains /\ t # None /\ t \in Keys
  BY TasksAssumption DEF Actors, Keys
<1>1. act[c].pc = "rest" /\ act[c] \in ActorType /\ Shape(c, act[c])
      /\ file[t] \in Content /\ t \in born
  BY <1>0, AtWhere, FileContent DEF Call
<1>2. UNCHANGED <<file, sent, scenario, crashes, born, lock, bypassed, archived>>
  BY DEF Call
<1>3. \A k \in Keys : ~Holds(act[c], k)
  BY <1>1, TasksAssumption DEF Holds, Shape, Keys, Pickup
<1>4. CASE o = "approve"
  <2>1. PICK f \in Effects(o, file[t]) :
          Move(c, [AtRest EXCEPT !.pc = "write", !.op = o, !.task = t, !.copy = f])
    BY <1>4 DEF Call
  <2> PICK n : n = [AtRest EXCEPT !.pc = "write", !.op = o, !.task = t, !.copy = f]
    OBVIOUS
  <2>2. f \in Content
    BY <1>1, EffectsOf
  <2>3. n.pc = "write" /\ n.op = o /\ n.task = t /\ n.key = None /\ n.copy = f /\ n.todo = {}
        /\ n \in ActorType
    BY <2>2 DEF AtRest, ActorType, Pcs
  <2>4. Shape(c, n)'
    BY <1>0, <1>1, <1>2, <1>4, <2>2, <2>3 DEF Shape, Acquiring, Ops
  <2>5. \A k \in Keys : Holds(n, k) <=> Holds(act[c], k)
    BY <1>3, <1>4, <2>3, TasksAssumption DEF Holds, Keys, Pickup
  <2>6. Fresh(n) /\ \A u \in Tasks \ bypassed : Counts(n, u)
    BY <2>3 DEF Fresh, Counts
  <2>7. Move(c, n) /\ act[c].pc # "write"
    BY <1>1, <2>1
  <2> QED BY <1>0, <1>2, <2>3, <2>4, <2>5, <2>6, <2>7, GoesOn
<1>5. CASE o # "approve"
  <2> PICK n : n = [AtRest EXCEPT !.pc = "probe", !.op = o, !.task = t, !.key = t,
                                  !.copy = IF o \in Rereading THEN None ELSE file[t]]
    OBVIOUS
  <2>1. Move(c, n)
    BY <1>5 DEF Call
  <2>2. n.pc = "probe" /\ n.op = o /\ n.task = t /\ n.key = t /\ n.todo = {}
        /\ n.copy = (IF o \in Rereading THEN None ELSE file[t])
    BY DEF AtRest
  <2>3. n \in ActorType
    BY <1>0, <1>1 DEF AtRest, ActorType, Pcs
  <2>4. Shape(c, n)'
    BY <1>0, <1>1, <1>2, <2>2 DEF Shape, Acquiring, Ops, Stages
  <2>5. \A k \in Keys : Holds(n, k) <=> Holds(act[c], k)
    BY <1>3, <2>2 DEF Holds, Ops
  <2>6. act[c].pc # "write" /\ n.pc # "write" /\ n.pc # "agent"
    BY <1>1, <2>2
  <2> QED BY <1>0, <1>2, <2>1, <2>3, <2>4, <2>5, <2>6, GoesOnCalmly
<1> QED BY <1>4, <1>5

\* The task is read again under the lock.
LEMMA RereadKeeps ==
  ASSUME IInv, NEW c \in Actors, Reread(c)
  PROVE  IInv'
<1>0. c \in Calls /\ c \notin Chains
  BY TasksAssumption DEF Reread
<1> PICK r, t : r = act[c] /\ t = act[c].task
  OBVIOUS
<1>1. r.pc = "reread" /\ r \in ActorType /\ Shape(c, r) /\ t = r.task
  BY AtWhere DEF Reread
<1>2. UNCHANGED <<file, sent, scenario, crashes, born, lock, bypassed, archived>>
  BY DEF Reread, bounds
<1>3. t \in Tasks /\ t \in Keys /\ r.op \in Ops
      /\ (r.key = t \/ (r.key = None /\ r.op \in {"approve", "delegate"}))
  BY <1>0, <1>1 DEF Shape, Keys
<1>4. CASE Move(c, [r EXCEPT !.pc = "release"])
  <2> PICK n : n = [r EXCEPT !.pc = "release"]
    OBVIOUS
  <2>1. n \in ActorType /\ n.pc = "release" /\ n.op = r.op /\ n.task = r.task /\ n.key = r.key
        /\ n.todo = r.todo
    BY <1>1 DEF ActorType, Pcs
  <2>2. Shape(c, n)'
    BY <1>0, <1>1, <1>2, <1>3, <2>1 DEF Shape, Acquiring
  <2>3. \A k \in Keys : Holds(n, k) <=> Holds(act[c], k)
    BY <1>1, <2>1 DEF Holds
  <2>4. act[c].pc # "write" /\ n.pc # "write" /\ n.pc # "agent"
    BY <1>1, <2>1
  <2> QED BY <1>2, <1>4, <2>1, <2>2, <2>3, <2>4, GoesOnCalmly
<1>5. CASE \E f \in Effects(r.op, file[t]) :
             Exists(t) /\ Move(c, [r EXCEPT !.pc = "write", !.copy = f, !.stale = FALSE])
  <2>1. PICK f \in Effects(r.op, file[t]) :
          Exists(t) /\ Move(c, [r EXCEPT !.pc = "write", !.copy = f, !.stale = FALSE])
    BY <1>5
  <2> PICK n : n = [r EXCEPT !.pc = "write", !.copy = f, !.stale = FALSE]
    OBVIOUS
  <2>2. /\ f \in Content
        /\ f.status = "blocked" /\ r.op # "block" =>
             file[t].status = "blocked" /\ f.requests = file[t].requests
    BY <1>3, <2>1, EffectsOf, FileContent
  <2>3. n \in ActorType /\ n.pc = "write" /\ n.op = r.op /\ n.task = r.task /\ n.key = r.key
        /\ n.todo = r.todo /\ n.copy = f /\ n.stale = FALSE
    BY <1>1, <2>2 DEF ActorType, Pcs
  <2>4. Shape(c, n)'
    BY <1>0, <1>1, <1>2, <1>3, <2>2, <2>3 DEF Shape, Acquiring
  <2>5. \A k \in Keys : Holds(n, k) <=> Holds(act[c], k)
    BY <1>1, <2>3 DEF Holds
  <2>6. ASSUME crashes = 0, NEW u \in Tasks \ bypassed PROVE Counts(n, u)
    <3>1. CASE u = t /\ r.key = t
      <4>1. Exists(t) /\ file[t].status = "blocked" => sent[t] <= file[t].requests
        BY <1>1, <2>6, <3>1, FileCounts
      <4> QED BY <2>1, <2>2, <2>3, <3>1, <4>1 DEF Counts
    <3>2. CASE ~(u = t /\ r.key = t)
      BY <1>1, <1>3, <2>3, <3>2 DEF Counts
    <3> QED BY <3>1, <3>2
  <2>7. Fresh(n) /\ Move(c, n) /\ act[c].pc # "write"
    BY <1>1, <2>1, <2>3 DEF Fresh
  <2> QED BY <1>2, <2>3, <2>4, <2>5, <2>6, <2>7, GoesOn
<1> QED BY <1>4, <1>5 DEF Reread

\* The history has an entry for the task before its file may go.
LEMMA ArchiveKeeps ==
  ASSUME IInv, NEW c \in Calls, Archive(c)
  PROVE  IInv'
<1>0. c \in Actors /\ c \notin Chains
  BY TasksAssumption DEF Actors
<1> PICK r : r = act[c]
  OBVIOUS
<1>1. r.pc = "archive" /\ r \in ActorType /\ Shape(c, r)
  BY <1>0, AtWhere DEF Archive
<1>2. UNCHANGED <<file, sent, scenario, crashes, born, lock, bypassed>>
      /\ archived \subseteq archived'
  BY DEF Archive, bounds
<1>3. r.key = r.task /\ r.task \in Tasks /\ r.task \in Keys
  BY <1>1 DEF Shape, Keys
<1>4. PICK pc \in {"delete", "release"} :
        Move(c, [r EXCEPT !.pc = pc]) /\ (pc = "delete" => r.task \in archived')
  BY DEF Archive
<1> PICK n : n = [r EXCEPT !.pc = pc]
  OBVIOUS
<1>5. n \in ActorType /\ n.pc = pc /\ n.op = r.op /\ n.task = r.task /\ n.key = r.key
      /\ n.todo = r.todo
  BY <1>1 DEF ActorType, Pcs
<1>6. Shape(c, n)'
  BY <1>0, <1>1, <1>2, <1>3, <1>4, <1>5 DEF Shape, Acquiring
<1>7. \A k \in Keys : Holds(n, k) <=> Holds(act[c], k)
  BY <1>1, <1>5 DEF Holds
<1>8. act[c].pc # "write" /\ n.pc # "write" /\ n.pc # "agent"
  BY <1>1, <1>5
<1> QED BY <1>0, <1>2, <1>4, <1>5, <1>6, <1>7, <1>8, GoesOnCalmly

\* The file goes.
LEMMA DeleteKeeps ==
  ASSUME IInv, NEW c \in Calls, Delete(c)
  PROVE  IInv'
<1>0. c \in Actors /\ c \notin Chains
  BY TasksAssumption DEF Actors
<1> PICK r, t : r = act[c] /\ t = act[c].task
  OBVIOUS
<1>1. r.pc = "delete" /\ r \in ActorType /\ Shape(c, r) /\ t = r.task
  BY <1>0, AtWhere DEF Delete
<1>2. UNCHANGED <<sent, scenario, crashes, born, lock, bypassed, archived>>
  BY DEF Delete, bounds
<1>3. r.key = t /\ t \in Tasks /\ t \in Keys /\ t \in archived /\ r.key # None
  BY <1>1, TasksAssumption DEF Shape, Keys
<1> PICK n : n = [r EXCEPT !.pc = "release"]
  OBVIOUS
<1>4. n \in ActorType /\ n.pc = "release" /\ n.op = r.op /\ n.task = r.task /\ n.key = r.key
      /\ n.todo = r.todo
  BY <1>1 DEF ActorType, Pcs
<1>5. Shape(c, n)'
  BY <1>0, <1>1, <1>2, <1>3, <1>4 DEF Shape, Acquiring
<1>6. \A k \in Keys : Holds(n, k) <=> Holds(act[c], k)
  BY <1>1, <1>4 DEF Holds
<1>7. Replaced(c, t, None, n)
  BY DEF Delete
<1>8. sent' \in [Tasks -> Nat] /\ sent' = sent
  BY <1>2 DEF IInv, Types
<1> HIDE DEF Replaced, Holds, Shape
<1> QED BY <1>0, <1>1, <1>2, <1>3, <1>4, <1>5, <1>6, <1>7, <1>8, ReplaceKeeps

\* What is written down of a copy differs from it in the recoveries only.
LEMMA StoredCopy ==
  ASSUME NEW c \in Content
  PROVE  /\ Stored(c) \in Content /\ Stored(c).status = c.status
         /\ Stored(c).requests = c.requests
<1>1. 0 \in 0..MaxReassign
  BY TasksAssumption
<1> QED BY <1>1 DEF Stored, Content

\* writeTask.
LEMMA WriteKeeps ==
  ASSUME IInv, NEW a \in Actors, Write(a)
  PROVE  IInv'
<1> PICK r, t, f : r = act[a] /\ t = act[a].task /\ f = Stored(act[a].copy)
  OBVIOUS
<1>1. r.pc = "write" /\ r \in ActorType /\ Shape(a, r) /\ t = r.task /\ r.copy \in Content
  BY AtWhere DEF Write, Shape
<1>2. UNCHANGED <<scenario, crashes, born, lock, archived>>
  BY DEF Write, bounds
<1>3. /\ t \in Tasks /\ t \in Keys /\ f \in Content /\ f # None /\ r.op # "none"
      /\ f.status = r.copy.status /\ f.requests = r.copy.requests
      /\ (a \in Calls \/ a \in Chains) /\ Calls \cap Chains = {}
      /\ (r.key = t \/ (r.key = None /\ r.op \in {"approve", "delegate"}))
  <2>1. /\ f \in Content /\ f.status = r.copy.status
        /\ f.requests = r.copy.requests
    BY <1>1, StoredCopy
  <2> QED BY <1>1, <2>1, NoContent, TasksAssumption DEF Shape, Keys, Actors
<1>4. PICK pc \in Afterwards(a) : Replaced(a, t, f, Done(r, pc))
  BY DEF Write
<1> PICK n : n = Done(r, pc)
  OBVIOUS
<1>5. /\ pc \in {"archive", "agent", "release"}
      /\ pc = "archive" => r.op \in {"complete", "cancel"}
      /\ pc = "agent" => r.op \in {"pickup", "zombies"}
  BY <1>4 DEF Afterwards
<1>6. n \in ActorType /\ n.pc = pc /\ n.op = r.op /\ n.task = r.task /\ n.key = r.key
      /\ n.todo = r.todo
  BY <1>1, <1>5 DEF Done, ActorType, Pcs
<1>7. Shape(a, n)'
  <2>1. CASE pc = "archive"
    <3>1. a \in Calls /\ a \notin Chains
      BY <1>1, <1>3, <1>5, <2>1 DEF Shape, Stages
    <3> QED BY <1>1, <1>2, <1>3, <1>5, <1>6, <2>1, <3>1 DEF Shape, Acquiring
  <2>2. CASE pc = "agent"
    <3>1. a \in Chains /\ a \notin Calls
      BY <1>1, <1>3, <1>5, <2>2 DEF Shape, Ops
    <3> QED BY <1>1, <1>2, <1>3, <1>5, <1>6, <2>2, <3>1 DEF Shape, Acquiring, Stages
  <2>3. CASE pc = "release"
    BY <1>1, <1>2, <1>3, <1>5, <1>6, <2>3 DEF Shape, Acquiring
  <2> QED BY <1>5, <2>1, <2>2, <2>3
<1>8. \A k \in Keys : Holds(n, k) <=> Holds(act[a], k)
  BY <1>1, <1>5, <1>6 DEF Holds
<1>9. sent' \in [Tasks -> Nat] /\ (\A u \in Tasks \ {t} : sent'[u] = sent[u])
      /\ sent'[t] = IF r.op = "block" THEN 0 ELSE sent[t]
  BY <1>3 DEF IInv, Types, Write
<1>10. IF act[a].key = None THEN bypassed' = bypassed \cup {t} ELSE bypassed' = bypassed
  BY DEF Write
<1>11. ASSUME crashes = 0, f.status = "blocked", t \notin bypassed'
       PROVE  sent'[t] <= f.requests
  <2>1. r.key # None /\ t \notin bypassed
    BY <1>10, <1>11
  <2>2. CASE r.op = "block"
    BY <1>3, <1>9, <2>2, TasksAssumption DEF Content
  <2>3. CASE r.op # "block"
    <3>1. Counts(r, t)
      BY <1>3, <1>11, <2>1 DEF IInv, AllCounted, Counted
    <3> QED BY <1>1, <1>3, <1>9, <1>11, <2>1, <2>3, <3>1 DEF Counts
  <2> QED BY <2>2, <2>3
<1>12. n.pc # "write" /\ (n.pc = "agent" => n.op # "unblock")
  BY <1>5, <1>6
<1> HIDE DEF Replaced, Holds, Shape
<1> QED BY <1>1, <1>2, <1>3, <1>4, <1>6, <1>7, <1>8, <1>9, <1>10, <1>11, <1>12, ReplaceKeeps

-----------------------------------------------------------------------------
(***************************************************************************)
(* The steps of a chain of checks.                                         *)
(***************************************************************************)

\* A chain at pc is in one of the stages, and has no task in the pickup's list.
LEMMA ChainWhere ==
  ASSUME IInv, NEW k \in Chains, NEW pc, At(k, pc)
  PROVE  /\ k \in Actors /\ k \notin Calls
         /\ act[k].pc = pc /\ act[k] \in ActorType /\ Shape(k, act[k])
         /\ pc # "rest" => act[k].op \in Stages
         /\ Pickup \in Keys /\ Pickup \notin Tasks /\ None \notin Keys /\ Tasks \subseteq Keys
<1>1. k \in Actors /\ k \notin Calls
  BY TasksAssumption DEF Actors
<1>2. act[k].pc = pc /\ act[k] \in ActorType /\ Shape(k, act[k])
  BY <1>1, AtWhere
<1>3. pc # "rest" => act[k].op \in Stages
  BY <1>2 DEF Shape
<1>4. Pickup \in Keys /\ Pickup \notin Tasks /\ None \notin Keys /\ Tasks \subseteq Keys
  BY TasksAssumption DEF Pickup, Keys
<1> QED BY <1>1, <1>2, <1>3, <1>4

\* Where a stage begins, nobody has a lock; and so it ends.
LEMMA BeginsStage ==
  ASSUME IInv, NEW k \in Chains, act[k].pc \in {"rest", "next"}, NEW n \in ActorType,
         Move(k, n), UNCHANGED <<bounds, file, lock, archived, sent, bypassed>>,
         n.task = None, n.todo \subseteq born,
         \/ n.pc = "next" /\ n.key = None /\ n.op \in {"zombies", "unblock", "remind"}
         \/ n.pc = "probe" /\ n.key = Pickup /\ n.op = "pickup" /\ n.todo = {}
         \/ n = AtRest
  PROVE  IInv'
<1>0. k \in Actors /\ k \notin Calls /\ act[k] \in ActorType /\ Shape(k, act[k])
  BY TasksAssumption DEF Actors, IInv, Types, Shapes
<1>1. None \notin Keys /\ Pickup \in Keys /\ Pickup \notin Tasks
  BY TasksAssumption DEF Pickup, Keys
<1>2. UNCHANGED <<file, sent, scenario, crashes, born, lock, bypassed, archived>>
  BY DEF bounds
<1>3. Shape(k, n)'
  <2>1. CASE n = AtRest
    BY <1>0, <1>2, <2>1, RestTypes DEF Shape
  <2>2. CASE n # AtRest
    BY <1>0, <1>2, <2>2 DEF Shape, Acquiring, Stages
  <2> QED BY <2>1, <2>2
<1>4. \A i \in Keys : ~Holds(act[k], i)
  BY <1>0, <1>1 DEF Shape, Holds, Keys
<1>5. \A i \in Keys : ~Holds(n, i)
  BY <1>1, RestTypes DEF Holds, Keys
<1>6. act[k].pc # "write" /\ n.pc # "write" /\ n.pc # "agent"
  BY RestTypes
<1> QED BY <1>0, <1>2, <1>3, <1>4, <1>5, <1>6, GoesOnCalmly

\* The timer fires.
LEMMA CheckKeeps ==
  ASSUME IInv, NEW k \in Chains, Check(k)
  PROVE  IInv'
<1> PICK n : n = [AtRest EXCEPT !.pc = "next", !.op = "zombies",
                                !.todo = {t \in Tasks : Exists(t)}]
  OBVIOUS
<1>1. n \in ActorType /\ n.pc = "next" /\ n.key = None /\ n.op = "zombies" /\ n.task = None
      /\ n.todo = {t \in Tasks : Exists(t)}
  BY DEF AtRest, ActorType, Pcs, Stages
<1>2. n.todo \subseteq born
  BY <1>1 DEF IInv, Born
<1>3. Move(k, n) /\ UNCHANGED <<bounds, file, lock, archived, sent, bypassed>>
      /\ act[k].pc = "rest"
  BY DEF Check, At
<1> QED BY <1>1, <1>2, <1>3, BeginsStage

\* A stage is through with its list.
LEMMA NextStageKeeps ==
  ASSUME IInv, NEW k \in Chains, NextStage(k)
  PROVE  IInv'
<1>0. act[k].pc = "next" /\ act[k].op \in Stages
  BY ChainWhere DEF NextStage
<1>1. PICK n \in Following(act[k].op) : Move(k, n)
  BY DEF NextStage
<1>2. UNCHANGED <<bounds, file, lock, archived, sent, bypassed>>
  BY DEF NextStage
<1>3. With("blocked") \subseteq Tasks /\ With("blocked") \subseteq born
  BY DEF With, IInv, Born
<1>4. CASE act[k].op = "zombies"
  <2>1. n = [AtRest EXCEPT !.pc = "probe", !.op = "pickup", !.key = Pickup]
    BY <1>1, <1>4 DEF Following
  <2>2. n \in ActorType /\ n.pc = "probe" /\ n.op = "pickup" /\ n.key = Pickup
        /\ n.task = None /\ n.todo = {}
    BY <2>1 DEF AtRest, ActorType, Pcs, Stages, Keys
  <2> QED BY <1>0, <1>1, <1>2, <2>2, BeginsStage
<1>5. CASE act[k].op = "pickup"
  <2>1. n = [AtRest EXCEPT !.pc = "next", !.op = "unblock", !.todo = With("blocked")]
    BY <1>1, <1>5 DEF Following
  <2>2. n \in ActorType /\ n.pc = "next" /\ n.op = "unblock" /\ n.key = None
        /\ n.task = None /\ n.todo = With("blocked")
    BY <1>3, <2>1 DEF AtRest, ActorType, Pcs, Stages
  <2> QED BY <1>0, <1>1, <1>2, <1>3, <2>2, BeginsStage
<1>6. CASE act[k].op = "unblock"
  <2>1. PICK todo \in SUBSET With("blocked") :
          n = [AtRest EXCEPT !.pc = "next", !.op = "remind", !.todo = todo]
    BY <1>1, <1>6 DEF Following
  <2>2. n \in ActorType /\ n.pc = "next" /\ n.op = "remind" /\ n.key = None
        /\ n.task = None /\ n.todo = todo
    BY <1>3, <2>1 DEF AtRest, ActorType, Pcs, Stages
  <2> QED BY <1>0, <1>1, <1>2, <1>3, <2>2, BeginsStage
<1>7. CASE act[k].op = "remind"
  <2>1. n = AtRest
    BY <1>1, <1>7 DEF Following
  <2>2. n \in ActorType /\ n.task = None /\ n.todo \subseteq born
    BY <2>1, RestTypes DEF AtRest
  <2> QED BY <1>0, <1>1, <1>2, <2>1, <2>2, BeginsStage
<1> QED BY <1>0, <1>4, <1>5, <1>6, <1>7 DEF Stages

\* The next task of the list.
LEMMA NextTaskKeeps ==
  ASSUME IInv, NEW k \in Chains, NEW t \in Tasks, NextTask(k, t)
  PROVE  IInv'
<1> PICK r : r = act[k]
  OBVIOUS
<1>0. /\ k \in Actors /\ k \notin Calls /\ r.pc = "next" /\ r \in ActorType /\ Shape(k, r)
      /\ r.op \in Stages /\ t \in Keys /\ t # Pickup /\ None \notin Keys
      /\ t \in r.todo /\ t \in born
  <2>1. At(k, "next") /\ t \in r.todo
    BY DEF NextTask
  <2>2. r.todo \subseteq born
    BY <2>1, ChainWhere DEF Shape
  <2> QED BY <2>1, <2>2, ChainWhere
<1>1. UNCHANGED <<file, sent, scenario, crashes, born, lock, bypassed, archived>>
  BY DEF NextTask, bounds
<1>2. r.op # "pickup" /\ r.key = None
  BY <1>0 DEF Shape
<1> PICK rest : rest = [r EXCEPT !.todo = @ \ {t}]
  OBVIOUS
<1>3. rest \in ActorType /\ rest.pc = "next" /\ rest.op = r.op /\ rest.task = r.task
      /\ rest.key = None /\ rest.todo = r.todo \ {t}
  BY <1>0, <1>2 DEF ActorType
<1>4. \A i \in Keys : ~Holds(r, i)
  BY <1>0, <1>2 DEF Holds
<1>5. act[k].pc # "write"
  BY <1>0
<1>6. CASE Move(k, rest)
  <2>1. Shape(k, rest)'
    BY <1>0, <1>1, <1>2, <1>3 DEF Shape, Acquiring
  <2>2. \A i \in Keys : ~Holds(rest, i)
    BY <1>2, <1>3 DEF Holds
  <2>3. rest.pc # "write" /\ rest.pc # "agent"
    BY <1>3
  <2> QED BY <1>0, <1>1, <1>3, <1>4, <1>5, <1>6, <2>1, <2>2, <2>3, GoesOnCalmly
<1>7. CASE Move(k, [rest EXCEPT !.pc = "probe", !.task = t, !.key = t])
  <2> PICK n : n = [rest EXCEPT !.pc = "probe", !.task = t, !.key = t]
    OBVIOUS
  <2>0. n \in ActorType /\ n.pc = "probe" /\ n.op = r.op /\ n.task = t /\ n.key = t
        /\ n.todo = r.todo \ {t}
    <3>1. n.pc = "probe" /\ n.op = rest.op /\ n.task = t /\ n.key = t /\ n.todo = rest.todo
      BY <1>3 DEF ActorType
    <3>2. ASSUME NEW x \in ActorType
          PROVE  [x EXCEPT !.pc = "probe", !.task = t, !.key = t] \in ActorType
      BY <1>0 DEF ActorType, Pcs
    <3>3. n \in ActorType
      BY <1>3, <3>2
    <3> QED BY <1>3, <3>1, <3>3
  <2>1. Shape(k, n)'
    BY <1>0, <1>1, <1>2, <2>0 DEF Shape, Acquiring
  <2>2. \A i \in Keys : ~Holds(n, i)
    BY <1>2, <2>0 DEF Holds
  <2>3. n.pc # "write" /\ n.pc # "agent"
    BY <2>0
  <2> QED BY <1>0, <1>1, <1>4, <1>5, <1>7, <2>0, <2>1, <2>2, <2>3, GoesOnCalmly
<1> QED BY <1>6, <1>7 DEF NextTask

\* With its lock, the check leaves the agent, or prompts it and waits for it.
LEMMA LookKeeps ==
  ASSUME IInv, NEW k \in Chains, Look(k)
  PROVE  IInv'
<1> PICK r : r = act[k]
  OBVIOUS
<1>0. /\ k \in Actors /\ k \notin Calls /\ r.pc = "look" /\ r \in ActorType /\ Shape(k, r)
      /\ r.op = "pickup" /\ r.key = Pickup /\ Pickup \in Keys
  <2>1. At(k, "look")
    BY DEF Look
  <2> QED BY <2>1, ChainWhere DEF Shape
<1>1. UNCHANGED <<file, sent, scenario, crashes, born, lock, bypassed, archived>>
  BY DEF Look, bounds
<1>2. PICK pc \in {"release", "agent"} : Move(k, [r EXCEPT !.pc = pc])
  BY DEF Look
<1> PICK n : n = [r EXCEPT !.pc = pc]
  OBVIOUS
<1>3. n \in ActorType /\ n.pc = pc /\ n.op = "pickup" /\ n.task = r.task
      /\ n.key = Pickup /\ n.todo = r.todo
  BY <1>0 DEF ActorType, Pcs
<1>4. Shape(k, n)'
  BY <1>0, <1>1, <1>3 DEF Shape, Acquiring, Stages
<1>5. \A i \in Keys : Holds(n, i) <=> Holds(act[k], i)
  BY <1>0, <1>3 DEF Holds
<1>6. act[k].pc # "write" /\ n.pc # "write" /\ n.op # "unblock"
  BY <1>0, <1>3
<1> QED BY <1>0, <1>1, <1>2, <1>3, <1>4, <1>5, <1>6, GoesOnCalmly

\* It asks for the lock of a task of the backlog too.
LEMMA PicksUpKeeps ==
  ASSUME IInv, NEW k \in Chains, PicksUp(k)
  PROVE  IInv'
<1> PICK r : r = act[k]
  OBVIOUS
<1>0. /\ k \in Actors /\ k \notin Calls /\ r.pc = "look" /\ r \in ActorType /\ Shape(k, r)
      /\ r.op = "pickup" /\ r.key = Pickup /\ Pickup \in Keys /\ Pickup \notin Tasks
      /\ Tasks \subseteq Keys
  <2>1. At(k, "look")
    BY DEF PicksUp
  <2> QED BY <2>1, ChainWhere DEF Shape
<1>1. UNCHANGED <<file, sent, scenario, crashes, born, lock, bypassed, archived>>
  BY DEF PicksUp, bounds
<1>2. PICK t \in With("backlog") : Move(k, [r EXCEPT !.pc = "probe", !.task = t, !.key = t])
  BY DEF PicksUp
<1>3. t \in Tasks /\ t \in born
  BY FileContent DEF With
<1> PICK n : n = [r EXCEPT !.pc = "probe", !.task = t, !.key = t]
  OBVIOUS
<1>4. n \in ActorType /\ n.pc = "probe" /\ n.op = "pickup" /\ n.task = t
      /\ n.key = t /\ n.todo = r.todo
  BY <1>0, <1>3 DEF ActorType, Pcs
<1>5. Shape(k, n)'
  BY <1>0, <1>1, <1>3, <1>4 DEF Shape, Acquiring, Stages
<1>6. \A i \in Keys : Holds(n, i) <=> Holds(act[k], i)
  <2>1. \A i \in Keys : Holds(n, i) <=> i = Pickup
    BY <1>3, <1>4 DEF Holds
  <2>2. \A i \in Keys : Holds(r, i) <=> i = Pickup
    BY <1>0 DEF Holds
  <2> QED BY <2>1, <2>2
<1>7. act[k].pc # "write" /\ n.pc # "write" /\ n.pc # "agent"
  BY <1>0, <1>4
<1> QED BY <1>0, <1>1, <1>2, <1>4, <1>5, <1>6, <1>7, GoesOnCalmly

\* What a check makes of a task: only a request leaves it blocked.
LEMMA RecoveredContent ==
  ASSUME NEW f \in Content
  PROVE  /\ Recovered(f) \in Content /\ Recovered(f).status # "blocked"
         /\ [Touched(f) EXCEPT !.status = "in_progress"] \in Content
         /\ [Touched(f) EXCEPT !.status = "in_progress"].status = "in_progress"
         /\ [f EXCEPT !.escalation = "failed"] \in Content
         /\ [f EXCEPT !.escalation = "failed"].requests = f.requests
<1>1. f.reassigned \in 0..MaxReassign /\ MaxReassign \in Nat
  BY TasksAssumption DEF Content
<1>2. CASE f.reassigned + 1 < MaxReassign
  <2>1. f.reassigned + 1 \in 0..MaxReassign
    BY <1>1, <1>2
  <2> QED BY <1>2, <2>1 DEF Content, Recovered, Touched, Statuses
<1>3. CASE ~(f.reassigned + 1 < MaxReassign)
  <2>1. MaxReassign \in 0..MaxReassign
    BY <1>1
  <2> QED BY <1>3, <2>1 DEF Content, Recovered, Touched, Statuses
<1> QED BY <1>2, <1>3

\* Read again under the lock: the task is written at once, asked about, or left.
LEMMA RereadByCheck ==
  ASSUME IInv, NEW k \in Chains, At(k, "reread"), NEW n \in ActorType, Move(k, n),
         UNCHANGED <<bounds, file, lock, archived, sent, bypassed>>,
         n.op = act[k].op, n.task = act[k].task, n.key = act[k].key, n.todo = act[k].todo,
         \/ n.pc = "release"
         \/ n.pc = "agent" /\ n.op # "unblock"
         \/ /\ n.pc = "write" /\ ~n.stale /\ n.copy \in Content /\ Exists(n.task)
            /\ n.copy.status = "blocked" =>
                 file[n.task].status = "blocked" /\ n.copy.requests = file[n.task].requests
         \/ /\ n.pc = "agent" /\ ~n.stale /\ n.copy = file[n.task] /\ n.copy \in Content
            /\ n.copy.status = "blocked" /\ n.copy.requests < MaxRequests
  PROVE  IInv'
<1> PICK r, t : r = act[k] /\ t = act[k].task
  OBVIOUS
<1>0. /\ k \in Actors /\ k \notin Calls /\ r.pc = "reread" /\ r \in ActorType /\ Shape(k, r)
      /\ r.op \in Stages
  BY ChainWhere
<1>1. UNCHANGED <<file, sent, scenario, crashes, born, lock, bypassed, archived>>
  BY DEF bounds
<1>2. t \in Tasks /\ t \in Keys /\ r.key = t /\ t = r.task
  BY <1>0 DEF Shape, Stages, Keys
<1>3. Shape(k, n)'
  BY <1>0, <1>1, <1>2 DEF Shape, Acquiring
<1>4. \A i \in Keys : Holds(n, i) <=> Holds(act[k], i)
  BY <1>0 DEF Holds
<1>5. Fresh(n)
  BY DEF Fresh
<1>6. ASSUME crashes = 0, NEW u \in Tasks \ bypassed PROVE Counts(n, u)
  <2>1. CASE u = t
    <3>1. Exists(t) /\ file[t].status = "blocked" => sent[t] <= file[t].requests
      BY <1>0, <1>2, <1>6, <2>1, FileCounts
    <3> QED BY <1>2, <2>1, <3>1 DEF Counts
  <2>2. CASE u # t
    BY <1>2, <2>2 DEF Counts
  <2> QED BY <2>1, <2>2
<1>7. act[k].pc # "write"
  BY <1>0
<1> HIDE DEF Shape, Holds, Fresh, Counts
<1> QED BY <1>0, <1>1, <1>3, <1>4, <1>5, <1>6, <1>7, GoesOn

\* A chain considers the task whose lock it holds.
LEMMA ConsiderKeeps ==
  ASSUME IInv, NEW k \in Chains, Consider(k)
  PROVE  IInv'
<1> PICK r, t, f : r = act[k] /\ t = act[k].task /\ f = file[act[k].task]
  OBVIOUS
<1>0. /\ k \in Actors /\ k \notin Calls /\ r.pc = "reread" /\ r \in ActorType /\ Shape(k, r)
      /\ r.op \in Stages /\ At(k, "reread")
  BY ChainWhere DEF Consider
<1>1. UNCHANGED <<bounds, file, lock, archived, sent, bypassed>>
  BY DEF Consider
<1>2. t \in Tasks /\ t = r.task
  BY <1>0 DEF Shape
<1>3. ASSUME NEW pc \in {"release", "agent"}, Move(k, [r EXCEPT !.pc = pc]),
             pc = "agent" => r.op = "remind"
      PROVE  IInv'
  <2> PICK n : n = [r EXCEPT !.pc = pc]
    OBVIOUS
  <2>1. n \in ActorType /\ n.pc = pc /\ n.op = r.op /\ n.task = r.task /\ n.key = r.key
        /\ n.todo = r.todo
    BY <1>0 DEF ActorType, Pcs
  <2> QED BY <1>0, <1>1, <1>3, <2>1, RereadByCheck
<1>4. ASSUME NEW g \in Content, Exists(t),
             g.status = "blocked" => f.status = "blocked" /\ g.requests = f.requests,
             Move(k, [r EXCEPT !.pc = "write", !.copy = g, !.stale = FALSE])
      PROVE  IInv'
  <2> PICK n : n = [r EXCEPT !.pc = "write", !.copy = g, !.stale = FALSE]
    OBVIOUS
  <2>1. n \in ActorType /\ n.pc = "write" /\ n.op = r.op /\ n.task = r.task /\ n.key = r.key
        /\ n.todo = r.todo /\ n.copy = g /\ n.stale = FALSE
    BY <1>0 DEF ActorType, Pcs
  <2>2. n.op = act[k].op /\ n.task = act[k].task /\ n.key = act[k].key /\ n.todo = act[k].todo
    BY <2>1
  <2>3. /\ n.pc = "write" /\ ~n.stale /\ n.copy \in Content /\ Exists(n.task)
        /\ n.copy.status = "blocked" =>
             file[n.task].status = "blocked" /\ n.copy.requests = file[n.task].requests
    BY <1>2, <1>4, <2>1
  <2>4. Move(k, n)
    BY <1>4
  <2> QED BY <1>0, <1>1, <2>1, <2>2, <2>3, <2>4, RereadByCheck
<1>5. CASE ~Still(r.op, t)
  <2>1. Move(k, [r EXCEPT !.pc = "release"])
    BY <1>5 DEF Consider
  <2> QED BY <1>3, <2>1
<1>6. CASE Still(r.op, t)
  <2>1. Exists(t) /\ f \in Content
    BY <1>2, <1>6, FileContent DEF Still
  <2>2. /\ Recovered(f) \in Content /\ Recovered(f).status # "blocked"
        /\ [Touched(f) EXCEPT !.status = "in_progress"] \in Content
        /\ [Touched(f) EXCEPT !.status = "in_progress"].status = "in_progress"
        /\ [f EXCEPT !.escalation = "failed"] \in Content
        /\ [f EXCEPT !.escalation = "failed"].requests = f.requests
    BY <2>1, RecoveredContent
  <2>3. CASE r.op = "zombies"
    <3>1. Move(k, [r EXCEPT !.pc = "write", !.copy = Recovered(f), !.stale = FALSE])
      BY <1>6, <2>3 DEF Consider
    <3> QED BY <1>4, <2>1, <2>2, <3>1
  <2>4. CASE r.op = "pickup"
    <3>1. Move(k, [r EXCEPT !.pc = "write", !.stale = FALSE,
                            !.copy = [Touched(f) EXCEPT !.status = "in_progress"]])
      BY <1>6, <2>4 DEF Consider
    <3> QED BY <1>4, <2>1, <2>2, <3>1
  <2>5. CASE r.op = "remind"
    <3>1. Move(k, [r EXCEPT !.pc = "agent"])
      BY <1>6, <2>5 DEF Consider
    <3> QED BY <1>3, <2>5, <3>1
  <2>6. CASE r.op = "unblock"
    <3>1. \/ Move(k, [r EXCEPT !.pc = "release"])
          \/ Move(k, [r EXCEPT !.pc = "write", !.stale = FALSE,
                               !.copy = [f EXCEPT !.escalation = "failed"]])
      BY <1>6, <2>6 DEF Consider
    <3>2. CASE Move(k, [r EXCEPT !.pc = "release"])
      BY <1>3, <3>2
    <3>3. CASE Move(k, [r EXCEPT !.pc = "write", !.stale = FALSE,
                                 !.copy = [f EXCEPT !.escalation = "failed"]])
      <4>1. f.status = "blocked"
        BY <1>6, <2>6 DEF Still
      <4> QED BY <1>4, <2>1, <2>2, <3>3, <4>1
    <3> QED BY <3>1, <3>2, <3>3
  <2> QED BY <1>0, <2>3, <2>4, <2>5, <2>6 DEF Stages
<1> QED BY <1>5, <1>6

\* The agent that can help is asked, with the copy of the task at hand.
LEMMA RequestsKeeps ==
  ASSUME IInv, NEW k \in Chains, Requests(k)
  PROVE  IInv'
<1> PICK r, t, f : r = act[k] /\ t = act[k].task /\ f = file[act[k].task]
  OBVIOUS
<1>0. /\ r.pc = "reread" /\ r \in ActorType /\ Shape(k, r) /\ At(k, "reread")
      /\ r.op = "unblock"
  BY ChainWhere DEF Requests
<1>1. UNCHANGED <<bounds, file, lock, archived, sent, bypassed>>
  BY DEF Requests
<1>2. t \in Tasks /\ t = r.task
  BY <1>0 DEF Shape
<1>3. Exists(t) /\ f.status = "blocked" /\ f.requests < MaxRequests
      /\ Move(k, [r EXCEPT !.pc = "agent", !.copy = f, !.stale = FALSE])
  BY DEF Requests, Still
<1>4. f \in Content
  BY <1>2, <1>3, FileContent
<1> PICK n : n = [r EXCEPT !.pc = "agent", !.copy = f, !.stale = FALSE]
  OBVIOUS
<1>5. n \in ActorType /\ n.pc = "agent" /\ n.op = r.op /\ n.task = r.task /\ n.key = r.key
      /\ n.todo = r.todo /\ n.copy = f /\ n.stale = FALSE
  BY <1>0, <1>4 DEF ActorType, Pcs
<1>6. n.op = act[k].op /\ n.task = act[k].task /\ n.key = act[k].key /\ n.todo = act[k].todo
  BY <1>5
<1>7. /\ n.pc = "agent" /\ ~n.stale /\ n.copy = file[n.task] /\ n.copy \in Content
      /\ n.copy.status = "blocked" /\ n.copy.requests < MaxRequests
  BY <1>2, <1>3, <1>4, <1>5
<1>8. Move(k, n)
  BY <1>3
<1> QED BY <1>0, <1>1, <1>5, <1>6, <1>7, <1>8, RereadByCheck

\* agentCommand returns from a prompt, a reminder or the recovery of a zombie.
LEMMA ReturnsKeeps ==
  ASSUME IInv, NEW k \in Chains, At(k, "agent"), Move(k, [act[k] EXCEPT !.pc = "release"]),
         UNCHANGED <<bounds, file, lock, archived, sent, bypassed>>
  PROVE  IInv'
<1> PICK r, n : r = act[k] /\ n = [act[k] EXCEPT !.pc = "release"]
  OBVIOUS
<1>0. /\ k \in Actors /\ k \notin Calls /\ r.pc = "agent" /\ r \in ActorType /\ Shape(k, r)
      /\ r.op \in Stages
  BY ChainWhere
<1>1. UNCHANGED <<file, sent, scenario, crashes, born, lock, bypassed, archived>>
  BY DEF bounds
<1>2. n \in ActorType /\ n.pc = "release" /\ n.op = r.op /\ n.task = r.task /\ n.key = r.key
      /\ n.todo = r.todo
  BY <1>0 DEF ActorType, Pcs
<1>3. Shape(k, n)'
  BY <1>0, <1>1, <1>2 DEF Shape, Acquiring
<1>4. \A i \in Keys : Holds(n, i) <=> Holds(act[k], i)
  BY <1>0, <1>2 DEF Holds
<1>5. act[k].pc # "write" /\ n.pc # "write" /\ n.pc # "agent" /\ Move(k, n)
  BY <1>0, <1>2
<1> QED BY <1>0, <1>1, <1>2, <1>3, <1>4, <1>5, GoesOnCalmly

\* What a chain that has asked about t knows.
LEMMA AskedKnows ==
  ASSUME IInv, NEW k \in Chains, At(k, "agent"), act[k].op = "unblock"
  PROVE  /\ act[k].task \in Tasks /\ act[k].key = act[k].task
         /\ act[k].copy \in Content /\ act[k].copy.status = "blocked"
         /\ act[k].copy.requests < MaxRequests
         /\ crashes = 0 /\ act[k].task \notin bypassed =>
              /\ sent[act[k].task] <= act[k].copy.requests
              /\ \A b \in Actors \ {k} :
                   ~(act[b].pc = "write" /\ act[b].task = act[k].task /\ act[b].key # None)
<1> PICK r, t : r = act[k] /\ t = act[k].task
  OBVIOUS
<1>0. k \in Actors /\ r.pc = "agent" /\ r.op = "unblock" /\ Shape(k, r)
  BY ChainWhere
<1>1. t \in Tasks /\ r.key = t /\ r.copy \in Content /\ r.copy.status = "blocked"
      /\ r.copy.requests < MaxRequests
  BY <1>0 DEF Shape
<1>2. ASSUME crashes = 0, t \notin bypassed
      PROVE  /\ sent[t] <= r.copy.requests
             /\ \A b \in Actors \ {k} :
                  ~(act[b].pc = "write" /\ act[b].task = t /\ act[b].key # None)
  <2>1. Fresh(r)
    BY <1>0, <1>2 DEF IInv, AllFresh
  <2>2. r.copy = file[t]
    BY <1>0, <2>1 DEF Fresh
  <2>3. Exists(t)
    BY <1>1, <2>2, NoContent DEF Exists
  <2>4. /\ sent[t] <= file[t].requests
        /\ \A b \in Actors \ {k} :
             ~(act[b].pc = "write" /\ act[b].task = t /\ act[b].key # None)
    BY <1>0, <1>1, <1>2, <2>2, <2>3, FileCounts
  <2> QED BY <2>2, <2>4
<1> QED BY <1>1, <1>2

\* A request is answered: it is not yet in the file, but in the copy that goes there.
LEMMA AnsweredKeeps ==
  ASSUME IInv, NEW k \in Chains, At(k, "agent"), act[k].op = "unblock",
         NEW g \in Content, Move(k, [act[k] EXCEPT !.pc = "write", !.copy = g]),
         \/ UNCHANGED sent /\ g.requests = act[k].copy.requests
         \/ /\ sent' = [sent EXCEPT ![act[k].task] = IF @ <= MaxRequests THEN @ + 1 ELSE @]
            /\ g.requests = act[k].copy.requests + 1,
         UNCHANGED <<bounds, file, lock, archived, bypassed>>
  PROVE  IInv'
<1> PICK r, t, n : r = act[k] /\ t = act[k].task
                   /\ n = [act[k] EXCEPT !.pc = "write", !.copy = g]
  OBVIOUS
<1>0. /\ k \in Actors /\ k \notin Calls /\ r.pc = "agent" /\ r \in ActorType /\ Shape(k, r)
      /\ t \in Keys
  <2>1. t \in Tasks
    BY AskedKnows
  <2> QED BY <2>1, ChainWhere
<1>1. UNCHANGED <<file, scenario, crashes, born, lock, bypassed, archived>>
  BY DEF bounds
<1>2. n \in ActorType /\ n.pc = "write" /\ n.op = r.op /\ n.task = t /\ n.key = r.key
      /\ n.todo = r.todo /\ n.copy = g /\ n.stale = r.stale
  BY <1>0 DEF ActorType, Pcs
<1>3. t \in Tasks /\ r.key = t /\ r.op = "unblock" /\ r.copy \in Content
      /\ r.copy.requests < MaxRequests
  BY AskedKnows
<1>4. Shape(k, n)'
  BY <1>0, <1>1, <1>2, <1>3 DEF Shape, Acquiring
<1>5. \A i \in Keys : Holds(n, i) <=> Holds(act[k], i)
  BY <1>0, <1>2 DEF Holds
<1>6. act' = [act EXCEPT ![k] = n] /\ act'[k] = n
      /\ \A b \in Actors \ {k} : act'[b] = act[b]
  BY <1>0 DEF Move, IInv, Types
<1>7. Locked'
  <2> HIDE DEF Holds, Others
  <2>0. Types /\ Shapes /\ Locked
    BY DEF IInv
  <2>1. Others(k)
    BY <1>0, <1>6, <2>0, MoveAlone
  <2>2. \A i \in Keys : Holds(act'[k], i) <=> Holds(act[k], i)
    BY <1>5, <1>6
  <2> QED BY <1>0, <1>1, <2>0, <2>1, <2>2, LockStays
<1>8. n.task \notin bypassed => Fresh(n)
  <2>1. t \notin bypassed => Fresh(r)
    BY <1>0 DEF IInv, AllFresh
  <2> QED BY <1>0, <1>2, <1>3, <2>1 DEF Fresh
<1>9. sent' \in [Tasks -> Nat] /\ (\A u \in Tasks \ {t} : sent'[u] = sent[u])
      /\ \/ sent'[t] = sent[t] /\ g.requests = r.copy.requests
         \/ sent'[t] <= sent[t] + 1 /\ g.requests = r.copy.requests + 1
      /\ sent[t] \in Nat
  <2>1. sent \in [Tasks -> Nat] /\ sent[t] \in Nat
    BY <1>3 DEF IInv, Types
  <2>2. CASE UNCHANGED sent /\ g.requests = r.copy.requests
    BY <2>1, <2>2
  <2>3. CASE /\ sent' = [sent EXCEPT ![t] = IF @ <= MaxRequests THEN @ + 1 ELSE @]
             /\ g.requests = r.copy.requests + 1
    <3> PICK m : m = IF sent[t] <= MaxRequests THEN sent[t] + 1 ELSE sent[t]
      OBVIOUS
    <3>1. m \in Nat /\ m <= sent[t] + 1
      BY <2>1
    <3>2. sent' = [sent EXCEPT ![t] = m]
      BY <2>3
    <3>3. sent' \in [Tasks -> Nat] /\ sent'[t] = m /\ \A u \in Tasks \ {t} : sent'[u] = sent[u]
      BY <1>3, <2>1, <3>1, <3>2
    <3> QED BY <2>1, <2>3, <3>1, <3>3
  <2> QED BY <2>2, <2>3
<1>10. AllCounted'
  <2> SUFFICES ASSUME crashes = 0, NEW u \in Tasks \ bypassed PROVE Counted(u)'
    BY <1>1 DEF AllCounted, IInv, Types
  <2>0. Counted(u)
    BY DEF IInv, AllCounted
  <2>1. CASE u # t
    <3>1. sent'[u] = sent[u] /\ ~Asking(n, u) /\ ~Asking(r, u) /\ Counts(n, u)
      BY <1>2, <1>9, <2>1 DEF Asking, Counts
    <3>2. \A b \in Actors : Asking(act'[b], u) <=> Asking(act[b], u)
      BY <1>6, <3>1
    <3>3. \A b \in Actors : Counts(act[b], u)'
      <4> SUFFICES ASSUME NEW b \in Actors PROVE Counts(act[b], u)'
        OBVIOUS
      <4>1. CASE b = k
        BY <1>2, <1>6, <2>1, <4>1 DEF Counts
      <4>2. CASE b # k
        BY <1>6, <2>0, <3>1, <4>2 DEF Counted, Counts
      <4> QED BY <4>1, <4>2
    <3> QED BY <1>1, <2>0, <3>1, <3>2, <3>3 DEF Counted, Exists
  <2>2. CASE u = t
    <3>1. sent[t] <= r.copy.requests
          /\ \A b \in Actors \ {k} :
               ~(act[b].pc = "write" /\ act[b].task = t /\ act[b].key # None)
      BY <2>2, AskedKnows
    <3>2. r.copy.requests \in Nat /\ MaxRequests \in Nat
      BY <1>3, TasksAssumption DEF Content
    <3>3. sent'[t] <= g.requests /\ sent'[t] <= MaxRequests
      BY <1>3, <1>9, <3>1, <3>2
    <3>4. Asking(act'[k], t)
      BY <1>2, <1>3, <1>6 DEF Asking
    <3>5. \A b \in Actors : Counts(act[b], t)'
      <4> SUFFICES ASSUME NEW b \in Actors PROVE Counts(act[b], t)'
        OBVIOUS
      <4>1. CASE b = k
        <5>1. act'[b] = n /\ sent'[t] <= n.copy.requests
          BY <1>2, <1>6, <3>3, <4>1
        <5> QED BY <5>1 DEF Counts
      <4>2. CASE b # k
        BY <1>6, <3>1, <4>2 DEF Counts
      <4> QED BY <4>1, <4>2
    <3> QED BY <1>0, <2>2, <3>3, <3>4, <3>5 DEF Counted
  <2> QED BY <2>1, <2>2
<1>11. lock' \in [Keys -> LockType] /\ bypassed' \subseteq Keys
  BY <1>1 DEF IInv, Types
<1> HIDE DEF Shape, Fresh
<1> QED BY <1>0, <1>1, <1>2, <1>4, <1>6, <1>7, <1>8, <1>9, <1>10, <1>11, ActorStep

\* agentCommand returns, or throws.
LEMMA RepliesKeeps ==
  ASSUME IInv, NEW k \in Chains, Replies(k)
  PROVE  IInv'
<1> PICK r, c : r = act[k] /\ c = act[k].copy
  OBVIOUS
<1>0. At(k, "agent")
  BY DEF Replies
<1>1. CASE r.op # "unblock"
  BY <1>0, <1>1, ReturnsKeeps DEF Replies
<1>2. CASE r.op = "unblock"
  <2>0. c \in Content /\ c.requests < MaxRequests
    BY <1>0, <1>2, AskedKnows
  <2>1. MaxRequests \in Nat /\ MaxFailures \in Nat
    BY TasksAssumption
  <2>2. CASE /\ Move(k, [r EXCEPT !.pc = "write",
                 !.copy = [Touched(c) EXCEPT !.requests = @ + 1, !.escalation = "requesting",
                                             !.failures = 0]])
             /\ sent' = [sent EXCEPT ![r.task] = IF @ <= MaxRequests THEN @ + 1 ELSE @]
    <3> PICK g : g = [Touched(c) EXCEPT !.requests = @ + 1, !.escalation = "requesting",
                                        !.failures = 0]
      OBVIOUS
    <3>1. Touched(c) \in Content /\ Touched(c).requests = c.requests
      BY <2>0 DEF Content, Touched
    <3>2. c.requests + 1 \in 0..MaxRequests /\ 0 \in 0..MaxFailures
      BY <2>0, <2>1 DEF Content
    <3>3. g \in Content /\ g.requests = c.requests + 1
      BY <3>1, <3>2 DEF Content
    <3>4. Move(k, [r EXCEPT !.pc = "write", !.copy = g])
      BY <2>2
    <3>5. UNCHANGED <<bounds, file, lock, archived, bypassed>>
      BY DEF Replies
    <3> QED BY <1>0, <1>2, <2>2, <3>3, <3>4, <3>5, AnsweredKeeps
  <2>3. ASSUME NEW failures \in 0..MaxFailures,
               NEW escalation \in {"none", "requesting", "failed"},
               Move(k, [r EXCEPT !.pc = "write",
                 !.copy = [c EXCEPT !.failures = failures, !.escalation = escalation]]),
               UNCHANGED sent
        PROVE  IInv'
    <3> PICK g : g = [c EXCEPT !.failures = failures, !.escalation = escalation]
      OBVIOUS
    <3>1. g \in Content /\ g.requests = c.requests
      BY <2>0 DEF Content
    <3>2. Move(k, [r EXCEPT !.pc = "write", !.copy = g])
      BY <2>3
    <3>3. UNCHANGED <<bounds, file, lock, archived, bypassed>>
      BY DEF Replies
    <3> QED BY <1>0, <1>2, <2>3, <3>1, <3>2, <3>3, AnsweredKeeps
  <2> DEFINE e == IF c.failures + 1 >= MaxFailures THEN "failed"
                  ELSE IF c.escalation = "none" \/ c.requests = 0 THEN "requesting"
                  ELSE c.escalation
             n == IF c.failures + 1 < MaxFailures THEN c.failures + 1 ELSE MaxFailures
  <2>4. CASE Move(k, [r EXCEPT !.pc = "write",
                        !.copy = [c EXCEPT !.failures = n, !.escalation = e]])
             /\ UNCHANGED sent
    <3>1. n \in 0..MaxFailures /\ e \in {"none", "requesting", "failed"}
      BY <2>0, <2>1 DEF Content
    <3> HIDE DEF n, e
    <3> QED BY <2>3, <2>4, <3>1
  <2> QED BY <1>2, <2>2, <2>4 DEF Replies
<1> QED BY <1>1, <1>2

-----------------------------------------------------------------------------
(***************************************************************************)
(* The other steps, and the theorems.                                      *)
(***************************************************************************)

\* A new file is in Content.
LEMMA NewContent ==
  ASSUME NEW s \in Statuses
  PROVE  NewTask(s) \in Content /\ NewTask(s).status = s
<1>1. 0 \in 0..MaxRequests /\ 0 \in 0..MaxFailures /\ 0 \in 0..MaxReassign
  BY TasksAssumption
<1> QED BY <1>1 DEF NewTask, Content

\* The file of a task that nobody asks about appears, or is touched by nobody's
\* writing.
LEMMA FileAppears ==
  ASSUME IInv, NEW t \in Tasks, NEW f \in Content, f.status # "blocked",
         file' = [file EXCEPT ![t] = f], born' = born \cup {t},
         UNCHANGED <<lock, act, sent, scenario, bypassed, archived, crashes>>,
         \A a \in Actors : ~(act[a].pc = "agent" /\ act[a].op = "unblock" /\ act[a].task = t)
  PROVE  IInv'
<1>1. file'[t] = f /\ f # None /\ \A u \in Tasks \ {t} : file'[u] = file[u]
  BY NoContent DEF IInv, Types
<1>2. Types'
  BY <1>1 DEF IInv, Types
<1>3. Shapes'
  BY DEF IInv, Shapes, Shape
<1>4. Born'
  BY <1>1 DEF IInv, Born, Exists, NothingVanishes
<1>5. Locked'
  BY DEF IInv, Locked, Holds
<1>6. AllFresh'
  <2> SUFFICES ASSUME NEW a \in Actors, act[a].task \notin bypassed PROVE Fresh(act[a])'
    BY DEF AllFresh
  <2>1. Fresh(act[a]) /\ Shape(a, act[a])
    BY DEF IInv, AllFresh, Shapes
  <2>2. CASE act[a].pc = "agent" /\ act[a].op = "unblock"
    <3>1. act[a].task \in Tasks \ {t}
      BY <2>1, <2>2 DEF Shape
    <3> QED BY <1>1, <2>1, <2>2, <3>1 DEF Fresh
  <2>3. CASE ~(act[a].pc = "agent" /\ act[a].op = "unblock")
    BY <2>1, <2>3 DEF Fresh
  <2> QED BY <2>2, <2>3
<1>7. AllCounted'
  <2> SUFFICES ASSUME crashes = 0, NEW u \in Tasks \ bypassed PROVE Counted(u)'
    BY DEF AllCounted, IInv, Types
  <2>1. Counted(u)
    BY DEF IInv, AllCounted
  <2>2. file'[u] = file[u] \/ file'[u].status # "blocked"
    BY <1>1
  <2> QED BY <2>1, <2>2 DEF Counted, Counts, Asking, Exists
<1> QED BY <1>2, <1>3, <1>4, <1>5, <1>6, <1>7 DEF IInv

\* A task is created.
LEMMA CreateKeeps ==
  ASSUME IInv, NEW t \in Tasks, Create(t)
  PROVE  IInv'
<1>1. PICK s \in {"in_progress", "pending_approval", "backlog"} :
        file' = [file EXCEPT ![t] = NewTask(s)]
  BY DEF Create
<1>2. NewTask(s) \in Content /\ NewTask(s).status # "blocked"
  BY NewContent DEF Statuses
<1>3. ASSUME NEW a \in Actors, act[a].task = t PROVE FALSE
  BY <1>3, TasksAssumption DEF IInv, Shapes, Shape, Create
<1> QED BY <1>1, <1>2, <1>3, FileAppears DEF Create

\* A day without activity.
LEMMA IdlesKeeps ==
  ASSUME IInv, NEW t \in Tasks, Idles(t)
  PROVE  IInv'
<1>1. file[t] \in Content /\ t \in born
  BY FileContent DEF Idles
<1> PICK f : f = [file[t] EXCEPT !.idle = TRUE]
  OBVIOUS
<1>2. f \in Content /\ f.status # "blocked"
  BY <1>1 DEF Content, Idles
<1>3. file' = [file EXCEPT ![t] = f]
  BY DEF Idles
<1>4. born' = born \cup {t}
      /\ UNCHANGED <<lock, act, sent, scenario, bypassed, archived, crashes>>
  BY <1>1 DEF Idles, bounds
<1>5. \A a \in Actors : act[a].pc # "agent"
  BY DEF Idles
<1> QED BY <1>2, <1>3, <1>4, <1>5, FileAppears

\* The process dies: nobody holds a lock, and requests are no longer counted.
LEMMA CrashKeeps ==
  ASSUME IInv, Crash
  PROVE  IInv'
<1>1. UNCHANGED <<file, sent, scenario, bypassed, archived, born>> /\ crashes' = crashes + 1
      /\ crashes \in Nat
  BY DEF Crash, IInv, Types
<1>2. act' = [a \in Actors |-> AtRest]
  BY DEF Crash
<1>3. lock' \in [Keys -> LockType] /\ \A k \in Keys : lock'[k].by = None
  BY DEF Crash, IInv, Types, LockType
<1>4. Types'
  BY <1>1, <1>2, <1>3, RestTypes DEF IInv, Types
<1>5. Shapes'
  BY <1>1, <1>2, RestTypes DEF Shapes, Shape
<1>6. Born'
  BY <1>1 DEF IInv, Born, Exists, NothingVanishes
<1>7. Locked'
  BY <1>2, <1>3, RestTypes, TasksAssumption DEF Locked, Actors
<1>8. AllFresh'
  BY <1>2, RestTypes DEF AllFresh, Fresh
<1>9. AllCounted'
  BY <1>1 DEF AllCounted
<1> QED BY <1>4, <1>5, <1>6, <1>7, <1>8, <1>9 DEF IInv

\* The strengthening holds at the start ...
LEMMA InitInv == Init => IInv
<1> SUFFICES ASSUME Init PROVE IInv
  OBVIOUS
<1>1. PICK found \in [Tasks -> scenario.found] :
        /\ file = [t \in Tasks |-> IF found[t] = "none" THEN None ELSE NewTask(found[t])]
        /\ born = {t \in Tasks : found[t] # "none"}
  BY DEF Init
<1>2. scenario \in Scenarios
      /\ scenario.found \subseteq {"none", "in_progress", "blocked", "backlog"}
  BY TasksAssumption DEF Init
<1>3. \A t \in Tasks : found[t] = "none" \/ found[t] \in Statuses
  BY <1>1, <1>2 DEF Statuses
<1>4. \A t \in Tasks : found[t] # "none" => file[t] \in Content /\ file[t] # None
  BY <1>1, <1>3, NewContent, NoContent
<1>5. \A t \in Tasks : found[t] = "none" => file[t] = None
  BY <1>1
<1>6. Types
  <2>1. file \in [Tasks -> Content \cup {None}]
    BY <1>1, <1>4, <1>5
  <2>2. lock \in [Keys -> LockType]
    BY DEF Init, Free, LockType
  <2>3. act \in [Actors -> ActorType]
    BY RestTypes DEF Init
  <2> QED BY <1>2, <2>1, <2>2, <2>3 DEF Init, Types
<1>7. Shapes
  BY RestTypes DEF Init, Shapes
<1>8. Born
  BY <1>1, <1>4, <1>5 DEF Born, Exists, NothingVanishes
<1>9. Locked
  BY RestTypes, TasksAssumption DEF Init, Locked, Free, Actors
<1>10. AllFresh
  BY RestTypes DEF Init, AllFresh, Fresh
<1>11. AllCounted
  <2>1. ASSUME NEW t \in Tasks, Exists(t) PROVE 0 <= file[t].requests
    BY <1>4, <1>5, <2>1 DEF Exists, Content
  <2>2. \A a \in Actors, t \in Tasks : Counts(act[a], t)
    BY RestTypes DEF Init, Counts
  <2> QED BY <2>1, <2>2, TasksAssumption DEF Init, AllCounted, Counted
<1> QED BY <1>6, <1>7, <1>8, <1>9, <1>10, <1>11 DEF IInv

\* ... and every step keeps it.
LEMMA StepInv == IInv /\ [Next]_vars => IInv'
<1> SUFFICES ASSUME IInv, [Next]_vars PROVE IInv'
  OBVIOUS
<1>0. Calls \subseteq Actors /\ Chains \subseteq Actors
  BY DEF Actors
<1>1. ASSUME NEW a \in Actors, Locking(a) PROVE IInv'
  BY <1>1, ProbeKeeps, UnlinkKeeps, OpenKeeps, FillKeeps, ReleaseKeeps DEF Locking
<1>2. ASSUME NEW c \in Calls, CallStep(c) PROVE IInv'
  BY <1>0, <1>1, <1>2, RereadKeeps, WriteKeeps, ArchiveKeeps, DeleteKeeps DEF CallStep
<1>3. ASSUME NEW k \in Chains, CheckStep(k) PROVE IInv'
  BY <1>0, <1>1, <1>3, WriteKeeps, CheckKeeps, NextStageKeeps, NextTaskKeeps, LookKeeps,
     PicksUpKeeps, ConsiderKeeps, RequestsKeeps, RepliesKeeps DEF CheckStep
<1>4. ASSUME NEW c \in Calls, NEW o \in scenario.ops, NEW t \in Tasks, Call(c, o, t)
      PROVE  IInv'
  <2>1. o \in Ops
    BY TasksAssumption DEF IInv, Types, Ops
  <2> QED BY <1>4, <2>1, CallKeeps
<1>5. CASE Start \/ RestartInProcess \/ UNCHANGED vars
  <2>1. UNCHANGED <<file, lock, sent, scenario, act, bypassed, archived, born, crashes>>
    BY <1>5 DEF Start, RestartInProcess, vars
  <2>2. lock' \in [Keys -> LockType] /\ Locked'
    BY <2>1 DEF IInv, Types, Locked, Holds
  <2> QED BY <2>1, <2>2, AloneKeeps
<1> QED BY <1>2, <1>3, <1>4, <1>5, CreateKeeps, IdlesKeeps, AgesKeeps, CrashKeeps DEF Next

\* The strengthening holds of every state that is reached.
THEOREM TaskInvariant == Spec => []IInv
BY InitInv, StepInv, PTL DEF Spec

\* A task that was created is in its file or in the history, at every moment a
\* crash may come: complete and cancel write the history before the file goes.
THEOREM NoTaskVanishes == Spec => []NothingVanishes
<1>1. IInv => NothingVanishes
  BY DEF IInv, Born
<1> QED BY <1>1, TaskInvariant, PTL

\* The others are asked MAX_UNBLOCK_REQUESTS times about a blocked task at most,
\* however many chains of checks and tools there are, unless a request was not
\* written down: the process died, or the lock was bypassed.
THEOREM RequestsAreBounded == Spec => []RequestsBounded
<1>1. IInv => RequestsBounded
  <2> SUFFICES ASSUME IInv PROVE RequestsBounded
    OBVIOUS
  <2>1. TypeOK
    BY DEF IInv, Types, TypeOK, LockType, ActorType
  <2>2. \A t \in Tasks : sent[t] <= MaxRequests \/ t \in bypassed \/ crashes > 0
    BY DEF IInv, AllCounted, Counted
  <2> QED BY <2>1, <2>2 DEF RequestsBounded
<1> QED BY <1>1, TaskInvariant, PTL

\* Who reads a task under its lock and writes it back overwrites nobody, as long
\* as no lock of the task was taken from its holder, and nobody wrote without it.
THEOREM LockedWritesOverwriteNobody == Spec => LockedWritesAreFresh
<1>1. IInv => \A a \in Actors :
        (At(a, "write") /\ act'[a].pc # "write" /\ act[a].op \in Rereading \cup Stages
           /\ act[a].key # None /\ act[a].task \notin bypassed)
          => ~act[a].stale
  BY DEF IInv, AllFresh, Fresh, At
<1> QED BY <1>1, TaskInvariant, PTL DEF LockedWritesAreFresh

===============================================================================
