------------------------ MODULE FollowupQueueProofs -------------------------
(***************************************************************************)
(* Proofs about FollowupQueue, for any messages, routes, settings and      *)
(* queue objects, any clears and any turns that throw: no message is lost  *)
(* or mixed with another's origin, and each runs once and in its turn.     *)
(***************************************************************************)
EXTENDS FollowupQueue, FiniteSetTheorems, FunctionTheorems, SequenceTheorems, TLAPS

\* What a drain is busy with, ...
Kinds == {"none", "item", "collect", "summary"}

\* ... what a queue object is, and what may become of a message.
ObjectType ==
  [items : Seq(Msgs), droppedCount : Nat, summaryLines : Seq(Msgs), settings : Settings,
   lastRun : BOOLEAN, pc : {"none", "debounce", "running"}, kind : Kinds,
   batch : Seq(Msgs), lines0 : Seq(Msgs), summary0 : BOOLEAN, force : BOOLEAN]
Phases == {"new", "checked", "running", "finishing", "done", "queued", "skipped", "refused"}

\* What is recorded of the messages: each is accepted once, in some order.
Books ==
  /\ inbound \in [Msgs -> Phases]
  /\ accepted = {m \in Msgs : inbound[m] = "queued"} /\ IsFiniteSet(accepted)
  /\ arrivals \in Seq(Msgs) /\ Elements(arrivals) = accepted
  /\ \A i, j \in 1..Len(arrivals) : arrivals[i] = arrivals[j] => i = j
  /\ \A m \in Msgs : inbound[m] \in {"new", "checked"} => m \notin ran
  /\ UNION {told, dropped, cleared, failed} \subseteq accepted

\* Who may be in the map, and in what state.
Types == obj \in [Objects -> ObjectType] /\ current \in Objects \cup {0}

\* What an object holds was accepted, and no more is said to be dropped.
Stocked(o) ==
  /\ Elements(o.items) \cup Elements(o.summaryLines) \cup Elements(o.batch)
       \cup Elements(o.lines0) \subseteq accepted
  /\ o.droppedCount + Len(o.items) <= Cardinality(accepted)
  /\ o.droppedCount = 0 <=> o.summaryLines = <<>>

\* What a turn is about: nothing is captured but while one is under way.
Captured(o) ==
  /\ o.pc = "running" <=> o.kind # "none"
  /\ o.kind = "none" => o.batch = <<>> /\ o.lines0 = <<>> /\ ~o.summary0
  /\ o.kind \in {"item", "summary"} => Len(o.batch) = 1
  /\ o.kind = "collect" =>
       \A i, j \in 1..Len(o.batch) : Route[o.batch[i]] = Route[o.batch[j]]
  /\ o.summary0 => o.lines0 # <<>>
  /\ o.kind \in {"item", "collect"} => Elements(o.batch) \subseteq ran

\* The items wait in the order they came; those of the turn under way are the
\* first of them, if they are still there.
InOrder(o) ==
  /\ \A a, b \in 1..Len(o.items), i, j \in 1..Len(arrivals) :
       a < b /\ arrivals[i] = o.items[a] /\ arrivals[j] = o.items[b] => i < j
  /\ \A i \in 1..Len(o.items) : o.items[i] \in Elements(o.batch) => i <= Len(o.batch)

\* An item that waits has not run, unless its turn threw or is still under way.
RanOnce(o) ==
  \A m \in Elements(o.items) \cap ran :
    m \in failed \/ (o.kind \in {"item", "collect"} /\ m \in Elements(o.batch))

\* As long as nothing is dropped, what the turn carries is what it will remove.
Carried(o) ==
  NothingDropped /\ o.pc = "running" =>
    /\ o.kind # "summary" /\ Len(o.batch) <= Len(o.items)
    /\ \A i \in 1..Len(o.items) : i <= Len(o.batch) => o.items[i] \in Elements(o.batch)

\* What is true of every object.
Sound(o) == Stocked(o) /\ Captured(o) /\ InOrder(o) /\ RanOnce(o) /\ Carried(o)

AllSound == \A q \in Objects : Sound(obj[q])

\* A message is in one object only.
Apart ==
  \A p, q \in Objects : p # q =>
    Elements(obj[p].items) \cap (Elements(obj[q].items) \cup Elements(obj[q].batch)) = {}

\* The queue in the map has something to do, ...
Alive == current # 0 => Pending(obj[current])

\* ... and before a clear there is no other.
Single ==
  cleared = {} => \A q \in Objects \ {current} : obj[q].pc = "none" /\ ~Pending(obj[q])

\* NothingLost, where the messages are before anything is dropped.
Kept ==
  NothingDropped => \A m \in accepted :
    m \in ran \/ (current # 0 /\ m \in Elements(obj[current].items))

\* The inductive invariant.
IInv == Books /\ Types /\ AllSound /\ Apart /\ Alive /\ Single /\ Kept

-----------------------------------------------------------------------------
(***************************************************************************)
(* The helpers on sequences of messages.                                   *)
(***************************************************************************)

\* What splice(0, n) leaves of s.
Spliced(s, n, w) ==
  /\ w \in Seq(Msgs) /\ Len(w) = Len(s) - n
  /\ \A i \in 1..(Len(s) - n) : w[i] = s[i + n]
  /\ Elements(w) \subseteq Elements(s)
  /\ \A m \in Elements(s) \ Elements(w) : \E i \in 1..n : s[i] = m

\* Without is splice(0, n).
LEMMA WithoutIs ==
  ASSUME NEW s \in Seq(Msgs), NEW n \in 0..Len(s)
  PROVE  Spliced(s, n, Without(s, n))
<1>1. Len(s) \in Nat /\ n \in Nat /\ n <= Len(s)
  OBVIOUS
<1>2. \A i \in (n + 1)..Len(s) : s[i] \in Msgs
  BY <1>1
<1> PICK w : w = SubSeq(s, n + 1, Len(s))
  OBVIOUS
<1>3. w \in Seq(Msgs) /\ Len(w) = Len(s) - n /\ \A i \in 1..(Len(s) - n) : w[i] = s[i + n]
  <2>1. /\ w \in Seq(Msgs)
        /\ Len(w) = IF n + 1 <= Len(s) THEN Len(s) - (n + 1) + 1 ELSE 0
        /\ \A i \in 1..(Len(s) - (n + 1) + 1) : w[i] = s[(n + 1) + i - 1]
    BY <1>1, <1>2, SubSeqProperties
  <2> QED BY <1>1, <2>1
<1>4. \A i \in 1..Len(w) : w[i] = s[i + n] /\ i + n \in 1..Len(s)
  BY <1>1, <1>3
<1>5. Elements(w) \subseteq Elements(s)
  BY <1>4 DEF Elements
<1>6. ASSUME NEW m \in Elements(s) \ Elements(w) PROVE \E i \in 1..n : s[i] = m
  <2>1. PICK i \in 1..Len(s) : s[i] = m
    BY <1>6 DEF Elements
  <2>2. CASE i <= n
    BY <1>1, <2>1, <2>2
  <2>3. CASE i > n
    <3>1. i - n \in 1..Len(w) /\ w[i - n] = m
      BY <1>1, <1>3, <2>1, <2>3
    <3> QED BY <1>6, <3>1 DEF Elements
  <2> QED BY <1>1, <2>2, <2>3
<1> QED BY <1>3, <1>5, <1>6 DEF Without, Spliced

\* A message is pushed.
LEMMA AppendIs ==
  ASSUME NEW s \in Seq(Msgs), NEW m \in Msgs
  PROVE  /\ Append(s, m) \in Seq(Msgs) /\ Len(Append(s, m)) = Len(s) + 1
         /\ \A i \in 1..Len(s) : Append(s, m)[i] = s[i]
         /\ Append(s, m)[Len(s) + 1] = m
         /\ Elements(Append(s, m)) = Elements(s) \cup {m}
<1> PICK t : t = Append(s, m)
  OBVIOUS
<1>1. t \in Seq(Msgs) /\ Len(t) = Len(s) + 1 /\ Len(s) \in Nat
      /\ (\A i \in 1..Len(s) : t[i] = s[i]) /\ t[Len(s) + 1] = m
  BY AppendProperties
<1>2. Elements(t) \subseteq Elements(s) \cup {m}
  BY <1>1 DEF Elements
<1>3. Elements(s) \cup {m} \subseteq Elements(t)
  BY <1>1 DEF Elements
<1> QED BY <1>1, <1>2, <1>3

\* What is in an empty queue, and in one of one.
LEMMA ElementsOf ==
  /\ Elements(<<>>) = {}
  /\ \A s \in Seq(Msgs) : Elements(s) \subseteq Msgs /\ (s # <<>> => Elements(s) # {})
  /\ \A s \in Seq(Msgs) : s # <<>> =>
       /\ <<Head(s)>> \in Seq(Msgs) /\ Len(<<Head(s)>>) = 1 /\ Head(s) = s[1] /\ Len(s) >= 1
       /\ Elements(<<Head(s)>>) = {s[1]} /\ s[1] \in Elements(s)
<1>1. Elements(<<>>) = {}
  BY DEF Elements
<1>2. ASSUME NEW s \in Seq(Msgs) PROVE Elements(s) \subseteq Msgs
  BY DEF Elements
<1>3. ASSUME NEW s \in Seq(Msgs), s # <<>>
      PROVE  /\ Elements(s) # {}
             /\ <<Head(s)>> \in Seq(Msgs) /\ Len(<<Head(s)>>) = 1 /\ Head(s) = s[1]
             /\ Len(s) >= 1 /\ Elements(<<Head(s)>>) = {s[1]} /\ s[1] \in Elements(s)
  <2>1. Len(s) \in Nat \ {0}
    BY <1>3, EmptySeq
  <2>2. s[1] \in Elements(s) /\ s[1] \in Msgs
    BY <2>1 DEF Elements
  <2>3. Head(s) = s[1]
    OBVIOUS
  <2>4. Len(<<s[1]>>) = 1 /\ <<s[1]>> \in Seq(Msgs) /\ <<s[1]>>[1] = s[1]
    BY <2>2
  <2>5. Elements(<<s[1]>>) = {s[1]}
    BY <2>4 DEF Elements
  <2> QED BY <2>1, <2>2, <2>3, <2>4, <2>5
<1> QED BY <1>1, <1>2, <1>3

-----------------------------------------------------------------------------
(***************************************************************************)
(* What becomes of the objects when a drain goes on or ends.               *)
(***************************************************************************)

\* An object p is as it was, or a drain has begun on it.
Woken(o, n, p) ==
  \/ n = o
  \/ o.pc = "none" /\ n = [o EXCEPT !.pc = "debounce"] /\ p = current'

\* Which changes nothing but that.
LEMMA WokenIs ==
  ASSUME NEW o \in ObjectType, NEW n, NEW p, Woken(o, n, p)
  PROVE  /\ n \in ObjectType
         /\ n.items = o.items /\ n.droppedCount = o.droppedCount
         /\ n.summaryLines = o.summaryLines /\ n.kind = o.kind /\ n.batch = o.batch
         /\ n.lines0 = o.lines0 /\ n.summary0 = o.summary0
         /\ n.pc = o.pc \/ (o.pc = "none" /\ n.pc = "debounce" /\ p = current')
<1>1. CASE n = o
  BY <1>1
<1>2. CASE o.pc = "none" /\ n = [o EXCEPT !.pc = "debounce"] /\ p = current'
  BY <1>2 DEF ObjectType
<1> QED BY <1>1, <1>2 DEF Woken

\* An object stays sound when a drain begins on it.
LEMMA WokenSound ==
  ASSUME NEW o \in ObjectType, NEW n, NEW p, Woken(o, n, p), Sound(o)'
  PROVE  Sound(n)'
<1>1. /\ n.items = o.items /\ n.droppedCount = o.droppedCount
      /\ n.summaryLines = o.summaryLines /\ n.kind = o.kind /\ n.batch = o.batch
      /\ n.lines0 = o.lines0 /\ n.summary0 = o.summary0
      /\ n.pc = "running" <=> o.pc = "running"
  BY WokenIs
<1>2. Stocked(n)'
  BY <1>1 DEF Sound, Stocked
<1>3. Captured(n)'
  BY <1>1 DEF Sound, Captured
<1>4. InOrder(n)'
  BY <1>1 DEF Sound, InOrder
<1>5. RanOnce(n)'
  BY <1>1 DEF Sound, RanOnce
<1>6. Carried(n)'
  <2> HIDE DEF NothingDropped
  <2> QED BY <1>1 DEF Sound, Carried
<1> QED BY <1>2, <1>3, <1>4, <1>5, <1>6 DEF Sound

\* scheduleFollowupDrain, with something to do in the object of the map.
LEMMA ScheduleDoes ==
  ASSUME NEW os \in [Objects -> ObjectType], NEW c \in Objects \cup {0}, Schedule(os, c),
         c # 0 => Pending(os[c])
  PROVE  /\ obj' \in [Objects -> ObjectType] /\ current' = c
         /\ \A p \in Objects : Woken(os[p], obj'[p], p)
<1>1. CASE c = 0 \/ os[c].pc # "none"
  BY <1>1 DEF Schedule, Woken
<1>2. CASE ~(c = 0 \/ os[c].pc # "none")
  <2>1. obj' = [os EXCEPT ![c].pc = "debounce"] /\ current' = c /\ c \in Objects
    BY <1>2 DEF Schedule
  <2> PICK n : n = [os[c] EXCEPT !.pc = "debounce"]
    OBVIOUS
  <2>2. obj' = [os EXCEPT ![c] = n]
    BY <2>1
  <2>3. os[c] \in ObjectType /\ os[c].pc = "none"
    BY <1>2, <2>1 DEF ObjectType
  <2>4. n \in ObjectType
    BY <2>3 DEF ObjectType
  <2>5. obj' \in [Objects -> ObjectType] /\ obj'[c] = n
        /\ \A p \in Objects \ {c} : obj'[p] = os[p]
    BY <2>1, <2>2, <2>4
  <2> QED BY <2>1, <2>3, <2>5 DEF Woken
<1> QED BY <1>1, <1>2

\* An object with other items, and perhaps other droppedCount and summaryLines.
WithItems(c, items, count, lines) ==
  [c EXCEPT !.items = items, !.droppedCount = count, !.summaryLines = lines]
OnlyItems(c, items) == [c EXCEPT !.items = items]

\* What such an o shares with the object c it was made of.
Restocked(o, c, items, count, lines) ==
  /\ o \in ObjectType /\ o.items = items /\ o.droppedCount = count
  /\ o.summaryLines = lines /\ o.settings = c.settings /\ o.pc = c.pc /\ o.kind = c.kind
  /\ o.batch = c.batch /\ o.lines0 = c.lines0 /\ o.summary0 = c.summary0

\* It shares all but the items, the count and the lines.
LEMMA ItemsSet ==
  ASSUME NEW c \in ObjectType, NEW items \in Seq(Msgs)
  PROVE  /\ Restocked(OnlyItems(c, items), c, items, c.droppedCount, c.summaryLines)
         /\ \A count \in Nat, lines \in Seq(Msgs) :
              Restocked(WithItems(c, items, count, lines), c, items, count, lines)
<1> HIDE DEF Kinds
<1>1. Restocked(OnlyItems(c, items), c, items, c.droppedCount, c.summaryLines)
  BY DEF ObjectType, OnlyItems, Restocked
<1>2. ASSUME NEW count \in Nat, NEW lines \in Seq(Msgs)
      PROVE  Restocked(WithItems(c, items, count, lines), c, items, count, lines)
  BY DEF ObjectType, WithItems, Restocked
<1> QED BY <1>1, <1>2

\* One with other settings, and perhaps another lastRun.
WithSettings(c, s) == [c EXCEPT !.settings = s]
WithLastRun(c) == [c EXCEPT !.lastRun = TRUE]

\* It keeps all but those two.
LEMMA SettingsSet ==
  ASSUME NEW c \in ObjectType, NEW s \in Settings,
         NEW o, o = WithSettings(c, s) \/ o = WithLastRun(WithSettings(c, s))
  PROVE  /\ o \in ObjectType /\ o.items = c.items /\ o.droppedCount = c.droppedCount
         /\ o.summaryLines = c.summaryLines /\ o.settings = s /\ o.pc = c.pc
         /\ o.kind = c.kind /\ o.batch = c.batch /\ o.lines0 = c.lines0
         /\ o.summary0 = c.summary0
<1>0. PICK d : d = WithSettings(c, s)
  OBVIOUS
<1>1. /\ d \in ObjectType /\ d.items = c.items /\ d.droppedCount = c.droppedCount
      /\ d.summaryLines = c.summaryLines /\ d.settings = s /\ d.pc = c.pc
      /\ d.kind = c.kind /\ d.batch = c.batch /\ d.lines0 = c.lines0
      /\ d.summary0 = c.summary0
  BY <1>0 DEF ObjectType, WithSettings
<1>2. CASE o = d
  BY <1>1, <1>2
<1>3. CASE o = WithLastRun(d)
  BY <1>1, <1>3 DEF ObjectType, WithLastRun
<1> QED BY <1>0, <1>2, <1>3

\* A new one.
LEMMA FreshIs ==
  ASSUME NEW s \in Settings, NEW o, o = Fresh(s) \/ o = WithLastRun(Fresh(s))
  PROVE  /\ o \in ObjectType /\ o.items = <<>> /\ o.droppedCount = 0
         /\ o.summaryLines = <<>> /\ o.settings = s /\ o.pc = "none" /\ o.kind = "none"
         /\ o.batch = <<>> /\ o.lines0 = <<>> /\ ~o.summary0
<1>1. <<>> \in Seq(Msgs)
  BY EmptySeq
<1>0. PICK d : d = Fresh(s)
  OBVIOUS
<1>2. /\ d \in ObjectType /\ d.items = <<>> /\ d.droppedCount = 0
      /\ d.summaryLines = <<>> /\ d.settings = s /\ d.pc = "none" /\ d.kind = "none"
      /\ d.batch = <<>> /\ d.lines0 = <<>> /\ ~d.summary0
  BY <1>0, <1>1 DEF Fresh, ObjectType, Kinds
<1>3. CASE o = d
  BY <1>2, <1>3
<1>4. CASE o = WithLastRun(d)
  BY <1>2, <1>4 DEF ObjectType, WithLastRun
<1> QED BY <1>0, <1>3, <1>4

\* The drain of an object goes on.
LEMMA PausedIs ==
  ASSUME NEW o \in ObjectType
  PROVE  /\ Paused(o) \in ObjectType
         /\ Paused(o).items = o.items /\ Paused(o).droppedCount = o.droppedCount
         /\ Paused(o).summaryLines = o.summaryLines /\ Paused(o).kind = "none"
         /\ Paused(o).batch = <<>> /\ Paused(o).lines0 = <<>> /\ ~Paused(o).summary0
         /\ Paused(o).pc = "debounce"
<1>1. <<>> \in Seq(Msgs)
  BY EmptySeq
<1> QED BY <1>1 DEF Paused, ObjectType, Kinds

\* The drain of an object is over.
LEMMA IdleIs ==
  ASSUME NEW o \in ObjectType
  PROVE  /\ Idle(o) \in ObjectType
         /\ Idle(o).items = o.items /\ Idle(o).droppedCount = o.droppedCount
         /\ Idle(o).summaryLines = o.summaryLines /\ Idle(o).kind = "none"
         /\ Idle(o).batch = <<>> /\ Idle(o).lines0 = <<>> /\ ~Idle(o).summary0
         /\ Idle(o).pc = "none"
<1>1. <<>> \in Seq(Msgs)
  BY EmptySeq
<1> QED BY <1>1 DEF Idle, ObjectType, Kinds

\* The drain of q is over: its object stays in the map if it still has something
\* to do, and a drain begins on what the map holds.
LEMMA EndDrainDoes ==
  ASSUME NEW os \in [Objects -> ObjectType], NEW c \in Objects \cup {0}, NEW q \in Objects,
         EndDrain(os, q, c), c \notin {0, q} => Pending(os[c])
  PROVE  /\ obj' \in [Objects -> ObjectType] /\ Idle(os[q]) \in ObjectType
         /\ \A p \in Objects \ {q} : Woken(os[p], obj'[p], p)
         /\ Woken(Idle(os[q]), obj'[q], q)
         /\ IF Pending(os[q]) THEN current' = c ELSE current' = 0
<1> PICK n : n = Idle(os[q])
  OBVIOUS
<1>1. n \in ObjectType /\ n.items = os[q].items /\ n.droppedCount = os[q].droppedCount
  BY IdleIs
<1> PICK ended : ended = [os EXCEPT ![q] = n]
  OBVIOUS
<1>2. ended \in [Objects -> ObjectType] /\ ended[q] = n
      /\ \A p \in Objects \ {q} : ended[p] = os[p]
  BY <1>1
<1>3. IF Pending(os[q]) THEN Schedule(ended, c) ELSE obj' = ended /\ current' = 0
  BY DEF EndDrain
<1>4. CASE Pending(os[q])
  <2>1. c # 0 => Pending(ended[c])
    BY <1>1, <1>2, <1>4 DEF Pending
  <2> HIDE DEF Schedule, Pending, Woken
  <2>2. obj' \in [Objects -> ObjectType] /\ current' = c
        /\ \A p \in Objects : Woken(ended[p], obj'[p], p)
    BY <1>2, <1>3, <1>4, <2>1, ScheduleDoes
  <2> QED BY <1>1, <1>2, <1>4, <2>2
<1>5. CASE ~Pending(os[q])
  BY <1>1, <1>2, <1>3, <1>5 DEF Woken
<1> QED BY <1>4, <1>5

-----------------------------------------------------------------------------
(***************************************************************************)
(* Steps that work on one object and push no message.                      *)
(***************************************************************************)

\* An object that is not worked on stays sound.
LEMMA OthersSound ==
  ASSUME IInv, NEW q \in Objects, NEW p \in Objects \ {q}, NEW o, o = obj[p],
         accepted' = accepted, arrivals' = arrivals, ran \subseteq ran',
         ran' \subseteq ran \cup Elements(obj[q].items) \cup (Msgs \ accepted),
         failed \ Elements(obj[q].batch) \subseteq failed', NothingDropped' => NothingDropped
  PROVE  Sound(o)'
<1>1. Sound(o)
  BY DEF IInv, AllSound
<1>2. Stocked(o)' /\ Captured(o)' /\ InOrder(o)'
  BY <1>1 DEF Sound, Stocked, Captured, InOrder
<1>3. RanOnce(o)'
  <2> SUFFICES ASSUME NEW m \in Elements(o.items), m \in ran'
               PROVE  m \in failed' \/ (o.kind \in {"item", "collect"} /\ m \in Elements(o.batch))
    BY DEF RanOnce
  <2>1. m \in accepted /\ m \notin Elements(obj[q].items) \cup Elements(obj[q].batch)
    BY <1>1 DEF Sound, Stocked, IInv, Apart
  <2> QED BY <1>1, <2>1 DEF Sound, RanOnce
<1>4. Carried(o)'
  <2>1. NothingDropped' => NothingDropped
    OBVIOUS
  <2> HIDE DEF NothingDropped
  <2> QED BY <1>1, <2>1 DEF Sound, Carried
<1> QED BY <1>2, <1>3, <1>4 DEF Sound

\* The object q is left as o, and perhaps a drain begins on it or on what the
\* map holds; what leaves q has run, as long as nothing is dropped.
LEMMA GoesOn ==
  ASSUME IInv, Books', NEW q \in Objects, obj[q].pc # "none" \/ q = current,
         NEW o \in ObjectType, Sound(o)',
         obj' \in [Objects -> ObjectType], Woken(o, obj'[q], q),
         \A p \in Objects \ {q} : Woken(obj[p], obj'[p], p),
         UNCHANGED <<accepted, arrivals, dropped, cleared>>, told \subseteq told',
         ran \subseteq ran',
         ran' \subseteq ran \cup Elements(obj[q].items) \cup (Msgs \ accepted),
         failed \ Elements(obj[q].batch) \subseteq failed',
         Elements(o.items) \subseteq Elements(obj[q].items),
         Elements(o.batch) \subseteq Elements(obj[q].items) \cup Elements(obj[q].batch),
         \/ current' = current /\ (q = current => Pending(o))
         \/ current' = 0 /\ o.pc = "none" /\ ~Pending(o),
         o.droppedCount = 0 /\ told' = {} => obj[q].droppedCount = 0,
         NothingDropped => Elements(obj[q].items) \subseteq ran' \cup Elements(o.items)
  PROVE  IInv'
<1>0. Books /\ Types /\ AllSound /\ Apart /\ Alive /\ Single /\ Kept /\ obj[q] \in ObjectType
  BY DEF IInv, Types
<1>1. /\ obj'[q].items = o.items /\ obj'[q].droppedCount = o.droppedCount
      /\ obj'[q].batch = o.batch /\ (obj'[q].pc = o.pc \/ q = current')
  BY WokenIs
<1>2. ASSUME NEW p \in Objects \ {q}
      PROVE  /\ obj'[p].items = obj[p].items /\ obj'[p].droppedCount = obj[p].droppedCount
             /\ obj'[p].batch = obj[p].batch /\ (obj'[p].pc = obj[p].pc \/ p = current')
  <2>1. obj[p] \in ObjectType /\ Woken(obj[p], obj'[p], p)
    BY <1>0 DEF Types
  <2> QED BY <2>1, WokenIs
<1>3. NothingDropped' => NothingDropped
  <2> SUFFICES ASSUME NothingDropped' PROVE NothingDropped
    OBVIOUS
  <2>1. dropped = {} /\ cleared = {} /\ told = {} /\ told' = {}
    BY DEF NothingDropped
  <2>2. \A p \in Objects : obj'[p].droppedCount = 0
    BY DEF NothingDropped
  <2>3. \A p \in Objects : obj[p].droppedCount = 0
    BY <1>1, <1>2, <2>1, <2>2
  <2> QED BY <2>1, <2>3 DEF NothingDropped
<1>4. Types'
  BY <1>0 DEF Types
<1>5. AllSound'
  <2> SUFFICES ASSUME NEW p \in Objects PROVE Sound(obj[p])'
    BY DEF AllSound
  <2>1. CASE p = q
    <3> PICK n : n = obj'[p]
      OBVIOUS
    <3>1. Woken(o, n, q)
      BY <2>1
    <3>2. Sound(n)'
      BY <3>1, WokenSound
    <3> QED BY <3>2 DEF Sound, Stocked, Captured, InOrder, RanOnce, Carried
  <2>2. CASE p # q
    <3> PICK m, n : m = obj[p] /\ n = obj'[p]
      OBVIOUS
    <3>1. m \in ObjectType /\ Woken(m, n, p)
      BY <1>0, <2>2 DEF Types
    <3>2. Sound(m)'
      BY <1>3, <2>2, OthersSound
    <3>3. Sound(n)'
      BY <3>1, <3>2, WokenSound
    <3> QED BY <3>3 DEF Sound, Stocked, Captured, InOrder, RanOnce, Carried
  <2> QED BY <2>1, <2>2
<1>6. Apart'
  <2> SUFFICES ASSUME NEW p \in Objects, NEW r \in Objects, p # r
               PROVE  Elements(obj'[p].items)
                        \cap (Elements(obj'[r].items) \cup Elements(obj'[r].batch)) = {}
    BY DEF Apart
  <2>1. \A x, y \in Objects : x # y =>
          Elements(obj[x].items) \cap (Elements(obj[y].items) \cup Elements(obj[y].batch)) = {}
    BY <1>0 DEF Apart
  <2>2. CASE p = q
    <3>1. Elements(obj[q].items) \cap (Elements(obj[r].items) \cup Elements(obj[r].batch)) = {}
      BY <2>1, <2>2
    <3> QED BY <1>1, <1>2, <2>2, <3>1
  <2>3. CASE r = q
    <3>1. Elements(obj[p].items) \cap (Elements(obj[q].items) \cup Elements(obj[q].batch)) = {}
      BY <2>1, <2>3
    <3> QED BY <1>1, <1>2, <2>3, <3>1
  <2>4. CASE p # q /\ r # q
    BY <1>2, <2>1, <2>4
  <2> QED BY <2>2, <2>3, <2>4
<1>7. Alive'
  <2> SUFFICES ASSUME current' # 0 PROVE Pending(obj[current])'
    BY DEF Alive
  <2>1. current' = current /\ (q = current => Pending(o)) /\ current \in Objects
    BY <1>0 DEF Types
  <2>2. Pending(obj[current])
    BY <1>0, <2>1 DEF Alive
  <2> QED BY <1>1, <1>2, <2>1, <2>2 DEF Pending
<1>8. ASSUME cleared = {}
      PROVE  q = current /\ \A p \in Objects \ {q} : obj[p].pc = "none" /\ ~Pending(obj[p])
  BY <1>0, <1>8 DEF Single
<1>9. Single'
  <2> SUFFICES ASSUME cleared = {}, NEW p \in Objects \ {current'}
               PROVE  obj'[p].pc = "none" /\ ~Pending(obj'[p])
    BY DEF Single
  <2>1. CASE p = q
    <3>1. ~Pending(o) /\ o.pc = "none"
      BY <1>8, <2>1
    <3> QED BY <1>1, <2>1, <3>1 DEF Pending
  <2>2. CASE p # q
    BY <1>2, <1>8, <2>2 DEF Pending
  <2> QED BY <2>1, <2>2
<1>10. Kept'
  <2> SUFFICES ASSUME NothingDropped', NEW m \in accepted
               PROVE  m \in ran' \/ (current' # 0 /\ m \in Elements(obj'[current'].items))
    BY DEF Kept
  <2>1. cleared = {} /\ q # 0
    BY FollowupAssumption DEF NothingDropped
  <2>2. m \in ran \/ m \in Elements(obj[q].items)
    BY <1>0, <1>3, <1>8, <2>1 DEF Kept
  <2>3. m \in ran' \/ m \in Elements(o.items)
    BY <1>3, <2>2
  <2>4. m \in Elements(o.items) => Pending(o)
    BY ElementsOf DEF Pending
  <2>5. Pending(o) => current' = q
    BY <1>8, <2>1
  <2> QED BY <1>1, <2>1, <2>3, <2>4, <2>5
<1> QED BY <1>4, <1>5, <1>6, <1>7, <1>9, <1>10 DEF IInv

-----------------------------------------------------------------------------
(***************************************************************************)
(* Messages on their way to the queue, and clears.                         *)
(***************************************************************************)

\* What becomes of a message that is not queued.
LEMMA BooksStay ==
  ASSUME Books, NEW m \in Msgs, NEW phase \in Phases \ {"queued"}, inbound[m] # "queued",
         inbound' = [inbound EXCEPT ![m] = phase],
         UNCHANGED <<accepted, told, dropped, cleared, failed, arrivals>>,
         ran' = ran \/ (ran' = ran \cup {m} /\ phase = "running"),
         phase \notin {"new", "checked"} \/ inbound[m] = "new"
  PROVE  Books' /\ ran \subseteq ran' /\ ran' \subseteq ran \cup (Msgs \ accepted)
<1>1. inbound' \in [Msgs -> Phases] /\ inbound'[m] = phase
      /\ \A k \in Msgs \ {m} : inbound'[k] = inbound[k]
  BY DEF Books
<1>2. accepted' = {k \in Msgs : inbound'[k] = "queued"}
  BY <1>1 DEF Books
<1>3. \A k \in Msgs : inbound'[k] \in {"new", "checked"} => k \notin ran'
  BY <1>1 DEF Books
<1> QED BY <1>1, <1>2, <1>3 DEF Books

\* A step that leaves the objects as they are.
LEMMA QueueStays ==
  ASSUME IInv, Books', UNCHANGED <<obj, current, accepted, arrivals, dropped, cleared, told,
                                   failed>>,
         ran \subseteq ran', ran' \subseteq ran \cup (Msgs \ accepted)
  PROVE  IInv'
<1>1. AllSound'
  <2> SUFFICES ASSUME NEW q \in Objects PROVE Sound(obj[q])'
    BY DEF AllSound
  <2>1. Sound(obj[q])
    BY DEF IInv, AllSound
  <2>2. RanOnce(obj[q])'
    BY <2>1 DEF Sound, Stocked, RanOnce
  <2> QED BY <2>1, <2>2
          DEF Sound, Stocked, Captured, InOrder, Carried, NothingDropped
<1>2. Kept'
  BY DEF IInv, Kept, NothingDropped
<1> QED BY <1>1, <1>2 DEF IInv, Types, Apart, Alive, Single, Pending

\* A message arrives: the queue is not touched.
LEMMA ArrivesKeeps ==
  ASSUME IInv, NEW m \in Msgs, ArriveActive(m) \/ ArriveIdle(m)
  PROVE  IInv'
<1>1. PICK phase \in {"checked", "running"} : inbound' = [inbound EXCEPT ![m] = phase]
        /\ (ran' = ran \/ (ran' = ran \cup {m} /\ phase = "running"))
  BY DEF ArriveActive, ArriveIdle, history
<1>2. UNCHANGED <<obj, current, accepted, arrivals, dropped, cleared, told, failed>>
      /\ inbound[m] = "new"
  BY DEF ArriveActive, ArriveIdle, history
<1>3. Books' /\ ran \subseteq ran' /\ ran' \subseteq ran \cup (Msgs \ accepted)
  BY <1>1, <1>2, BooksStay DEF IInv, Phases
<1> QED BY <1>2, <1>3, QueueStays

\* Nor is it when the run of an inbound message ends or throws.
LEMMA EndsKeeps ==
  ASSUME IInv, NEW m \in Msgs, RunEnds(m) \/ ReplyThrows(m)
  PROVE  IInv'
<1>1. PICK phase \in {"finishing", "done"} : inbound' = [inbound EXCEPT ![m] = phase]
  BY DEF RunEnds, ReplyThrows
<1>2. UNCHANGED <<obj, current, accepted, arrivals, dropped, cleared, told, failed, ran>>
      /\ inbound[m] # "queued"
  BY DEF RunEnds, ReplyThrows, history
<1>3. Books' /\ ran \subseteq ran' /\ ran' \subseteq ran \cup (Msgs \ accepted)
  BY <1>1, <1>2, BooksStay DEF IInv, Phases
<1> QED BY <1>2, <1>3, QueueStays

\* The object of the map gets other settings, and perhaps a drain begins on it.
LEMMA Resettled ==
  ASSUME IInv, Books', current # 0, NEW o \in ObjectType,
         o.items = obj[current].items, o.droppedCount = obj[current].droppedCount,
         o.summaryLines = obj[current].summaryLines, o.pc = obj[current].pc,
         o.kind = obj[current].kind, o.batch = obj[current].batch,
         o.lines0 = obj[current].lines0, o.summary0 = obj[current].summary0,
         obj' \in [Objects -> ObjectType], Woken(o, obj'[current], current),
         \A p \in Objects \ {current} : Woken(obj[p], obj'[p], p),
         UNCHANGED <<current, accepted, arrivals, dropped, cleared, told, ran, failed>>
  PROVE  IInv'
<1> PICK q, c : q = current /\ c = obj[current]
  OBVIOUS
<1>1. q \in Objects /\ Sound(c) /\ Pending(c)
  BY DEF IInv, Types, AllSound, Alive
<1>2. NothingDropped' => NothingDropped
  <2>1. \A p \in Objects : obj'[p].droppedCount = obj[p].droppedCount
    <3> SUFFICES ASSUME NEW p \in Objects PROVE obj'[p].droppedCount = obj[p].droppedCount
      OBVIOUS
    <3>1. CASE p = q
      BY <3>1, WokenIs
    <3>2. CASE p # q
      <4>1. obj[p] \in ObjectType /\ Woken(obj[p], obj'[p], p)
        BY <3>2 DEF IInv, Types
      <4> QED BY <4>1, WokenIs
    <3> QED BY <3>1, <3>2
  <2> QED BY <2>1 DEF NothingDropped
<1>3. Sound(o)'
  <2> HIDE DEF NothingDropped
  <2>1. Stocked(o)' /\ Captured(o)'
    BY <1>1 DEF Sound, Stocked, Captured
  <2>2. InOrder(o)' /\ RanOnce(o)'
    BY <1>1 DEF Sound, InOrder, RanOnce
  <2>3. Carried(o)'
    BY <1>1, <1>2 DEF Sound, Carried
  <2> QED BY <2>1, <2>2, <2>3 DEF Sound
<1>4. Pending(o)
  BY <1>1 DEF Pending
<1> HIDE DEF Pending, Sound, Woken, NothingDropped
<1> QED BY <1>1, <1>3, <1>4, GoesOn

\* The end of a run schedules a drain.
LEMMA FinalizeKeeps ==
  ASSUME IInv, NEW m \in Msgs, Finalize(m)
  PROVE  IInv'
<1>0. Books /\ obj \in [Objects -> ObjectType] /\ current \in Objects \cup {0}
      /\ (current # 0 => Pending(obj[current]))
  BY DEF IInv, Types, Alive
<1>1. UNCHANGED <<accepted, arrivals, dropped, cleared, told, failed, ran>>
      /\ inbound[m] # "queued" /\ inbound' = [inbound EXCEPT ![m] = "done"]
      /\ Schedule(obj, current)
  BY DEF Finalize, history
<1>2. Books'
  BY <1>0, <1>1, BooksStay DEF Phases
<1>3. obj' \in [Objects -> ObjectType] /\ current' = current
      /\ \A p \in Objects : Woken(obj[p], obj'[p], p)
  BY <1>0, <1>1, ScheduleDoes
<1>4. CASE current = 0
  <2>1. obj' = obj
    BY <1>1, <1>4 DEF Schedule
  <2> QED BY <1>1, <1>2, <1>3, <2>1, QueueStays
<1>5. CASE current # 0
  <2> PICK o : o = obj[current]
    OBVIOUS
  <2>1. o \in ObjectType /\ current \in Objects
    BY <1>0, <1>5
  <2> HIDE DEF Woken
  <2> QED BY <1>1, <1>2, <1>3, <1>5, <2>1, Resettled
<1> QED BY <1>4, <1>5

\* The message is on the queue already, or there is no room for it.
LEMMA RefusedKeeps ==
  ASSUME IInv, NEW m \in Msgs, NEW s \in Settings, EnqueueDuplicate(m, s) \/ EnqueueRefused(m, s)
  PROVE  IInv'
<1>0. Books /\ obj \in [Objects -> ObjectType] /\ current \in Objects \cup {0}
  BY DEF IInv, Types
<1>1. /\ inbound[m] = "checked"
      /\ UNCHANGED <<accepted, arrivals, dropped, cleared, told, failed, ran>>
      /\ \E phase \in {"skipped", "refused"} : inbound' = [inbound EXCEPT ![m] = phase]
      /\ \E q \in Slot, o \in {Target(s), [Target(s) EXCEPT !.lastRun = TRUE]} :
           obj' = [obj EXCEPT ![q] = o] /\ current' = q
  BY DEF EnqueueDuplicate, EnqueueRefused, history
<1>2. current # 0
  <2> SUFFICES ASSUME current = 0 PROVE FALSE
    OBVIOUS
  <2>1. Target(s).items = <<>>
    BY DEF Target, Fresh
  <2>2. ~AlreadyQueued(m, Target(s).items)
    BY <2>1, ElementsOf DEF AlreadyQueued
  <2>3. Len(Target(s).items) < s.cap
    BY <2>1, FollowupAssumption
  <2>4. s.cap \in Nat
    BY FollowupAssumption
  <2> QED BY <2>1, <2>2, <2>3, <2>4 DEF EnqueueDuplicate, EnqueueRefused
<1>3. PICK o \in {Target(s), [Target(s) EXCEPT !.lastRun = TRUE]} :
        obj' = [obj EXCEPT ![current] = o] /\ current' = current
  BY <1>1, <1>2 DEF Slot
<1> PICK c : c = obj[current]
  OBVIOUS
<1>4. c \in ObjectType /\ current \in Objects /\ Target(s) = [c EXCEPT !.settings = s]
  BY <1>0, <1>2 DEF Target
<1>5. /\ o \in ObjectType /\ o.items = c.items /\ o.droppedCount = c.droppedCount
      /\ o.summaryLines = c.summaryLines /\ o.pc = c.pc /\ o.kind = c.kind
      /\ o.batch = c.batch /\ o.lines0 = c.lines0 /\ o.summary0 = c.summary0
  <2>1. o = WithSettings(c, s) \/ o = WithLastRun(WithSettings(c, s))
    BY <1>3, <1>4 DEF WithSettings, WithLastRun
  <2> QED BY <1>4, <2>1, SettingsSet
<1>6. Books'
  BY <1>0, <1>1, BooksStay DEF Phases
<1>7. obj' \in [Objects -> ObjectType] /\ obj'[current] = o
      /\ \A p \in Objects \ {current} : obj'[p] = obj[p]
  BY <1>0, <1>3, <1>4, <1>5
<1>8. Woken(o, obj'[current], current)
      /\ \A p \in Objects \ {current} : Woken(obj[p], obj'[p], p)
  BY <1>7 DEF Woken
<1> HIDE DEF Woken
<1> QED BY <1>1, <1>2, <1>3, <1>5, <1>6, <1>7, <1>8, Resettled

-----------------------------------------------------------------------------
(***************************************************************************)
(* The drain begins a turn.                                                *)
(***************************************************************************)

\* No message is in an object twice.
LEMMA OnceEach ==
  ASSUME Books, NEW o \in ObjectType, Stocked(o), InOrder(o),
         NEW a \in 1..Len(o.items), NEW b \in 1..Len(o.items), o.items[a] = o.items[b]
  PROVE  a = b
<1>1. o.items[a] \in Elements(arrivals) /\ a \in Int /\ b \in Int
  BY DEF Books, Stocked, Elements, ObjectType
<1>2. PICK i \in 1..Len(arrivals) : arrivals[i] = o.items[a]
  BY <1>1 DEF Elements
<1>3. i \in Int
  OBVIOUS
<1>4. CASE a < b
  BY <1>2, <1>3, <1>4 DEF InOrder
<1>5. CASE b < a
  BY <1>2, <1>3, <1>5 DEF InOrder
<1> QED BY <1>1, <1>4, <1>5

\* Items that are not of different channels come from one.
LEMMA OneOrigin ==
  ASSUME NEW items \in Seq(Msgs), ~CrossChannel(items),
         NEW i \in 1..Len(items), NEW j \in 1..Len(items)
  PROVE  Route[items[i]] = Route[items[j]]
<1> PICK routes : routes = {Route[m] : m \in Elements(items)}
  OBVIOUS
<1>1. /\ ~(Cardinality(routes \ {NoRoute}) > 1)
      /\ ~(NoRoute \in routes /\ routes # {NoRoute})
  BY DEF CrossChannel
<1>2. Route[items[i]] \in routes /\ Route[items[j]] \in routes
  BY DEF Elements
<1>3. IsFiniteSet(routes \ {NoRoute})
  <2> PICK f : f = [k \in 1..Len(items) |-> Route[items[k]]]
    OBVIOUS
  <2>1. f \in [1..Len(items) -> routes] /\ \A r \in routes : \E k \in 1..Len(items) : f[k] = r
    BY DEF Elements
  <2>2. f \in Surjection(1..Len(items), routes)
    BY <2>1, Fun_IsSurj
  <2>3. IsFiniteSet(1..Len(items))
    BY FS_Interval
  <2>4. IsFiniteSet(routes)
    BY <2>2, <2>3, FS_Surjection
  <2> QED BY <2>4, FS_Difference
<1>4. CASE NoRoute \in routes
  BY <1>1, <1>2, <1>4
<1>5. CASE NoRoute \notin routes
  <2> SUFFICES ASSUME Route[items[i]] # Route[items[j]] PROVE FALSE
    OBVIOUS
  <2>1. {Route[items[i]], Route[items[j]]} \subseteq routes \ {NoRoute}
    BY <1>2, <1>5
  <2>2. Cardinality({Route[items[i]], Route[items[j]]}) <= Cardinality(routes \ {NoRoute})
    BY <1>3, <2>1, FS_Subset
  <2>3. Cardinality({Route[items[i]], Route[items[j]]}) = 2
    <3>1. IsFiniteSet({Route[items[i]]}) /\ Cardinality({Route[items[i]]}) = 1
      BY FS_Singleton
    <3>2. {Route[items[i]], Route[items[j]]} = {Route[items[i]]} \cup {Route[items[j]]}
      OBVIOUS
    <3>3. Route[items[j]] \notin {Route[items[i]]}
      OBVIOUS
    <3>4. Cardinality({Route[items[i]]} \cup {Route[items[j]]}) = 1 + 1
      BY <3>1, <3>3, FS_AddElement
    <3> QED BY <3>2, <3>4
  <2>4. Cardinality(routes \ {NoRoute}) \in Nat
    BY <1>3, FS_CardinalityType
  <2> QED BY <1>1, <2>2, <2>3, <2>4
<1> QED BY <1>4, <1>5

\* The oldest item by itself or for a summary, or all of them if of one origin.
Batch(o, kind, batch) ==
  \/ kind = "item" /\ o.items # <<>> /\ batch = <<Head(o.items)>>
  \/ kind = "summary" /\ o.items # <<>> /\ batch = <<Head(o.items)>> /\ HasSummary(o)
  \/ kind = "collect" /\ batch = o.items /\ ~CrossChannel(o.items)

\* Which is a part of what waits.
LEMMA BatchIs ==
  ASSUME NEW o \in ObjectType, NEW kind, NEW batch, Batch(o, kind, batch)
  PROVE  /\ batch \in Seq(Msgs) /\ Elements(batch) \subseteq Elements(o.items)
         /\ kind \in Kinds \ {"none"} /\ Len(batch) <= Len(o.items)
         /\ kind \in {"item", "summary"} => Len(batch) = 1 /\ Elements(batch) = {o.items[1]}
         /\ \A i \in 1..Len(o.items) : i <= Len(batch) => o.items[i] \in Elements(batch)
<1>0. o.items \in Seq(Msgs)
  BY DEF ObjectType
<1>1. CASE kind = "collect"
  BY <1>0, <1>1 DEF Batch, Kinds, Elements
<1>2. CASE kind # "collect"
  <2>1. o.items # <<>> /\ batch = <<Head(o.items)>> /\ kind \in {"item", "summary"}
    BY <1>2 DEF Batch
  <2>2. /\ batch \in Seq(Msgs) /\ Len(batch) = 1 /\ Len(o.items) >= 1
        /\ Elements(batch) = {o.items[1]} /\ o.items[1] \in Elements(o.items)
    BY <1>0, <2>1, ElementsOf
  <2> QED BY <2>1, <2>2 DEF Kinds
<1> QED BY <1>1, <1>2

\* The drain takes up a batch, with the summary if there is one to tell.
LEMMA TurnStarts ==
  ASSUME IInv, NEW q \in Objects, obj[q].pc = "debounce", NEW kind, NEW batch,
         NEW force \in BOOLEAN, Batch(obj[q], kind, batch), StartTurn(q, kind, batch, force)
  PROVE  IInv'
<1> PICK c : c = obj[q]
  OBVIOUS
<1>0. /\ Books /\ c \in ObjectType /\ Sound(c) /\ c.pc = "debounce" /\ Batch(c, kind, batch)
      /\ obj \in [Objects -> ObjectType] /\ (q = current => Pending(c))
  BY FollowupAssumption DEF IInv, Types, AllSound, Alive
<1>1. /\ batch \in Seq(Msgs) /\ Elements(batch) \subseteq Elements(c.items)
      /\ kind \in Kinds \ {"none"} /\ Len(batch) <= Len(c.items)
      /\ kind \in {"item", "summary"} => Len(batch) = 1 /\ Elements(batch) = {c.items[1]}
      /\ \A i \in 1..Len(c.items) : i <= Len(batch) => c.items[i] \in Elements(batch)
  BY <1>0, BatchIs
<1> PICK summary \in BOOLEAN : summary = (HasSummary(c) /\ kind # "item")
  OBVIOUS
<1> PICK lines0 : lines0 = IF summary THEN c.summaryLines ELSE <<>>
  OBVIOUS
<1> PICK o : o = [c EXCEPT !.pc = "running", !.kind = kind, !.batch = batch,
                           !.lines0 = lines0, !.summary0 = summary, !.force = force]
  OBVIOUS
<1>2. /\ obj' = [obj EXCEPT ![q] = o]
      /\ ran' = IF kind = "summary" THEN ran ELSE ran \cup Elements(batch)
      /\ UNCHANGED <<current, inbound, accepted, told, dropped, cleared, failed, arrivals>>
  BY DEF StartTurn
<1>3. lines0 \in Seq(Msgs)
  BY <1>0, EmptySeq DEF ObjectType
<1>4. /\ o \in ObjectType /\ o.pc = "running" /\ o.kind = kind /\ o.batch = batch
      /\ o.lines0 = lines0 /\ o.summary0 = summary /\ o.items = c.items
      /\ o.droppedCount = c.droppedCount /\ o.summaryLines = c.summaryLines
  BY <1>0, <1>1, <1>3 DEF ObjectType
<1>5. /\ obj' \in [Objects -> ObjectType] /\ obj'[q] = o
      /\ \A p \in Objects \ {q} : obj'[p] = obj[p]
  BY <1>0, <1>2, <1>4
<1>6. Stocked(c) /\ Captured(c) /\ InOrder(c) /\ RanOnce(c)
  BY <1>0 DEF Sound
<1>7. c.items \in Seq(Msgs) /\ c.droppedCount \in Nat /\ Len(c.items) \in Nat
  BY <1>0 DEF ObjectType
<1>8. Elements(c.items) \subseteq accepted /\ accepted \subseteq Msgs
  BY <1>0, <1>6 DEF Stocked, Books
<1>9. Books'
  <2>1. \A m \in Msgs : inbound'[m] \in {"new", "checked"} => m \notin ran'
    BY <1>0, <1>1, <1>2, <1>8 DEF Books
  <2> QED BY <1>0, <1>2, <2>1 DEF Books
<1>10. Sound(o)'
  <2>1. Stocked(o)'
    <3>1. Elements(lines0) \subseteq Elements(c.summaryLines)
      BY ElementsOf
    <3> QED BY <1>1, <1>2, <1>4, <1>6, <3>1 DEF Stocked
  <2>2. Captured(o)'
    <3>1. summary => lines0 # <<>>
      <4>1. summary => HasSummary(c)
        OBVIOUS
      <4>2. HasSummary(c) => c.summaryLines # <<>>
        BY <1>6, <1>7 DEF HasSummary, Stocked
      <4> QED BY <4>1, <4>2
    <3>2. kind = "collect" => \A i, j \in 1..Len(batch) : Route[batch[i]] = Route[batch[j]]
      BY <1>0, <1>7, OneOrigin DEF Batch
    <3>3. kind \in {"item", "collect"} => Elements(batch) \subseteq ran'
      BY <1>2
    <3> QED BY <1>1, <1>4, <3>1, <3>2, <3>3 DEF Captured, Kinds
  <2>3. InOrder(o)'
    <3>1. ASSUME NEW i \in 1..Len(c.items), c.items[i] \in Elements(batch)
          PROVE  i <= Len(batch)
      <4>1. CASE kind = "collect"
        BY <1>0, <4>1 DEF Batch
      <4>2. CASE kind # "collect"
        <5>1. c.items[i] = c.items[1] /\ Len(batch) = 1
          BY <1>1, <3>1, <4>2 DEF Kinds
        <5>2. 1 \in 1..Len(c.items)
          BY <1>7
        <5>3. i = 1
          BY <1>0, <1>6, <5>1, <5>2, OnceEach
        <5> QED BY <5>1, <5>3
      <4> QED BY <4>1, <4>2
    <3> QED BY <1>2, <1>4, <1>6, <3>1 DEF InOrder
  <2>4. RanOnce(o)'
    BY <1>0, <1>1, <1>2, <1>4, <1>6 DEF RanOnce, Captured, Kinds
  <2>5. Carried(o)'
    <3>1. NothingDropped' => o.droppedCount = 0
      BY <1>5 DEF NothingDropped
    <3>2. NothingDropped' => kind # "summary"
      BY <1>0, <1>4, <3>1 DEF Batch, HasSummary
    <3> HIDE DEF NothingDropped
    <3> QED BY <1>1, <1>4, <3>2 DEF Carried
  <2> QED BY <2>1, <2>2, <2>3, <2>4, <2>5 DEF Sound
<1>11. ran \subseteq ran' /\ ran' \subseteq ran \cup Elements(c.items)
  BY <1>1, <1>2
<1>12. Woken(o, obj'[q], q) /\ \A p \in Objects \ {q} : Woken(obj[p], obj'[p], p)
  BY <1>5 DEF Woken
<1>13. q = current => Pending(o)
  BY <1>0, <1>4 DEF Pending
<1>14. obj[q].pc # "none" /\ Elements(o.items) \subseteq Elements(c.items)
       /\ Elements(o.batch) \subseteq Elements(c.items)
  BY <1>1, <1>4
<1> HIDE DEF Woken, Sound, Pending, NothingDropped, IInv, Books, Elements
<1> QED BY <1>2, <1>4, <1>5, <1>9, <1>10, <1>11, <1>12, <1>13, <1>14, GoesOn, ZenonT(30)

\* What a drain does after its debounce, unless it ends.
LEMMA BatchBegins ==
  ASSUME IInv, NEW q \in Objects, ~Break(q), Proceed(q)
  PROVE  \E kind \in Kinds, batch \in {<<Head(obj[q].items)>>, obj[q].items}, force \in BOOLEAN :
           Batch(obj[q], kind, batch) /\ StartTurn(q, kind, batch, force)
<1> PICK c : c = obj[q]
  OBVIOUS
<1>1. c \in ObjectType
  BY DEF IInv, Types
<1>2. CrossChannel(c.items) \in BOOLEAN /\ HasSummary(c) \in BOOLEAN
  BY DEF CrossChannel, HasSummary
<1>3. \E kind \in Kinds, batch \in {<<Head(c.items)>>, c.items}, force \in BOOLEAN :
        Batch(c, kind, batch) /\ StartTurn(q, kind, batch, force)
  <2> HIDE DEF CrossChannel, HasSummary, StartTurn, Break, IInv
  <2> USE DEF Batch, Kinds
  <2>1. CASE CollectOne(q)
    <3>1. StartTurn(q, "item", <<Head(c.items)>>, c.force \/ CrossChannel(c.items))
          /\ c.items # <<>>
      BY <2>1 DEF CollectOne
    <3>2. (c.force \/ CrossChannel(c.items)) \in BOOLEAN
      OBVIOUS
    <3> QED BY <3>1, <3>2
  <2>2. CASE CollectAll(q)
    BY <2>2 DEF CollectAll
  <2>3. CASE RunSummary(q)
    <3>1. c.force \in BOOLEAN
      BY <1>1 DEF ObjectType
    <3> QED BY <2>3, <3>1 DEF RunSummary
  <2>4. CASE RunNext(q)
    <3>1. c.force \in BOOLEAN
      BY <1>1 DEF ObjectType
    <3> QED BY <2>4, <3>1 DEF RunNext
  <2> QED BY <2>1, <2>2, <2>3, <2>4 DEF Proceed
<1> QED BY <1>3

-----------------------------------------------------------------------------
(***************************************************************************)
(* A turn is over, or a drain is.                                          *)
(***************************************************************************)

\* The drain ends without a turn, or because its turn threw.
LEMMA DrainEnds ==
  ASSUME IInv, NEW q \in Objects, obj[q].pc # "none", EndDrain(obj, q, current),
         UNCHANGED <<inbound, accepted, ran, told, dropped, cleared, arrivals>>,
         failed' = failed \cup Elements(obj[q].batch)
  PROVE  IInv'
<1> PICK c : c = obj[q]
  OBVIOUS
<1>0. /\ Books /\ c \in ObjectType /\ Sound(c)
      /\ obj \in [Objects -> ObjectType] /\ current \in Objects \cup {0}
      /\ (current # 0 => Pending(obj[current]))
  BY DEF IInv, Types, AllSound, Alive
<1> PICK o : o = Idle(c)
  OBVIOUS
<1>1. /\ o \in ObjectType /\ o.items = c.items /\ o.droppedCount = c.droppedCount
      /\ o.summaryLines = c.summaryLines /\ o.kind = "none" /\ o.batch = <<>>
      /\ o.lines0 = <<>> /\ ~o.summary0 /\ o.pc = "none"
  BY <1>0, IdleIs
<1>2. /\ obj' \in [Objects -> ObjectType] /\ Woken(o, obj'[q], q)
      /\ \A p \in Objects \ {q} : Woken(obj[p], obj'[p], p)
      /\ IF Pending(c) THEN current' = current ELSE current' = 0
  <2> HIDE DEF EndDrain, Woken, Pending
  <2> QED BY <1>0, EndDrainDoes
<1>3. Pending(o) <=> Pending(c)
  BY <1>1 DEF Pending
<1>4. Stocked(c) /\ Captured(c) /\ InOrder(c) /\ RanOnce(c)
  BY <1>0 DEF Sound
<1>5. Books'
  BY <1>0, <1>4 DEF Books, Stocked
<1>6. Sound(o)'
  <2>1. Stocked(o)' /\ Captured(o)'
    BY <1>1, <1>4, ElementsOf DEF Stocked, Captured
  <2>2. InOrder(o)'
    <3>1. Elements(o.batch) = {}
      BY <1>1, ElementsOf
    <3> QED BY <1>1, <1>4, <3>1 DEF InOrder
  <2>3. RanOnce(o)'
    BY <1>1, <1>4 DEF RanOnce
  <2>4. Carried(o)'
    BY <1>1 DEF Carried
  <2> QED BY <2>1, <2>2, <2>3, <2>4 DEF Sound
<1>7. /\ Elements(o.items) \subseteq Elements(c.items)
      /\ Elements(o.batch) \subseteq Elements(c.items)
  BY <1>1, ElementsOf
<1>8. \/ current' = current /\ (q = current => Pending(o))
      \/ current' = 0 /\ o.pc = "none" /\ ~Pending(o)
  BY <1>1, <1>2, <1>3
<1> HIDE DEF Woken, Sound, Pending, NothingDropped, IInv, Books, Elements, EndDrain
<1> QED BY <1>1, <1>2, <1>5, <1>6, <1>7, <1>8, GoesOn

\* What the end of the turn leaves of object q: its n first items are gone, which
\* makes it left, and its drain goes on or ends with o.
Removed(q, n, items, left, o) ==
  LET c == obj[q]
  IN  /\ n \in 0..Len(c.items) /\ n <= Len(c.items) /\ n <= Len(c.batch)
      /\ n = Len(c.items) \/ n = Len(c.batch)
      /\ items \in Seq(Msgs) /\ Len(items) = Len(c.items) - n
      /\ \A i \in 1..Len(items) : items[i] = c.items[i + n]
      /\ Elements(items) \subseteq Elements(c.items)
      /\ \A m \in Elements(c.items) \ Elements(items) : \E i \in 1..n : c.items[i] = m
      /\ left.items = items
      /\ left.droppedCount = (IF c.summary0 THEN 0 ELSE c.droppedCount)
      /\ left.summaryLines = (IF c.summary0 THEN <<>> ELSE c.summaryLines)
      /\ told' = told \cup Elements(c.lines0) /\ failed' = failed \ Elements(c.batch)
      /\ UNCHANGED <<inbound, accepted, ran, dropped, cleared, arrivals>>
      /\ obj' = [obj EXCEPT ![q] = o] /\ o.items = items
      /\ o.droppedCount = left.droppedCount /\ o.summaryLines = left.summaryLines
      /\ o.kind = "none" /\ o.batch = <<>> /\ o.lines0 = <<>> /\ ~o.summary0
      /\ o.pc \in {"debounce", "none"}
      /\ IF Pending(left) THEN current' = current ELSE current' = 0 /\ o.pc = "none"

\* That is what the end of the turn does.
LEMMA TurnDoneDoes ==
  ASSUME IInv, NEW q \in Objects, TurnDone(q)
  PROVE  \E n \in Nat, o \in ObjectType : \E items, left : Removed(q, n, items, left, o)
<1> PICK c : c = obj[q]
  OBVIOUS
<1>0. /\ Books /\ c \in ObjectType /\ Sound(c) /\ c.pc = "running"
      /\ obj \in [Objects -> ObjectType] /\ current \in Objects \cup {0}
      /\ (current # 0 => Pending(obj[current]))
  BY DEF IInv, Types, AllSound, Alive, TurnDone
<1>1. Stocked(c) /\ Captured(c) /\ InOrder(c) /\ RanOnce(c) /\ Carried(c)
  BY <1>0 DEF Sound
<1>2. /\ c.items \in Seq(Msgs) /\ c.batch \in Seq(Msgs) /\ c.droppedCount \in Nat
      /\ Len(c.items) \in Nat /\ Len(c.batch) \in Nat /\ c.kind \in Kinds
      /\ c.lines0 \in Seq(Msgs)
  BY <1>0 DEF ObjectType
<1>n. PICK n \in Nat : n = IF Len(c.batch) < Len(c.items) THEN Len(c.batch) ELSE Len(c.items)
  BY <1>2
<1>3. n \in 0..Len(c.items) /\ n <= Len(c.items) /\ n <= Len(c.batch)
      /\ (n = Len(c.items) \/ n = Len(c.batch))
  BY <1>2, <1>n
<1>4. (IF c.kind = "collect" THEN Len(c.batch) ELSE 1) = Len(c.batch)
  BY <1>0, <1>1, <1>2 DEF Captured, Kinds
<1>i. PICK items : items = Without(c.items, n)
  OBVIOUS
<1>5. /\ items \in Seq(Msgs) /\ Len(items) = Len(c.items) - n
      /\ \A i \in 1..Len(items) : items[i] = c.items[i + n]
      /\ Elements(items) \subseteq Elements(c.items)
      /\ \A m \in Elements(c.items) \ Elements(items) : \E i \in 1..n : c.items[i] = m
  <2>1. c.items \in Seq(Msgs) /\ n \in 0..Len(c.items)
    BY <1>2, <1>3
  <2>2. Spliced(c.items, n, items)
    BY <1>i, <2>1, WithoutIs
  <2> QED BY <2>2 DEF Spliced
<1>l. PICK left : left = [c EXCEPT !.items = items,
                                 !.droppedCount = IF c.summary0 THEN 0 ELSE @,
                                 !.summaryLines = IF c.summary0 THEN <<>> ELSE @]
  OBVIOUS
<1>6. /\ left \in ObjectType /\ left.items = items
      /\ left.droppedCount = (IF c.summary0 THEN 0 ELSE c.droppedCount)
      /\ left.summaryLines = (IF c.summary0 THEN <<>> ELSE c.summaryLines)
  <2> PICK count : count = IF c.summary0 THEN 0 ELSE c.droppedCount
    OBVIOUS
  <2> PICK lines : lines = IF c.summary0 THEN <<>> ELSE c.summaryLines
    OBVIOUS
  <2>1. count \in Nat /\ lines \in Seq(Msgs)
    BY <1>0, EmptySeq DEF ObjectType
  <2>2. left = WithItems(c, items, count, lines)
    BY <1>l DEF WithItems
  <2>3. Restocked(left, c, items, count, lines)
    BY <1>0, <1>5, <2>1, <2>2, ItemsSet
  <2> QED BY <2>3 DEF Restocked
<1>7. /\ LoopHead([obj EXCEPT ![q] = left], q, current)
      /\ told' = told \cup Elements(c.lines0) /\ failed' = failed \ Elements(c.batch)
      /\ UNCHANGED <<inbound, accepted, ran, dropped, cleared, arrivals>>
  <2> HIDE DEF LoopHead
  <2> QED BY <1>4, <1>n, <1>i, <1>l DEF TurnDone
<1>8. PICK o \in ObjectType :
        /\ obj' = [obj EXCEPT ![q] = o] /\ o.items = items
        /\ o.droppedCount = left.droppedCount /\ o.summaryLines = left.summaryLines
        /\ o.kind = "none" /\ o.batch = <<>> /\ o.lines0 = <<>> /\ ~o.summary0
        /\ o.pc \in {"debounce", "none"}
        /\ IF Pending(left) THEN current' = current ELSE current' = 0 /\ o.pc = "none"
  <2>0. PICK os : os = [obj EXCEPT ![q] = left]
    OBVIOUS
  <2>1. os[q] = left
    BY <1>0, <2>0
  <2>2. LoopHead(os, q, current)
    BY <1>7, <2>0
  <2>3. CASE Pending(left)
    <3>0. PICK o : o = Paused(left)
      OBVIOUS
    <3>1. obj' = [os EXCEPT ![q] = o] /\ current' = current
      BY <2>1, <2>2, <2>3, <3>0 DEF LoopHead
    <3>2. obj' = [obj EXCEPT ![q] = o]
      BY <2>0, <3>1
    <3>3. /\ o \in ObjectType /\ o.items = left.items /\ o.droppedCount = left.droppedCount
          /\ o.summaryLines = left.summaryLines /\ o.kind = "none" /\ o.batch = <<>>
          /\ o.lines0 = <<>> /\ ~o.summary0 /\ o.pc = "debounce"
      BY <1>6, <3>0, PausedIs
    <3> QED BY <1>6, <2>3, <3>1, <3>2, <3>3
  <2>4. CASE ~Pending(left)
    <3>0. PICK o : o = Idle(left)
      OBVIOUS
    <3>1. obj' = [os EXCEPT ![q] = o] /\ current' = 0
      BY <2>1, <2>2, <2>4, <3>0 DEF LoopHead, EndDrain
    <3>2. obj' = [obj EXCEPT ![q] = o]
      BY <2>0, <3>1
    <3>3. /\ o \in ObjectType /\ o.items = left.items /\ o.droppedCount = left.droppedCount
          /\ o.summaryLines = left.summaryLines /\ o.kind = "none" /\ o.batch = <<>>
          /\ o.lines0 = <<>> /\ ~o.summary0 /\ o.pc = "none"
      BY <1>6, <3>0, IdleIs
    <3> QED BY <1>6, <2>4, <3>1, <3>2, <3>3
  <2> QED BY <2>3, <2>4
<1>9. Removed(q, n, items, left, o)
  BY <1>3, <1>5, <1>6, <1>7, <1>8 DEF Removed
<1> QED BY <1>9

\* The turn returned.
LEMMA TurnDoneKeeps ==
  ASSUME IInv, NEW q \in Objects, TurnDone(q)
  PROVE  IInv'
<1> PICK c : c = obj[q]
  OBVIOUS
<1>0. /\ Books /\ c \in ObjectType /\ Sound(c) /\ c.pc = "running"
      /\ obj \in [Objects -> ObjectType] /\ current \in Objects \cup {0}
      /\ (current # 0 => Pending(obj[current]))
  BY DEF IInv, Types, AllSound, Alive, TurnDone
<1>1. Stocked(c) /\ Captured(c) /\ InOrder(c) /\ RanOnce(c) /\ Carried(c)
  BY <1>0 DEF Sound
<1>2. /\ c.items \in Seq(Msgs) /\ c.batch \in Seq(Msgs) /\ c.droppedCount \in Nat
      /\ Len(c.items) \in Nat /\ Len(c.batch) \in Nat /\ c.kind \in Kinds
      /\ c.lines0 \in Seq(Msgs)
  BY <1>0 DEF ObjectType
<1>p. PICK n \in Nat, o \in ObjectType : \E items, left : Removed(q, n, items, left, o)
  BY TurnDoneDoes
<1>r. PICK items, left : Removed(q, n, items, left, o)
  BY <1>p
<1>3. n \in 0..Len(c.items) /\ n <= Len(c.items) /\ n <= Len(c.batch)
      /\ (n = Len(c.items) \/ n = Len(c.batch))
  BY <1>r DEF Removed
<1>5. /\ items \in Seq(Msgs) /\ Len(items) = Len(c.items) - n
      /\ \A i \in 1..Len(items) : items[i] = c.items[i + n]
      /\ Elements(items) \subseteq Elements(c.items)
      /\ \A m \in Elements(c.items) \ Elements(items) : \E i \in 1..n : c.items[i] = m
  BY <1>r DEF Removed
<1>6. /\ left.items = items
      /\ left.droppedCount = (IF c.summary0 THEN 0 ELSE c.droppedCount)
      /\ left.summaryLines = (IF c.summary0 THEN <<>> ELSE c.summaryLines)
  BY <1>r DEF Removed
<1>7. /\ told' = told \cup Elements(c.lines0) /\ failed' = failed \ Elements(c.batch)
      /\ UNCHANGED <<inbound, accepted, ran, dropped, cleared, arrivals>>
  BY <1>r DEF Removed
<1>8. /\ obj' = [obj EXCEPT ![q] = o] /\ o.items = items
      /\ o.droppedCount = left.droppedCount /\ o.summaryLines = left.summaryLines
      /\ o.kind = "none" /\ o.batch = <<>> /\ o.lines0 = <<>> /\ ~o.summary0
      /\ o.pc \in {"debounce", "none"}
      /\ IF Pending(left) THEN current' = current ELSE current' = 0 /\ o.pc = "none"
  BY <1>r DEF Removed
<1>9. Pending(o) <=> Pending(left)
  BY <1>6, <1>8 DEF Pending
<1>10. /\ obj' \in [Objects -> ObjectType] /\ obj'[q] = o
       /\ \A p \in Objects \ {q} : obj'[p] = obj[p]
  BY <1>0, <1>8
<1>11. Books'
  BY <1>0, <1>1, <1>7 DEF Books, Stocked
<1>12. \A a \in 1..Len(items) :
         /\ a + n \in 1..Len(c.items) /\ items[a] = c.items[a + n]
         /\ items[a] \notin Elements(c.batch)
  <2> SUFFICES ASSUME NEW a \in 1..Len(items)
               PROVE  a + n \in 1..Len(c.items) /\ items[a] = c.items[a + n]
                      /\ items[a] \notin Elements(c.batch)
    OBVIOUS
  <2>1. a + n \in 1..Len(c.items) /\ items[a] = c.items[a + n] /\ n = Len(c.batch)
    BY <1>2, <1>3, <1>5
  <2>2. items[a] \in Elements(c.batch) => a + n <= Len(c.batch)
    BY <1>1, <2>1 DEF InOrder
  <2> QED BY <1>2, <2>1, <2>2
<1>13. Sound(o)'
  <2>1. Stocked(o)'
    <3>1. /\ Elements(o.batch) = {} /\ Elements(o.lines0) = {}
          /\ Elements(o.summaryLines) \subseteq Elements(c.summaryLines)
      BY <1>6, <1>8, ElementsOf
    <3>2. Elements(o.items) \cup Elements(o.summaryLines) \cup Elements(o.batch)
            \cup Elements(o.lines0) \subseteq accepted
      BY <1>1, <1>5, <1>8, <3>1 DEF Stocked
    <3>3. o.droppedCount + Len(o.items) <= Cardinality(accepted)
      <4>1. o.droppedCount \in Nat /\ o.droppedCount <= c.droppedCount
            /\ Len(o.items) = Len(c.items) - n
        BY <1>2, <1>5, <1>6, <1>8
      <4>2. c.droppedCount + Len(c.items) <= Cardinality(accepted)
            /\ Cardinality(accepted) \in Nat
        BY <1>0, <1>1, FS_CardinalityType DEF Stocked, Books
      <4> QED BY <1>2, <1>3, <4>1, <4>2
    <3>4. o.droppedCount = 0 <=> o.summaryLines = <<>>
      BY <1>1, <1>6, <1>8 DEF Stocked
    <3> QED BY <1>7, <3>2, <3>3, <3>4 DEF Stocked
  <2>2. Captured(o)'
    BY <1>8 DEF Captured
  <2>3. InOrder(o)'
    <3>1. ASSUME NEW a \in 1..Len(items), NEW b \in 1..Len(items),
                 NEW i \in 1..Len(arrivals), NEW j \in 1..Len(arrivals),
                 a < b, arrivals[i] = items[a], arrivals[j] = items[b]
          PROVE  i < j
      <4>1. a + n < b + n
        BY <1>3, <3>1
      <4> QED BY <1>1, <1>12, <3>1, <4>1 DEF InOrder
    <3> QED BY <1>7, <1>8, <3>1, ElementsOf DEF InOrder
  <2>4. RanOnce(o)'
    <3> SUFFICES ASSUME NEW m \in Elements(items), m \in ran
                 PROVE  m \in failed /\ m \notin Elements(c.batch)
      BY <1>7, <1>8 DEF RanOnce
    <3>1. PICK a \in 1..Len(items) : items[a] = m
      BY DEF Elements
    <3>2. m \notin Elements(c.batch)
      BY <1>12, <3>1
    <3> QED BY <1>1, <1>5, <3>2 DEF RanOnce
  <2>5. Carried(o)'
    BY <1>8 DEF Carried
  <2> QED BY <2>1, <2>2, <2>3, <2>4, <2>5 DEF Sound
<1>14. Woken(o, obj'[q], q) /\ \A p \in Objects \ {q} : Woken(obj[p], obj'[p], p)
  BY <1>10 DEF Woken
<1>15. \/ current' = current /\ (q = current => Pending(o))
       \/ current' = 0 /\ o.pc = "none" /\ ~Pending(o)
  BY <1>8, <1>9
<1>16. o.droppedCount = 0 /\ told' = {} => c.droppedCount = 0
  <2>1. c.summary0 => Elements(c.lines0) # {}
    BY <1>1, <1>2, ElementsOf DEF Captured
  <2> QED BY <1>6, <1>7, <1>8, <2>1
<1>17. NothingDropped => Elements(c.items) \subseteq ran' \cup Elements(o.items)
  <2> SUFFICES ASSUME NothingDropped, NEW m \in Elements(c.items) \ Elements(items)
               PROVE  m \in ran
    BY <1>7, <1>8
  <2>1. PICK i \in 1..n : c.items[i] = m
    BY <1>5
  <2>2. i \in 1..Len(c.items) /\ i <= Len(c.batch)
    BY <1>2, <1>3
  <2>3. m \in Elements(c.batch) /\ c.kind # "summary"
    BY <1>0, <1>1, <2>1, <2>2 DEF Carried
  <2> QED BY <1>0, <1>1, <1>2, <2>3 DEF Captured, Kinds
<1>18. /\ Elements(o.items) \subseteq Elements(c.items)
       /\ Elements(o.batch) \subseteq Elements(c.items)
  BY <1>5, <1>8, ElementsOf
<1> HIDE DEF Woken, Sound, Pending, NothingDropped, IInv, Books, Elements, LoopHead
<1> QED BY <1>0, <1>7, <1>8, <1>10, <1>11, <1>13, <1>14, <1>15, <1>16, <1>17, <1>18, GoesOn

-----------------------------------------------------------------------------
(***************************************************************************)
(* The queue is cleared.                                                   *)
(***************************************************************************)

\* What the object of the map held is cleared; its drain goes on with an empty one.
LEMMA ClearKeeps ==
  ASSUME IInv, Clear
  PROVE  IInv'
<1> PICK q, c : q = current /\ c = obj[current]
  OBVIOUS
<1>0. /\ Books /\ obj \in [Objects -> ObjectType] /\ q \in Objects /\ c \in ObjectType
      /\ Sound(c) /\ Pending(c)
  BY DEF IInv, Types, AllSound, Alive, Clear
<1>1. Stocked(c) /\ Captured(c) /\ c.items \in Seq(Msgs) /\ c.summaryLines \in Seq(Msgs)
      /\ c.droppedCount \in Nat
  BY <1>0 DEF Sound, ObjectType
<1>o. PICK o : o = [c EXCEPT !.items = <<>>, !.droppedCount = 0, !.summaryLines = <<>>,
                             !.lastRun = FALSE]
  OBVIOUS
<1>2. /\ o \in ObjectType /\ o.items = <<>> /\ o.droppedCount = 0 /\ o.summaryLines = <<>>
      /\ o.pc = c.pc /\ o.kind = c.kind /\ o.batch = c.batch /\ o.lines0 = c.lines0
      /\ o.summary0 = c.summary0
  BY <1>0, <1>o, EmptySeq DEF ObjectType
<1>3. /\ obj' = [obj EXCEPT ![q] = o] /\ current' = 0
      /\ cleared' = cleared \cup Elements(c.items) \cup Elements(c.summaryLines)
      /\ UNCHANGED <<inbound, accepted, ran, told, dropped, failed, arrivals>>
  BY <1>o DEF Clear
<1>4. /\ obj' \in [Objects -> ObjectType] /\ obj'[q] = o
      /\ \A p \in Objects \ {q} : obj'[p] = obj[p]
  BY <1>0, <1>2, <1>3
<1>5. Elements(c.items) \cup Elements(c.summaryLines) # {}
  <2>1. c.items # <<>> \/ c.summaryLines # <<>>
    BY <1>0, <1>1 DEF Pending, Stocked
  <2>2. \A s \in Seq(Msgs) : s # <<>> => Elements(s) # {}
    BY ElementsOf
  <2> QED BY <1>1, <2>1, <2>2
<1>6. cleared' # {} /\ ~NothingDropped'
  BY <1>3, <1>5 DEF NothingDropped
<1>7. Books'
  BY <1>0, <1>1, <1>3 DEF Books, Stocked
<1>8. Sound(o)'
  <2>1. Stocked(o)'
    <3>1. Cardinality(accepted) \in Nat
      BY <1>0, FS_CardinalityType DEF Books
    <3>2. Len(o.items) = 0
      BY <1>2
    <3> QED BY <1>1, <1>2, <1>3, <3>1, <3>2, ElementsOf DEF Stocked
  <2>2. Captured(o)'
    BY <1>1, <1>2, <1>3 DEF Captured
  <2>3. InOrder(o)' /\ RanOnce(o)'
    BY <1>2, ElementsOf DEF InOrder, RanOnce
  <2>4. Carried(o)'
    BY <1>6 DEF Carried
  <2> QED BY <2>1, <2>2, <2>3, <2>4 DEF Sound
<1>9. AllSound'
  <2> SUFFICES ASSUME NEW p \in Objects PROVE Sound(obj[p])'
    BY DEF AllSound
  <2>1. CASE p = q
    <3>1. obj'[p] = o
      BY <1>4, <2>1
    <3> QED BY <1>8, <3>1 DEF Sound, Stocked, Captured, InOrder, RanOnce, Carried
  <2>2. CASE p # q
    <3> PICK d : d = obj[p]
      OBVIOUS
    <3>1. obj'[p] = d /\ Sound(d)
      BY <1>4, <2>2 DEF IInv, AllSound
    <3>2. Stocked(d)' /\ Captured(d)'
      BY <1>3, <3>1 DEF Sound, Stocked, Captured
    <3>3. InOrder(d)' /\ RanOnce(d)'
      BY <1>3, <3>1 DEF Sound, InOrder, RanOnce
    <3>4. Carried(d)'
      BY <1>6 DEF Carried
    <3> QED BY <3>1, <3>2, <3>3, <3>4, SMTT(30)
            DEF Sound, Stocked, Captured, InOrder, RanOnce, Carried
  <2> QED BY <2>1, <2>2
<1>10. Apart'
  <2>1. \A p \in Objects : /\ Elements(obj'[p].items) \subseteq Elements(obj[p].items)
                           /\ Elements(obj'[p].batch) = Elements(obj[p].batch)
    BY <1>2, <1>4, ElementsOf
  <2>2. Apart
    BY DEF IInv
  <2> QED BY <2>1, <2>2 DEF Apart
<1> QED BY <1>3, <1>4, <1>6, <1>7, <1>9, <1>10 DEF IInv, Types, Alive, Single, Kept

-----------------------------------------------------------------------------
(***************************************************************************)
(* A message is pushed.                                                    *)
(***************************************************************************)

\* Sound but for what depends on all objects.
Solid(o) == Stocked(o) /\ Captured(o) /\ InOrder(o) /\ RanOnce(o)

\* What is accepted of one more message.
Accepts(m) ==
  /\ inbound[m] = "checked" /\ inbound' = [inbound EXCEPT ![m] = "queued"]
  /\ accepted' = accepted \cup {m} /\ arrivals' = Append(arrivals, m)
  /\ UNCHANGED <<ran, told, cleared, failed>>

\* It is a new one, the last.
LEMMA AcceptsIs ==
  ASSUME Books, NEW m \in Msgs, Accepts(m), dropped' \subseteq accepted
  PROVE  /\ Books' /\ m \notin accepted /\ m \notin ran /\ Elements(arrivals) = accepted
         /\ Cardinality(accepted) \in Nat /\ Cardinality(accepted') = Cardinality(accepted) + 1
         /\ Len(arrivals) \in Nat /\ Len(arrivals') = Len(arrivals) + 1
         /\ \A i \in 1..Len(arrivals') : IF i = Len(arrivals') THEN arrivals'[i] = m
              ELSE i \in 1..Len(arrivals) /\ arrivals'[i] = arrivals[i]
                   /\ arrivals[i] \in accepted
<1>1. m \notin accepted /\ m \notin ran /\ arrivals \in Seq(Msgs) /\ IsFiniteSet(accepted)
      /\ Elements(arrivals) = accepted
  BY DEF Books, Accepts
<1>2. /\ Cardinality(accepted) \in Nat /\ Cardinality(accepted') = Cardinality(accepted) + 1
      /\ IsFiniteSet(accepted')
  BY <1>1, FS_CardinalityType, FS_AddElement DEF Accepts
<1>3. /\ arrivals' \in Seq(Msgs) /\ Len(arrivals) \in Nat /\ Len(arrivals') = Len(arrivals) + 1
      /\ \A i \in 1..Len(arrivals) : arrivals'[i] = arrivals[i]
      /\ arrivals'[Len(arrivals) + 1] = m /\ Elements(arrivals') = Elements(arrivals) \cup {m}
  BY <1>1, AppendIs DEF Accepts
<1>4. \A i \in 1..Len(arrivals') : IF i = Len(arrivals') THEN arrivals'[i] = m
        ELSE i \in 1..Len(arrivals) /\ arrivals'[i] = arrivals[i] /\ arrivals[i] \in accepted
  BY <1>1, <1>3 DEF Elements
<1>5. \A i, j \in 1..Len(arrivals') : arrivals'[i] = arrivals'[j] => i = j
  BY <1>1, <1>4 DEF Books
<1>6. inbound' \in [Msgs -> Phases] /\ accepted' = {k \in Msgs : inbound'[k] = "queued"}
      /\ \A k \in Msgs : inbound'[k] \in {"new", "checked"} => k \notin ran'
  BY DEF Books, Accepts, Phases
<1>7. UNION {told', dropped', cleared', failed'} \subseteq accepted'
  BY DEF Books, Accepts
<1>8. Books'
  BY <1>1, <1>2, <1>3, <1>5, <1>6, <1>7 DEF Books, Accepts
<1> QED BY <1>1, <1>2, <1>3, <1>4, <1>8

\* The other objects do not change.
LEMMA GrownSolid ==
  ASSUME Books, NEW m \in Msgs, Accepts(m), dropped' \subseteq accepted,
         NEW o \in ObjectType, Solid(o)
  PROVE  Solid(o)'
<1>1. /\ Cardinality(accepted) \in Nat /\ Cardinality(accepted') = Cardinality(accepted) + 1
      /\ m \notin accepted
      /\ \A i \in 1..Len(arrivals') : IF i = Len(arrivals') THEN arrivals'[i] = m
           ELSE i \in 1..Len(arrivals) /\ arrivals'[i] = arrivals[i] /\ arrivals[i] \in accepted
  BY AcceptsIs
<1>2. o.droppedCount + Len(o.items) \in Nat
  BY DEF ObjectType
<1>3. Stocked(o)'
  BY <1>1, <1>2 DEF Solid, Stocked, Accepts
<1>4. Captured(o)' /\ RanOnce(o)'
  BY DEF Solid, Captured, RanOnce, Accepts
<1>5. \A a \in 1..Len(o.items) : o.items[a] \in accepted
  BY DEF Solid, Stocked, Elements
<1>6. InOrder(o)'
  <2>1. ASSUME NEW a \in 1..Len(o.items), NEW b \in 1..Len(o.items),
               NEW i \in 1..Len(arrivals'), NEW j \in 1..Len(arrivals'),
               a < b, arrivals'[i] = o.items[a], arrivals'[j] = o.items[b]
        PROVE  i < j
    <3>1. i \in 1..Len(arrivals) /\ j \in 1..Len(arrivals)
          /\ arrivals[i] = o.items[a] /\ arrivals[j] = o.items[b]
      BY <1>1, <1>5, <2>1
    <3> QED BY <2>1, <3>1 DEF Solid, InOrder
  <2> QED BY <2>1 DEF Solid, InOrder
<1> QED BY <1>3, <1>4, <1>6 DEF Solid

\* The oldest items leave the queue; "summarize" counts and lists them.
Roomy(r, o) ==
  /\ r \in ObjectType /\ Solid(r) /\ r.pc = o.pc /\ r.kind = o.kind
  /\ r.batch = o.batch /\ Elements(r.items) \subseteq Elements(o.items)
  /\ r.droppedCount = 0 => \E m \in Elements(o.items) \cup Elements(o.summaryLines) :
       m \notin Elements(r.items) \cup Elements(r.summaryLines)

\* MadeRoom is Roomy: o without its n oldest items.
LEMMA MadeRoomIs ==
  ASSUME Books, NEW o \in ObjectType, Solid(o), NEW n \in 1..Len(o.items),
         o.settings.cap \in Nat \ {0}, NEW r, r = MadeRoom(o, n)
  PROVE  Roomy(r, o)
<1>0. /\ o.items \in Seq(Msgs) /\ o.summaryLines \in Seq(Msgs) /\ o.droppedCount \in Nat
      /\ Len(o.items) \in Nat /\ n \in Nat \ {0} /\ n <= Len(o.items)
  BY DEF ObjectType
<1>i. PICK items : items = Without(o.items, n)
  OBVIOUS
<1>1. /\ items \in Seq(Msgs) /\ Len(items) = Len(o.items) - n
      /\ \A i \in 1..(Len(o.items) - n) : items[i] = o.items[i + n]
      /\ Elements(items) \subseteq Elements(o.items)
  <2>1. n \in 0..Len(o.items)
    BY <1>0
  <2>2. Spliced(o.items, n, items)
    BY <1>0, <1>i, <2>1, WithoutIs
  <2> QED BY <2>2 DEF Spliced
<1>g. PICK gone : gone = SubSeq(o.items, 1, n)
  OBVIOUS
<1>2. /\ gone \in Seq(Msgs) /\ Len(gone) = n /\ Elements(gone) \subseteq Elements(o.items)
  <2>1. \A i \in 1..n : o.items[i] \in Msgs /\ i \in 1..Len(o.items)
    BY <1>0
  <2>2. /\ gone \in Seq(Msgs) /\ Len(gone) = IF 1 <= n THEN n - 1 + 1 ELSE 0
        /\ \A i \in 1..(n - 1 + 1) : gone[i] = o.items[1 + i - 1]
    BY <1>0, <1>g, <2>1, SubSeqProperties
  <2>3. Len(gone) = n /\ \A i \in 1..n : gone[i] = o.items[i]
    BY <1>0, <2>2
  <2> QED BY <2>1, <2>2, <2>3 DEF Elements
<1>l. PICK lines : lines = o.summaryLines \o gone
  OBVIOUS
<1>3. /\ lines \in Seq(Msgs) /\ Len(lines) = Len(o.summaryLines) + n /\ Len(lines) \in Nat \ {0}
      /\ Elements(lines) \subseteq Elements(o.summaryLines) \cup Elements(gone)
  <2>1. /\ lines \in Seq(Msgs) /\ Len(lines) = Len(o.summaryLines) + Len(gone)
        /\ \A i \in 1..(Len(o.summaryLines) + Len(gone)) :
             lines[i] = IF i <= Len(o.summaryLines) THEN o.summaryLines[i]
                                                    ELSE gone[i - Len(o.summaryLines)]
    BY <1>0, <1>2, <1>l, ConcatProperties, ZenonT(30)
  <2>2. Len(o.summaryLines) \in Nat
    BY <1>0
  <2>3. ASSUME NEW i \in 1..Len(lines)
        PROVE  lines[i] \in Elements(o.summaryLines) \cup Elements(gone)
    <3>1. CASE i <= Len(o.summaryLines)
      <4>1. lines[i] = o.summaryLines[i] /\ i \in 1..Len(o.summaryLines)
        BY <1>0, <1>2, <2>1, <2>2, <3>1
      <4> QED BY <4>1 DEF Elements
    <3>2. CASE ~(i <= Len(o.summaryLines))
      <4>1. /\ lines[i] = gone[i - Len(o.summaryLines)]
            /\ i - Len(o.summaryLines) \in 1..Len(gone)
        BY <1>0, <1>2, <2>1, <2>2, <3>2
      <4> QED BY <4>1 DEF Elements
    <3> QED BY <3>1, <3>2
  <2>4. Elements(lines) \subseteq Elements(o.summaryLines) \cup Elements(gone)
    BY <2>3 DEF Elements
  <2> QED BY <1>0, <1>2, <2>1, <2>2, <2>4
<1>v. PICK over : over = IF Len(lines) > o.settings.cap THEN Len(lines) - o.settings.cap ELSE 0
  OBVIOUS
<1>4. over \in 0..Len(lines) /\ over < Len(lines)
  BY <1>3, <1>v
<1>k. PICK kept : kept = Without(lines, over)
  OBVIOUS
<1>5. /\ kept \in Seq(Msgs) /\ kept # <<>> /\ Elements(kept) \subseteq Elements(lines)
  <2>1. kept \in Seq(Msgs) /\ Len(kept) = Len(lines) - over
        /\ Elements(kept) \subseteq Elements(lines)
    <3>1. Spliced(lines, over, kept)
      BY <1>3, <1>4, <1>k, WithoutIs
    <3> QED BY <3>1 DEF Spliced
  <2> QED BY <1>3, <1>4, <2>1
<1>6. Elements(o.items) \subseteq accepted /\ Elements(o.summaryLines) \subseteq accepted
  BY DEF Solid, Stocked
<1>7. /\ r \in ObjectType /\ r.pc = o.pc /\ r.kind = o.kind /\ r.items = items
      /\ r.batch = o.batch /\ r.lines0 = o.lines0 /\ r.summary0 = o.summary0
      /\ r.settings = o.settings
      /\ IF o.settings.drop = "summarize"
         THEN r.droppedCount = o.droppedCount + n /\ r.summaryLines = kept
         ELSE r.droppedCount = o.droppedCount /\ r.summaryLines = o.summaryLines
  <2>1. r = IF o.settings.drop = "summarize"
            THEN WithItems(o, items, o.droppedCount + n, kept)
            ELSE OnlyItems(o, items)
    BY <1>i, <1>g, <1>l, <1>v, <1>k DEF MadeRoom, WithItems, OnlyItems
  <2>2. o.droppedCount + n \in Nat
    BY <1>0
  <2>3. CASE o.settings.drop = "summarize"
    <3>1. Restocked(r, o, items, o.droppedCount + n, kept)
      BY <1>1, <1>5, <2>1, <2>2, <2>3, ItemsSet
    <3> QED BY <2>3, <3>1 DEF Restocked
  <2>4. CASE o.settings.drop # "summarize"
    <3>1. Restocked(r, o, items, o.droppedCount, o.summaryLines)
      BY <1>1, <2>1, <2>4, ItemsSet
    <3> QED BY <2>4, <3>1 DEF Restocked
  <2> QED BY <2>3, <2>4
<1>8. Elements(r.summaryLines) \subseteq accepted
  BY <1>2, <1>3, <1>5, <1>6, <1>7
<1>9. Stocked(r)
  <2>1. r.droppedCount + Len(items) <= o.droppedCount + Len(o.items)
    BY <1>0, <1>1, <1>7
  <2>2. o.droppedCount + Len(o.items) <= Cardinality(accepted) /\ Cardinality(accepted) \in Nat
    BY FS_CardinalityType DEF Solid, Stocked, Books
  <2>3. r.droppedCount + Len(r.items) <= Cardinality(accepted)
    BY <1>0, <1>1, <1>7, <2>1, <2>2
  <2>4. r.droppedCount = 0 <=> r.summaryLines = <<>>
    BY <1>0, <1>5, <1>7 DEF Solid, Stocked
  <2> QED BY <1>1, <1>7, <1>8, <2>3, <2>4 DEF Solid, Stocked
<1>10. Captured(r)
  BY <1>7 DEF Solid, Captured
<1>11. InOrder(r)
  <2>1. \A a \in 1..Len(items) : a + n \in 1..Len(o.items) /\ items[a] = o.items[a + n]
    BY <1>0, <1>1
  <2>2. ASSUME NEW a \in 1..Len(items), NEW b \in 1..Len(items),
               NEW i \in 1..Len(arrivals), NEW j \in 1..Len(arrivals),
               a < b, arrivals[i] = items[a], arrivals[j] = items[b]
        PROVE  i < j
    <3>1. a + n < b + n
      BY <1>0, <2>2
    <3> QED BY <2>1, <2>2, <3>1 DEF Solid, InOrder
  <2>3. ASSUME NEW i \in 1..Len(items), items[i] \in Elements(o.batch)
        PROVE  i <= Len(o.batch)
    <3>1. i + n \in 1..Len(o.items) /\ o.items[i + n] \in Elements(o.batch)
      BY <2>1, <2>3
    <3>2. i + n <= Len(o.batch)
      BY <3>1 DEF Solid, InOrder
    <3>3. Len(o.batch) \in Nat
      BY DEF ObjectType
    <3> QED BY <1>0, <3>2, <3>3
  <2> QED BY <1>7, <2>2, <2>3 DEF InOrder
<1>12. RanOnce(r)
  BY <1>1, <1>7 DEF Solid, RanOnce
<1>13. ASSUME r.droppedCount = 0
       PROVE  \E m \in Elements(o.items) : m \notin Elements(r.items) \cup Elements(r.summaryLines)
  <2>1. r.summaryLines = <<>>
    BY <1>9, <1>13 DEF Stocked
  <2>2. 1 \in 1..Len(o.items) /\ o.items[1] \in Elements(o.items)
    BY <1>0 DEF Elements
  <2>3. o.items[1] \notin Elements(items)
    <3> SUFFICES ASSUME NEW a \in 1..Len(items), items[a] = o.items[1] PROVE FALSE
      BY DEF Elements
    <3>1. a + n \in 1..Len(o.items) /\ o.items[a + n] = o.items[1] /\ a + n # 1
      BY <1>0, <1>1
    <3> QED BY <2>2, <3>1, OnceEach DEF Solid
  <2> QED BY <1>7, <2>1, <2>2, <2>3, ElementsOf
<1> QED BY <1>1, <1>7, <1>9, <1>10, <1>11, <1>12, <1>13 DEF Solid, Roomy

\* The object a message is pushed on: the one in the map, or an empty one.
Receives(o, q, s) ==
  /\ q \in Objects /\ o \in ObjectType /\ Sound(o) /\ o.settings = s
  /\ \A p \in Objects \ {q} :
       /\ Elements(o.items) \cap (Elements(obj[p].items) \cup Elements(obj[p].batch)) = {}
       /\ Elements(obj[p].items) \cap Elements(o.batch) = {}
  /\ cleared = {} => \A p \in Objects \ {q} : obj[p].pc = "none" /\ ~Pending(obj[p])
  /\ cleared = {} /\ o.droppedCount = 0 => obj[q].droppedCount = 0
  /\ current # 0 => q = current /\ o.items = obj[current].items

\* The target of a message is such an object.
LEMMA TargetIs ==
  ASSUME IInv, NEW s \in Settings, NEW q \in Slot,
         NEW o, o = WithLastRun(Target(s))
  PROVE  Receives(o, q, s)
<1>0. Books /\ obj \in [Objects -> ObjectType] /\ current \in Objects \cup {0} /\ AllSound
      /\ Apart /\ Single
  BY DEF IInv, Types
<1>1. CASE current # 0
  <2>1. q = current /\ q \in Objects /\ q # 0
    BY <1>0, <1>1 DEF Slot
  <2> PICK c : c = obj[q]
    OBVIOUS
  <2>2. c \in ObjectType /\ o = WithLastRun(WithSettings(c, s)) /\ Sound(c)
    BY <1>0, <1>1, <2>1 DEF Target, AllSound, WithSettings
  <2>3. /\ o \in ObjectType /\ o.items = c.items /\ o.droppedCount = c.droppedCount
        /\ o.summaryLines = c.summaryLines /\ o.pc = c.pc /\ o.kind = c.kind
        /\ o.batch = c.batch /\ o.lines0 = c.lines0 /\ o.summary0 = c.summary0
        /\ o.settings = s
    BY <2>2, SettingsSet
  <2>4. Sound(o)
    <3> HIDE DEF NothingDropped
    <3>1. Stocked(o) /\ Captured(o)
      BY <2>2, <2>3 DEF Sound, Stocked, Captured
    <3>2. InOrder(o) /\ RanOnce(o)
      BY <2>2, <2>3 DEF Sound, InOrder, RanOnce
    <3>3. Carried(o)
      BY <2>2, <2>3 DEF Sound, Carried
    <3> QED BY <3>1, <3>2, <3>3 DEF Sound
  <2>5. \A p \in Objects \ {q} :
          /\ Elements(o.items) \cap (Elements(obj[p].items) \cup Elements(obj[p].batch)) = {}
          /\ Elements(obj[p].items) \cap Elements(o.batch) = {}
    BY <1>0, <2>1, <2>3 DEF Apart
  <2>6. cleared = {} => \A p \in Objects \ {q} : obj[p].pc = "none" /\ ~Pending(obj[p])
    BY <1>0, <2>1 DEF Single
  <2> QED BY <1>1, <2>1, <2>3, <2>4, <2>5, <2>6 DEF Receives
<1>2. CASE current = 0
  <2>1. q \in Objects
    BY <1>2 DEF Slot, FreeObjects
  <2>2. o = WithLastRun(Fresh(s))
    BY <1>2 DEF Target
  <2>3. /\ o.items = <<>> /\ o.droppedCount = 0 /\ o.summaryLines = <<>> /\ o.pc = "none"
        /\ o.kind = "none" /\ o.batch = <<>> /\ o.lines0 = <<>> /\ ~o.summary0
        /\ o.settings = s /\ o \in ObjectType
    BY <2>2, FreshIs
  <2>4. Sound(o)
    <3>1. Cardinality(accepted) \in Nat
      BY <1>0, FS_CardinalityType DEF Books
    <3>2. Stocked(o)
      BY <2>3, <3>1, ElementsOf DEF Stocked
    <3>3. Captured(o) /\ Carried(o)
      BY <2>3 DEF Captured, Carried
    <3>4. InOrder(o) /\ RanOnce(o)
      BY <2>3, ElementsOf DEF InOrder, RanOnce
    <3> QED BY <3>2, <3>3, <3>4 DEF Sound
  <2>5. cleared = {} => \A p \in Objects : obj[p].pc = "none" /\ ~Pending(obj[p])
    BY <1>0, <1>2, FollowupAssumption DEF Single
  <2>6. cleared = {} => obj[q].droppedCount = 0
    BY <1>0, <2>1, <2>5 DEF Pending, ObjectType
  <2> QED BY <1>2, <2>1, <2>3, <2>4, <2>5, <2>6, ElementsOf DEF Receives
<1> QED BY <1>1, <1>2

\* What enqueueFollowupRun pushes message m on: object q, o with the message's
\* settings, r once there is room, x with the message.
Pushed(m, s, o, r, x, q) ==
  /\ q \in Slot /\ obj' = [obj EXCEPT ![q] = x] /\ current' = q
  /\ o = WithLastRun(Target(s)) /\ x = OnlyItems(r, Append(r.items, m))
  /\ IF Len(o.items) >= s.cap THEN r = MadeRoom(o, Len(o.items) - s.cap + 1) ELSE r = o
  /\ dropped' = dropped \cup ((Elements(o.items) \cup Elements(o.summaryLines))
                               \ (Elements(r.items) \cup Elements(r.summaryLines)))

\* That is what enqueueFollowupRun does.
LEMMA EnqueueDoes ==
  ASSUME NEW m \in Msgs, NEW s \in Settings, Enqueue(m, s)
  PROVE  \E o, r, x, q : Pushed(m, s, o, r, x, q)
<1> DEFINE o == [Target(s) EXCEPT !.lastRun = TRUE]
           full == Len(o.items) >= s.cap
           r == IF full THEN MadeRoom(o, Len(o.items) - s.cap + 1) ELSE o
           x == [r EXCEPT !.items = Append(@, m)]
<1>1. /\ \E q \in Slot : obj' = [obj EXCEPT ![q] = x] /\ current' = q
      /\ dropped' = dropped \cup ((Elements(o.items) \cup Elements(o.summaryLines))
                                   \ (Elements(r.items) \cup Elements(r.summaryLines)))
  BY DEF Enqueue
<1>2. o = WithLastRun(Target(s)) /\ x = OnlyItems(r, Append(r.items, m))
  BY DEF WithLastRun, OnlyItems
<1>3. IF Len(o.items) >= s.cap THEN r = MadeRoom(o, Len(o.items) - s.cap + 1) ELSE r = o
  OBVIOUS
<1> HIDE DEF o, r, x
<1> QED BY <1>1, <1>2, <1>3 DEF Pushed

\* A message is pushed, after room was made for it if need be.
LEMMA EnqueueKeeps ==
  ASSUME IInv, NEW m \in Msgs, NEW s \in Settings, Enqueue(m, s)
  PROVE  IInv'
<1>0. PICK o, r, x, q : Pushed(m, s, o, r, x, q)
  BY EnqueueDoes
<1>1. /\ q \in Slot /\ obj' = [obj EXCEPT ![q] = x] /\ current' = q
      /\ o = WithLastRun(Target(s)) /\ x = OnlyItems(r, Append(r.items, m))
      /\ IF Len(o.items) >= s.cap THEN r = MadeRoom(o, Len(o.items) - s.cap + 1) ELSE r = o
      /\ dropped' = dropped \cup ((Elements(o.items) \cup Elements(o.summaryLines))
                                   \ (Elements(r.items) \cup Elements(r.summaryLines)))
  BY <1>0 DEF Pushed
<1>2. Accepts(m)
  BY DEF Enqueue, Accepts
<1> DEFINE full == Len(o.items) >= s.cap
<1>3. /\ q \in Objects /\ o \in ObjectType /\ Sound(o) /\ o.settings = s
      /\ \A p \in Objects \ {q} :
           /\ Elements(o.items) \cap (Elements(obj[p].items) \cup Elements(obj[p].batch)) = {}
           /\ Elements(obj[p].items) \cap Elements(o.batch) = {}
      /\ cleared = {} => \A p \in Objects \ {q} : obj[p].pc = "none" /\ ~Pending(obj[p])
      /\ cleared = {} /\ o.droppedCount = 0 => obj[q].droppedCount = 0
      /\ current # 0 => q = current /\ o.items = obj[current].items
  <2>1. Receives(o, q, s)
    BY <1>1, TargetIs
  <2> QED BY <2>1 DEF Receives
<1>4. Books /\ obj \in [Objects -> ObjectType] /\ Kept
  BY DEF IInv, Types
<1>5. Solid(o) /\ Carried(o) /\ s.cap \in Nat \ {0} /\ Len(o.items) \in Nat
  BY <1>3, FollowupAssumption DEF Sound, Solid, ObjectType
<1>6. /\ r \in ObjectType /\ Solid(r) /\ r.pc = o.pc /\ r.kind = o.kind /\ r.batch = o.batch
      /\ Elements(r.items) \subseteq Elements(o.items)
      /\ full /\ r.droppedCount = 0 =>
           \E k \in Elements(o.items) \cup Elements(o.summaryLines) :
             k \notin Elements(r.items) \cup Elements(r.summaryLines)
  <2>1. CASE full
    <3> PICK n : n = Len(o.items) - s.cap + 1
      OBVIOUS
    <3>1. n \in 1..Len(o.items) /\ r = MadeRoom(o, n) /\ o.settings.cap \in Nat \ {0}
      BY <1>1, <1>3, <1>5, <2>1
    <3>2. Roomy(r, o)
      BY <1>3, <1>4, <1>5, <3>1, MadeRoomIs
    <3> QED BY <3>2 DEF Roomy
  <2>2. CASE ~full
    BY <1>1, <1>3, <1>5, <2>2
  <2> QED BY <2>1, <2>2
<1>7. /\ x \in ObjectType /\ x.pc = r.pc /\ x.kind = r.kind /\ x.batch = r.batch
      /\ x.droppedCount = r.droppedCount /\ x.summaryLines = r.summaryLines
      /\ x.lines0 = r.lines0 /\ x.summary0 = r.summary0
      /\ Len(x.items) = Len(r.items) + 1 /\ Len(r.items) \in Nat
      /\ \A i \in 1..Len(r.items) : x.items[i] = r.items[i]
      /\ x.items[Len(r.items) + 1] = m
      /\ Elements(x.items) = Elements(r.items) \cup {m}
  <2> PICK items : items = Append(r.items, m)
    OBVIOUS
  <2>1. /\ r.items \in Seq(Msgs) /\ items \in Seq(Msgs) /\ Len(items) = Len(r.items) + 1
        /\ \A i \in 1..Len(r.items) : items[i] = r.items[i]
        /\ items[Len(r.items) + 1] = m /\ Elements(items) = Elements(r.items) \cup {m}
    BY <1>6, AppendIs DEF ObjectType
  <2>2. Restocked(x, r, items, r.droppedCount, r.summaryLines)
    BY <1>1, <1>6, <2>1, ItemsSet
  <2> QED BY <2>1, <2>2 DEF Restocked
<1>8. /\ obj' \in [Objects -> ObjectType] /\ obj'[q] = x
      /\ \A p \in Objects \ {q} : obj'[p] = obj[p]
  BY <1>1, <1>3, <1>4, <1>7
<1>9. dropped' \subseteq accepted
  BY <1>1, <1>4, <1>5 DEF Books, Solid, Stocked
<1>10. /\ Books' /\ m \notin accepted /\ m \notin ran
       /\ Cardinality(accepted) \in Nat /\ Cardinality(accepted') = Cardinality(accepted) + 1
       /\ Len(arrivals) \in Nat /\ Len(arrivals') = Len(arrivals) + 1
       /\ \A i \in 1..Len(arrivals') : IF i = Len(arrivals') THEN arrivals'[i] = m
            ELSE i \in 1..Len(arrivals) /\ arrivals'[i] = arrivals[i] /\ arrivals[i] \in accepted
  BY <1>2, <1>4, <1>9, AcceptsIs
<1> HIDE DEF full
<1>11. NothingDropped' => NothingDropped /\ r = o
  <2> SUFFICES ASSUME NothingDropped' PROVE NothingDropped /\ r = o
    OBVIOUS
  <2>1. /\ dropped' = {} /\ told' = {} /\ cleared' = {} /\ x.droppedCount = 0
        /\ \A p \in Objects \ {q} : obj[p].droppedCount = 0
    BY <1>3, <1>8 DEF NothingDropped
  <2>2. ~full
    <3>1. (Elements(o.items) \cup Elements(o.summaryLines))
            \ (Elements(r.items) \cup Elements(r.summaryLines)) = {}
      BY <1>1, <2>1
    <3> QED BY <1>6, <1>7, <2>1, <3>1
  <2>3. obj[q].droppedCount = 0
    <3>1. r = o
      BY <1>1, <2>2 DEF full
    <3>2. o.droppedCount = 0 /\ cleared = {}
      BY <1>2, <1>7, <2>1, <3>1 DEF Accepts
    <3> QED BY <1>3, <3>2
  <2>4. dropped \cup told \cup cleared = {}
    BY <1>1, <1>2, <2>1 DEF Accepts
  <2>5. NothingDropped
    BY <2>1, <2>3, <2>4 DEF NothingDropped
  <2> QED BY <1>1, <2>2, <2>5 DEF full
<1>12. \A a \in 1..Len(r.items) : r.items[a] \in accepted /\ r.items[a] # m
  BY <1>6, <1>10 DEF Solid, Stocked, Elements
<1>13. Solid(x)'
  <2>1. Stocked(x)'
    <3>1. x.droppedCount + Len(x.items) <= Cardinality(accepted')
      BY <1>6, <1>7, <1>10 DEF Solid, Stocked, ObjectType
    <3> QED BY <1>2, <1>6, <1>7, <3>1 DEF Solid, Stocked, Accepts
  <2>2. Captured(x)'
    BY <1>2, <1>6, <1>7 DEF Solid, Captured, Accepts
  <2>3. InOrder(x)'
    <3>1. ASSUME NEW a \in 1..Len(x.items), NEW b \in 1..Len(x.items),
                 NEW i \in 1..Len(arrivals'), NEW j \in 1..Len(arrivals'),
                 a < b, arrivals'[i] = x.items[a], arrivals'[j] = x.items[b]
          PROVE  i < j
      <4>1. a \in 1..Len(r.items) /\ x.items[a] = r.items[a]
        BY <1>7, <3>1
      <4>2. i \in 1..Len(arrivals) /\ arrivals[i] = r.items[a]
        BY <1>10, <1>12, <3>1, <4>1
      <4>3. CASE b = Len(x.items)
        <5>1. x.items[b] = m
          BY <1>7, <4>3
        <5>2. j = Len(arrivals')
          BY <1>10, <3>1, <5>1
        <5> QED BY <1>10, <4>2, <5>2
      <4>4. CASE b # Len(x.items)
        <5>1. b \in 1..Len(r.items) /\ x.items[b] = r.items[b]
          BY <1>7, <4>4
        <5>2. j \in 1..Len(arrivals) /\ arrivals[j] = r.items[b]
          BY <1>10, <1>12, <3>1, <5>1
        <5> QED BY <1>6, <3>1, <4>1, <4>2, <5>1, <5>2 DEF Solid, InOrder
      <4> QED BY <4>3, <4>4
    <3>2. ASSUME NEW i \in 1..Len(x.items), x.items[i] \in Elements(x.batch)
          PROVE  i <= Len(x.batch)
      <4>1. x.items[i] # m
        BY <1>6, <1>7, <1>10, <3>2 DEF Solid, Stocked
      <4>2. i \in 1..Len(r.items) /\ x.items[i] = r.items[i]
        BY <1>7, <4>1
      <4> QED BY <1>6, <1>7, <3>2, <4>2 DEF Solid, InOrder
    <3> QED BY <3>1, <3>2 DEF InOrder
  <2>4. RanOnce(x)'
    BY <1>2, <1>6, <1>7, <1>10 DEF Solid, RanOnce, Accepts
  <2> QED BY <2>1, <2>2, <2>3, <2>4 DEF Solid
<1>14. Carried(x)'
  <2> SUFFICES ASSUME NothingDropped', x.pc = "running"
               PROVE  /\ x.kind # "summary" /\ Len(x.batch) <= Len(x.items)
                      /\ \A i \in 1..Len(x.items) :
                           i <= Len(x.batch) => x.items[i] \in Elements(x.batch)
    BY DEF Carried
  <2>1. r = o /\ NothingDropped
    BY <1>11
  <2>2. /\ r.kind # "summary" /\ Len(r.batch) <= Len(r.items) /\ Len(r.batch) \in Nat
        /\ \A i \in 1..Len(r.items) : i <= Len(r.batch) => r.items[i] \in Elements(r.batch)
    BY <1>5, <1>6, <1>7, <2>1 DEF Carried, ObjectType
  <2>3. \A i \in 1..Len(x.items) : i <= Len(x.batch) => i \in 1..Len(r.items)
    BY <1>7, <2>2
  <2> QED BY <1>7, <2>2, <2>3
<1>15. AllSound'
  <2> SUFFICES ASSUME NEW p \in Objects PROVE Sound(obj[p])'
    BY DEF AllSound
  <2>1. CASE p = q
    <3>1. obj'[p] = x
      BY <1>8, <2>1
    <3> QED BY <1>13, <1>14, <3>1
            DEF Solid, Sound, Stocked, Captured, InOrder, RanOnce, Carried
  <2>2. CASE p # q
    <3> PICK c : c = obj[p]
      OBVIOUS
    <3>1. c = obj'[p] /\ c \in ObjectType /\ Sound(c)
      BY <1>4, <1>8, <2>2 DEF IInv, AllSound
    <3>2. Solid(c)
      BY <3>1 DEF Solid, Sound
    <3>3. Solid(c)'
      BY <1>2, <1>4, <1>9, <3>1, <3>2, GrownSolid
    <3>4. Carried(c)'
      <4> HIDE DEF NothingDropped
      <4> QED BY <1>11, <3>1 DEF Sound, Carried
    <3> QED BY <3>1, <3>3, <3>4, SMTT(30)
            DEF Solid, Sound, Stocked, Captured, InOrder, RanOnce, Carried
  <2> QED BY <2>1, <2>2
<1>16. Apart'
  <2>1. \A p \in Objects : /\ Elements(obj[p].items) \subseteq accepted
                           /\ Elements(obj[p].batch) \subseteq accepted
    BY DEF IInv, AllSound, Sound, Stocked
  <2>2. \A p \in Objects \ {q} :
          /\ Elements(x.items) \cap (Elements(obj[p].items) \cup Elements(obj[p].batch)) = {}
          /\ Elements(obj[p].items) \cap (Elements(x.items) \cup Elements(x.batch)) = {}
    BY <1>3, <1>6, <1>7, <1>10, <2>1
  <2> QED BY <1>8, <2>2 DEF IInv, Apart
<1>17. Alive'
  <2>1. x.items # <<>>
    BY <1>7
  <2> QED BY <1>1, <1>8, <2>1 DEF Alive, Pending
<1>18. Single'
  <2> SUFFICES ASSUME cleared = {}, NEW p \in Objects \ {q}
               PROVE  obj'[p].pc = "none" /\ ~Pending(obj'[p])
    BY <1>1, <1>2 DEF Single, Accepts, Pending
  <2> QED BY <1>3, <1>8
<1>19. Kept'
  <2> SUFFICES ASSUME NothingDropped', NEW k \in accepted \cup {m}
               PROVE  k \in ran \/ k \in Elements(x.items)
    <3>1. q # 0
      BY <1>3, FollowupAssumption
    <3> QED BY <1>1, <1>2, <1>8, <3>1 DEF Kept, Accepts
  <2>1. CASE k = m
    BY <1>7, <2>1
  <2>2. CASE k # m
    <3>1. k \in ran \/ (current # 0 /\ k \in Elements(obj[current].items))
      BY <1>4, <1>11, <2>2 DEF Kept
    <3> QED BY <1>3, <1>7, <1>11, <3>1
  <2> QED BY <2>1, <2>2
<1> QED BY <1>1, <1>3, <1>8, <1>10, <1>15, <1>16, <1>17, <1>18, <1>19 DEF IInv, Types

-----------------------------------------------------------------------------
(***************************************************************************)
(* The theorems.                                                           *)
(***************************************************************************)

\* A drain at its debounce: it ends or begins a turn.
LEMMA ProceedKeeps ==
  ASSUME IInv, NEW q \in Objects, Proceed(q)
  PROVE  IInv'
<1>1. obj[q].pc = "debounce"
  BY DEF Proceed, CollectOne, CollectAll, RunSummary, RunNext
<1>2. CASE Break(q)
  <2>1. Captured(obj[q])
    BY DEF IInv, AllSound, Sound
  <2>2. Elements(obj[q].batch) = {}
    BY <1>1, <2>1, ElementsOf DEF Captured
  <2>3. /\ EndDrain(obj, q, current) /\ failed' = failed \cup Elements(obj[q].batch)
        /\ UNCHANGED <<inbound, accepted, ran, told, dropped, cleared, arrivals>>
    BY <1>2, <2>2 DEF Break, history
  <2> HIDE DEF EndDrain, IInv
  <2> QED BY <1>1, <2>3, DrainEnds
<1>3. CASE ~Break(q)
  <2> HIDE DEF Batch, StartTurn, IInv, Break, Proceed
  <2> QED BY <1>1, <1>3, BatchBegins, TurnStarts
<1> QED BY <1>2, <1>3

\* The turn threw.
LEMMA TurnThrowsKeeps ==
  ASSUME IInv, NEW q \in Objects, TurnThrows(q)
  PROVE  IInv'
<1>1. obj[q].pc # "none" /\ EndDrain(obj, q, current)
      /\ failed' = failed \cup Elements(obj[q].batch)
      /\ UNCHANGED <<inbound, accepted, ran, told, dropped, cleared, arrivals>>
  BY DEF TurnThrows
<1> HIDE DEF EndDrain, IInv
<1> QED BY <1>1, DrainEnds

\* The invariant holds when the gateway starts ...
LEMMA Starts == Init => IInv
<1> SUFFICES ASSUME Init PROVE IInv
  OBVIOUS
<1> PICK s \in Settings : s = CHOOSE t \in Settings : TRUE
  BY FollowupAssumption
<1>1. /\ current = 0 /\ obj = [q \in Objects |-> Fresh(s)]
      /\ inbound = [m \in Msgs |-> "new"] /\ arrivals = <<>>
      /\ accepted = {} /\ ran = {} /\ told = {} /\ dropped = {} /\ cleared = {} /\ failed = {}
  BY DEF Init
<1>o. PICK o : o = Fresh(s)
  OBVIOUS
<1>2. /\ o \in ObjectType /\ o.items = <<>> /\ o.droppedCount = 0
      /\ o.summaryLines = <<>> /\ o.pc = "none" /\ o.kind = "none" /\ o.batch = <<>>
      /\ o.lines0 = <<>> /\ ~o.summary0
  BY <1>o, FreshIs
<1>e. Elements(o.items) = {} /\ Len(o.items) = 0 /\ Elements(o.batch) = {} /\ Len(o.batch) = 0
      /\ Elements(o.summaryLines) = {} /\ Elements(o.lines0) = {}
  BY <1>2, ElementsOf
<1>3. Books
  <2>1. IsFiniteSet(accepted)
    BY <1>1, FS_EmptySet
  <2>2. arrivals \in Seq(Msgs) /\ Len(arrivals) = 0 /\ Elements(arrivals) = {}
    BY <1>1, EmptySeq, ElementsOf
  <2> QED BY <1>1, <2>1, <2>2 DEF Books, Phases
<1>4. Sound(o)
  <2>1. Cardinality(accepted) = 0
    BY <1>1, FS_EmptySet
  <2>2. Stocked(o)
    BY <1>2, <1>e, <2>1 DEF Stocked
  <2>3. Captured(o) /\ Carried(o)
    BY <1>2 DEF Captured, Carried
  <2>4. InOrder(o)
    BY <1>e DEF InOrder
  <2>5. RanOnce(o)
    BY <1>e DEF RanOnce
  <2> QED BY <2>2, <2>3, <2>4, <2>5 DEF Sound
<1>5. obj \in [Objects -> {o}] /\ \A q \in Objects : obj[q] = o
  BY <1>1, <1>o
<1>6. Types /\ AllSound
  BY <1>1, <1>2, <1>4, <1>5 DEF Types, AllSound
<1>7. Apart
  BY <1>5, <1>e DEF Apart
<1>8. ~Pending(o)
  BY <1>2 DEF Pending
<1>9. Alive /\ Single /\ Kept
  <2> HIDE DEF Pending, NothingDropped
  <2> QED BY <1>1, <1>2, <1>5, <1>8 DEF Alive, Single, Kept
<1> QED BY <1>3, <1>6, <1>7, <1>9 DEF IInv

\* ... and every step keeps it.
LEMMA Keeps == IInv /\ [Next]_vars => IInv'
<1> SUFFICES ASSUME IInv, [Next]_vars PROVE IInv'
  OBVIOUS
<1>1. ASSUME NEW m \in Msgs, ArriveActive(m) \/ ArriveIdle(m) PROVE IInv'
  BY <1>1, ArrivesKeeps
<1>2. ASSUME NEW m \in Msgs, RunEnds(m) \/ ReplyThrows(m) PROVE IInv'
  BY <1>2, EndsKeeps
<1>3. ASSUME NEW m \in Msgs, Finalize(m) PROVE IInv'
  BY <1>3, FinalizeKeeps
<1>4. ASSUME NEW m \in Msgs, NEW s \in Settings, EnqueueDuplicate(m, s) \/ EnqueueRefused(m, s)
      PROVE  IInv'
  BY <1>4, RefusedKeeps
<1>5. ASSUME NEW m \in Msgs, NEW s \in Settings, Enqueue(m, s) PROVE IInv'
  BY <1>5, EnqueueKeeps
<1>6. CASE Clear
  BY <1>6, ClearKeeps
<1>7. ASSUME NEW q \in Objects, Proceed(q) PROVE IInv'
  BY <1>7, ProceedKeeps
<1>8. ASSUME NEW q \in Objects, TurnDone(q) PROVE IInv'
  BY <1>8, TurnDoneKeeps
<1>9. ASSUME NEW q \in Objects, TurnThrows(q) PROVE IInv'
  BY <1>9, TurnThrowsKeeps
<1>10. CASE UNCHANGED vars
  <2>1. UNCHANGED <<current, obj, inbound, accepted, ran, told, dropped, cleared, failed,
                    arrivals>>
    BY <1>10 DEF vars
  <2>2. Books'
    BY <2>1 DEF IInv, Books
  <2> QED BY <2>1, <2>2, QueueStays
<1> QED BY <1>1, <1>2, <1>3, <1>4, <1>5, <1>6, <1>7, <1>8, <1>9, <1>10 DEF Next

\* The queue's invariant, for any messages, settings, clears and failures.
THEOREM FollowupInvariant == Spec => []IInv
<1> QED BY Starts, Keeps, PTL DEF Spec

\* Until the drop policy or a clear takes a hand in it, an accepted message was
\* run or is still in a queue that will run it.
THEOREM NothingIsLost == Spec => []NothingLost
<1>1. IInv => NothingLost
  BY DEF IInv, Kept, NothingLost, Types, Held, Settled
<1> QED BY <1>1, FollowupInvariant, PTL

\* A turn that collects messages carries those of one origin only.
THEOREM TurnsAreOfOneOrigin == Spec => []NoMixedTurn
<1>1. ASSUME IInv PROVE NoMixedTurn
  <2>1. ASSUME NEW q \in Objects
        PROVE  /\ Stocked(obj[q]) /\ Captured(obj[q]) /\ obj[q] \in ObjectType
    BY <1>1 DEF IInv, AllSound, Sound, Types
  <2>2. Cardinality(accepted) \in Nat
    BY <1>1, FS_CardinalityType DEF IInv, Books
  <2>3. ASSUME NEW q \in Objects
        PROVE  /\ obj[q].droppedCount \in 0..Cardinality(accepted)
               /\ obj[q].settings \in Settings /\ obj[q].kind \in Kinds
               /\ obj[q].pc \in {"none", "debounce", "running"}
    <3> PICK d, n : d = obj[q].droppedCount /\ n = Len(obj[q].items)
      OBVIOUS
    <3>1. d \in Nat /\ n \in Nat /\ d + n <= Cardinality(accepted)
      BY <2>1 DEF Stocked, ObjectType
    <3> QED BY <2>1, <2>2, <3>1 DEF ObjectType
  <2>4. TypeOK
    <3>1. \A q \in Objects :
            /\ Elements(obj[q].items) \cup Elements(obj[q].summaryLines)
                 \cup Elements(obj[q].batch) \subseteq accepted
            /\ (obj[q].pc = "running") <=> (obj[q].kind # "none")
      BY <2>1 DEF Stocked, Captured
    <3> QED BY <1>1, <2>3, <3>1 DEF TypeOK, IInv, Types, Books, Kinds, Phases
  <2> QED BY <2>1, <2>4 DEF NoMixedTurn, Captured
<1> QED BY <1>1, FollowupInvariant, PTL

\* Only a drain that goes on gives an object another batch.
LEMMA OneBegins ==
  ASSUME IInv, Next, NEW q \in Objects, obj[q].kind = "none", obj'[q].kind # "none"
  PROVE  Proceed(q) /\ ~Break(q)
<1>0. obj \in [Objects -> ObjectType] /\ current \in Objects \cup {0}
      /\ (current # 0 => Pending(obj[current]))
  BY DEF IInv, Types, Alive
<1>1. obj' # obj
  OBVIOUS
<1>2. ASSUME NEW p \in Objects, EndDrain(obj, p, current) PROVE FALSE
  <2>1. /\ Idle(obj[p]) \in ObjectType /\ \A r \in Objects \ {p} : Woken(obj[r], obj'[r], r)
        /\ Woken(Idle(obj[p]), obj'[p], p)
    <3> HIDE DEF EndDrain, Pending, Woken
    <3> QED BY <1>0, <1>2, EndDrainDoes
  <2>2. CASE q = p
    <3>1. obj'[q].kind = Idle(obj[p]).kind
      BY <2>1, <2>2, WokenIs
    <3> QED BY <1>0, <3>1, IdleIs
  <2>3. CASE q # p
    <3>1. obj[q] \in ObjectType /\ Woken(obj[q], obj'[q], q)
      BY <1>0, <2>1, <2>3
    <3> QED BY <3>1, WokenIs
  <2> QED BY <2>2, <2>3
<1>3. ASSUME NEW m \in Msgs, Finalize(m) PROVE FALSE
  <2>1. \A p \in Objects : Woken(obj[p], obj'[p], p)
    <3> HIDE DEF Schedule, Pending, Woken
    <3> QED BY <1>0, <1>3, ScheduleDoes DEF Finalize
  <2>2. obj[q] \in ObjectType /\ Woken(obj[q], obj'[q], q)
    BY <1>0, <2>1
  <2> QED BY <2>2, WokenIs
<1>4. ASSUME NEW p \in Slot, NEW o, obj' = [obj EXCEPT ![p] = o],
             o.kind = "none" \/ (p \in Objects /\ o.kind = obj[p].kind)
      PROVE  FALSE
  BY <1>0, <1>4
<1>5. ASSUME NEW s \in Settings
      PROVE  /\ Target(s) \in ObjectType
             /\ \/ Target(s).kind = "none"
                \/ Slot = {current} /\ current \in Objects
                   /\ Target(s).kind = obj[current].kind
  <2>1. CASE current # 0
    <3>0. PICK c : c = obj[current]
      OBVIOUS
    <3>1. c \in ObjectType /\ Target(s) = WithSettings(c, s) /\ current \in Objects
      BY <1>0, <2>1, <3>0 DEF Target, WithSettings
    <3>2. Target(s) \in ObjectType /\ Target(s).kind = c.kind
      BY <3>1, SettingsSet
    <3> QED BY <2>1, <3>0, <3>1, <3>2 DEF Slot
  <2>2. CASE current = 0
    <3>1. Target(s) = Fresh(s)
      BY <2>2 DEF Target
    <3> QED BY <3>1, FreshIs
  <2> QED BY <2>1, <2>2
<1>6. ASSUME NEW m \in Msgs, NEW s \in Settings,
             EnqueueDuplicate(m, s) \/ EnqueueRefused(m, s) \/ Enqueue(m, s)
      PROVE  FALSE
  <2>t. PICK t : t = Target(s)
    OBVIOUS
  <2>o. PICK o : o = WithLastRun(t)
    OBVIOUS
  <2>1. t \in ObjectType
        /\ (t.kind = "none"
              \/ (Slot = {current} /\ current \in Objects /\ t.kind = obj[current].kind))
    BY <1>5, <2>t
  <2>2. o \in ObjectType /\ o.kind = t.kind
    BY <2>1, <2>o DEF ObjectType, WithLastRun
  <2>3. \E p \in Slot : \E x : obj' = [obj EXCEPT ![p] = x] /\ x.kind = t.kind
    <3>1. CASE EnqueueDuplicate(m, s)
      BY <2>t, <3>1 DEF EnqueueDuplicate
    <3>2. CASE EnqueueRefused(m, s)
      BY <2>2, <2>t, <2>o, <3>2 DEF EnqueueRefused, WithLastRun
    <3>3. CASE Enqueue(m, s)
      <4>1. PICK oo, r, x, p : Pushed(m, s, oo, r, x, p)
        BY <3>3, EnqueueDoes
      <4>2. /\ p \in Slot /\ obj' = [obj EXCEPT ![p] = x]
            /\ x = OnlyItems(r, Append(r.items, m)) /\ oo = o
            /\ r = o \/ r = MadeRoom(o, Len(o.items) - s.cap + 1)
        BY <2>t, <2>o, <4>1 DEF Pushed
      <4>3. x.kind = o.kind
        BY <2>2, <4>2 DEF MadeRoom, OnlyItems, ObjectType
      <4> QED BY <2>2, <4>2, <4>3
    <3> QED BY <1>6, <3>1, <3>2, <3>3
  <2> QED BY <1>4, <2>1, <2>3
<1>7. CASE Clear
  <2> PICK c : c = obj[current]
    OBVIOUS
  <2>1. current \in Objects /\ c \in ObjectType
    BY <1>0, <1>7 DEF Clear
  <2> PICK o : o = [c EXCEPT !.items = <<>>, !.droppedCount = 0, !.summaryLines = <<>>,
                             !.lastRun = FALSE]
    OBVIOUS
  <2>2. o.kind = c.kind
    BY <2>1 DEF ObjectType
  <2>3. obj' = [obj EXCEPT ![current] = o]
    BY <1>7 DEF Clear
  <2> QED BY <1>0, <2>1, <2>2, <2>3
<1>8. ASSUME NEW p \in Objects, Proceed(p), ~Break(p), q # p PROVE FALSE
  <2>1. \E o : obj' = [obj EXCEPT ![p] = o]
    <3> HIDE DEF Batch
    <3> QED BY <1>8, BatchBegins DEF StartTurn
  <2> QED BY <1>0, <1>8, <2>1
<1>9. ASSUME NEW p \in Objects, TurnDone(p) PROVE FALSE
  <2>1. PICK n \in Nat, o \in ObjectType : \E items, left : Removed(p, n, items, left, o)
    BY <1>9, TurnDoneDoes
  <2>2. obj' = [obj EXCEPT ![p] = o] /\ o.kind = "none"
    BY <2>1 DEF Removed
  <2> QED BY <1>0, <2>2
<1> QED BY <1>1, <1>2, <1>3, <1>6, <1>7, <1>8, <1>9
        DEF Next, ArriveActive, ArriveIdle, RunEnds, ReplyThrows, TurnThrows, Break

\* Messages are run in the order they were queued, none of them twice unless its
\* turn threw.
THEOREM RunInOrderAndOnce == Spec => RunsOnceInOrder
<1>1. ASSUME IInv, [Next]_vars, NEW q \in Objects,
             obj'[q].kind \in {"item", "collect"}, obj[q].kind = "none"
      PROVE  OldestFirst(q) /\ \A m \in Elements(obj'[q].batch) : m \in ran => m \in failed
  <2> PICK c : c = obj[q]
    OBVIOUS
  <2>0. /\ obj \in [Objects -> ObjectType] /\ c \in ObjectType /\ Books /\ Sound(c)
        /\ c.kind = "none"
    BY <1>1 DEF IInv, Types, AllSound
  <2>1. Next
    BY <1>1 DEF vars
  <2>2. Proceed(q) /\ ~Break(q)
    BY <1>1, <2>1, OneBegins
  <2>3. PICK kind \in Kinds, batch \in {<<Head(c.items)>>, c.items}, force \in BOOLEAN :
          Batch(c, kind, batch) /\ StartTurn(q, kind, batch, force)
    BY <1>1, <2>2, BatchBegins
  <2>4. obj'[q].batch = batch /\ obj'[q].kind = kind
    <3> PICK o : o = [c EXCEPT !.pc = "running", !.kind = kind, !.batch = batch,
                               !.lines0 = IF HasSummary(c) /\ kind # "item"
                                          THEN c.summaryLines ELSE <<>>,
                               !.summary0 = (HasSummary(c) /\ kind # "item"), !.force = force]
      OBVIOUS
    <3>1. obj' = [obj EXCEPT ![q] = o]
      BY <2>3 DEF StartTurn
    <3>2. o.batch = batch /\ o.kind = kind
      BY <2>0 DEF ObjectType
    <3> QED BY <2>0, <3>1, <3>2
  <2>5. /\ Elements(batch) \subseteq Elements(c.items)
        /\ kind = "item" => Elements(batch) = {c.items[1]} /\ c.items # <<>>
        /\ kind = "collect" => batch = c.items
    BY <2>0, <2>3, BatchIs DEF Batch
  <2>6. OldestFirst(q)
    <3> SUFFICES ASSUME NEW i \in 1..Len(arrivals), NEW j \in 1..Len(arrivals), i < j,
                        arrivals[j] \in Elements(batch), arrivals[i] \in Elements(c.items)
                 PROVE  arrivals[i] \in Elements(batch)
      BY <2>4 DEF OldestFirst
    <3>1. CASE kind = "collect"
      BY <2>5, <3>1
    <3>2. CASE kind = "item"
      <4>1. PICK a \in 1..Len(c.items) : c.items[a] = arrivals[i]
        BY DEF Elements
      <4>2. arrivals[j] = c.items[1] /\ 1 \in 1..Len(c.items)
        BY <2>5, <3>2
      <4>3. a = 1
        <5> SUFFICES ASSUME 1 < a PROVE FALSE
          BY <4>1
        <5>1. j < i
          BY <2>0, <4>1, <4>2 DEF Sound, InOrder
        <5> QED BY <5>1
      <4> QED BY <2>5, <3>2, <4>1, <4>3
    <3> QED BY <1>1, <2>4, <3>1, <3>2
  <2>7. \A m \in Elements(batch) : m \in ran => m \in failed
    BY <2>0, <2>5 DEF Sound, RanOnce
  <2> QED BY <2>4, <2>6, <2>7
<1>2. IInv /\ [Next]_vars =>
        [\A q \in Objects :
           (obj'[q].kind \in {"item", "collect"} /\ obj[q].kind = "none") =>
             /\ OldestFirst(q)
             /\ \A m \in Elements(obj'[q].batch) : m \in ran => m \in failed]_vars
  BY <1>1
<1> QED BY <1>2, FollowupInvariant, PTL DEF Spec, RunsOnceInOrder

=============================================================================
