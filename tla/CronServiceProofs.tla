------------------------- MODULE CronServiceProofs --------------------------
(***************************************************************************)
(* Proofs about CronService, for any jobs, periods, services, calls and    *)
(* crashes: no job is executed twice at once, a one-shot job once, no      *)
(* marker is left over, the timer is kept, no due run is skipped.          *)
(***************************************************************************)
EXTENDS CronService, FiniteSetTheorems, SequenceTheorems, WellFoundedInduction, TLAPS

\* What a service may be busy with, and what it holds meanwhile.
Pcs == {"idle", "clear", "missed", "end", "collect", "work", "finish"}
ProcType ==
  [pc : Pcs, live : BOOLEAN, todo : Seq(Jobs), job : Jobs \cup {"none"},
   since : None..Horizon, done : SUBSET Result, skip : SUBSET Jobs]

\* The type invariant.
Types ==
  /\ disk \in [Jobs -> JobRecord] /\ mem \in [Services -> [Jobs -> JobRecord]]
  /\ loaded \in [Services -> BOOLEAN] /\ timer \in [Services -> None..(Horizon + Clamp)]
  /\ proc \in [Services -> [Roles -> ProcType]]
  /\ started \in Services /\ now \in 0..Horizon /\ events \in 0..MaxEvents
  /\ created \subseteq Jobs /\ touched \subseteq Jobs /\ unmarked \subseteq Jobs
  /\ runs \in [Jobs -> 0..2]

\* The jobs taken and not begun, and those begun.
Todo(p) == ToSet(p.todo)
Begun(p) == ({p.job} \ {"none"}) \cup {x.job : x \in p.done}

\* What p, in the role k, may hold: nothing but while it works, and no job twice.
Shape(k, p) ==
  /\ p.pc # "work" => p.todo = <<>> /\ p.job = "none" /\ p.done = {}
  /\ p.job # "none" => p.since # None
  /\ Todo(p) \cap Begun(p) = {}
  /\ \A a, b \in 1..Len(p.todo) : p.todo[a] = p.todo[b] => a = b
  /\ \A x \in p.done : x.job # p.job /\ \A y \in p.done : x.job = y.job => x = y
  /\ k = "boot" => p.pc \notin {"collect", "finish"}
  /\ k = "tick" => p.pc \in {"idle", "collect", "work", "finish"}
  /\ k = "manual" => /\ p.pc \in {"idle", "work"} /\ p.todo = <<>>
                     /\ p.job # "none" => p.done = {}
                     /\ \A x, y \in p.done : x = y

Shapes == \A s \in Services, k \in Roles : Shape(k, proc[s][k])

\* A service has the file in memory once its start has begun, and nothing before.
Opened(s) ==
  /\ loaded[s] => s <= started /\ proc[s]["boot"].pc # "clear"
  /\ ~loaded[s] => /\ timer[s] = None
                   /\ \A k \in Roles : proc[s][k].pc = "idle" \/ (k = "boot" /\ proc[s][k].pc = "clear")
                   /\ s <= started => proc[s]["boot"].pc = "clear"
                   /\ s > started => proc[s]["boot"].pc = "idle"
AllOpened == \A s \in Services : Opened(s)

\* A record of job j, with the ids c given out: what is gone is all gone, and a job that
\* is enabled has a next run, but for a one-shot job that is over.
Proper(c, j, r) ==
  /\ r.present \/ r = Gone
  /\ j \in c \/ r = Gone
  /\ r.enabled /\ r.next = None => Kind[j] = "at" /\ r.status = "ok" /\ r.last # None
AllProper ==
  \A j \in Jobs :
    Proper(created, j, disk[j]) /\ \A s \in Services : Proper(created, j, mem[s][j])

\* A run taken has its marker, in the file and in its service's memory, and is the
\* only one of the job in its service.
Marked(j) ==
  \A s \in Services, k \in Roles : Holds(proc[s][k], j) =>
    /\ disk[j].running # None /\ mem[s][j].running # None
    /\ \A l \in Roles : Holds(proc[s][l], j) => l = k
AllMarked == \A j \in Jobs \ unmarked : Marked(j)

\* Two records that differ in their marker only.
Alike(r, q) ==
  /\ r.present = q.present /\ r.enabled = q.enabled /\ r.next = q.next
  /\ r.last = q.last /\ r.status = q.status

\* A service that is the only one has in memory what is in the file, and every marker
\* is of a run it holds.
Single ==
  started = 1 /\ loaded[1] => \A j \in Jobs :
    /\ Alike(mem[1][j], disk[j])
    /\ disk[j].running # None \/ mem[1][j].running # None =>
         \E k \in Roles : Holds(proc[1][k], j)

\* A one-shot job that was started is under way or disabled, and not to be begun.
OnceOnly(j) ==
  /\ runs[j] <= 1
  /\ runs[j] = 1 =>
       /\ j \in created
       /\ \A k \in Roles : j \notin Todo(proc[1][k])
       /\ ~disk[j].enabled \/ \E k \in Roles : j \in Begun(proc[1][k])
AllOnce ==
  /\ started > 1 => touched = Jobs
  /\ \A s \in Services, j \in Jobs : Holds(proc[s]["manual"], j) => j \in touched
  /\ \A j \in Jobs \ (unmarked \cup touched) : IF Kind[j] = "at" THEN OnceOnly(j) ELSE runs[j] = 0

\* The inductive invariant.
IInv == /\ Types /\ Shapes /\ AllOpened /\ AllProper
        /\ AllMarked /\ Single /\ AllOnce /\ SchedulerAlive

-----------------------------------------------------------------------------
(***************************************************************************)
(* The helpers: times, lists of jobs, and the records of a job.            *)
(***************************************************************************)

\* The larger of two numbers, and the least of a set of them.
LEMMA MaxIs ==
  ASSUME NEW a \in Int, NEW b \in Int
  PROVE  Max({a, b}) = IF a >= b THEN a ELSE b
<1>1. \E x \in {a, b} : \A y \in {a, b} : x >= y
  OBVIOUS
<1> PICK x : x = Max({a, b})
  OBVIOUS
<1>2. x \in {a, b} /\ \A y \in {a, b} : x >= y
  BY <1>1 DEF Max
<1> QED BY <1>2

LEMMA MinIs ==
  ASSUME NEW a \in Int, NEW b \in Int
  PROVE  Min({a, b}) = IF a <= b THEN a ELSE b
<1>1. \E x \in {a, b} : \A y \in {a, b} : x <= y
  OBVIOUS
<1> PICK x : x = Min({a, b})
  OBVIOUS
<1>2. x \in {a, b} /\ \A y \in {a, b} : x <= y
  BY <1>1 DEF Min
<1> QED BY <1>2

LEMMA LeastOf ==
  ASSUME NEW S \in SUBSET Nat, S # {}
  PROVE  Min(S) \in S
<1> DEFINE Less == {ss \in Nat \X Nat : ss[1] < ss[2]}
<1>1. IsWellFoundedOn(Less, Nat)
  BY NatLessThanWellFounded DEF OpToRel
<1> HIDE DEF Less
<1>2. PICK x \in S : \A y \in S : ~(<<y, x>> \in Less)
  BY <1>1, WFMin
<1>3. \A y \in S : x <= y
  <2> SUFFICES ASSUME NEW y \in S PROVE x <= y
    OBVIOUS
  <2>1. ~(y < x)
    BY <1>2 DEF Less
  <2> QED BY <2>1
<1> QED BY <1>3 DEF Min

\* SetToSeq lists the jobs of a set, each once.
LEMMA ListIs ==
  ASSUME NEW js \in SUBSET Jobs, NEW w, w = SetToSeq(js)
  PROVE  /\ w \in Seq(Jobs) /\ ToSet(w) = js
         /\ \A a, b \in 1..Len(w) : w[a] = w[b] => a = b
<1>1. IsFiniteSet(js)
  BY CronAssumption, FS_Subset
<1>n. PICK n \in Nat : n = Cardinality(js)
  BY <1>1, FS_CardinalityType
<1>2. PICK f : f \in Bijection(1..n, js)
  BY <1>1, <1>n, FS_CardinalityType DEF ExistsBijection
<1>3. f \in [1..n -> js] /\ IsInjective(f)
  BY <1>2 DEF Bijection, Injection, IsInjective
<1>4. w \in [1..n -> js] /\ IsInjective(w)
  BY <1>3, <1>n DEF SetToSeq
<1>5. IsFiniteSet(1..n) /\ Cardinality(1..n) = n
  BY FS_Interval
<1>6. w \in Surjection(1..n, js)
  BY <1>1, <1>4, <1>5, <1>n, FS_Injection DEF Injection
<1>7. w \in Seq(Jobs) /\ Len(w) = n /\ DOMAIN w = 1..n
  BY <1>4
<1>8. ToSet(w) = js
  BY <1>4, <1>6, <1>7 DEF ToSet, Surjection
<1> QED BY <1>4, <1>7, <1>8 DEF IsInjective

\* The first of a list is begun.
LEMMA FirstIs ==
  ASSUME NEW w \in Seq(Jobs), w # <<>>, \A a, b \in 1..Len(w) : w[a] = w[b] => a = b
  PROVE  /\ Head(w) \in ToSet(w) /\ Tail(w) \in Seq(Jobs)
         /\ ToSet(Tail(w)) = ToSet(w) \ {Head(w)}
         /\ \A a, b \in 1..Len(Tail(w)) : Tail(w)[a] = Tail(w)[b] => a = b
<1> PICK v : v = Tail(w)
  OBVIOUS
<1>1. /\ Len(w) \in Nat \ {0} /\ v \in Seq(Jobs) /\ Len(v) = Len(w) - 1 /\ Head(w) = w[1]
      /\ \A i \in 1..Len(v) : v[i] = w[i + 1]
  BY EmptySeq, HeadTailProperties
<1>d. DOMAIN w = 1..Len(w) /\ DOMAIN v = 1..Len(v)
  BY <1>1
<1>2. ToSet(w) = {w[i] : i \in 1..Len(w)} /\ ToSet(v) = {v[i] : i \in 1..Len(v)}
  BY <1>d DEF ToSet
<1>3. ASSUME NEW i \in 1..Len(v) PROVE v[i] \in ToSet(w) \ {w[1]}
  <2>1. i + 1 \in 1..Len(w) /\ 1 \in 1..Len(w) /\ i + 1 # 1
    BY <1>1
  <2>2. v[i] = w[i + 1] /\ w[i + 1] # w[1]
    BY <1>1, <2>1
  <2> QED BY <1>2, <2>1, <2>2
<1>4. ASSUME NEW i \in 1..Len(w), w[i] # w[1] PROVE w[i] \in ToSet(v)
  <2>1. i - 1 \in 1..Len(v) /\ (i - 1) + 1 = i
    BY <1>1, <1>4
  <2> QED BY <1>1, <1>2, <2>1, ZenonT(30)
<1>5. \A a, b \in 1..Len(v) : v[a] = v[b] => a = b
  <2> SUFFICES ASSUME NEW a \in 1..Len(v), NEW b \in 1..Len(v), v[a] = v[b] PROVE a = b
    OBVIOUS
  <2>1. a + 1 \in 1..Len(w) /\ b + 1 \in 1..Len(w) /\ w[a + 1] = w[b + 1]
    BY <1>1
  <2>2. a + 1 = b + 1
    BY <2>1
  <2> QED BY <2>2
<1>6. w[1] \in ToSet(w)
  BY <1>1, <1>2
<1> QED BY <1>1, <1>2, <1>3, <1>4, <1>5, <1>6

\* computeJobNextRunAtMs finds a time for a job that is enabled, unless it is a
\* one-shot job that is over.
LEMMA NextRunIs ==
  ASSUME NEW j \in Jobs, NEW r \in JobRecord, NEW t \in Nat
  PROVE  /\ NextRun(j, r, t) \in Times
         /\ r.enabled /\ NextRun(j, r, t) = None =>
              Kind[j] = "at" /\ r.status = "ok" /\ r.last # None
<1>0. /\ Every \in Nat \ {0} /\ At \in Nat /\ Kind[j] \in {"every", "cron", "at"}
      /\ r.last \in Times /\ None = -1 /\ r.enabled \in BOOLEAN
  BY CronAssumption DEF JobRecord, None
<1> PICK d \in Int : d = (t + Every - 1) \div Every
  BY <1>0
<1>1. Max({1, d}) \in Nat
  BY MaxIs
<1> PICK k \in Nat : k = Max({1, d})
  BY <1>1
<1>2. Grid(t) = Every * k
  BY DEF Grid
<1>3. Every * k \in Nat
  BY <1>0
<1>4. PICK e \in Int : e = t \div Every
  BY <1>0
<1>5. e >= 0
  BY <1>0, <1>4
<1>6. Every * (e + 1) \in Nat
  BY <1>0, <1>5
<1>7. CASE ~r.enabled
  BY <1>7 DEF NextRun, Times
<1>8. CASE r.enabled /\ Kind[j] = "every"
  BY <1>0, <1>2, <1>3, <1>8 DEF NextRun, Times
<1>9. CASE r.enabled /\ Kind[j] = "cron"
  <2>1. NextRun(j, r, t) = Every * (e + 1)
    BY <1>4, <1>9 DEF NextRun
  <2> QED BY <1>0, <1>6, <2>1 DEF Times
<1>10. CASE r.enabled /\ Kind[j] = "at"
  BY <1>0, <1>10 DEF NextRun, Times
<1> QED BY <1>0, <1>7, <1>8, <1>9, <1>10

\* A record with another marker, next run or switch.
WithRunning(r, x) == [r EXCEPT !.running = x]
WithNext(r, x) == [r EXCEPT !.next = x]
WithEnabled(r, x) == [r EXCEPT !.enabled = x]

\* Two records that differ in their next run only.
SameRun(r, q) ==
  /\ r.present = q.present /\ r.enabled = q.enabled /\ r.running = q.running
  /\ r.last = q.last /\ r.status = q.status

\* Two records that differ in their switch only.
SameTimes(r, q) ==
  /\ r.present = q.present /\ r.next = q.next /\ r.running = q.running
  /\ r.last = q.last /\ r.status = q.status

LEMMA RunningSet ==
  ASSUME NEW r \in JobRecord, NEW x \in Times, NEW n, n = WithRunning(r, x)
  PROVE  n \in JobRecord /\ Alike(n, r) /\ n.running = x
<1> HIDE DEF Times
<1> QED BY DEF WithRunning, JobRecord, Alike

LEMMA NextSet ==
  ASSUME NEW r \in JobRecord, NEW x \in Times, NEW n, n = WithNext(r, x)
  PROVE  n \in JobRecord /\ SameRun(n, r) /\ n.next = x
<1> HIDE DEF Times
<1> QED BY DEF WithNext, JobRecord, SameRun

LEMMA EnabledSet ==
  ASSUME NEW r \in JobRecord, NEW x \in BOOLEAN, NEW n, n = WithEnabled(r, x)
  PROVE  n \in JobRecord /\ SameTimes(n, r) /\ n.enabled = x
<1> HIDE DEF Times
<1> QED BY DEF WithEnabled, JobRecord, SameTimes

\* What is gone, what is new, and the fields of a record.
LEMMA GoneIs ==
  /\ None \in Times /\ Nat \subseteq Times /\ Times \subseteq Int
  /\ Gone \in JobRecord /\ ~Gone.present /\ ~Gone.enabled /\ Gone.running = None
  /\ Gone.next = None
  /\ New \in JobRecord /\ New.present /\ New.enabled /\ New.running = None
  /\ New.next = None /\ New.last = None
  /\ \A r \in JobRecord : /\ r.present \in BOOLEAN /\ r.enabled \in BOOLEAN
                          /\ r.next \in Times /\ r.running \in Times /\ r.last \in Times
<1>1. None \in Times /\ Nat \subseteq Times /\ Times \subseteq Int
  BY DEF None, Times
<1> HIDE DEF Times
<1>2. /\ Gone \in JobRecord /\ ~Gone.present /\ ~Gone.enabled /\ Gone.running = None
      /\ Gone.next = None
  BY <1>1 DEF Gone, JobRecord
<1>3. /\ New \in JobRecord /\ New.present /\ New.enabled /\ New.running = None
      /\ New.next = None /\ New.last = None
  BY <1>1 DEF New, Gone, JobRecord
<1>4. \A r \in JobRecord : /\ r.present \in BOOLEAN /\ r.enabled \in BOOLEAN
                           /\ r.next \in Times /\ r.running \in Times /\ r.last \in Times
  BY DEF JobRecord
<1> QED BY <1>1, <1>2, <1>3, <1>4

\* What upkeep makes of r: perhaps another next run, and a marker that is too old gone.
Kept(r, n) ==
  /\ n \in JobRecord /\ n.present = r.present /\ n.enabled = r.enabled
  /\ n.last = r.last /\ n.status = r.status /\ n.running \in {None, r.running}

LEMMA NormalizedIs ==
  ASSUME NEW r \in JobRecord, NEW t, NEW n, n = Normalized(r, t)
  PROVE  Kept(r, n) /\ (r.enabled => n.next = r.next)
<1>0. None \in Times
  BY GoneIs
<1>1. CASE ~r.enabled
  <2>0. PICK w : w = WithNext(r, None)
    OBVIOUS
  <2>1. n = WithRunning(w, None)
    BY <1>1, <2>0 DEF Normalized, WithRunning, WithNext
  <2>2. w \in JobRecord /\ SameRun(w, r)
    BY <1>0, <2>0, NextSet
  <2>3. n \in JobRecord /\ Alike(n, w) /\ n.running = None
    BY <1>0, <2>1, <2>2, RunningSet
  <2> QED BY <1>1, <2>2, <2>3 DEF Kept, SameRun, Alike
<1>2. CASE r.enabled /\ n = WithRunning(r, None)
  <2>1. n \in JobRecord /\ Alike(n, r) /\ n.running = None
    BY <1>0, <1>2, RunningSet
  <2> QED BY <1>2, <2>1 DEF Kept, Alike
<1>3. CASE r.enabled /\ n = r
  BY <1>3 DEF Kept
<1> QED BY <1>1, <1>2, <1>3 DEF Normalized, WithRunning

\* One record of recomputeNextRuns or of the maintenance.
LEMMA UpkeepIs ==
  ASSUME NEW c, NEW j \in Jobs, NEW r \in JobRecord, Proper(c, j, r), NEW t \in Nat, NEW v,
         v = Normalized(r, t), NEW n,
         \/ ~v.present /\ n = Gone
         \/ v.present /\ n = WithNext(v, NextRun(j, v, t))
         \/ v.present /\ v.next # None /\ n = v
  PROVE  Kept(r, n) /\ Proper(c, j, n)
<1>1. Kept(r, v) /\ (r.enabled => v.next = r.next)
  BY NormalizedIs
<1>2. CASE ~v.present /\ n = Gone
  BY <1>1, <1>2, GoneIs DEF Kept, Proper
<1>3. CASE v.present /\ n = WithNext(v, NextRun(j, v, t))
  <2>1. v \in JobRecord
    BY <1>1 DEF Kept
  <2>a. NextRun(j, v, t) \in Times
    BY <2>1, NextRunIs
  <2>2. n \in JobRecord /\ SameRun(n, v) /\ n.next = NextRun(j, v, t)
    BY <1>3, <2>1, <2>a, NextSet
  <2>3. Kept(r, n)
    BY <1>1, <2>2 DEF Kept, SameRun
  <2>4. n.enabled /\ n.next = None => Kind[j] = "at" /\ n.status = "ok" /\ n.last # None
    BY <2>1, <2>2, NextRunIs DEF SameRun
  <2>5. j \in c /\ n.present
    BY <1>1, <1>3, <2>2, GoneIs DEF Kept, SameRun, Proper
  <2> QED BY <2>3, <2>4, <2>5 DEF Proper
<1>4. CASE v.present /\ v.next # None /\ n = v
  BY <1>1, <1>4, GoneIs DEF Kept, Proper
<1> QED BY <1>2, <1>3, <1>4

\* All records: w is m after recomputeNextRuns ...
Upkept(c, m, w) ==
  /\ w \in [Jobs -> JobRecord]
  /\ \A j \in Jobs : Kept(m[j], w[j]) /\ Proper(c, j, w[j])

LEMMA RecomputeIs ==
  ASSUME NEW c, NEW m \in [Jobs -> JobRecord], \A j \in Jobs : Proper(c, j, m[j]),
         NEW t \in Nat
  PROVE  Upkept(c, m, Recompute(m, t))
<1>w. PICK w : w = Recompute(m, t)
  OBVIOUS
<1>1. ASSUME NEW j \in Jobs PROVE Kept(m[j], w[j]) /\ Proper(c, j, w[j])
  <2>v. PICK v : v = Normalized(m[j], t)
    OBVIOUS
  <2>1. m[j] \in JobRecord /\ v.present = m[j].present
    BY <2>v, NormalizedIs DEF Kept
  <2>2. w[j] = IF ~m[j].present THEN Gone
               ELSE IF v.next = None \/ v.next <= t THEN WithNext(v, NextRun(j, v, t)) ELSE v
    BY <1>w, <2>v, <2>1 DEF Recompute, WithNext
  <2>3. \/ ~v.present /\ w[j] = Gone
        \/ v.present /\ w[j] = WithNext(v, NextRun(j, v, t))
        \/ v.present /\ v.next # None /\ w[j] = v
    BY <2>1, <2>2
  <2> QED BY <2>v, <2>1, <2>3, UpkeepIs
<1>2. w \in [Jobs -> JobRecord]
  <2>1. w = [j \in Jobs |-> w[j]]
    BY <1>w DEF Recompute
  <2> QED BY <1>1, <2>1 DEF Kept
<1> QED BY <1>1, <1>2, <1>w DEF Upkept

\* ... or after the maintenance, which leaves a next run alone.
LEMMA MaintainIs ==
  ASSUME NEW c, NEW m \in [Jobs -> JobRecord], \A j \in Jobs : Proper(c, j, m[j]),
         NEW t \in Nat
  PROVE  /\ Upkept(c, m, Maintain(m, t))
         /\ \A j \in Jobs : m[j].enabled => Maintain(m, t)[j].next = m[j].next
<1>w. PICK w : w = Maintain(m, t)
  OBVIOUS
<1>1. ASSUME NEW j \in Jobs
      PROVE  /\ Kept(m[j], w[j]) /\ Proper(c, j, w[j])
             /\ m[j].enabled => w[j].next = m[j].next
  <2>v. PICK v : v = Normalized(m[j], t)
    OBVIOUS
  <2>1. m[j] \in JobRecord /\ v.present = m[j].present /\ (m[j].enabled => v.next = m[j].next)
    BY <2>v, NormalizedIs DEF Kept
  <2>2. w[j] = IF ~m[j].present THEN Gone
               ELSE IF v.next = None THEN WithNext(v, NextRun(j, v, t)) ELSE v
    BY <1>w, <2>v, <2>1 DEF Maintain, WithNext
  <2>3. \/ ~v.present /\ w[j] = Gone
        \/ v.present /\ w[j] = WithNext(v, NextRun(j, v, t))
        \/ v.present /\ v.next # None /\ w[j] = v
    BY <2>1, <2>2
  <2>4. ASSUME m[j].enabled PROVE w[j].next = m[j].next
    <3>1. m[j].present /\ Proper(c, j, m[j]) /\ v.next = m[j].next /\ v.enabled
      BY <2>v, <2>1, <2>4, NormalizedIs, GoneIs DEF Proper, Kept
    <3>2. CASE v.next # None
      BY <2>2, <3>1, <3>2
    <3>3. CASE v.next = None
      <4>1. Kind[j] = "at" /\ v.status = "ok" /\ v.last # None
        BY <2>v, <2>1, <2>4, <3>1, <3>3, NormalizedIs DEF Proper, Kept
      <4>2. NextRun(j, v, t) = None
        BY <3>1, <4>1 DEF NextRun
      <4>3. v \in JobRecord /\ None \in Times
        BY <2>v, <2>1, NormalizedIs, GoneIs DEF Kept
      <4>4. WithNext(v, None).next = None
        BY <4>3, NextSet
      <4> QED BY <2>2, <3>1, <3>3, <4>2, <4>4
    <3> QED BY <3>2, <3>3
  <2> QED BY <2>v, <2>1, <2>3, <2>4, UpkeepIs
<1>2. w \in [Jobs -> JobRecord]
  <2>1. w = [j \in Jobs |-> w[j]]
    BY <1>w DEF Maintain
  <2> QED BY <1>1, <2>1 DEF Kept
<1> QED BY <1>1, <1>2, <1>w DEF Upkept


-----------------------------------------------------------------------------
(***************************************************************************)
(* What one step of a service does, in the terms of the invariant: Moves,  *)
(* Writes and, for every job, JobStep.                                     *)
(***************************************************************************)

\* Two that differ in their live flag only.
Same(p, q) ==
  /\ q.pc = p.pc /\ q.todo = p.todo /\ q.job = p.job /\ q.since = p.since
  /\ q.done = p.done /\ q.skip = p.skip

\* Only the role k of service s moves on.
Moves(s, k) ==
  /\ proc' \in [Services -> [Roles -> ProcType]]
  /\ Shape(k, proc'[s][k])
  /\ \A t \in Services, l \in Roles : t # s \/ l # k => Same(proc[t][l], proc'[t][l])

\* Service s, which is one of those started, writes the file, its memory and its timer.
Writes(s) ==
  /\ s <= started
  /\ disk' \in [Jobs -> JobRecord] /\ mem' \in [Services -> [Jobs -> JobRecord]]
  /\ timer' \in [Services -> None..(Horizon + Clamp)]
  /\ loaded' = [loaded EXCEPT ![s] = TRUE]
  /\ \A t \in Services \ {s} : mem'[t] = mem[t] /\ timer'[t] = timer[t]
  /\ started' = started /\ now' = now /\ events' \in 0..MaxEvents
  /\ created \subseteq created' /\ created' \subseteq Jobs
  /\ touched \subseteq touched' /\ touched' \subseteq Jobs

\* A marker of j, in the file or in the memory of s.
Marker(s, j) == disk[j].running # None \/ mem[s][j].running # None
MarkerAfter(s, j) == disk'[j].running # None \/ mem'[s][j].running # None

\* The steps that compute next runs anew.
Recomputes(s, j) ==
  \/ BootEnds(s) \/ \E k \in Jobs : Add(s, k)
  \/ \E patch \in {"enable", "schedule"} : Update(s, j, patch)

\* What is taken is marked, and was not held; a marker is of a run held.
MarkStep(s, k, j) ==
  LET p == proc[s][k]
      q == proc'[s][k]
  IN  /\ Holds(q, j) /\ ~Holds(p, j) /\ j \notin unmarked =>
           /\ disk'[j].running # None /\ mem'[s][j].running # None
           /\ \A l \in Roles : ~Holds(proc[s][l], j)
      /\ disk'[j].running # None /\ mem[s][j].running # None => mem'[s][j].running # None
      /\ started = 1 /\ MarkerAfter(s, j) =>
           Holds(q, j) \/ (loaded[s] /\ ~Holds(p, j) /\ Marker(s, j))

\* A one-shot job that no user took up is begun from a list; it gets on one when it is
\* enabled, and stays begun until it is disabled.
OnceStep(s, k, j) ==
  LET p == proc[s][k]
      q == proc'[s][k]
  IN  /\ k = "manual" /\ Holds(q, j) => Holds(p, j) \/ j \in touched'
      /\ started = 1 /\ j \notin touched' =>
           /\ p.job # j /\ q.job = j => j \in Todo(p)
           /\ j \in Todo(q) => j \in Todo(p) \/ (~Holds(p, j) /\ disk[j].enabled)
           /\ j \in created /\ disk'[j].enabled => disk[j].enabled
           /\ Kind[j] = "at" /\ j \in Begun(p) => j \in Begun(q) \/ ~disk'[j].enabled

\* The next run of a job moves when its result is applied or all are computed anew.
SkipStep(s, k, j) ==
  started = 1 /\ disk[j].enabled /\ disk'[j].enabled =>
    \/ disk'[j].next = disk[j].next \/ disk[j].next = None
    \/ j \in {x.job : x \in proc[s][k].done} /\ proc'[s][k].done = {}
    \/ Recomputes(s, j)

JobStep(s, k, j) ==
  /\ Proper(created', j, disk'[j]) /\ Proper(created', j, mem'[s][j])
  /\ started = 1 => Alike(mem'[s][j], disk'[j])
  /\ MarkStep(s, k, j) /\ OnceStep(s, k, j) /\ SkipStep(s, k, j)

Act(s, k) ==
  /\ Moves(s, k) /\ Writes(s) /\ proc'[s]["boot"].pc # "clear"
  /\ s = started => SchedulerAlive'
  /\ \A j \in Jobs : JobStep(s, k, j)


\* The live flag does not count.
LEMMA SameIs ==
  ASSUME NEW p, NEW q, Same(p, q)
  PROVE  /\ \A j : Holds(q, j) <=> Holds(p, j)
         /\ Todo(q) = Todo(p) /\ Begun(q) = Begun(p) /\ q.job = p.job /\ q.pc = p.pc
         /\ \A k \in Roles : Shape(k, p) => Shape(k, q)
<1>1. /\ \A j : Holds(q, j) <=> Holds(p, j)
      /\ Todo(q) = Todo(p) /\ Begun(q) = Begun(p) /\ q.job = p.job /\ q.pc = p.pc
  BY DEF Same, Holds, Todo, Begun
<1>2. ASSUME NEW k \in Roles, Shape(k, p) PROVE Shape(k, q)
  BY <1>1, <1>2 DEF Same, Shape
<1> QED BY <1>1, <1>2

\* What holds a job is at work, and holds it to begin it or has begun it.
LEMMA HoldsIs ==
  ASSUME NEW k \in Roles, NEW p, Shape(k, p), NEW j \in Jobs
  PROVE  /\ Holds(p, j) <=> j \in Todo(p) \/ j \in Begun(p)
         /\ Holds(p, j) => p.pc = "work"
<1>1. "none" # j
  BY CronAssumption
<1>2. Holds(p, j) <=> j \in Todo(p) \/ j \in Begun(p)
  BY <1>1 DEF Holds, Todo, Begun
<1>3. ToSet(<<>>) = {}
  BY DEF ToSet
<1>4. Holds(p, j) => p.pc = "work"
  BY <1>1, <1>3 DEF Holds, Shape
<1> QED BY <1>2, <1>4

\* The history of a step.
LEMMA RecordedIs ==
  ASSUME Types, Recorded
  PROVE  /\ unmarked \subseteq unmarked' /\ unmarked' \subseteq Jobs
         /\ runs' \in [Jobs -> 0..2]
         /\ \A j \in Jobs \ unmarked' : ~(Held(j) /\ Held(j)' /\ disk[j].running # None
                                          /\ disk'[j].running = None)
         /\ \A j \in Jobs \ unmarked' :
              started' < started \/ (\E s \in Services : loaded[s] /\ ~loaded'[s])
              => disk[j].running = None
         /\ \A j \in Jobs : \/ runs'[j] = runs[j]
                            \/ /\ Kind[j] = "at" /\ runs'[j] = runs[j] + 1
                               /\ \E s \in Services, k \in Roles :
                                    proc[s][k].job # j /\ proc'[s][k].job = j
<1> HIDE DEF Held, Services, Roles, None
<1> PICK lost : lost = {j \in Jobs : /\ Held(j)
                     /\ disk[j].running # None /\ disk'[j].running = None
                     /\ Held(j)'}
  OBVIOUS
<1> PICK all : all = {j \in Jobs : disk[j].running # None}
  OBVIOUS
<1>1. unmarked' = unmarked \cup lost
       \cup (IF started' < started \/ \E s \in Services : loaded[s] /\ ~loaded'[s] THEN all ELSE {})
  BY DEF Recorded
<1>2. /\ unmarked \subseteq unmarked' /\ unmarked' \subseteq Jobs
      /\ \A j \in Jobs \ unmarked' : j \notin lost
      /\ \A j \in Jobs \ unmarked' :
              started' < started \/ (\E s \in Services : loaded[s] /\ ~loaded'[s])
              => j \notin all
  BY <1>1 DEF Types
<1>3. ASSUME NEW j \in Jobs
      PROVE  /\ runs'[j] \in 0..2
             /\ \/ runs'[j] = runs[j]
                \/ /\ Kind[j] = "at" /\ runs'[j] = runs[j] + 1
                   /\ \E s \in Services, k \in Roles :
                                    proc[s][k].job # j /\ proc'[s][k].job = j
  <2> PICK begun : begun = \E s \in Services, k \in Roles : proc[s][k].job # j /\ proc'[s][k].job = j
    OBVIOUS
  <2>1. runs'[j] = IF Kind[j] = "at" /\ begun /\ runs[j] < 2 THEN runs[j] + 1 ELSE runs[j]
    BY DEF Recorded
  <2>2. runs[j] \in 0..2
    BY DEF Types
  <2> QED BY <2>1, <2>2
<1>4. runs' = [j \in Jobs |-> runs'[j]]
  BY DEF Recorded
<1>5. runs' \in [Jobs -> 0..2]
  BY <1>3, <1>4
<1> QED BY <1>2, <1>3, <1>5

-----------------------------------------------------------------------------
(***************************************************************************)
(* A step so described keeps the invariant, conjunct by conjunct.          *)
(***************************************************************************)

LEMMA ActTypes ==
  ASSUME Types, Recorded, NEW s \in Services, NEW k \in Roles, Act(s, k)
  PROVE  Types'
<1>1. /\ disk' \in [Jobs -> JobRecord] /\ mem' \in [Services -> [Jobs -> JobRecord]]
      /\ timer' \in [Services -> None..(Horizon + Clamp)]
      /\ loaded' = [loaded EXCEPT ![s] = TRUE]
      /\ started' = started /\ now' = now /\ events' \in 0..MaxEvents
      /\ created' \subseteq Jobs /\ touched' \subseteq Jobs
  BY DEF Act, Writes
<1>2. proc' \in [Services -> [Roles -> ProcType]]
  BY DEF Act, Moves
<1>3. unmarked' \subseteq Jobs /\ runs' \in [Jobs -> 0..2]
  BY RecordedIs
<1>4. loaded' \in [Services -> BOOLEAN] /\ started' \in Services /\ now' \in 0..Horizon
  <2> HIDE DEF Services
  <2> QED BY <1>1 DEF Types
<1> QED BY <1>1, <1>2, <1>3, <1>4 DEF Types

LEMMA ActShapes ==
  ASSUME Shapes, NEW s \in Services, NEW k \in Roles, Act(s, k)
  PROVE  Shapes'
<1> SUFFICES ASSUME NEW t \in Services, NEW l \in Roles PROVE Shape(l, proc'[t][l])
  BY DEF Shapes
<1>1. CASE t = s /\ l = k
  BY <1>1 DEF Act, Moves
<1>2. CASE t # s \/ l # k
  <2>1. Same(proc[t][l], proc'[t][l]) /\ Shape(l, proc[t][l])
    BY <1>2 DEF Act, Moves, Shapes
  <2> QED BY <2>1, SameIs
<1> QED BY <1>1, <1>2

LEMMA ActOpened ==
  ASSUME Types, AllOpened, NEW s \in Services, NEW k \in Roles, Act(s, k)
  PROVE  AllOpened'
<1> SUFFICES ASSUME NEW t \in Services PROVE Opened(t)'
  BY DEF AllOpened
<1>1. /\ started' = started /\ s <= started /\ proc'[s]["boot"].pc # "clear"
      /\ loaded' = [loaded EXCEPT ![s] = TRUE]
      /\ \A u \in Services \ {s} : timer'[u] = timer[u]
  BY DEF Act, Writes
<1>2. CASE t = s
  <2>1. loaded'[s]
    BY <1>1 DEF Types
  <2> QED BY <1>1, <1>2, <2>1 DEF Opened
<1>3. CASE t # s
  <2>1. \A l \in Roles : proc'[t][l].pc = proc[t][l].pc
    <3> SUFFICES ASSUME NEW l \in Roles PROVE proc'[t][l].pc = proc[t][l].pc
      OBVIOUS
    <3>1. Same(proc[t][l], proc'[t][l])
      BY <1>3 DEF Act, Moves
    <3> QED BY <3>1 DEF Same
  <2>2. loaded'[t] = loaded[t] /\ timer'[t] = timer[t]
    BY <1>1, <1>3 DEF Types
  <2>3. "boot" \in Roles /\ proc'[t]["boot"].pc = proc[t]["boot"].pc
    BY <2>1 DEF Roles
  <2>4. Opened(t)
    BY DEF AllOpened
  <2> HIDE DEF Roles, Services, None
  <2> QED BY <1>1, <2>1, <2>2, <2>3, <2>4 DEF Opened
<1> QED BY <1>2, <1>3

LEMMA ActProper ==
  ASSUME AllProper, NEW s \in Services, NEW k \in Roles, Act(s, k)
  PROVE  AllProper'
<1> SUFFICES ASSUME NEW j \in Jobs, NEW t \in Services
             PROVE  Proper(created', j, disk'[j]) /\ Proper(created', j, mem'[t][j])
  BY DEF AllProper
<1>1. Proper(created', j, disk'[j]) /\ Proper(created', j, mem'[s][j])
  BY DEF Act, JobStep
<1>2. CASE t # s
  <2>1. mem'[t] = mem[t] /\ created \subseteq created' /\ Proper(created, j, mem[t][j])
    BY <1>2 DEF Act, Writes, AllProper
  <2> QED BY <1>1, <2>1 DEF Proper
<1> QED BY <1>1, <1>2

LEMMA ActMarked ==
  ASSUME Types, Shapes, AllMarked, Recorded, NEW s \in Services, NEW k \in Roles, Act(s, k)
  PROVE  AllMarked'
<1> HIDE DEF Services, Roles, None
<1> SUFFICES ASSUME NEW j \in Jobs, j \notin unmarked', NEW t \in Services, NEW l \in Roles,
                    Holds(proc'[t][l], j)
             PROVE  /\ disk'[j].running # None /\ mem'[t][j].running # None
                    /\ \A i \in Roles : Holds(proc'[t][i], j) => i = l
  BY DEF AllMarked, Marked
<1>0. j \notin unmarked /\ Marked(j)
  BY RecordedIs DEF AllMarked
<1>1. \A u \in Services, i \in Roles : u # s \/ i # k => (Holds(proc'[u][i], j) <=> Holds(proc[u][i], j))
  BY SameIs DEF Act, Moves
<1>2. MarkStep(s, k, j)
  BY DEF Act, JobStep
<1>3. CASE Holds(proc[t][l], j)
  <2>1. disk[j].running # None /\ mem[t][j].running # None
        /\ \A i \in Roles : Holds(proc[t][i], j) => i = l
    BY <1>0, <1>3 DEF Marked
  <2>2. Held(j) /\ Held(j)'
    BY <1>3 DEF Held
  <2>3. disk'[j].running # None
    BY <2>1, <2>2, RecordedIs
  <2>4. mem'[t][j].running # None
    <3>1. CASE t = s
      BY <1>2, <2>1, <2>3, <3>1 DEF MarkStep
    <3>2. CASE t # s
      BY <2>1, <3>2 DEF Act, Writes
    <3> QED BY <3>1, <3>2
  <2>5. ASSUME NEW i \in Roles, Holds(proc'[t][i], j) PROVE i = l
    <3>1. CASE Holds(proc[t][i], j)
      BY <2>1, <3>1
    <3>2. CASE ~Holds(proc[t][i], j)
      <4>1. t = s /\ i = k
        BY <1>1, <2>5, <3>2
      <4>2. ~Holds(proc[s][l], j)
        BY <1>0, <1>2, <2>5, <3>2, <4>1 DEF MarkStep
      <4> QED BY <1>3, <4>1, <4>2
    <3> QED BY <3>1, <3>2
  <2> QED BY <2>3, <2>4, <2>5
<1>4. CASE ~Holds(proc[t][l], j)
  <2>1. t = s /\ l = k
    BY <1>1, <1>4
  <2>2. /\ disk'[j].running # None /\ mem'[s][j].running # None
        /\ \A i \in Roles : ~Holds(proc[s][i], j)
    BY <1>0, <1>2, <1>4, <2>1 DEF MarkStep
  <2> QED BY <1>1, <2>1, <2>2
<1> QED BY <1>3, <1>4

LEMMA ActSingle ==
  ASSUME Types, Shapes, Single, NEW s \in Services, NEW k \in Roles, Act(s, k)
  PROVE  Single'
<1>0. SUFFICES ASSUME started' = 1, NEW j \in Jobs
             PROVE  /\ Alike(mem'[1][j], disk'[j])
                    /\ MarkerAfter(1, j) => \E l \in Roles : Holds(proc'[1][l], j)
  BY DEF Single, MarkerAfter
<1>1. started = 1 /\ s = 1
  <2>1. started = 1 /\ s <= started /\ s \in Nat \ {0}
    BY <1>0, CronAssumption DEF Act, Writes, Services
  <2> QED BY <2>1
<1> HIDE DEF Services, Roles, None
<1>2. Alike(mem'[1][j], disk'[j]) /\ MarkStep(1, k, j)
  BY <1>1 DEF Act, JobStep
<1>3. ASSUME MarkerAfter(1, j) PROVE \E l \in Roles : Holds(proc'[1][l], j)
  <2>1. Holds(proc'[1][k], j) \/ (loaded[1] /\ ~Holds(proc[1][k], j) /\ Marker(1, j))
    BY <1>1, <1>2, <1>3 DEF MarkStep
  <2>2. ASSUME loaded[1], ~Holds(proc[1][k], j), Marker(1, j)
        PROVE \E l \in Roles : Holds(proc'[1][l], j)
    <3>1. PICK l \in Roles : Holds(proc[1][l], j)
      BY <1>1, <2>2 DEF Single, Marker
    <3>2. l # k
      BY <2>2, <3>1
    <3>3. Same(proc[1][l], proc'[1][l])
      BY <1>1, <3>2 DEF Act, Moves
    <3> QED BY <3>1, <3>3, SameIs
  <2> QED BY <2>1, <2>2
<1> QED BY <1>2, <1>3


LEMMA ActOnce ==
  ASSUME IInv, Recorded, NEW s \in Services, NEW k \in Roles, Act(s, k)
  PROVE  AllOnce'
<1>i. Types /\ Shapes /\ AllProper /\ AllMarked /\ Single /\ AllOnce /\ AllOpened
  BY DEF IInv
<1>w. /\ started' = started /\ created \subseteq created' /\ touched \subseteq touched'
      /\ touched' \subseteq Jobs /\ s <= started
  BY DEF Act, Writes
<1>h. \A u \in Services, i \in Roles : u # s \/ i # k => Same(proc[u][i], proc'[u][i])
  BY DEF Act, Moves
<1>n. started \in Nat /\ s \in Nat \ {0} /\ 1 \in Services
  BY <1>i, CronAssumption DEF Types, Services
<1>q. Shapes'
  BY <1>i, ActShapes
<1> HIDE DEF Services, Roles, None
<1>1. started' > 1 => touched' = Jobs
  BY <1>i, <1>w DEF AllOnce
<1>2. ASSUME NEW t \in Services, NEW j \in Jobs, Holds(proc'[t]["manual"], j), "manual" \in Roles
      PROVE  j \in touched'
  <2>1. CASE Holds(proc[t]["manual"], j)
    BY <1>i, <1>w, <2>1 DEF AllOnce
  <2>2. CASE ~Holds(proc[t]["manual"], j)
    <3>1. t = s /\ k = "manual"
      BY <1>h, <1>2, <2>2, SameIs
    <3> QED BY <1>2, <2>2, <3>1 DEF Act, JobStep, OnceStep
  <2> QED BY <2>1, <2>2
<1>3. ASSUME NEW j \in Jobs, j \notin unmarked', j \notin touched'
      PROVE  IF Kind[j] = "at" THEN OnceOnly(j)' ELSE runs'[j] = 0
  <2>0. started = 1 /\ s = 1 /\ j \notin unmarked /\ j \notin touched
    BY <1>i, <1>w, <1>n, <1>3, RecordedIs DEF AllOnce
  <2>1. IF Kind[j] = "at" THEN OnceOnly(j) ELSE runs[j] = 0
    BY <1>i, <2>0 DEF AllOnce
  <2>2. CASE Kind[j] # "at"
    BY <1>i, <2>1, <2>2, RecordedIs
  <2>3. CASE Kind[j] = "at"
    <3>1. OnceOnly(j) /\ Marked(j)
      BY <1>i, <2>0, <2>1, <2>3 DEF AllMarked
    <3>2. /\ proc[1][k].job # j /\ proc'[1][k].job = j => j \in Todo(proc[1][k])
          /\ j \in Todo(proc'[1][k]) =>
               j \in Todo(proc[1][k]) \/ (~Holds(proc[1][k], j) /\ disk[j].enabled)
          /\ j \in created /\ disk'[j].enabled => disk[j].enabled
          /\ j \in Begun(proc[1][k]) => j \in Begun(proc'[1][k]) \/ ~disk'[j].enabled
      BY <1>3, <2>0, <2>3 DEF Act, JobStep, OnceStep
    <3>3. /\ \A i \in Roles : Shape(i, proc[1][i]) /\ Shape(i, proc'[1][i])
          /\ \A i \in Roles : /\ Holds(proc[1][i], j) <=> j \in Todo(proc[1][i]) \/ j \in Begun(proc[1][i])
                              /\ Holds(proc'[1][i], j) <=> j \in Todo(proc'[1][i]) \/ j \in Begun(proc'[1][i])
      <4>1. \A i \in Roles : Shape(i, proc[1][i]) /\ Shape(i, proc'[1][i])
        BY <1>i, <1>n, <1>q DEF Shapes
      <4> QED BY <4>1, HoldsIs
    <3>4. \A i \in Roles : i # k => /\ Todo(proc'[1][i]) = Todo(proc[1][i])
                                    /\ Begun(proc'[1][i]) = Begun(proc[1][i])
                                    /\ proc'[1][i].job = proc[1][i].job
      BY <1>h, <1>n, <2>0, SameIs
    <3>5. runs[j] \in 0..2
      BY <1>i DEF Types
    <3>a. CASE \E t \in Services, i \in Roles : proc[t][i].job # j /\ proc'[t][i].job = j
      <4>1. proc[1][k].job # j /\ proc'[1][k].job = j
        BY <1>h, <2>0, <3>a DEF Same
      <4>2. j \in Todo(proc[1][k]) /\ j \in Begun(proc'[1][k])
        <5>1. j # "none"
          BY CronAssumption
        <5> QED BY <3>2, <4>1, <5>1 DEF Begun
      <4>3. runs[j] = 0 /\ runs'[j] \in 0..1
        <5>1. runs[j] = 0
          BY <3>1, <3>5, <4>2 DEF OnceOnly
        <5> QED BY <1>i, <5>1, RecordedIs
      <4>4. j \in created'
        <5>1. disk[j].running # None
          BY <1>n, <3>1, <3>3, <4>2 DEF Marked
        <5>2. disk[j] # Gone
          BY <5>1, GoneIs
        <5> QED BY <1>i, <1>w, <5>2 DEF AllProper, Proper
      <4>5. ASSUME NEW i \in Roles PROVE j \notin Todo(proc'[1][i])
        <5>1. CASE i = k
          BY <3>3, <4>2, <5>1 DEF Shape
        <5>2. CASE i # k
          <6>1. ~Holds(proc[1][i], j)
            BY <1>n, <3>1, <3>3, <4>2, <5>2 DEF Marked
          <6> QED BY <3>3, <3>4, <5>2, <6>1
        <5> QED BY <5>1, <5>2
      <4> QED BY <2>3, <4>2, <4>3, <4>4, <4>5 DEF OnceOnly
    <3>b. CASE ~\E t \in Services, i \in Roles : proc[t][i].job # j /\ proc'[t][i].job = j
      <4>1. runs'[j] = runs[j]
        BY <1>i, <3>b, RecordedIs
      <4>2. CASE runs[j] # 1
        BY <2>3, <3>1, <3>5, <4>1, <4>2 DEF OnceOnly
      <4>3. CASE runs[j] = 1
        <5>1. /\ j \in created /\ \A i \in Roles : j \notin Todo(proc[1][i])
              /\ ~disk[j].enabled \/ \E i \in Roles : j \in Begun(proc[1][i])
          BY <3>1, <4>3 DEF OnceOnly
        <5>2. j \notin Todo(proc'[1][k])
          <6> SUFFICES ASSUME j \in Todo(proc'[1][k]) PROVE FALSE
            OBVIOUS
          <6>1. ~Holds(proc[1][k], j) /\ disk[j].enabled
            BY <3>2, <5>1
          <6>2. PICK i \in Roles : j \in Begun(proc[1][i])
            BY <5>1, <6>1
          <6>3. Holds(proc[1][i], j) /\ Holds(proc'[1][k], j)
            BY <3>3, <6>2
          <6>4. ~Holds(proc[1][i], j)
            BY <2>0, <6>1, <6>3 DEF Act, JobStep, MarkStep
          <6> QED BY <6>3, <6>4
        <5>3. \A i \in Roles : j \notin Todo(proc'[1][i])
          BY <3>4, <5>1, <5>2
        <5>4. ~disk'[j].enabled \/ \E i \in Roles : j \in Begun(proc'[1][i])
          BY <3>2, <3>4, <5>1
        <5>5. j \in created'
          BY <1>w, <5>1
        <5> QED BY <2>3, <4>1, <4>3, <5>3, <5>4, <5>5 DEF OnceOnly
      <4> QED BY <4>2, <4>3
    <3> QED BY <3>a, <3>b
  <2> QED BY <2>2, <2>3
<1> QED BY <1>1, <1>2, <1>3 DEF AllOnce, Roles

LEMMA ActAlive ==
  ASSUME Types, SchedulerAlive, NEW s \in Services, NEW k \in Roles, Act(s, k)
  PROVE  SchedulerAlive'
<1>1. CASE s = started
  BY <1>1 DEF Act
<1>2. CASE s # started
  <2>1. started' = started /\ now' = now /\ started \in Services
    BY DEF Act, Writes, Types
  <2>2. mem'[started] = mem[started] /\ timer'[started] = timer[started]
    BY <1>2, <2>1 DEF Act, Writes
  <2>3. \A l \in Roles : proc'[started][l].pc = proc[started][l].pc
    BY <1>2, <2>1 DEF Act, Moves, Same
  <2>4. /\ proc'[started]["boot"].pc = proc[started]["boot"].pc
        /\ proc'[started]["tick"].pc = proc[started]["tick"].pc
    BY <2>3 DEF Roles
  <2>5. NextWake(mem'[started]) = NextWake(mem[started])
    BY <2>2
  <2> QED BY <2>1, <2>2, <2>4, <2>5 DEF SchedulerAlive
<1> QED BY <1>1, <1>2

LEMMA ActKeeps ==
  ASSUME IInv, Recorded, NEW s \in Services, NEW k \in Roles, Act(s, k)
  PROVE  IInv'
<1> USE DEF IInv
<1>1. Types' /\ Shapes' /\ AllOpened' /\ AllProper'
  BY ActTypes, ActShapes, ActOpened, ActProper
<1>2. AllMarked' /\ Single' /\ AllOnce' /\ SchedulerAlive'
  BY ActMarked, ActSingle, ActOnce, ActAlive
<1> QED BY <1>1, <1>2


-----------------------------------------------------------------------------
(***************************************************************************)
(* The clock, a reload and a crash.                                        *)
(***************************************************************************)

LEMMA TickKeeps ==
  ASSUME IInv, Recorded, Tick
  PROVE  IInv'
<1>i. Types /\ Shapes /\ AllOpened /\ AllProper /\ AllMarked /\ Single /\ AllOnce /\ SchedulerAlive
  BY DEF IInv
<1>1. /\ now < Horizon /\ now' = now + 1 /\ disk' = disk /\ mem' = mem /\ loaded' = loaded
      /\ timer' = timer /\ proc' = proc /\ started' = started /\ events' = events
      /\ created' = created /\ touched' = touched
  BY DEF Tick, store
<1>n. Horizon \in Nat /\ Clamp \in Nat
  BY CronAssumption
<1>2. unmarked \subseteq unmarked' /\ unmarked' \subseteq Jobs /\ runs' \in [Jobs -> 0..2]
      /\ \A j \in Jobs : runs'[j] = runs[j]
  BY <1>i, <1>1, RecordedIs
<1>3. Types'
  BY <1>i, <1>1, <1>2, <1>n DEF Types
<1> HIDE DEF Services, Roles, None
<1>4. Shapes'
  BY <1>i, <1>1 DEF Shapes
<1>5. AllOpened'
  BY <1>i, <1>1 DEF AllOpened, Opened
<1>6. AllProper'
  BY <1>i, <1>1 DEF AllProper
<1>7. AllMarked'
  BY <1>i, <1>1, <1>2 DEF AllMarked, Marked
<1>8. Single'
  BY <1>i, <1>1 DEF Single
<1>9. AllOnce'
  <2>1. ASSUME NEW j \in Jobs, j \notin unmarked', j \notin touched'
        PROVE  IF Kind[j] = "at" THEN OnceOnly(j)' ELSE runs'[j] = 0
    <3>1. IF Kind[j] = "at" THEN OnceOnly(j) ELSE runs[j] = 0
      BY <1>i, <1>1, <1>2, <2>1 DEF AllOnce
    <3> QED BY <1>1, <1>2, <3>1 DEF OnceOnly
  <2> QED BY <1>i, <1>1, <2>1 DEF AllOnce
<1>10. SchedulerAlive'
  <2>1. timer[started] \in Int /\ now \in Nat
    BY <1>i, <1>n DEF Types, None
  <2>2. NextWake(mem'[started']) = NextWake(mem[started])
    BY <1>1
  <2>3. timer[started] \in 0..(now + Clamp) => timer[started] \in 0..((now + 1) + Clamp)
    BY <2>1, <1>n
  <2> QED BY <1>i, <1>1, <2>2, <2>3 DEF SchedulerAlive
<1> QED BY <1>3, <1>4, <1>5, <1>6, <1>7, <1>8, <1>9, <1>10 DEF IInv

\* What is not at work holds nothing.
LEMMA IdleIs ==
  ASSUME NEW p, p.todo = <<>>, p.job = "none", p.done = {}, p.since = None,
         NEW j \in Jobs
  PROVE  ~Holds(p, j) /\ j \notin Todo(p) /\ j \notin Begun(p)
<1>1. ToSet(<<>>) = {} /\ j # "none"
  BY CronAssumption DEF ToSet
<1> QED BY <1>1 DEF Holds, Todo, Begun

\* A service that is busy with nothing, but in one of these places.
EmptyAt(pc, skip) == [Free EXCEPT !.pc = pc, !.skip = skip]

LEMMA EmptyIs ==
  ASSUME NEW pc \in Pcs, NEW skip \in SUBSET Jobs, NEW q,
         q = EmptyAt(pc, skip) \/ q = [Free EXCEPT !.pc = pc] \/ (q = Free /\ pc = "idle")
  PROVE  /\ q \in ProcType /\ q.pc = pc /\ q.job = "none" /\ q.todo = <<>> /\ q.done = {}
         /\ \A j \in Jobs : ~Holds(q, j) /\ j \notin Todo(q) /\ j \notin Begun(q)
<1>0. Horizon \in Nat
  BY CronAssumption
<1> DEFINE Plain == \E z \in SUBSET Jobs :
        q = [pc |-> pc, live |-> FALSE, todo |-> <<>>, job |-> "none", since |-> None,
             done |-> {}, skip |-> z]
<1> HIDE DEF None, Pcs
<1>a. ASSUME q = EmptyAt(pc, skip) PROVE Plain
  <2>1. q = [pc |-> pc, live |-> FALSE, todo |-> <<>>, job |-> "none", since |-> None,
             done |-> {}, skip |-> skip]
    BY <1>a DEF Free, EmptyAt
  <2> QED BY <2>1
<1>b. ASSUME q = [Free EXCEPT !.pc = pc] PROVE Plain
  <2>1. q = [pc |-> pc, live |-> FALSE, todo |-> <<>>, job |-> "none", since |-> None,
             done |-> {}, skip |-> {}]
    BY <1>b DEF Free
  <2> QED BY <2>1
<1>c. ASSUME q = Free, pc = "idle" PROVE Plain
  BY <1>c DEF Free
<1>2. PICK z \in SUBSET Jobs :
        q = [pc |-> pc, live |-> FALSE, todo |-> <<>>, job |-> "none", since |-> None,
             done |-> {}, skip |-> z]
  BY <1>a, <1>b, <1>c
<1>1. /\ q.pc = pc /\ q.job = "none" /\ q.todo = <<>> /\ q.done = {} /\ q.since = None
  BY <1>2
<1>3. None \in None..Horizon /\ <<>> \in Seq(Jobs)
  BY <1>0, EmptySeq DEF None
<1> HIDE DEF Pcs, None, Result
<1>4. q \in ProcType
  BY <1>1, <1>2, <1>3 DEF ProcType
<1> QED BY <1>1, <1>4, IdleIs

LEMMA FreeIs ==
  ASSUME NEW pc \in Pcs, NEW q, q = [Free EXCEPT !.pc = pc] \/ (q = Free /\ pc = "idle")
  PROVE  /\ q \in ProcType /\ q.pc = pc /\ q.job = "none" /\ q.todo = <<>> /\ q.done = {}
         /\ \A j \in Jobs : ~Holds(q, j) /\ j \notin Todo(q) /\ j \notin Begun(q)
<1> PICK skip \in SUBSET Jobs : skip = {}
  OBVIOUS
<1>1. CASE q = [Free EXCEPT !.pc = pc]
  BY <1>1, EmptyIs
<1>2. CASE q = Free /\ pc = "idle"
  BY <1>2, EmptyIs
<1> QED BY <1>1, <1>2

\* Such a record in the role k.
LEMMA EmptyShape ==
  ASSUME NEW k \in Roles, NEW q, q.todo = <<>>, q.job = "none", q.done = {}, q.pc \in Pcs,
         k = "boot" => q.pc \notin {"collect", "finish"},
         k = "tick" => q.pc \in {"idle", "collect", "work", "finish"},
         k = "manual" => q.pc \in {"idle", "work"}
  PROVE  Shape(k, q)
<1>1. ToSet(<<>>) = {} /\ 1..Len(<<>>) = {}
  BY DEF ToSet
<1> QED BY <1>1 DEF Shape, Todo, Begun


\* What a started process finds: no memory and no timer, one service that starts.
Restarted(f, l, t, p, n) ==
  /\ n = 1 /\ l = [s \in Services |-> FALSE] /\ t = [s \in Services |-> None]
  /\ f = [s \in Services |-> [j \in Jobs |-> Gone]]
  /\ p = [s \in Services |-> [k \in Roles |->
                IF s = 1 /\ k = "boot" THEN [Free EXCEPT !.pc = "clear"] ELSE Free]]

LEMMA RestartedIs ==
  ASSUME NEW f, NEW l, NEW t, NEW p, NEW n, Restarted(f, l, t, p, n)
  PROVE  /\ n \in Services /\ f \in [Services -> [Jobs -> JobRecord]]
         /\ l \in [Services -> BOOLEAN] /\ t \in [Services -> None..(Horizon + Clamp)]
         /\ p \in [Services -> [Roles -> ProcType]]
         /\ \A s \in Services : /\ f[s] = [j \in Jobs |-> Gone] /\ ~l[s] /\ t[s] = None
                                /\ s <= 1 => p[s]["boot"].pc = "clear"
                                /\ s > 1 => p[s]["boot"].pc = "idle"
         /\ \A s \in Services, k \in Roles :
              /\ p[s][k].pc = "idle" \/ (k = "boot" /\ p[s][k].pc = "clear")
              /\ Shape(k, p[s][k]) /\ p[s][k].job = "none"
              /\ \A j \in Jobs : ~Holds(p[s][k], j) /\ j \notin Todo(p[s][k])
<1>0. /\ 1 \in Services /\ None \in None..(Horizon + Clamp) /\ Services \subseteq Nat \ {0}
      /\ "boot" \in Roles
  BY CronAssumption DEF Services, None, Roles
<1> PICK q : q = Free
  OBVIOUS
<1> PICK b : b = [Free EXCEPT !.pc = "clear"]
  OBVIOUS
<1>2. /\ q \in ProcType /\ q.pc = "idle" /\ q.job = "none" /\ q.todo = <<>> /\ q.done = {}
      /\ \A j \in Jobs : ~Holds(q, j) /\ j \notin Todo(q)
  BY FreeIs DEF Pcs
<1>3. /\ b \in ProcType /\ b.pc = "clear" /\ b.job = "none" /\ b.todo = <<>> /\ b.done = {}
      /\ \A j \in Jobs : ~Holds(b, j) /\ j \notin Todo(b)
  BY FreeIs DEF Pcs
<1>4. /\ \A k \in Roles : Shape(k, q)
      /\ Shape("boot", b)
  <2>1. ASSUME NEW k \in Roles PROVE Shape(k, q)
    BY <1>2, EmptyShape DEF Pcs
  <2>2. Shape("boot", b)
    BY <1>0, <1>3, EmptyShape DEF Pcs
  <2> QED BY <2>1, <2>2
<1>5. ASSUME NEW s \in Services, NEW k \in Roles PROVE p[s][k] = IF s = 1 /\ k = "boot" THEN b ELSE q
  BY DEF Restarted
<1>p. p \in [Services -> [Roles -> ProcType]]
  <2> HIDE DEF Services, Roles, ProcType
  <2>1. p = [s \in Services |-> [k \in Roles |-> IF s = 1 /\ k = "boot" THEN b ELSE q]]
    BY DEF Restarted
  <2> QED BY <1>2, <1>3, <2>1
<1>f. /\ n \in Services /\ f \in [Services -> [Jobs -> JobRecord]]
      /\ l \in [Services -> BOOLEAN] /\ t \in [Services -> None..(Horizon + Clamp)]
      /\ \A s \in Services : f[s] = [j \in Jobs |-> Gone] /\ ~l[s] /\ t[s] = None
  <2> HIDE DEF Services, None
  <2> QED BY <1>0, GoneIs DEF Restarted
<1>6. ASSUME NEW s \in Services
      PROVE  /\ s <= 1 => p[s]["boot"].pc = "clear"
             /\ s > 1 => p[s]["boot"].pc = "idle"
  <2>1. s \in Nat \ {0} /\ p[s]["boot"] = IF s = 1 THEN b ELSE q
    BY <1>0, <1>5
  <2> QED BY <1>2, <1>3, <2>1
<1>7. ASSUME NEW s \in Services, NEW k \in Roles
      PROVE   /\ p[s][k].pc = "idle" \/ (k = "boot" /\ p[s][k].pc = "clear")
              /\ Shape(k, p[s][k]) /\ p[s][k].job = "none"
              /\ \A j \in Jobs : ~Holds(p[s][k], j) /\ j \notin Todo(p[s][k])
  BY <1>2, <1>3, <1>4, <1>5
<1> QED BY <1>p, <1>f, <1>6, <1>7

LEMMA InitInv ==
  ASSUME Init
  PROVE  IInv
<1>0. Restarted(mem, loaded, timer, proc, started)
  BY DEF Init, Restarted
<1>1. PICK first \in {0, Every} :
        disk = [j \in Jobs |->
                 IF j \notin created THEN Gone
                 ELSE [New EXCEPT !.next = IF Kind[j] = "at" THEN At ELSE first]]
  BY DEF Init
<1>2. /\ created \subseteq Jobs /\ now = 0 /\ events = 0 /\ touched = {} /\ unmarked = {}
      /\ runs = [j \in Jobs |-> 0]
  BY CronAssumption DEF Init
<1>3. first \in Nat /\ At \in Nat /\ Horizon \in Nat /\ MaxEvents \in Nat /\ first # None /\ At # None
  BY CronAssumption DEF None
<1>4. ASSUME NEW j \in Jobs
      PROVE  disk[j] \in JobRecord /\ Proper(created, j, disk[j]) /\ disk[j].running = None
  <2> PICK x \in Nat : x = IF Kind[j] = "at" THEN At ELSE first
    BY <1>3
  <2>0. x # None /\ x \in Times
    BY GoneIs DEF None
  <2> PICK n : n = WithNext(New, x)
    OBVIOUS
  <2>1. disk[j] = IF j \notin created THEN Gone ELSE n
    BY <1>1 DEF WithNext
  <2>2. n \in JobRecord /\ n.running = None /\ n.next = x /\ n.present
    BY <2>0, NextSet, GoneIs DEF SameRun
  <2> QED BY <2>0, <2>1, <2>2, GoneIs DEF Proper
<1>5. disk = [j \in Jobs |-> disk[j]]
  BY <1>1
<1>6. Types
  <2>1. disk \in [Jobs -> JobRecord]
    BY <1>4, <1>5
  <2>2. runs \in [Jobs -> 0..2]
    BY <1>2
  <2> HIDE DEF Services, Roles, JobRecord, ProcType, None
  <2> QED BY <1>0, <1>2, <1>3, <2>1, <2>2, RestartedIs DEF Types
<1> HIDE DEF Services, Roles, JobRecord, ProcType, None
<1>7. Shapes /\ started = 1
  <2>1. started = 1
    BY <1>0 DEF Restarted
  <2> QED BY <1>0, <2>1, RestartedIs DEF Shapes
<1>8. AllOpened
  BY <1>0, <1>7, RestartedIs DEF AllOpened, Opened
<1>9. AllProper
  BY <1>0, <1>4, RestartedIs, GoneIs DEF AllProper, Proper
<1>10. AllMarked
  BY <1>0, RestartedIs DEF AllMarked, Marked
<1>11. Single
  <2>1. ~loaded[1]
    BY <1>0, <1>6, <1>7, RestartedIs DEF Types
  <2> QED BY <2>1 DEF Single
<1>12. AllOnce
  <2>1. "manual" \in Roles
    BY DEF Roles
  <2> QED BY <1>0, <1>2, <1>7, <2>1, RestartedIs DEF AllOnce, OnceOnly
<1>13. SchedulerAlive
  <2>1. proc[started]["boot"].pc = "clear"
    BY <1>0, <1>6, <1>7, RestartedIs DEF Types
  <2> QED BY <2>1 DEF SchedulerAlive
<1> QED BY <1>6, <1>7, <1>8, <1>9, <1>10, <1>11, <1>12, <1>13 DEF IInv

LEMMA CrashKeeps ==
  ASSUME IInv, Recorded, Crash
  PROVE  IInv'
<1>i. Types /\ Shapes /\ AllOpened /\ AllProper /\ AllMarked /\ AllOnce
  BY DEF IInv
<1>0. Restarted(mem', loaded', timer', proc', started')
  BY DEF Crash, Restarted
<1>1. /\ disk' = disk /\ now' = now /\ created' = created /\ touched' = touched
      /\ started' = 1 /\ events' \in 0..MaxEvents
  BY <1>i, CronAssumption DEF Crash, Event, Types
<1>2. Types'
  BY <1>i, <1>0, <1>1, RestartedIs, RecordedIs DEF Types
<1>n. 1 \in Services /\ {"boot", "manual"} \subseteq Roles /\ started \in Nat \ {0}
  BY <1>i, CronAssumption DEF Services, Roles, Types
<1> HIDE DEF Services, Roles, JobRecord, ProcType, None
<1>3. Shapes'
  BY <1>0, RestartedIs DEF Shapes
<1>4. AllOpened'
  BY <1>0, <1>1, RestartedIs DEF AllOpened, Opened
<1>5. AllProper'
  <2>1. \A s \in Services, j \in Jobs : mem'[s][j] = Gone
    BY <1>0, RestartedIs
  <2> QED BY <1>i, <1>1, <2>1, GoneIs DEF AllProper, Proper
<1>6. AllMarked'
  BY <1>0, RestartedIs DEF AllMarked, Marked
<1>7. Single'
  BY <1>0, <1>n, RestartedIs DEF Single
<1>8. SchedulerAlive'
  <2>1. proc'[1]["boot"].pc = "clear"
    BY <1>0, <1>n, RestartedIs
  <2> QED BY <1>1, <2>1 DEF SchedulerAlive
<1>9. AllOnce'
  <2>1. ASSUME NEW j \in Jobs, j \notin unmarked', j \notin touched'
        PROVE  IF Kind[j] = "at" THEN OnceOnly(j)' ELSE runs'[j] = 0
    <3>0. j \notin unmarked /\ j \notin touched /\ started = 1
      BY <1>i, <1>1, <1>n, <2>1, RecordedIs DEF AllOnce
    <3>1. IF Kind[j] = "at" THEN OnceOnly(j) ELSE runs[j] = 0
      BY <1>i, <3>0 DEF AllOnce
    <3>2. runs'[j] = runs[j]
      <4>1. \A s \in Services, k \in Roles : proc'[s][k].job # j
        BY <1>0, RestartedIs, CronAssumption
      <4> QED BY <1>i, <4>1, RecordedIs
    <3>3. CASE Kind[j] = "at"
      <4>0. OnceOnly(j) /\ Marked(j)
        BY <1>i, <3>0, <3>1, <3>3 DEF AllMarked
      <4>1. \A k \in Roles : j \notin Todo(proc'[1][k])
        BY <1>0, <1>n, RestartedIs
      <4>2. ASSUME NEW k \in Roles, j \in Begun(proc[1][k]) PROVE FALSE
        <5>1. Holds(proc[1][k], j) /\ proc[1][k].pc = "work"
          BY <1>i, <1>n, <4>2, HoldsIs DEF Shapes
        <5>2. disk[j].running # None
          BY <1>n, <4>0, <5>1 DEF Marked
        <5>3. loaded[1]
          BY <1>i, <1>n, <5>1 DEF AllOpened, Opened
        <5>4. ~loaded'[1]
          BY <1>0, <1>n, RestartedIs
        <5> QED BY <1>i, <1>n, <2>1, <5>2, <5>3, <5>4, RecordedIs
      <4> QED BY <1>1, <3>2, <3>3, <4>0, <4>1, <4>2 DEF OnceOnly
    <3>4. CASE Kind[j] # "at"
      BY <3>1, <3>2, <3>4
    <3> QED BY <3>3, <3>4
  <2>2. \A s \in Services, j \in Jobs : ~Holds(proc'[s]["manual"], j)
    BY <1>0, <1>n, RestartedIs
  <2> QED BY <1>1, <2>1, <2>2 DEF AllOnce
<1> QED BY <1>2, <1>3, <1>4, <1>5, <1>6, <1>7, <1>8, <1>9 DEF IInv


LEMMA ReloadKeeps ==
  ASSUME IInv, Recorded, Reload
  PROVE  IInv'
<1>i. Types /\ Shapes /\ AllOpened /\ AllProper /\ AllMarked /\ AllOnce
  BY DEF IInv
<1>b. PICK b : b = [Free EXCEPT !.pc = "clear"]
  OBVIOUS
<1>1. /\ disk' = disk /\ mem' = mem /\ loaded' = loaded /\ now' = now /\ created' = created
      /\ touched' = Jobs /\ started < MaxServices /\ started' = started + 1
      /\ timer' = [timer EXCEPT ![started] = None]
      /\ proc' = [proc EXCEPT ![started + 1]["boot"] = b]
      /\ events' \in 0..MaxEvents
  BY <1>i, <1>b, CronAssumption DEF Reload, Event, Types, SetProc, store
<1>n. /\ started \in Services /\ started + 1 \in Services /\ started \in Nat \ {0}
      /\ {"boot", "manual", "tick"} \subseteq Roles /\ None \in None..(Horizon + Clamp)
      /\ 1 \in Services /\ Services \subseteq Nat \ {0}
  BY <1>i, <1>1, CronAssumption, SMTT(30) DEF Services, Roles, Types, None
<1>2. /\ b \in ProcType /\ b.pc = "clear" /\ b.job = "none" /\ b.todo = <<>> /\ b.done = {}
      /\ Shape("boot", b)
      /\ \A j \in Jobs : ~Holds(b, j)
  BY <1>b, <1>n, FreeIs, EmptyShape DEF Pcs
<1> HIDE DEF Services, Roles, JobRecord, ProcType, None
<1>3. \A s \in Services, k \in Roles :
        proc'[s][k] = IF s = started + 1 /\ k = "boot" THEN b ELSE proc[s][k]
  BY <1>i, <1>1, <1>n DEF Types
<1>4. ~loaded[started + 1]
  <2>1. ~(started + 1 <= started)
    BY <1>n
  <2> QED BY <1>i, <1>n, <2>1 DEF AllOpened, Opened
<1>5. Types'
  <2>1. proc' \in [Services -> [Roles -> ProcType]]
    BY <1>i, <1>1, <1>n, <1>2 DEF Types
  <2>2. timer' \in [Services -> None..(Horizon + Clamp)]
    BY <1>i, <1>1, <1>n DEF Types
  <2>3. unmarked' \subseteq Jobs /\ runs' \in [Jobs -> 0..2]
    BY <1>i, RecordedIs
  <2> QED BY <1>i, <1>1, <1>n, <2>1, <2>2, <2>3 DEF Types
<1>6. Shapes'
  BY <1>i, <1>2, <1>3 DEF Shapes
<1>7. AllOpened'
  <2> SUFFICES ASSUME NEW s \in Services PROVE Opened(s)'
    BY DEF AllOpened
  <2>0. Opened(s) /\ s \in Nat \ {0}
    BY <1>i, <1>n DEF AllOpened
  <2>1. loaded'[s] = loaded[s] /\ timer'[s] = IF s = started THEN None ELSE timer[s]
    BY <1>i, <1>1 DEF Types
  <2>2. CASE s = started + 1
    <3>1. ~loaded[s] /\ timer[s] = None
      BY <1>4, <2>0, <2>2 DEF Opened
    <3>2. proc'[s]["boot"].pc = "clear"
      BY <1>2, <1>3, <1>n, <2>2
    <3>3. ASSUME NEW k \in Roles
          PROVE proc'[s][k].pc = "idle" \/ (k = "boot" /\ proc'[s][k].pc = "clear")
      BY <1>2, <1>3, <2>0, <2>2, <3>1 DEF Opened
    <3> QED BY <1>1, <1>n, <2>1, <2>2, <3>1, <3>2, <3>3 DEF Opened
  <2>3. CASE s # started + 1
    <3>1. \A k \in Roles : proc'[s][k] = proc[s][k]
      BY <1>3, <2>3
    <3>2. s <= started' <=> s <= started
      BY <1>1, <1>n, <2>0, <2>3
    <3>3. s > started' <=> s > started
      BY <1>1, <1>n, <2>0, <2>3
    <3> QED BY <1>n, <2>0, <2>1, <3>1, <3>2, <3>3 DEF Opened
  <2> QED BY <2>2, <2>3
<1>8. AllProper'
  BY <1>i, <1>1 DEF AllProper
<1>h. \A s \in Services, k \in Roles, j \in Jobs : Holds(proc'[s][k], j) => Holds(proc[s][k], j)
  BY <1>2, <1>3
<1>9. AllMarked'
  <2> SUFFICES ASSUME NEW j \in Jobs, j \notin unmarked', NEW s \in Services, NEW k \in Roles,
                      Holds(proc'[s][k], j)
               PROVE  /\ disk'[j].running # None /\ mem'[s][j].running # None
                      /\ \A l \in Roles : Holds(proc'[s][l], j) => l = k
    BY DEF AllMarked, Marked
  <2>1. Marked(j)
    BY <1>i, RecordedIs DEF AllMarked
  <2> QED BY <1>1, <1>h, <2>1 DEF Marked
<1>10. Single'
  BY <1>1, <1>n DEF Single
<1>11. AllOnce'
  <2>1. touched' = Jobs
    BY <1>1
  <2> QED BY <2>1 DEF AllOnce
<1>12. SchedulerAlive'
  <2>1. proc'[started']["boot"].pc = "clear"
    BY <1>1, <1>2, <1>3, <1>n
  <2> QED BY <2>1 DEF SchedulerAlive
<1> QED BY <1>5, <1>6, <1>7, <1>8, <1>9, <1>10, <1>11, <1>12 DEF IInv


-----------------------------------------------------------------------------
(***************************************************************************)
(* The parts of a step: what is written, who moves, when the timer fires.  *)
(***************************************************************************)

\* The role k of s turns to q, and the others stay.
Turned(s, k, q) ==
  /\ Moves(s, k) /\ proc'[s][k] = q
  /\ \A l \in Roles : l # k => proc'[s][l].pc = proc[s][l].pc

LEMMA SetProcIs ==
  ASSUME Types, NEW s \in Services, NEW k \in Roles, NEW q \in ProcType, Shape(k, q),
         SetProc(s, k, q)
  PROVE  Turned(s, k, q)
<1> HIDE DEF Services, Roles, ProcType
<1>1. \A t \in Services, l \in Roles :
        proc'[t][l] = IF t = s /\ l = k THEN q ELSE proc[t][l]
  BY DEF Types, SetProc
<1>2. proc' \in [Services -> [Roles -> ProcType]]
  BY DEF Types, SetProc
<1> QED BY <1>1, <1>2 DEF Turned, Moves, Same

LEMMA SetProcReloadedIs ==
  ASSUME Types, NEW s \in Services, NEW k \in Roles, NEW q \in ProcType, Shape(k, q),
         SetProcReloaded(s, k, q)
  PROVE  Turned(s, k, q)
<1>0. "tick" \in Roles
  BY DEF Roles
<1> PICK v : v = proc[s]["tick"]
  OBVIOUS
<1> PICK w : w = [v EXCEPT !.live = FALSE]
  OBVIOUS
<1>1. w \in ProcType /\ Same(v, w)
  <2>1. v \in ProcType
    BY <1>0 DEF Types
  <2> HIDE DEF Pcs, None, Result
  <2> QED BY <2>1 DEF ProcType, Same
<1> HIDE DEF Services, Roles, ProcType
<1>2. proc' = [proc EXCEPT ![s] = [@ EXCEPT !["tick"] = w, ![k] = q]]
  BY DEF SetProcReloaded
<1>3. \A t \in Services, l \in Roles :
        proc'[t][l] = IF t = s /\ l = k THEN q ELSE IF t = s /\ l = "tick" THEN w ELSE proc[t][l]
  BY <1>0, <1>2 DEF Types
<1>4. proc' \in [Services -> [Roles -> ProcType]]
  BY <1>0, <1>1, <1>2 DEF Types
<1> QED BY <1>1, <1>3, <1>4 DEF Turned, Moves, Same

LEMMA ProcStays ==
  ASSUME Types, Shapes, NEW s \in Services, NEW k \in Roles, proc' = proc
  PROVE  Turned(s, k, proc[s][k])
<1> HIDE DEF Services, Roles, ProcType
<1> QED BY DEF Types, Shapes, Turned, Moves, Same

\* The file becomes d and the memory of s m.
Stored(s, d, m) ==
  /\ disk' = d /\ d \in [Jobs -> JobRecord] /\ m \in [Jobs -> JobRecord]
  /\ mem' \in [Services -> [Jobs -> JobRecord]] /\ mem'[s] = m
  /\ \A t \in Services \ {s} : mem'[t] = mem[t]
  /\ loaded' = [loaded EXCEPT ![s] = TRUE]

LEMMA PersistIs ==
  ASSUME Types, NEW s \in Services, NEW m \in [Jobs -> JobRecord], Persist(s, m)
  PROVE  Stored(s, m, m)
<1> HIDE DEF Services, JobRecord
<1> QED BY DEF Types, Persist, Stored

LEMMA PersistChangeIs ==
  ASSUME Types, NEW s \in Services, NEW m \in [Jobs -> JobRecord], NEW n \in [Jobs -> JobRecord],
         PersistChange(s, m, n)
  PROVE  Stored(s, disk', n) /\ disk' = IF n = m THEN disk ELSE n
<1> HIDE DEF Services, JobRecord
<1> QED BY DEF Types, PersistChange, Stored

LEMMA StoreStays ==
  ASSUME Types, NEW s \in Services, loaded[s], disk' = disk, mem' = mem, loaded' = loaded
  PROVE  Stored(s, disk, mem[s])
<1> HIDE DEF Services, JobRecord
<1>1. loaded' = [loaded EXCEPT ![s] = TRUE]
  BY DEF Types
<1> QED BY <1>1 DEF Types, Stored

\* Only the timer of s is set.
Timed(s) ==
  /\ timer' \in [Services -> None..(Horizon + Clamp)]
  /\ \A t \in Services \ {s} : timer'[t] = timer[t]

\* nextWakeAtMs finds something when a job that is enabled has a next run.
LEMMA WakeIs ==
  ASSUME NEW m \in [Jobs -> JobRecord]
  PROVE  /\ NextWake(m) \subseteq Nat
         /\ NextWake(m) # {} <=> \E j \in Jobs : m[j].enabled /\ m[j].next # None
<1>1. \A j \in Jobs : m[j].next \in Times
  BY GoneIs
<1>2. NextWake(m) \subseteq Nat
  BY <1>1 DEF NextWake, Times
<1>3. NextWake(m) # {} <=> \E j \in Jobs : m[j].enabled /\ m[j].next # None
  BY DEF NextWake
<1> QED BY <1>2, <1>3

LEMMA WakeFrom ==
  ASSUME NEW m \in [Jobs -> JobRecord], NEW n \in [Jobs -> JobRecord],
         \A j \in Jobs : n[j].enabled /\ n[j].next # None => m[j].enabled /\ m[j].next # None
  PROVE  NextWake(n) # {} => NextWake(m) # {}
<1>1. NextWake(m) # {} <=> \E j \in Jobs : m[j].enabled /\ m[j].next # None
  BY WakeIs
<1>2. NextWake(n) # {} <=> \E j \in Jobs : n[j].enabled /\ n[j].next # None
  BY WakeIs
<1> QED BY <1>1, <1>2

\* armTimer.
LEMMA ArmIs ==
  ASSUME Types, NEW s \in Services, NEW m \in [Jobs -> JobRecord], Arm(s, m)
  PROVE  Timed(s) /\ (NextWake(m) # {} => timer'[s] \in 0..(now + Clamp))
<1>0. now \in 0..Horizon /\ Horizon \in Nat /\ Clamp \in Nat /\ None = -1
  BY CronAssumption DEF Types, None
<1> PICK a : a = Armed(m)
  OBVIOUS
<1> PICK w : w = NextWake(m)
  OBVIOUS
<1>1. CASE w = {}
  <2>1. a = None
    BY <1>1 DEF Armed
  <2> QED BY <1>0, <1>1, <2>1 DEF Arm, Timed, Types
<1>2. CASE w # {}
  <2>1. w \in SUBSET Nat
    BY WakeIs
  <2>2. PICK x \in Nat : x = Min(w)
    BY <1>2, <2>1, LeastOf
  <2>3. PICK y \in Nat : y = Max({now, x})
    BY <1>0, MaxIs
  <2>4. a = Min({now + Clamp, y})
    BY <1>2, <2>2, <2>3 DEF Armed
  <2>5. a \in 0..(now + Clamp)
    BY <1>0, <2>4, MinIs
  <2>6. a \in None..(Horizon + Clamp)
    BY <1>0, <2>5
  <2> HIDE DEF Services, None
  <2>7. timer' = [timer EXCEPT ![s] = a]
    BY DEF Arm
  <2> QED BY <2>5, <2>6, <2>7 DEF Timed, Types
<1> QED BY <1>1, <1>2

LEMMA TimerStays ==
  ASSUME Types, NEW s \in Services, timer' = timer
  PROVE  Timed(s) /\ timer'[s] = timer[s]
BY DEF Types, Timed

\* A service whose start has begun has the file in memory, as it is when alone.
Open(s) ==
  /\ loaded[s] /\ s <= started /\ proc[s]["boot"].pc # "clear" /\ Cached(s) = mem[s]
  /\ started = 1 => s = 1 /\ \A j \in Jobs : Alike(mem[s][j], disk[j])

LEMMA OpenIs ==
  ASSUME IInv, NEW s \in Services,
         \/ \E k \in Roles : proc[s][k].pc \notin {"idle", "clear"}
         \/ timer[s] # None
         \/ Serves(s)
  PROVE  Open(s)
<1>i. Types /\ AllOpened /\ Single /\ Opened(s) /\ s \in Nat \ {0} /\ started \in Nat
  BY CronAssumption, SMTT(30) DEF IInv, AllOpened, Services, Types
<1>1. loaded[s]
  <2>1. s <= s
    BY <1>i
  <2> HIDE DEF None, Services, Roles
  <2> QED BY <1>i, <2>1 DEF Opened, Serves
<1>2. s <= started /\ proc[s]["boot"].pc # "clear"
  BY <1>i, <1>1 DEF Opened
<1>3. started = 1 => s = 1
  BY <1>i, <1>2
<1> QED BY <1>i, <1>1, <1>2, <1>3 DEF Open, Single, Cached

\* The timer after a step of s.
LEMMA AliveIs ==
  ASSUME Types, SchedulerAlive, NEW s \in Services, started' = started, now' = now,
         \/ NextWake(mem'[s]) # {} => timer'[s] \in 0..(now + Clamp)
         \/ proc'[s]["boot"].pc # "idle"
         \/ proc'[s]["tick"].pc = "finish"
         \/ /\ timer'[s] = timer[s]
            /\ started = 1 \/ proc'[s]["tick"].pc = "idle" =>
                 (NextWake(mem'[s]) # {} => NextWake(mem[s]) # {})
            /\ proc[s]["boot"].pc = "idle" /\ proc[s]["tick"].pc # "finish"
            /\ proc[s]["tick"].pc = proc'[s]["tick"].pc \/ proc'[s]["tick"].pc # "idle"
  PROVE  s = started => SchedulerAlive'
BY DEF SchedulerAlive


-----------------------------------------------------------------------------
(***************************************************************************)
(* What happens to one job: nothing is taken or given back, or it is taken *)
(* and marked, or its result is applied.                                   *)
(***************************************************************************)

\* The records of job j: proper, in the file and in memory the same but for the marker,
\* which comes from one there was, and never enabled by a step.
RecordStep(s, k, j) ==
  /\ Proper(created', j, disk'[j]) /\ Proper(created', j, mem'[s][j])
  /\ started = 1 => Alike(mem'[s][j], disk'[j])
  /\ disk'[j].running # None /\ mem[s][j].running # None => mem'[s][j].running # None
  /\ started = 1 /\ j \notin touched' /\ j \in created /\ disk'[j].enabled => disk[j].enabled
  /\ SkipStep(s, k, j)

LEMMA QuietStep ==
  ASSUME NEW s, NEW k, NEW j,
         RecordStep(s, k, j),
         started = 1 /\ MarkerAfter(s, j) =>
           Holds(proc'[s][k], j) \/ (loaded[s] /\ Marker(s, j)),
         Holds(proc'[s][k], j) <=> Holds(proc[s][k], j),
         proc[s][k].job # j /\ proc'[s][k].job = j => j \in Todo(proc[s][k]),
         j \in Todo(proc'[s][k]) => j \in Todo(proc[s][k]),
         j \in Begun(proc[s][k]) => j \in Begun(proc'[s][k])
  PROVE  JobStep(s, k, j)
<1>1. MarkStep(s, k, j)
  BY DEF MarkStep, RecordStep
<1>2. OnceStep(s, k, j)
  BY DEF OnceStep, RecordStep
<1> QED BY <1>1, <1>2 DEF JobStep, RecordStep

LEMMA TakeStep ==
  ASSUME NEW s, NEW k, NEW j,
         RecordStep(s, k, j),
         started = 1 /\ MarkerAfter(s, j) =>
           Holds(proc'[s][k], j) \/ (loaded[s] /\ Marker(s, j)),
         ~Holds(proc[s][k], j) /\ j \notin Begun(proc[s][k]),
         Holds(proc'[s][k], j) /\ j \notin unmarked =>
           /\ disk'[j].running # None /\ mem'[s][j].running # None
           /\ \A l \in Roles : ~Holds(proc[s][l], j),
         k = "manual" /\ Holds(proc'[s][k], j) => j \in touched',
         j \notin touched' => proc'[s][k].job # j,
         started = 1 /\ j \in Todo(proc'[s][k]) => disk[j].enabled
  PROVE  JobStep(s, k, j)
<1>1. MarkStep(s, k, j)
  BY DEF MarkStep, RecordStep
<1>2. OnceStep(s, k, j)
  BY DEF OnceStep, RecordStep
<1> QED BY <1>1, <1>2 DEF JobStep, RecordStep

LEMMA ApplyStep ==
  ASSUME NEW s, NEW k, NEW j,
         RecordStep(s, k, j),
         ~Holds(proc'[s][k], j) /\ j \notin Todo(proc'[s][k]) /\ proc'[s][k].job # j,
         started = 1 /\ MarkerAfter(s, j) => loaded[s] /\ ~Holds(proc[s][k], j) /\ Marker(s, j),
         started = 1 /\ j \notin touched' /\ Kind[j] = "at" /\ j \in Begun(proc[s][k]) =>
           ~disk'[j].enabled
  PROVE  JobStep(s, k, j)
<1>1. MarkStep(s, k, j)
  BY DEF MarkStep, RecordStep
<1>2. OnceStep(s, k, j)
  BY DEF OnceStep, RecordStep
<1> QED BY <1>1, <1>2 DEF JobStep, RecordStep

-----------------------------------------------------------------------------
(***************************************************************************)
(* The steps of a start, and of the timer.                                 *)
(***************************************************************************)

\* A role turned to nothing, in the place pc.
LEMMA TurnedFree ==
  ASSUME Types, NEW s \in Services, NEW k \in Roles, NEW pc \in Pcs, NEW q,
         \/ q = [Free EXCEPT !.pc = pc] \/ (q = Free /\ pc = "idle")
         \/ \E skip \in SUBSET Jobs : q = EmptyAt(pc, skip),
         k = "boot" => pc \notin {"collect", "finish"},
         k = "tick" => pc \in {"idle", "collect", "work", "finish"},
         k = "manual" => pc \in {"idle", "work"},
         SetProc(s, k, q) \/ SetProcReloaded(s, k, q)
  PROVE  /\ Turned(s, k, q) /\ q.pc = pc /\ q.done = {}
         /\ \A j \in Jobs : ~Holds(q, j) /\ j \notin Todo(q) /\ j \notin Begun(q) /\ q.job # j
<1>1. /\ q \in ProcType /\ q.pc = pc /\ q.job = "none" /\ q.todo = <<>> /\ q.done = {}
      /\ \A j \in Jobs : ~Holds(q, j) /\ j \notin Todo(q) /\ j \notin Begun(q)
  <2>1. CASE \/ q = [Free EXCEPT !.pc = pc] \/ (q = Free /\ pc = "idle")
    BY <2>1, FreeIs
  <2>2. CASE \E skip \in SUBSET Jobs : q = EmptyAt(pc, skip)
    <3>1. PICK skip \in SUBSET Jobs : q = EmptyAt(pc, skip)
      BY <2>2
    <3> QED BY <3>1, EmptyIs
  <2> QED BY <2>1, <2>2
<1>2. Shape(k, q)
  BY <1>1, EmptyShape
<1>3. Turned(s, k, q)
  BY <1>1, <1>2, SetProcIs, SetProcReloadedIs
<1>4. \A j \in Jobs : j # "none"
  BY CronAssumption
<1> QED BY <1>1, <1>3, <1>4

\* What is not at work, in a service as it is.
LEMMA RestsIs ==
  ASSUME Shapes, NEW s \in Services, NEW k \in Roles, proc[s][k].pc # "work", NEW j \in Jobs
  PROVE  /\ ~Holds(proc[s][k], j) /\ j \notin Todo(proc[s][k]) /\ j \notin Begun(proc[s][k])
         /\ proc[s][k].job # j /\ proc[s][k].done = {}
<1>1. Shape(k, proc[s][k])
  BY DEF Shapes
<1>2. proc[s][k].job # j /\ proc[s][k].done = {}
  BY <1>1, CronAssumption DEF Shape
<1> QED BY <1>1, <1>2, HoldsIs

\* What is gone has no marker to lose.
LEMMA GoneStays ==
  ASSUME NEW n, n = WithRunning(Gone, None)
  PROVE  n = Gone
<1> HIDE DEF None
<1>1. n = [present |-> FALSE, enabled |-> FALSE, next |-> None, running |-> None,
           last |-> None, status |-> "none"]
  BY DEF WithRunning, Gone
<1> QED BY <1>1 DEF Gone

LEMMA BootClearsActs ==
  ASSUME IInv, NEW s \in Services, BootClears(s)
  PROVE  Act(s, "boot")
<1>i. Types /\ Shapes /\ AllOpened /\ AllProper /\ Opened(s) /\ SchedulerAlive
  BY DEF IInv, AllOpened
<1>r. "boot" \in Roles /\ s \in Nat \ {0} /\ started \in Nat /\ None \in Times
  BY <1>i, CronAssumption, GoneIs DEF Roles, Services, Types
<1>b. proc[s]["boot"].pc = "clear"
  BY DEF BootClears
<1>0. ~loaded[s] /\ s <= started
  <2>1. ~loaded[s]
    BY <1>i, <1>b DEF Opened
  <2>2. ~(s > started)
    BY <1>i, <1>b, <2>1 DEF Opened
  <2> QED BY <1>r, <2>1, <2>2
<1>m. PICK m : m = [j \in Jobs |-> WithRunning(disk[j], None)]
  OBVIOUS
<1>1. ASSUME NEW j \in Jobs
      PROVE  m[j] \in JobRecord /\ Alike(m[j], disk[j]) /\ m[j].running = None
             /\ Proper(created, j, m[j])
  <2>1. disk[j] \in JobRecord
    BY <1>i DEF Types
  <2>2. m[j] = WithRunning(disk[j], None)
    BY <1>m
  <2>3. m[j] \in JobRecord /\ Alike(m[j], disk[j]) /\ m[j].running = None
    BY <1>r, <2>1, <2>2, RunningSet
  <2>4. Proper(created, j, m[j])
    <3>1. Proper(created, j, disk[j])
      BY <1>i DEF AllProper
    <3>2. CASE disk[j] = Gone
      <4>1. m[j] = Gone
        BY <2>2, <3>2, GoneStays
      <4> QED BY <3>1, <3>2, <4>1
    <3>3. CASE disk[j] # Gone
      BY <2>3, <3>1, <3>3 DEF Proper, Alike
    <3> QED BY <3>2, <3>3
  <2> QED BY <2>3, <2>4
<1>2. m \in [Jobs -> JobRecord]
  BY <1>m, <1>1
<1>3. Persist(s, m)
  BY <1>0, <1>m DEF BootClears, Cached, WithRunning
<1>4. Stored(s, m, m)
  BY <1>i, <1>2, <1>3, PersistIs
<1>5. Timed(s) /\ started' = started /\ now' = now /\ events' = events /\ created' = created
      /\ touched' = touched
  BY <1>i, TimerStays DEF BootClears
<1>w. Writes(s)
  BY <1>i, <1>0, <1>4, <1>5 DEF Writes, Stored, Timed, Types
<1>q. PICK q : /\ \E skip \in SUBSET Jobs : q = EmptyAt("missed", skip)
               /\ SetProc(s, "boot", q)
  BY DEF BootClears, EmptyAt
<1>7. /\ Turned(s, "boot", q) /\ q.pc = "missed" /\ q.done = {}
      /\ \A j \in Jobs : ~Holds(q, j) /\ j \notin Todo(q) /\ j \notin Begun(q) /\ q.job # j
  BY <1>i, <1>r, <1>q, TurnedFree DEF Pcs
<1>8. proc'[s]["boot"] = q /\ Moves(s, "boot")
  BY <1>7 DEF Turned
<1>9. s = started => SchedulerAlive'
  BY <1>i, <1>5, <1>7, <1>8, AliveIs
<1>10. ASSUME NEW j \in Jobs PROVE JobStep(s, "boot", j)
  <2>1. disk'[j] = m[j] /\ mem'[s][j] = m[j]
    BY <1>4 DEF Stored
  <2>2. RecordStep(s, "boot", j)
    BY <1>1, <1>5, <2>1 DEF RecordStep, SkipStep, Alike
  <2>3. ~MarkerAfter(s, j)
    BY <1>1, <2>1 DEF MarkerAfter
  <2> QED BY <1>i, <1>r, <1>b, <1>7, <1>8, <2>2, <2>3, RestsIs, QuietStep
<1> QED BY <1>w, <1>7, <1>8, <1>9, <1>10 DEF Act


\* The end of a start computes all next runs anew.
LEMMA BootEndsActs ==
  ASSUME IInv, NEW s \in Services, BootEnds(s)
  PROVE  Act(s, "boot")
<1>i. Types /\ Shapes /\ AllProper /\ SchedulerAlive
  BY DEF IInv
<1>r. "boot" \in Roles /\ now \in Nat
  BY <1>i, CronAssumption DEF Roles, Types
<1>b. proc[s]["boot"].pc = "end"
  BY DEF BootEnds
<1>o. Open(s)
  BY <1>r, <1>b, OpenIs
<1>m. PICK m : m = Recompute(disk, now)
  OBVIOUS
<1>1. Upkept(created, disk, m)
  BY <1>i, <1>r, <1>m, RecomputeIs DEF Types, AllProper
<1>2. m \in [Jobs -> JobRecord]
  BY <1>1 DEF Upkept
<1>3. Stored(s, m, m) /\ mem'[s] = m
  BY <1>i, <1>2, <1>m, PersistIs DEF BootEnds, Stored
<1>4. Timed(s) /\ (NextWake(m) # {} => timer'[s] \in 0..(now + Clamp))
  BY <1>i, <1>2, <1>m, ArmIs DEF BootEnds
<1>5. started' = started /\ now' = now /\ events' = events /\ created' = created
      /\ touched' = touched
  BY DEF BootEnds
<1>w. Writes(s)
  BY <1>i, <1>o, <1>3, <1>4, <1>5 DEF Writes, Stored, Timed, Types, Open
<1>7. /\ Turned(s, "boot", Free) /\ Free.pc = "idle"
      /\ \A j \in Jobs : ~Holds(Free, j) /\ j \notin Todo(Free) /\ j \notin Begun(Free) /\ Free.job # j
  <2>1. SetProcReloaded(s, "boot", Free)
    BY DEF BootEnds
  <2>q. PICK q : q = Free
    OBVIOUS
  <2> QED BY <1>i, <1>r, <2>1, <2>q, TurnedFree DEF Pcs
<1>8. proc'[s]["boot"] = Free /\ Moves(s, "boot")
  BY <1>7 DEF Turned
<1>9. s = started => SchedulerAlive'
  BY <1>i, <1>3, <1>4, <1>5, AliveIs
<1>10. ASSUME NEW j \in Jobs PROVE JobStep(s, "boot", j)
  <2>1. disk'[j] = m[j] /\ mem'[s][j] = m[j]
    BY <1>3 DEF Stored
  <2>2. Kept(disk[j], m[j]) /\ Proper(created, j, m[j])
    BY <1>1 DEF Upkept
  <2>3. RecordStep(s, "boot", j)
    <3> HIDE DEF BootEnds
    <3> QED BY <1>5, <2>1, <2>2 DEF RecordStep, SkipStep, Recomputes, Alike, Kept
  <2>4. MarkerAfter(s, j) => loaded[s] /\ Marker(s, j)
    BY <1>o, <2>1, <2>2 DEF MarkerAfter, Marker, Open, Kept
  <2> QED BY <1>i, <1>r, <1>b, <1>7, <1>8, <2>3, <2>4, RestsIs, QuietStep
<1> QED BY <1>w, <1>7, <1>8, <1>9, <1>10 DEF Act

\* Nothing is written: each record stays as it is.
LEMMA NoWriteStep ==
  ASSUME IInv, NEW s \in Services, Open(s), disk' = disk, mem' = mem, created' = created,
         NEW k, NEW j \in Jobs
  PROVE  RecordStep(s, k, j) /\ (MarkerAfter(s, j) <=> Marker(s, j))
<1>1. Proper(created, j, disk[j]) /\ Proper(created, j, mem[s][j])
  BY DEF IInv, AllProper
<1>2. started = 1 => Alike(mem[s][j], disk[j])
  BY DEF Open
<1> QED BY <1>1, <1>2 DEF RecordStep, SkipStep, MarkerAfter, Marker

\* onTimer begins, or looks again later.
LEMMA TimerFiresActs ==
  ASSUME IInv, NEW s \in Services, TimerFires(s)
  PROVE  Act(s, "tick")
<1>i. Types /\ Shapes /\ SchedulerAlive
  BY DEF IInv
<1>r. "tick" \in Roles /\ now \in 0..Horizon /\ Horizon \in Nat /\ Clamp \in Nat
  BY <1>i, CronAssumption DEF Roles, Types
<1>o. Open(s)
  BY OpenIs DEF TimerFires, TimerDue
<1>1. disk' = disk /\ mem' = mem /\ loaded' = loaded /\ started' = started /\ now' = now
      /\ events' = events /\ created' = created /\ touched' = touched
      /\ timer' = [timer EXCEPT ![s] = now + Clamp]
  BY DEF TimerFires, store
<1>2. Timed(s) /\ timer'[s] \in 0..(now + Clamp)
  <2>1. now + Clamp \in 0..(now + Clamp) /\ now + Clamp \in None..(Horizon + Clamp)
    BY <1>r DEF None
  <2> HIDE DEF Services, None
  <2> QED BY <1>i, <1>1, <2>1 DEF Timed, Types
<1>3. Stored(s, disk, mem[s])
  BY <1>i, <1>o, <1>1, StoreStays DEF Open
<1>w. Writes(s)
  BY <1>i, <1>o, <1>1, <1>2, <1>3 DEF Writes, Stored, Timed, Types, Open
<1>4. ASSUME NEW j \in Jobs
      PROVE  /\ Holds(proc'[s]["tick"], j) <=> Holds(proc[s]["tick"], j)
             /\ Todo(proc'[s]["tick"]) \cap {j} = Todo(proc[s]["tick"]) \cap {j}
             /\ j \in Begun(proc[s]["tick"]) => j \in Begun(proc'[s]["tick"])
             /\ proc'[s]["tick"].job = j => proc[s]["tick"].job = j
  <2>1. CASE proc[s]["tick"].pc # "idle"
    BY <2>1 DEF TimerFires
  <2>2. CASE proc[s]["tick"].pc = "idle"
    <3>q. PICK q : q = [Free EXCEPT !.pc = "collect"]
      OBVIOUS
    <3>1. SetProc(s, "tick", q)
      BY <2>2, <3>q DEF TimerFires
    <3>2. Turned(s, "tick", q)
      BY <1>i, <1>r, <3>q, <3>1, TurnedFree DEF Pcs
    <3>4. "collect" \in Pcs
      BY DEF Pcs
    <3>5. q.job = "none" /\ ~Holds(q, j) /\ j \notin Todo(q) /\ j \notin Begun(q)
      BY <3>q, <3>4, FreeIs
    <3>3. /\ ~Holds(proc[s]["tick"], j) /\ j \notin Todo(proc[s]["tick"])
          /\ j \notin Begun(proc[s]["tick"])
      BY <1>i, <1>r, <2>2, RestsIs
    <3> QED BY <3>2, <3>3, <3>5, CronAssumption DEF Turned
  <2> QED BY <2>1, <2>2
<1>5. \E q : Turned(s, "tick", q)
  <2>1. CASE proc[s]["tick"].pc # "idle"
    BY <1>i, <1>r, <2>1, ProcStays DEF TimerFires
  <2>2. CASE proc[s]["tick"].pc = "idle"
    <3>q. PICK q : q = [Free EXCEPT !.pc = "collect"]
      OBVIOUS
    <3>1. SetProc(s, "tick", q)
      BY <2>2, <3>q DEF TimerFires
    <3>2. Turned(s, "tick", q)
      BY <1>i, <1>r, <3>q, <3>1, TurnedFree DEF Pcs
    <3> QED BY <3>2
  <2> QED BY <2>1, <2>2
<1>8. Moves(s, "tick") /\ proc'[s]["boot"].pc = proc[s]["boot"].pc
  BY <1>5 DEF Turned, Roles
<1>9. s = started => SchedulerAlive'
  BY <1>i, <1>1, <1>2, AliveIs
<1>10. ASSUME NEW j \in Jobs PROVE JobStep(s, "tick", j)
  <2>1. RecordStep(s, "tick", j) /\ (MarkerAfter(s, j) <=> Marker(s, j)) /\ loaded[s]
    BY <1>o, <1>1, NoWriteStep DEF Open
  <2> QED BY <1>4, <2>1, QuietStep
<1> QED BY <1>w, <1>o, <1>8, <1>9, <1>10 DEF Act, Open

\* onTimer ends.
LEMMA TickEndsActs ==
  ASSUME IInv, NEW s \in Services, TickEnds(s)
  PROVE  Act(s, "tick")
<1>i. Types /\ Shapes /\ SchedulerAlive
  BY DEF IInv
<1>r. {"tick", "boot"} \subseteq Roles
  BY DEF Roles
<1>b. proc[s]["tick"].pc = "finish"
  BY DEF TickEnds
<1>o. Open(s)
  BY <1>r, <1>b, OpenIs
<1>1. disk' = disk /\ mem' = mem /\ loaded' = loaded /\ started' = started /\ now' = now
      /\ events' = events /\ created' = created /\ touched' = touched
  BY DEF TickEnds, store
<1>2. Timed(s) /\ (NextWake(mem[s]) # {} => timer'[s] \in 0..(now + Clamp))
  <2>1. mem[s] \in [Jobs -> JobRecord]
    BY <1>i DEF Types
  <2> QED BY <1>i, <2>1, ArmIs DEF TickEnds
<1>3. Stored(s, disk, mem[s])
  BY <1>i, <1>o, <1>1, StoreStays DEF Open
<1>w. Writes(s)
  BY <1>i, <1>o, <1>1, <1>2, <1>3 DEF Writes, Stored, Timed, Types, Open
<1>7. /\ Turned(s, "tick", Free)
      /\ \A j \in Jobs : ~Holds(Free, j) /\ j \notin Todo(Free) /\ j \notin Begun(Free) /\ Free.job # j
  <2>1. SetProc(s, "tick", Free)
    BY DEF TickEnds
  <2>q. PICK q : q = Free
    OBVIOUS
  <2> QED BY <1>i, <1>r, <2>1, <2>q, TurnedFree DEF Pcs
<1>8. proc'[s]["tick"] = Free /\ Moves(s, "tick") /\ proc'[s]["boot"].pc = proc[s]["boot"].pc
  BY <1>r, <1>7 DEF Turned
<1>9. s = started => SchedulerAlive'
  BY <1>i, <1>1, <1>2, AliveIs
<1>10. ASSUME NEW j \in Jobs PROVE JobStep(s, "tick", j)
  <2>1. RecordStep(s, "tick", j) /\ (MarkerAfter(s, j) <=> Marker(s, j)) /\ loaded[s]
    BY <1>o, <1>1, NoWriteStep DEF Open
  <2> QED BY <1>i, <1>r, <1>b, <1>7, <1>8, <2>1, RestsIs, QuietStep
<1> QED BY <1>w, <1>o, <1>8, <1>9, <1>10 DEF Act, Open


-----------------------------------------------------------------------------
(***************************************************************************)
(* A job begins and ends.                                                  *)
(***************************************************************************)

\* The first job of the list is begun: p becomes q.
BegunAt(p, t) == [p EXCEPT !.job = Head(p.todo), !.todo = Tail(p.todo), !.since = t]

LEMMA BeginIs ==
  ASSUME NEW k \in Roles, NEW p \in ProcType, Shape(k, p), p.pc = "work", p.job = "none",
         p.todo # <<>>, NEW t \in 0..Horizon, NEW q,
         q = BegunAt(p, t)
  PROVE  /\ q \in ProcType /\ Shape(k, q) /\ q.pc = "work" /\ q.job \in Todo(p) /\ k # "manual"
         /\ q.job = Head(p.todo) /\ Todo(q) = Todo(p) \ {q.job} /\ Begun(p) \subseteq Begun(q)
         /\ Todo(p) \subseteq Jobs
         /\ \A j \in Jobs : Holds(q, j) <=> Holds(p, j)
<1>0. p.todo \in Seq(Jobs) /\ Horizon \in Nat /\ t # None
  BY CronAssumption DEF ProcType, None
<1>1. \A a, b \in 1..Len(p.todo) : p.todo[a] = p.todo[b] => a = b
  BY DEF Shape
<1> PICK h : h = Head(p.todo)
  OBVIOUS
<1> PICK v : v = Tail(p.todo)
  OBVIOUS
<1>2. /\ h \in Todo(p) /\ v \in Seq(Jobs) /\ ToSet(v) = Todo(p) \ {h}
      /\ \A a, b \in 1..Len(v) : v[a] = v[b] => a = b
  BY <1>0, <1>1, FirstIs DEF Todo
<1>3. Todo(p) \subseteq Jobs
  BY <1>0 DEF Todo, ToSet
<1>4. /\ q.pc = "work" /\ q.live = p.live /\ q.todo = v /\ q.job = h /\ q.since = t
      /\ q.done = p.done /\ q.skip = p.skip
  BY DEF ProcType, BegunAt
<1>5. q \in ProcType
  <2>1. t \in None..Horizon /\ h \in Jobs
    BY <1>0, <1>2, <1>3 DEF None
  <2> HIDE DEF Pcs, None, Result
  <2> QED BY <1>2, <2>1 DEF ProcType, BegunAt
<1>6. Todo(q) = Todo(p) \ {h}
  BY <1>2, <1>4 DEF Todo
<1>7. h # "none" /\ Begun(q) = Begun(p) \cup {h}
  <2>1. h # "none"
    BY <1>2, <1>3, CronAssumption
  <2> QED BY <1>4, <2>1 DEF Begun
<1>8. Todo(p) \cap Begun(p) = {}
  BY DEF Shape
<1>9. k # "manual"
  BY DEF Shape
<1>10. Shape(k, q)
  <2>1. \A x \in q.done : x.job # q.job /\ \A y \in q.done : x.job = y.job => x = y
    <3>1. h \notin Begun(p)
      BY <1>2, <1>8
    <3>2. \A x \in p.done : x.job \in Begun(p)
      BY DEF Begun
    <3> QED BY <1>4, <3>1, <3>2 DEF Shape
  <2>2. Todo(q) \cap Begun(q) = {}
    BY <1>6, <1>7, <1>8
  <2>3. k = "tick" \/ k = "boot"
    BY <1>9 DEF Roles
  <2> HIDE DEF None
  <2> QED BY <1>0, <1>2, <1>4, <1>9, <2>1, <2>2, <2>3 DEF Shape
<1>11. \A j \in Jobs : Holds(q, j) <=> Holds(p, j)
  BY <1>2, <1>6, <1>7, <1>10, HoldsIs
<1> QED BY <1>2, <1>3, <1>4, <1>5, <1>6, <1>7, <1>9, <1>10, <1>11

\* A job that was begun has a result: p becomes q.
EndedAt(p, t, status) ==
  [p EXCEPT !.job = "none", !.since = None, !.done = @ \cup
     {[job |-> p.job, since |-> p.since, ended |-> t, status |-> status]}]

LEMMA EndIs ==
  ASSUME NEW k \in Roles, NEW p \in ProcType, Shape(k, p), p.job # "none",
         NEW t \in 0..Horizon, NEW status \in {"ok", "error"}, NEW q,
         q = EndedAt(p, t, status)
  PROVE  /\ q \in ProcType /\ Shape(k, q) /\ p.pc = "work" /\ q.pc = "work" /\ q.job = "none"
         /\ Todo(q) = Todo(p) /\ Begun(q) = Begun(p)
         /\ \A j \in Jobs : Holds(q, j) <=> Holds(p, j)
<1>0. /\ p.job \in Jobs /\ p.pc = "work" /\ p.since \in 0..Horizon /\ Horizon \in Nat
      /\ p.done \subseteq Result
  BY CronAssumption DEF ProcType, Shape, None
<1>r. PICK r : r = [job |-> p.job, since |-> p.since, ended |-> t, status |-> status]
  OBVIOUS
<1>1. r \in Result /\ r.job = p.job
  BY <1>0, <1>r DEF Result
<1>2. PICK d : d = p.done \cup {r}
  OBVIOUS
<1>3. /\ q.pc = "work" /\ q.todo = p.todo /\ q.job = "none" /\ q.done = d
  BY <1>0, <1>r, <1>2 DEF ProcType, EndedAt
<1>4. q \in ProcType
  <2>1. None \in None..Horizon /\ d \subseteq Result
    BY <1>0, <1>1, <1>2 DEF None
  <2>2. q = [p EXCEPT !.job = "none", !.since = None, !.done = d]
    BY <1>r, <1>2 DEF EndedAt
  <2> HIDE DEF Pcs, None, Result
  <2> QED BY <2>1, <2>2 DEF ProcType
<1>5. Todo(q) = Todo(p) /\ Begun(q) = Begun(p)
  <2>1. {x.job : x \in d} = {x.job : x \in p.done} \cup {p.job}
    BY <1>1, <1>2
  <2> QED BY <1>0, <1>3, <2>1, CronAssumption DEF Todo, Begun
<1>6. Shape(k, q)
  <2>1. \A x \in d : x.job # "none" /\ \A y \in d : x.job = y.job => x = y
    <3>1. \A x \in d : x.job \in Jobs
      BY <1>0, <1>1, <1>2 DEF Result
    <3>2. ASSUME NEW x \in d, NEW y \in d, x.job = y.job PROVE x = y
      BY <1>1, <1>2, <3>2 DEF Shape
    <3> QED BY <3>1, <3>2, CronAssumption
  <2>2. k = "manual" => \A x, y \in d : x = y
    BY <1>2 DEF Shape
  <2> HIDE DEF None
  <2> QED BY <1>0, <1>3, <1>5, <2>1, <2>2 DEF Shape
<1>7. \A j \in Jobs : Holds(q, j) <=> Holds(p, j)
  BY <1>5, <1>6, HoldsIs
<1> QED BY <1>0, <1>3, <1>4, <1>5, <1>6, <1>7

\* Marked records differ in their marker only.
LEMMA MarkIs ==
  ASSUME NEW m \in [Jobs -> JobRecord], NEW js \in SUBSET Jobs, NEW t \in Nat, NEW w,
         w = Mark(m, js, t)
  PROVE  /\ w \in [Jobs -> JobRecord]
         /\ \A j \in Jobs : /\ Alike(w[j], m[j]) /\ (j \in js => w[j].running # None)
                            /\ j \notin js => w[j] = m[j]
<1> HIDE DEF None, JobRecord
<1>0. t \in Times /\ t # None
  BY GoneIs DEF None
<1>1. w = [j \in Jobs |-> IF j \in js THEN WithRunning(m[j], t) ELSE m[j]]
  BY DEF Mark, WithRunning
<1>2. ASSUME NEW j \in Jobs
      PROVE  /\ w[j] \in JobRecord
             /\ Alike(w[j], m[j]) /\ (j \in js => w[j].running # None)
             /\ j \notin js => w[j] = m[j]
  <2>1. CASE j \in js
    <3>1. w[j] = WithRunning(m[j], t)
      BY <1>1, <2>1
    <3>2. w[j] \in JobRecord /\ Alike(w[j], m[j]) /\ w[j].running = t
      BY <1>0, <3>1, RunningSet
    <3> QED BY <1>0, <2>1, <3>2
  <2>2. CASE j \notin js
    BY <1>1, <2>2 DEF Alike
  <2> QED BY <2>1, <2>2
<1>3. w \in [Jobs -> JobRecord]
  BY <1>1, <1>2
<1> QED BY <1>2, <1>3


\* A record that was marked is as proper as before.
LEMMA AlikeProper ==
  ASSUME NEW c, NEW j, NEW r, NEW n, Proper(c, j, r), Alike(n, r), r.present
  PROVE  Proper(c, j, n)
<1>1. r # Gone
  BY GoneIs
<1> QED BY <1>1 DEF Proper, Alike

LEMMA JobBeginsActs ==
  ASSUME IInv, NEW s \in Services, NEW k \in Roles, JobBegins(s, k)
  PROVE  Act(s, k)
<1>i. Types /\ Shapes /\ AllProper /\ SchedulerAlive
  BY DEF IInv
<1>p. PICK p : p = proc[s][k]
  OBVIOUS
<1>q. PICK q : q = BegunAt(p, now)
  OBVIOUS
<1>1. /\ p.pc = "work" /\ p.job = "none" /\ p.todo # <<>> /\ SetProc(s, k, q)
      /\ disk' = disk /\ loaded' = loaded /\ timer' = timer /\ started' = started /\ now' = now
      /\ events' = events /\ created' = created /\ touched' = touched
      /\ mem' = IF k = "tick" /\ p.live /\ mem[s][q.job].present
                THEN [mem EXCEPT ![s] = Mark(@, {q.job}, now)] ELSE mem
  <2>1. p \in ProcType
    BY <1>i, <1>p DEF Types
  <2>2. q.job = Head(p.todo)
    BY <1>q, <2>1 DEF ProcType, BegunAt
  <2> QED BY <1>p, <1>q, <2>2 DEF JobBegins, BegunAt
<1>2. /\ p \in ProcType /\ Shape(k, p) /\ now \in 0..Horizon /\ now \in Nat
      /\ mem[s] \in [Jobs -> JobRecord]
  BY <1>i, <1>p, CronAssumption DEF Types, Shapes
<1>3. /\ q \in ProcType /\ Shape(k, q) /\ q.pc = "work" /\ q.job \in Todo(p) /\ k # "manual"
      /\ Todo(q) = Todo(p) \ {q.job} /\ Begun(p) \subseteq Begun(q) /\ Todo(p) \subseteq Jobs
      /\ \A j \in Jobs : Holds(q, j) <=> Holds(p, j)
  BY <1>1, <1>2, <1>q, BeginIs
<1>o. Open(s)
  BY <1>1, <1>p, OpenIs
<1>4. Turned(s, k, q)
  BY <1>i, <1>1, <1>3, SetProcIs
<1>m. PICK m : m = mem'[s]
  OBVIOUS
<1>w. PICK w : w = Mark(mem[s], {q.job}, now)
  OBVIOUS
<1>5. /\ w \in [Jobs -> JobRecord]
      /\ \A j \in Jobs : /\ Alike(w[j], mem[s][j]) /\ (j = q.job => w[j].running # None)
                         /\ j # q.job => w[j] = mem[s][j]
  <2>1. PICK js \in SUBSET Jobs : js = {q.job}
    BY <1>3
  <2> QED BY <1>2, <1>w, <2>1, MarkIs
<1>6. /\ mem' \in [Services -> [Jobs -> JobRecord]] /\ \A t \in Services \ {s} : mem'[t] = mem[t]
      /\ (m = w /\ mem[s][q.job].present) \/ m = mem[s]
  <2> HIDE DEF Services, JobRecord
  <2>1. CASE mem' = mem
    BY <1>i, <1>m, <2>1 DEF Types
  <2>2. CASE mem[s][q.job].present /\ mem' = [mem EXCEPT ![s] = w]
    BY <1>i, <1>m, <1>5, <2>2 DEF Types
  <2> QED BY <1>1, <1>w, <2>1, <2>2
<1>7. Timed(s) /\ timer'[s] = timer[s]
  BY <1>i, <1>1, TimerStays
<1>8. Writes(s)
  <2>1. loaded' = [loaded EXCEPT ![s] = TRUE]
    BY <1>i, <1>1, <1>o DEF Types, Open
  <2> HIDE DEF JobRecord
  <2> QED BY <1>i, <1>o, <1>1, <1>6, <1>7, <2>1 DEF Writes, Timed, Types, Open
<1>9. ASSUME NEW j \in Jobs
      PROVE  /\ Alike(m[j], mem[s][j]) /\ Proper(created, j, m[j])
             /\ mem[s][j].running # None => m[j].running # None
             /\ m[j].running # None => mem[s][j].running # None \/ j = q.job
  <2>1. Proper(created, j, mem[s][j])
    BY <1>i DEF AllProper
  <2>2. CASE m = mem[s]
    BY <2>1, <2>2 DEF Alike
  <2>3. CASE m = w /\ mem[s][q.job].present
    <3>1. CASE j = q.job
      BY <1>5, <2>1, <2>3, <3>1, AlikeProper
    <3>2. CASE j # q.job
      BY <1>5, <2>1, <2>3, <3>2
    <3> QED BY <3>1, <3>2
  <2> QED BY <1>6, <2>2, <2>3
<1>10. s = started => SchedulerAlive'
  <2>0. k \in {"boot", "tick"} /\ m \in [Jobs -> JobRecord]
    BY <1>2, <1>3, <1>5, <1>6 DEF Roles
  <2>1. CASE k = "boot"
    BY <1>i, <1>1, <1>3, <1>4, <2>1, AliveIs DEF Turned
  <2>2. CASE k = "tick"
    <3>1. NextWake(m) # {} => NextWake(mem[s]) # {}
      <4>1. \A j \in Jobs : m[j].enabled /\ m[j].next # None =>
                           mem[s][j].enabled /\ mem[s][j].next # None
        BY <1>9 DEF Alike
      <4> QED BY <1>2, <2>0, <4>1, WakeFrom
    <3>2. proc'[s]["boot"].pc = proc[s]["boot"].pc /\ proc'[s]["tick"].pc = "work"
      BY <1>3, <1>4, <2>2 DEF Turned, Roles
    <3>3. CASE proc[s]["boot"].pc = "idle"
      BY <1>i, <1>1, <1>p, <1>m, <1>7, <2>2, <3>1, <3>2, <3>3, AliveIs
    <3>4. CASE proc[s]["boot"].pc # "idle"
      BY <1>i, <1>1, <3>2, <3>4, AliveIs
    <3> QED BY <3>3, <3>4
  <2> QED BY <2>0, <2>1, <2>2
<1>11. ASSUME NEW j \in Jobs PROVE JobStep(s, k, j)
  <2>1. disk'[j] = disk[j] /\ mem'[s][j] = m[j]
    BY <1>1, <1>m
  <2>2. RecordStep(s, k, j)
    <3>1. Proper(created, j, disk[j])
      BY <1>i DEF AllProper
    <3>2. started = 1 => Alike(m[j], disk[j])
      BY <1>o, <1>9 DEF Open, Alike
    <3> QED BY <1>1, <1>9, <2>1, <3>1, <3>2 DEF RecordStep, SkipStep
  <2>3. MarkerAfter(s, j) => Holds(q, j) \/ (loaded[s] /\ Marker(s, j))
    <3>1. Holds(q, q.job)
      BY DEF Holds
    <3> QED BY <1>o, <1>9, <2>1, <3>1 DEF MarkerAfter, Marker, Open
  <2>4. proc'[s][k] = q
    BY <1>4 DEF Turned
  <2> QED BY <1>3, <1>p, <2>2, <2>3, <2>4, QuietStep
<1>12. proc'[s]["boot"].pc # "clear"
  BY <1>o, <1>3, <1>4 DEF Turned, Open, Roles
<1> QED BY <1>4, <1>8, <1>10, <1>11, <1>12 DEF Act, Turned

LEMMA JobEndsActs ==
  ASSUME IInv, NEW s \in Services, NEW k \in Roles, NEW status \in {"ok", "error"},
         JobEnds(s, k, status)
  PROVE  Act(s, k)
<1>i. Types /\ Shapes /\ SchedulerAlive
  BY DEF IInv
<1>p. PICK p : p = proc[s][k]
  OBVIOUS
<1>q. PICK q : q = EndedAt(p, now, status)
  OBVIOUS
<1>1. /\ p.job # "none" /\ SetProc(s, k, q)
      /\ disk' = disk /\ mem' = mem /\ loaded' = loaded /\ timer' = timer /\ started' = started
      /\ now' = now /\ events' = events /\ created' = created /\ touched' = touched
  BY <1>p, <1>q DEF JobEnds, EndedAt, store
<1>2. p \in ProcType /\ Shape(k, p) /\ now \in 0..Horizon
  BY <1>i, <1>p DEF Types, Shapes
<1>3. /\ q \in ProcType /\ Shape(k, q) /\ p.pc = "work" /\ q.pc = "work" /\ q.job = "none"
      /\ Todo(q) = Todo(p) /\ Begun(q) = Begun(p)
      /\ \A j \in Jobs : Holds(q, j) <=> Holds(p, j)
  BY <1>1, <1>2, <1>q, EndIs
<1>o. Open(s)
  BY <1>3, <1>p, OpenIs
<1>4. Turned(s, k, q)
  BY <1>i, <1>1, <1>3, SetProcIs
<1>5. Stored(s, disk, mem[s])
  BY <1>i, <1>o, <1>1, StoreStays DEF Open
<1>6. Timed(s) /\ timer'[s] = timer[s]
  BY <1>i, <1>1, TimerStays
<1>7. Writes(s)
  BY <1>i, <1>o, <1>1, <1>5, <1>6 DEF Writes, Stored, Timed, Types, Open
<1>8. /\ proc'[s]["boot"].pc = proc[s]["boot"].pc /\ proc'[s]["tick"].pc = proc[s]["tick"].pc
      /\ proc'[s][k] = q
  BY <1>p, <1>3, <1>4 DEF Turned, Roles
<1>9. s = started => SchedulerAlive'
  BY <1>1, <1>8, <1>i DEF SchedulerAlive
<1>10. ASSUME NEW j \in Jobs PROVE JobStep(s, k, j)
  <2>1. RecordStep(s, k, j) /\ (MarkerAfter(s, j) <=> Marker(s, j)) /\ loaded[s]
    BY <1>o, <1>1, NoWriteStep DEF Open
  <2>2. j # "none"
    BY CronAssumption
  <2> QED BY <1>3, <1>p, <1>8, <2>1, <2>2, QuietStep
<1> QED BY <1>o, <1>4, <1>7, <1>8, <1>9, <1>10 DEF Act, Turned, Open


-----------------------------------------------------------------------------
(***************************************************************************)
(* Jobs are taken: by a start, by the timer, and by hand.                  *)
(***************************************************************************)

\* The jobs js are to be begun.
LEMMA WorkIs ==
  ASSUME NEW k \in {"boot", "tick"}, NEW js \in SUBSET Jobs, NEW q,
         q = Work(js) \/ q = LiveWork(js)
  PROVE  /\ q \in ProcType /\ Shape(k, q) /\ q.pc = "work" /\ q.job = "none" /\ Todo(q) = js
         /\ Begun(q) = {} /\ \A j \in Jobs : Holds(q, j) <=> j \in js
<1>0. Horizon \in Nat
  BY CronAssumption
<1> PICK w : w = SetToSeq(js)
  OBVIOUS
<1>1. w \in Seq(Jobs) /\ ToSet(w) = js /\ \A a, b \in 1..Len(w) : w[a] = w[b] => a = b
  BY ListIs
<1> HIDE DEF None
<1>2. PICK live \in BOOLEAN :
        q = [pc |-> "work", live |-> live, todo |-> w, job |-> "none", since |-> None,
             done |-> {}, skip |-> {}]
  <2>1. ASSUME q = Work(js)
        PROVE  q = [pc |-> "work", live |-> FALSE, todo |-> w, job |-> "none", since |-> None,
                    done |-> {}, skip |-> {}]
    BY <2>1 DEF Work, Free
  <2>2. ASSUME q = LiveWork(js)
        PROVE  q = [pc |-> "work", live |-> TRUE, todo |-> w, job |-> "none", since |-> None,
                    done |-> {}, skip |-> {}]
    BY <2>2 DEF LiveWork, Work, Free
  <2> QED BY <2>1, <2>2
<1>3. /\ q.pc = "work" /\ q.live = live /\ q.todo = w /\ q.job = "none" /\ q.since = None
      /\ q.done = {} /\ q.skip = {}
  BY <1>2
<1>4. q \in ProcType
  <2>1. None \in None..Horizon /\ "work" \in Pcs
    BY <1>0 DEF None, Pcs
  <2> HIDE DEF Pcs, Result
  <2> QED BY <1>1, <1>2, <2>1 DEF ProcType
<1>5. Todo(q) = js /\ Begun(q) = {}
  BY <1>1, <1>3 DEF Todo, Begun
<1>6. Shape(k, q)
  BY <1>1, <1>3, <1>5 DEF Shape
<1>7. \A j \in Jobs : Holds(q, j) <=> j \in js
  BY <1>5, <1>6, HoldsIs DEF Roles
<1> QED BY <1>3, <1>4, <1>5, <1>6, <1>7

\* A job that is runnable, by the file or by the memory of s, is held by no role of s,
\* unless it lost its marker.
LEMMA UnheldIs ==
  ASSUME IInv, NEW s \in Services, NEW j \in Jobs, j \notin unmarked,
         disk[j].running = None \/ mem[s][j].running = None
  PROVE  \A l \in Roles : ~Holds(proc[s][l], j)
BY DEF IInv, AllMarked, Marked

\* What is marked because it is runnable is there.
LEMMA RunnableIs ==
  ASSUME NEW m \in [Jobs -> JobRecord], NEW t, \A j \in Jobs : m[j].present \/ m[j] = Gone
  PROVE  /\ RunnableJobs(m, t) \subseteq Jobs
         /\ \A j \in RunnableJobs(m, t) : m[j].enabled /\ m[j].running = None /\ m[j].present
<1>1. RunnableJobs(m, t) \subseteq Jobs
  BY DEF RunnableJobs
<1>2. ASSUME NEW j \in RunnableJobs(m, t)
      PROVE  m[j].enabled /\ m[j].running = None /\ m[j].present
  <2>1. j \in Jobs /\ m[j].enabled /\ m[j].running = None
    BY DEF RunnableJobs, Runnable
  <2> QED BY <2>1, GoneIs
<1> QED BY <1>1, <1>2

LEMMA BootCollectsActs ==
  ASSUME IInv, NEW s \in Services, BootCollects(s)
  PROVE  Act(s, "boot")
<1>i. Types /\ Shapes /\ AllProper /\ SchedulerAlive
  BY DEF IInv
<1>r. "boot" \in Roles /\ now \in Nat
  BY <1>i, CronAssumption DEF Roles, Types
<1>b. proc[s]["boot"].pc = "missed"
  BY DEF BootCollects
<1>o. Open(s)
  BY <1>r, <1>b, OpenIs
<1>m. PICK m : m = mem[s]
  OBVIOUS
<1>1. PICK js : js = {j \in RunnableJobs(m, now) \ proc[s]["boot"].skip :
                        ~(Kind[j] = "at" /\ m[j].status # "none")}
  OBVIOUS
<1>n. PICK n : n = Mark(m, js, now)
  OBVIOUS
<1>q. PICK q : q = IF js = {} THEN [Free EXCEPT !.pc = "end"] ELSE Work(js)
  OBVIOUS
<1>2. /\ PersistChange(s, m, n) /\ SetProc(s, "boot", q)
      /\ timer' = timer /\ started' = started /\ now' = now
      /\ events' = events /\ created' = created /\ touched' = touched
  BY <1>o, <1>m, <1>1, <1>n, <1>q DEF BootCollects, Open
<1>3. /\ m \in [Jobs -> JobRecord] /\ \A j \in Jobs : Proper(created, j, m[j])
  BY <1>i, <1>m DEF Types, AllProper
<1>4. js \in SUBSET Jobs /\ \A j \in js : m[j].enabled /\ m[j].running = None /\ m[j].present
  <2>1. js \subseteq RunnableJobs(m, now)
    BY <1>1
  <2> QED BY <1>3, <2>1, RunnableIs DEF Proper
<1>5. /\ n \in [Jobs -> JobRecord]
      /\ \A j \in Jobs : /\ Alike(n[j], m[j]) /\ (j \in js => n[j].running # None)
                         /\ j \notin js => n[j] = m[j]
  <2>1. m \in [Jobs -> JobRecord]
    BY <1>3
  <2>2. js \in SUBSET Jobs
    BY <1>4
  <2> QED BY <1>n, <1>r, <2>1, <2>2, MarkIs
<1>6. Stored(s, disk', n) /\ disk' = IF n = m THEN disk ELSE n
  BY <1>i, <1>2, <1>3, <1>5, PersistChangeIs
<1>7. js # {} => disk' = n
  BY <1>4, <1>5, <1>6
<1>8. js = {} => disk' = disk /\ n = m
  <2>1. ASSUME js = {} PROVE n = m
    BY <1>3, <1>5, <2>1
  <2> QED BY <1>6, <2>1
<1>9. Timed(s) /\ timer'[s] = timer[s]
  BY <1>i, <1>2, TimerStays
<1>w. Writes(s)
  BY <1>i, <1>o, <1>2, <1>6, <1>9 DEF Writes, Stored, Timed, Types, Open
<1>10. /\ Turned(s, "boot", q) /\ q.pc \in {"end", "work"}
       /\ \A j \in Jobs : /\ Holds(q, j) <=> j \in js
                          /\ j \in Todo(q) => j \in js
                          /\ q.job # j
  <2>1. CASE js = {}
    <3>1. q = [Free EXCEPT !.pc = "end"] /\ "end" \in Pcs
      BY <1>q, <2>1 DEF Pcs
    <3>2. q \in ProcType /\ q.pc = "end" /\ q.job = "none" /\ q.todo = <<>> /\ q.done = {}
          /\ \A j \in Jobs : ~Holds(q, j) /\ j \notin Todo(q)
      BY <3>1, FreeIs
    <3>3. Shape("boot", q)
      BY <1>r, <3>1, <3>2, EmptyShape
    <3>4. Turned(s, "boot", q)
      BY <1>i, <1>r, <1>2, <3>2, <3>3, SetProcIs
    <3> QED BY <2>1, <3>2, <3>4, CronAssumption
  <2>2. CASE js # {}
    <3>1. q \in ProcType /\ Shape("boot", q) /\ q.pc = "work" /\ q.job = "none" /\ Todo(q) = js
          /\ \A j \in Jobs : Holds(q, j) <=> j \in js
      BY <1>4, <1>q, <2>2, WorkIs
    <3>2. Turned(s, "boot", q)
      BY <1>i, <1>r, <1>2, <3>1, SetProcIs
    <3> QED BY <3>1, <3>2, CronAssumption
  <2> QED BY <2>1, <2>2
<1>11. proc'[s]["boot"] = q /\ Moves(s, "boot")
  BY <1>10 DEF Turned
<1>12. s = started => SchedulerAlive'
  BY <1>i, <1>2, <1>10, <1>11, AliveIs
<1>13. ASSUME NEW j \in Jobs PROVE JobStep(s, "boot", j)
  <2>1. mem'[s][j] = n[j] /\ mem[s][j] = m[j] /\ disk'[j] \in {disk[j], n[j]}
    BY <1>m, <1>6 DEF Stored
  <2>2. started = 1 => Alike(m[j], disk[j])
    BY <1>o, <1>m DEF Open
  <2>3. Proper(created, j, n[j]) /\ Proper(created, j, disk[j])
    <3>1. Proper(created, j, disk[j]) /\ Proper(created, j, m[j])
      BY <1>i, <1>3 DEF AllProper
    <3> QED BY <1>4, <1>5, <3>1, AlikeProper
  <2>4. RecordStep(s, "boot", j)
    BY <1>2, <1>5, <2>1, <2>2, <2>3 DEF RecordStep, SkipStep, Alike
  <2>5. MarkerAfter(s, j) => Holds(q, j) \/ (loaded[s] /\ Marker(s, j))
    BY <1>o, <1>5, <1>10, <2>1 DEF MarkerAfter, Marker, Open
  <2>6. ASSUME Holds(q, j), j \notin unmarked
        PROVE  /\ disk'[j].running # None /\ mem'[s][j].running # None
               /\ \A l \in Roles : ~Holds(proc[s][l], j)
    <3>1. j \in js /\ disk'[j] = n[j]
      BY <1>7, <1>10, <2>6
    <3> QED BY <1>4, <1>5, <2>1, <2>6, <3>1, UnheldIs
  <2>7. started = 1 /\ j \in Todo(q) => disk[j].enabled
    <3>1. m[j].enabled \in BOOLEAN /\ disk[j].enabled \in BOOLEAN
      <4>1. m[j] \in JobRecord /\ disk[j] \in JobRecord
        BY <1>i, <1>3 DEF Types
      <4> QED BY <4>1, GoneIs
    <3>2. j \in Todo(q) => m[j].enabled
      BY <1>4, <1>10
    <3>3. started = 1 => m[j].enabled = disk[j].enabled
      BY <2>2 DEF Alike
    <3> QED BY <3>1, <3>2, <3>3
  <2>8. ~Holds(proc[s]["boot"], j) /\ j \notin Begun(proc[s]["boot"])
    BY <1>i, <1>r, <1>b, RestsIs
  <2> QED BY <1>10, <1>11, <2>4, <2>5, <2>6, <2>7, <2>8, TakeStep
<1> QED BY <1>w, <1>10, <1>11, <1>12, <1>13 DEF Act


LEMMA TickCollectsActs ==
  ASSUME IInv, NEW s \in Services, TickCollects(s)
  PROVE  Act(s, "tick")
<1>i. Types /\ Shapes /\ AllProper /\ SchedulerAlive
  BY DEF IInv
<1>r. "tick" \in Roles /\ now \in Nat
  BY <1>i, CronAssumption DEF Roles, Types
<1>b. proc[s]["tick"].pc = "collect"
  BY DEF TickCollects
<1>o. Open(s)
  BY <1>r, <1>b, OpenIs
<1>d. PICK d : d = disk
  OBVIOUS
<1>1. PICK due : due = RunnableJobs(d, now)
  OBVIOUS
<1>m. PICK m : m = IF due = {} THEN Maintain(d, now) ELSE Mark(d, due, now)
  OBVIOUS
<1>q. PICK q : q = IF due = {} THEN [Free EXCEPT !.pc = "finish"] ELSE LiveWork(due)
  OBVIOUS
<1>2. /\ Persist(s, m) /\ SetProc(s, "tick", q)
      /\ timer' = timer /\ started' = started /\ now' = now
      /\ events' = events /\ created' = created /\ touched' = touched
  BY <1>d, <1>1, <1>m, <1>q DEF TickCollects
<1>3. d \in [Jobs -> JobRecord] /\ \A j \in Jobs : Proper(created, j, d[j])
  BY <1>i, <1>d DEF Types, AllProper
<1>4. due \in SUBSET Jobs /\ \A j \in due : d[j].enabled /\ d[j].running = None /\ d[j].present
  BY <1>1, <1>3, RunnableIs DEF Proper
<1>5. /\ m \in [Jobs -> JobRecord]
      /\ \A j \in Jobs : /\ Proper(created, j, m[j]) /\ m[j].enabled = d[j].enabled
                         /\ d[j].enabled => m[j].next = d[j].next
                         /\ j \in due => m[j].running # None
                         /\ m[j].running # None => d[j].running # None \/ j \in due
  <2>0. d \in [Jobs -> JobRecord] /\ due \in SUBSET Jobs
    BY <1>3, <1>4
  <2>1. CASE due = {}
    <3>1. m = Maintain(d, now)
      BY <1>m, <2>1
    <3>2. Upkept(created, d, m) /\ \A j \in Jobs : d[j].enabled => m[j].next = d[j].next
      BY <1>r, <1>3, <2>0, <3>1, MaintainIs
    <3> QED BY <2>1, <3>2 DEF Upkept, Kept
  <2>2. CASE due # {}
    <3>1. m = Mark(d, due, now)
      BY <1>m, <2>2
    <3>2. /\ m \in [Jobs -> JobRecord]
          /\ \A j \in Jobs : /\ Alike(m[j], d[j]) /\ (j \in due => m[j].running # None)
                             /\ j \notin due => m[j] = d[j]
      BY <1>r, <2>0, <3>1, MarkIs
    <3>3. \A j \in Jobs : Proper(created, j, m[j])
      BY <1>3, <1>4, <3>2, AlikeProper
    <3> QED BY <3>2, <3>3 DEF Alike
  <2> QED BY <2>1, <2>2
<1>6. Stored(s, m, m)
  BY <1>i, <1>2, <1>5, PersistIs
<1>7. Timed(s) /\ timer'[s] = timer[s]
  BY <1>i, <1>2, TimerStays
<1>w. Writes(s)
  BY <1>i, <1>o, <1>2, <1>6, <1>7 DEF Writes, Stored, Timed, Types, Open
<1>10. /\ Turned(s, "tick", q) /\ (q.pc = "finish" \/ q.pc = "work")
       /\ \A j \in Jobs : /\ Holds(q, j) <=> j \in due
                          /\ j \in Todo(q) => j \in due
                          /\ q.job # j
  <2>1. CASE due = {}
    <3>1. q = [Free EXCEPT !.pc = "finish"] /\ "finish" \in Pcs
      BY <1>q, <2>1 DEF Pcs
    <3>2. q \in ProcType /\ q.pc = "finish" /\ q.job = "none" /\ q.todo = <<>> /\ q.done = {}
          /\ \A j \in Jobs : ~Holds(q, j) /\ j \notin Todo(q)
      BY <3>1, FreeIs
    <3>3. Shape("tick", q)
      BY <1>r, <3>1, <3>2, EmptyShape
    <3>4. Turned(s, "tick", q)
      BY <1>i, <1>r, <1>2, <3>2, <3>3, SetProcIs
    <3> QED BY <2>1, <3>2, <3>4, CronAssumption
  <2>2. CASE due # {}
    <3>1. q \in ProcType /\ Shape("tick", q) /\ q.pc = "work" /\ q.job = "none" /\ Todo(q) = due
          /\ \A j \in Jobs : Holds(q, j) <=> j \in due
      BY <1>4, <1>q, <2>2, WorkIs
    <3>2. Turned(s, "tick", q)
      BY <1>i, <1>r, <1>2, <3>1, SetProcIs
    <3> QED BY <3>1, <3>2, CronAssumption
  <2> QED BY <2>1, <2>2
<1>11. proc'[s]["tick"] = q /\ Moves(s, "tick") /\ proc'[s]["boot"].pc = proc[s]["boot"].pc
  BY <1>10 DEF Turned, Roles
<1>12. s = started => SchedulerAlive'
  <2>0. mem'[s] = m /\ mem[s] \in [Jobs -> JobRecord]
    BY <1>i, <1>6 DEF Stored, Types
  <2>1. CASE proc[s]["boot"].pc # "idle" \/ q.pc = "finish"
    BY <1>i, <1>2, <1>11, <2>1, AliveIs
  <2>2. CASE proc[s]["boot"].pc = "idle" /\ q.pc = "work"
    <3>1. started = 1 => (NextWake(m) # {} => NextWake(mem[s]) # {})
      <4> SUFFICES ASSUME started = 1 PROVE NextWake(m) # {} => NextWake(mem[s]) # {}
        OBVIOUS
      <4>1. ASSUME NEW j \in Jobs, m[j].enabled, m[j].next # None
            PROVE  mem[s][j].enabled /\ mem[s][j].next # None
        <5>1. m[j] \in JobRecord /\ d[j] \in JobRecord /\ mem[s][j] \in JobRecord
          BY <1>3, <1>5, <2>0
        <5>2. m[j].enabled \in BOOLEAN /\ d[j].enabled \in BOOLEAN /\ mem[s][j].enabled \in BOOLEAN
          BY <5>1, GoneIs
        <5>3. mem[s][j].enabled = d[j].enabled /\ mem[s][j].next = d[j].next
          BY <1>o, <1>d DEF Open, Alike
        <5>4. m[j].enabled = d[j].enabled
          BY <1>5
        <5>5. d[j].enabled
          BY <4>1, <5>2, <5>4
        <5>6. m[j].next = d[j].next
          BY <1>5, <5>5
        <5> QED BY <4>1, <5>2, <5>3, <5>5, <5>6
      <4> QED BY <1>5, <2>0, <4>1, WakeFrom
    <3> QED BY <1>i, <1>2, <1>7, <1>b, <1>11, <2>0, <2>2, <3>1, AliveIs
  <2> QED BY <1>10, <2>1, <2>2
<1>13. ASSUME NEW j \in Jobs PROVE JobStep(s, "tick", j)
  <2>1. disk'[j] = m[j] /\ mem'[s][j] = m[j] /\ disk[j] = d[j]
    BY <1>d, <1>6 DEF Stored
  <2>2. RecordStep(s, "tick", j)
    BY <1>2, <1>5, <2>1 DEF RecordStep, SkipStep, Alike
  <2>3. MarkerAfter(s, j) => Holds(q, j) \/ (loaded[s] /\ Marker(s, j))
    BY <1>o, <1>5, <1>10, <2>1 DEF MarkerAfter, Marker, Open
  <2>4. ASSUME Holds(q, j), j \notin unmarked
        PROVE  /\ disk'[j].running # None /\ mem'[s][j].running # None
               /\ \A l \in Roles : ~Holds(proc[s][l], j)
    <3>1. j \in due
      BY <1>10, <2>4
    <3> QED BY <1>4, <1>5, <2>1, <2>4, <3>1, UnheldIs
  <2>5. j \in Todo(q) => disk[j].enabled
    BY <1>4, <1>10, <2>1
  <2>6. ~Holds(proc[s]["tick"], j) /\ j \notin Begun(proc[s]["tick"])
    BY <1>i, <1>r, <1>b, RestsIs
  <2> QED BY <1>10, <1>11, <2>2, <2>3, <2>4, <2>5, <2>6, TakeStep
<1> QED BY <1>w, <1>o, <1>11, <1>12, <1>13 DEF Act, Open

\* By hand, one job is at work at once.
ByHand(j, t) == [Free EXCEPT !.pc = "work", !.job = j, !.since = t]

LEMMA ByHandIs ==
  ASSUME NEW i \in Jobs, NEW t \in 0..Horizon, NEW q, q = ByHand(i, t)
  PROVE  /\ q \in ProcType /\ Shape("manual", q) /\ q.job = i /\ Todo(q) = {}
         /\ \A j \in Jobs : Holds(q, j) <=> j = i
<1>0. Horizon \in Nat /\ t # None /\ t \in None..Horizon
  BY CronAssumption DEF None
<1> HIDE DEF None
<1>1. q = [pc |-> "work", live |-> FALSE, todo |-> <<>>, job |-> i, since |-> t,
           done |-> {}, skip |-> {}]
  BY DEF ByHand, Free
<1>2. q.pc = "work" /\ q.todo = <<>> /\ q.job = i /\ q.since = t /\ q.done = {}
  BY <1>1
<1>3. q \in ProcType
  <2>1. "work" \in Pcs /\ <<>> \in Seq(Jobs)
    BY EmptySeq DEF Pcs
  <2> HIDE DEF Pcs, Result
  <2> QED BY <1>0, <1>1, <2>1 DEF ProcType
<1>4. Todo(q) = {} /\ Begun(q) = {i} /\ 1..Len(q.todo) = {}
  BY <1>2, CronAssumption DEF Todo, Begun, ToSet
<1>5. Shape("manual", q)
  BY <1>0, <1>2, <1>4 DEF Shape
<1>6. \A j \in Jobs : Holds(q, j) <=> j = i
  BY <1>4, <1>5, HoldsIs DEF Roles
<1> QED BY <1>2, <1>3, <1>4, <1>5, <1>6

LEMMA RunReservesActs ==
  ASSUME IInv, NEW s \in Services, NEW i \in Jobs, NEW forced \in BOOLEAN,
         RunReserves(s, i, forced)
  PROVE  Act(s, "manual")
<1>i. Types /\ Shapes /\ AllProper /\ SchedulerAlive
  BY DEF IInv
<1>r. "manual" \in Roles /\ now \in Nat /\ now \in 0..Horizon
  BY <1>i, CronAssumption DEF Roles, Types
<1>o. Open(s)
  BY OpenIs DEF RunReserves, Op
<1>m. PICK m : m = mem[s]
  OBVIOUS
<1>n. PICK n : n = Mark(m, {i}, now)
  OBVIOUS
<1>q. PICK q : q = ByHand(i, now)
  OBVIOUS
<1>2. /\ Persist(s, n) /\ SetProc(s, "manual", q)
      /\ timer' = timer /\ started' = started /\ now' = now
      /\ events' \in 0..MaxEvents /\ created' = created /\ touched' = touched \cup {i}
  <2>1. events' \in 0..MaxEvents
    BY <1>i, CronAssumption DEF RunReserves, Op, Event, Types
  <2> QED BY <1>o, <1>m, <1>n, <1>q, <2>1 DEF RunReserves, ByHand, Open
<1>b. /\ m[i].present /\ m[i].running = None /\ proc[s]["manual"].pc # "work"
  BY <1>o, <1>m DEF RunReserves, Open
<1>3. m \in [Jobs -> JobRecord] /\ \A j \in Jobs : Proper(created, j, m[j])
  BY <1>i, <1>m DEF Types, AllProper
<1>5. /\ n \in [Jobs -> JobRecord]
      /\ \A j \in Jobs : /\ Alike(n[j], m[j]) /\ Proper(created, j, n[j])
                         /\ j = i => n[j].running # None
                         /\ j # i => n[j] = m[j]
  <2>1. m \in [Jobs -> JobRecord]
    BY <1>3
  <2>2. PICK js \in SUBSET Jobs : js = {i}
    OBVIOUS
  <2>3. /\ n \in [Jobs -> JobRecord]
        /\ \A j \in Jobs : /\ Alike(n[j], m[j]) /\ (j \in js => n[j].running # None)
                           /\ j \notin js => n[j] = m[j]
    <3>1. n = Mark(m, js, now)
      BY <1>n, <2>2
    <3> QED BY <1>r, <2>1, <3>1, MarkIs
  <2>4. \A j \in Jobs : Proper(created, j, n[j])
    BY <1>3, <1>b, <2>2, <2>3, AlikeProper
  <2> QED BY <2>2, <2>3, <2>4
<1>6. Stored(s, n, n)
  BY <1>i, <1>2, <1>5, PersistIs
<1>7. Timed(s) /\ timer'[s] = timer[s]
  BY <1>i, <1>2, TimerStays
<1>w. Writes(s)
  BY <1>i, <1>o, <1>2, <1>6, <1>7 DEF Writes, Stored, Timed, Types, Open
<1>10. /\ q \in ProcType /\ Shape("manual", q) /\ q.job = i /\ Todo(q) = {}
       /\ \A j \in Jobs : Holds(q, j) <=> j = i
  BY <1>q, <1>r, ByHandIs
<1>11. Turned(s, "manual", q)
  BY <1>i, <1>r, <1>2, <1>10, SetProcIs
<1>12. /\ proc'[s]["manual"] = q /\ Moves(s, "manual")
       /\ proc'[s]["boot"].pc = proc[s]["boot"].pc /\ proc'[s]["tick"].pc = proc[s]["tick"].pc
  BY <1>11 DEF Turned, Roles
<1>13. s = started => SchedulerAlive'
  <2>1. mem'[s] = n
    BY <1>6 DEF Stored
  <2>2. \A j \in Jobs : n[j].enabled /\ n[j].next # None => m[j].enabled /\ m[j].next # None
    BY <1>5 DEF Alike
  <2>3. NextWake(mem'[s]) # {} => NextWake(mem[s]) # {}
    BY <1>m, <1>3, <1>5, <2>1, <2>2, WakeFrom
  <2> QED BY <1>i, <1>2, <1>7, <1>12, <2>3 DEF SchedulerAlive
<1>14. ASSUME NEW j \in Jobs PROVE JobStep(s, "manual", j)
  <2>1. disk'[j] = n[j] /\ mem'[s][j] = n[j] /\ mem[s][j] = m[j]
    BY <1>m, <1>6 DEF Stored
  <2>2. started = 1 => Alike(m[j], disk[j])
    BY <1>o, <1>m DEF Open
  <2>3. RecordStep(s, "manual", j)
    BY <1>2, <1>5, <2>1, <2>2 DEF RecordStep, SkipStep, Alike
  <2>4. MarkerAfter(s, j) => Holds(q, j) \/ (loaded[s] /\ Marker(s, j))
    BY <1>o, <1>5, <1>10, <2>1 DEF MarkerAfter, Marker, Open
  <2>5. ASSUME Holds(q, j), j \notin unmarked
        PROVE  /\ disk'[j].running # None /\ mem'[s][j].running # None
               /\ \A l \in Roles : ~Holds(proc[s][l], j)
    <3>1. j = i
      BY <1>10, <2>5
    <3> QED BY <1>5, <1>b, <2>1, <2>5, <3>1, UnheldIs
  <2>6. j \notin Todo(q) /\ (Holds(q, j) => j \in touched') /\ (j \notin touched' => q.job # j)
    BY <1>2, <1>10
  <2>7. ~Holds(proc[s]["manual"], j) /\ j \notin Begun(proc[s]["manual"])
    BY <1>i, <1>r, <1>b, RestsIs
  <2> QED BY <1>12, <2>3, <2>4, <2>5, <2>6, <2>7, TakeStep
<1> QED BY <1>w, <1>o, <1>12, <1>13, <1>14 DEF Act, Open


-----------------------------------------------------------------------------
(***************************************************************************)
(* Results are applied.                                                    *)
(***************************************************************************)

\* A record with the result x.
WithResult(r, x) == [r EXCEPT !.running = None, !.last = x.since, !.status = x.status]
Disabled(r) == [r EXCEPT !.enabled = FALSE, !.next = None]

LEMMA ResultSet ==
  ASSUME NEW r \in JobRecord, NEW x \in Result, NEW n, n = WithResult(r, x)
  PROVE  /\ n \in JobRecord /\ n.present = r.present /\ n.enabled = r.enabled /\ n.next = r.next
         /\ n.running = None
<1>0. x.since \in Times /\ x.status \in {"ok", "error"} /\ None \in Times
  BY CronAssumption, GoneIs DEF Result
<1> HIDE DEF Times, None
<1> QED BY <1>0 DEF WithResult, JobRecord

LEMMA DisabledIs ==
  ASSUME NEW r \in JobRecord, NEW n, n = Disabled(r)
  PROVE  n \in JobRecord /\ n.present = r.present /\ ~n.enabled /\ n.running = r.running
<1>0. None \in Times
  BY GoneIs
<1> HIDE DEF Times, None
<1> QED BY <1>0 DEF Disabled, JobRecord

\* applyJobResult takes the marker, and a one-shot job is over.
LEMMA ApplyResultIs ==
  ASSUME NEW c, NEW j \in Jobs, NEW r \in JobRecord, Proper(c, j, r), NEW x \in Result,
         x.job = j, NEW n, n = ApplyResult(r, x)
  PROVE  /\ n \in JobRecord /\ Proper(c, j, n) /\ n.running = None
         /\ n.enabled => r.enabled
         /\ Kind[j] = "at" => ~n.enabled
<1>0. /\ r.present \in BOOLEAN /\ r.enabled \in BOOLEAN /\ x.ended \in Nat /\ Backoff \in Nat
      /\ None = -1
  BY CronAssumption, GoneIs DEF Result, None
<1>e. PICK e : e = WithResult(r, x)
  OBVIOUS
<1>1. /\ e \in JobRecord /\ e.present = r.present /\ e.enabled = r.enabled /\ e.running = None
  BY <1>e, ResultSet
<1>t. PICK t : t = NextRun(j, e, x.ended)
  OBVIOUS
<1>2. /\ t \in Times /\ (e.enabled /\ t = None => Kind[j] = "at")
  BY <1>0, <1>1, <1>t, NextRunIs
<1>3. n = IF ~r.present THEN r
          ELSE IF Kind[j] = "at"
          THEN IF j \in Deleted /\ x.status = "ok" THEN Gone ELSE Disabled(e)
          ELSE IF r.enabled /\ x.status = "error"
          THEN WithNext(e, Max({t, x.ended + Backoff})) ELSE WithNext(e, t)
  BY <1>e, <1>t DEF ApplyResult, WithResult, Disabled, WithNext
<1>4. r.present => j \in c
  BY GoneIs DEF Proper
<1>5. CASE ~r.present
  BY <1>3, <1>5, GoneIs DEF Proper
<1>6. CASE r.present /\ Kind[j] = "at" /\ n = Gone
  BY <1>6, GoneIs DEF Proper
<1>7. CASE r.present /\ Kind[j] = "at" /\ n = Disabled(e)
  <2>1. n \in JobRecord /\ n.present = e.present /\ ~n.enabled /\ n.running = e.running
    BY <1>1, <1>7, DisabledIs
  <2> QED BY <1>1, <1>4, <1>7, <2>1 DEF Proper
<1>8. ASSUME r.present, Kind[j] # "at", NEW y \in Times, n = WithNext(e, y),
             e.enabled => y # None
      PROVE  n \in JobRecord /\ Proper(c, j, n) /\ n.running = None /\ (n.enabled => r.enabled)
  <2>1. n \in JobRecord /\ SameRun(n, e) /\ n.next = y
    BY <1>1, <1>8, NextSet
  <2> QED BY <1>1, <1>4, <1>8, <2>1 DEF Proper, SameRun
<1>9. CASE r.present /\ Kind[j] # "at"
  <2>1. PICK y : y = Max({t, x.ended + Backoff})
    OBVIOUS
  <2>2. y \in Nat
    <3>1. t \in Int /\ x.ended + Backoff \in Nat
      BY <1>0, <1>2, GoneIs
    <3> QED BY <2>1, <3>1, MaxIs
  <2>3. y \in Times /\ y # None
    BY <1>0, <2>2, GoneIs
  <2>4. n = WithNext(e, y) \/ n = WithNext(e, t)
    BY <1>3, <1>9, <2>1
  <2> QED BY <1>2, <1>8, <1>9, <2>3, <2>4
<1> QED BY <1>0, <1>3, <1>5, <1>6, <1>7, <1>9

\* The results of all the jobs of p.
LEMMA ApplyAllIs ==
  ASSUME NEW c, NEW d \in [Jobs -> JobRecord], \A j \in Jobs : Proper(c, j, d[j]),
         NEW xs \in SUBSET Result, NEW a, a = ApplyAll(d, xs)
  PROVE  /\ a \in [Jobs -> JobRecord]
         /\ \A j \in Jobs :
              /\ Proper(c, j, a[j]) /\ (a[j].enabled => d[j].enabled)
              /\ j \in {x.job : x \in xs} =>
                   a[j].running = None /\ (Kind[j] = "at" => ~a[j].enabled)
              /\ j \notin {x.job : x \in xs} => a[j] = d[j]
<1>1. ASSUME NEW j \in Jobs
      PROVE  /\ a[j] \in JobRecord /\ Proper(c, j, a[j]) /\ (a[j].enabled => d[j].enabled)
             /\ j \in {x.job : x \in xs} =>
                   a[j].running = None /\ (Kind[j] = "at" => ~a[j].enabled)
             /\ j \notin {x.job : x \in xs} => a[j] = d[j]
  <2>1. CASE \E x \in xs : x.job = j
    <3>1. PICK x : x = CHOOSE y \in xs : y.job = j
      OBVIOUS
    <3>2. x \in xs /\ x.job = j
      BY <2>1, <3>1
    <3>3. a[j] = ApplyResult(d[j], x)
      BY <2>1, <3>1 DEF ApplyAll
    <3>4. x \in Result /\ d[j] \in JobRecord
      BY <3>2
    <3>5. Proper(c, j, d[j])
      OBVIOUS
    <3>6. /\ a[j] \in JobRecord /\ Proper(c, j, a[j]) /\ a[j].running = None
          /\ a[j].enabled => d[j].enabled
          /\ Kind[j] = "at" => ~a[j].enabled
      BY <3>2, <3>3, <3>4, <3>5, ApplyResultIs
    <3> QED BY <3>2, <3>6
  <2>2. CASE ~\E x \in xs : x.job = j
    <3>1. a[j] = d[j]
      BY <2>2 DEF ApplyAll
    <3> QED BY <2>2, <3>1
  <2> QED BY <2>1, <2>2
<1>2. a = [j \in Jobs |-> a[j]]
  BY DEF ApplyAll
<1>3. a \in [Jobs -> JobRecord]
  BY <1>1, <1>2
<1> QED BY <1>1, <1>3


LEMMA OutcomesAppliedActs ==
  ASSUME IInv, NEW s \in Services, NEW k \in Roles, OutcomesApplied(s, k)
  PROVE  Act(s, k)
<1>i. Types /\ Shapes /\ AllProper /\ SchedulerAlive
  BY DEF IInv
<1>r. now \in Nat
  BY <1>i, CronAssumption DEF Types
<1>p. PICK p : p = proc[s][k]
  OBVIOUS
<1>k. k \in {"boot", "tick"} /\ p.pc = "work" /\ p.job = "none" /\ p.todo = <<>>
  BY <1>p DEF OutcomesApplied, AllDone
<1>o. Open(s)
  BY <1>k, <1>p, OpenIs
<1>d. PICK d : d = disk
  OBVIOUS
<1>x. PICK xs : xs = p.done
  OBVIOUS
<1>a. PICK a : a = ApplyAll(d, xs)
  OBVIOUS
<1>m. PICK m : m = Maintain(a, now)
  OBVIOUS
<1>c. PICK pc \in {"end", "finish"} : pc = IF k = "boot" THEN "end" ELSE "finish"
  OBVIOUS
<1>q. PICK q : q = [Free EXCEPT !.pc = pc]
  OBVIOUS
<1>2. /\ Persist(s, m) /\ SetProcReloaded(s, k, q)
      /\ timer' = timer /\ started' = started /\ now' = now
      /\ events' = events /\ created' = created /\ touched' = touched
  BY <1>p, <1>d, <1>x, <1>a, <1>m, <1>c, <1>q DEF OutcomesApplied
<1>3. /\ d \in [Jobs -> JobRecord] /\ \A j \in Jobs : Proper(created, j, d[j])
      /\ xs \in SUBSET Result /\ Shape(k, p)
  BY <1>i, <1>d, <1>p, <1>x DEF Types, AllProper, ProcType, Shapes
<1>4. /\ a \in [Jobs -> JobRecord]
      /\ \A j \in Jobs :
           /\ Proper(created, j, a[j]) /\ (a[j].enabled => d[j].enabled)
           /\ j \in {x.job : x \in xs} =>
                a[j].running = None /\ (Kind[j] = "at" => ~a[j].enabled)
           /\ j \notin {x.job : x \in xs} => a[j] = d[j]
  <2>1. d \in [Jobs -> JobRecord] /\ xs \in SUBSET Result
    BY <1>3
  <2> QED BY <1>3, <1>a, <2>1, ApplyAllIs
<1>5. /\ Upkept(created, a, m) /\ \A j \in Jobs : a[j].enabled => m[j].next = a[j].next
  <2>1. a \in [Jobs -> JobRecord] /\ \A j \in Jobs : Proper(created, j, a[j])
    BY <1>4
  <2> QED BY <1>m, <1>r, <2>1, MaintainIs
<1>6. Stored(s, m, m)
  BY <1>i, <1>2, <1>5, PersistIs DEF Upkept
<1>7. Timed(s) /\ timer'[s] = timer[s]
  BY <1>i, <1>2, TimerStays
<1>w. Writes(s)
  BY <1>i, <1>o, <1>2, <1>6, <1>7 DEF Writes, Stored, Timed, Types, Open
<1>8. /\ Turned(s, k, q) /\ q.pc = pc /\ q.done = {}
      /\ \A j \in Jobs : ~Holds(q, j) /\ j \notin Todo(q) /\ j \notin Begun(q) /\ q.job # j
  <2>1. pc \in Pcs
    BY DEF Pcs
  <2>2. q \in ProcType /\ q.pc = pc /\ q.job = "none" /\ q.todo = <<>> /\ q.done = {}
        /\ \A j \in Jobs : ~Holds(q, j) /\ j \notin Todo(q) /\ j \notin Begun(q)
    BY <1>q, <2>1, FreeIs
  <2>3. Shape(k, q)
    BY <1>c, <1>k, <2>1, <2>2, EmptyShape
  <2>4. Turned(s, k, q)
    BY <1>i, <1>2, <2>2, <2>3, SetProcReloadedIs
  <2> QED BY <2>2, <2>4, CronAssumption
<1>9. proc'[s][k] = q /\ Moves(s, k) /\ proc'[s]["boot"].pc # "clear"
  BY <1>o, <1>c, <1>8 DEF Turned, Roles, Open
<1>10. s = started => SchedulerAlive'
  BY <1>i, <1>2, <1>c, <1>k, <1>8, <1>9, AliveIs
<1>11. ASSUME NEW j \in Jobs PROVE JobStep(s, k, j)
  <2>1. disk'[j] = m[j] /\ mem'[s][j] = m[j] /\ disk[j] = d[j]
    BY <1>d, <1>6 DEF Stored
  <2> DEFINE over == j \in {x.job : x \in xs}
  <2>2. /\ Holds(p, j) => over
        /\ j \in Begun(p) => over
    <3>1. Todo(p) = {}
      BY <1>k DEF Todo, ToSet
    <3>2. j \in Begun(p) => over
      BY <1>k, <1>x DEF Begun
    <3>3. Holds(p, j) <=> j \in Todo(p) \/ j \in Begun(p)
      BY <1>3, HoldsIs
    <3> QED BY <3>1, <3>2, <3>3
  <2>3. /\ Proper(created, j, m[j]) /\ (m[j].enabled => d[j].enabled)
        /\ m[j].running # None => ~over /\ d[j].running # None
        /\ m[j].enabled => over \/ m[j].next = d[j].next
        /\ m[j].enabled = a[j].enabled
    <3>1. /\ a[j].enabled => d[j].enabled
          /\ over => a[j].running = None
          /\ ~over => a[j] = d[j]
          /\ a[j].enabled => m[j].next = a[j].next
          /\ Proper(created, j, m[j]) /\ Kept(a[j], m[j])
      BY <1>4, <1>5 DEF Upkept
    <3> HIDE DEF over
    <3> QED BY <3>1 DEF Kept
  <2>4. RecordStep(s, k, j)
    BY <1>2, <1>p, <1>x, <1>8, <1>9, <2>1, <2>3 DEF RecordStep, SkipStep, Alike
  <2>5. started = 1 /\ MarkerAfter(s, j) => loaded[s] /\ ~Holds(proc[s][k], j) /\ Marker(s, j)
    BY <1>o, <1>p, <2>1, <2>2, <2>3 DEF MarkerAfter, Marker, Open
  <2>6. Kind[j] = "at" /\ j \in Begun(proc[s][k]) => ~disk'[j].enabled
    <3>1. a[j].enabled \in BOOLEAN /\ m[j].enabled \in BOOLEAN
      <4>1. a[j] \in JobRecord /\ m[j] \in JobRecord
        BY <1>4, <1>5 DEF Upkept
      <4> QED BY <4>1, GoneIs
    <3> QED BY <1>4, <1>p, <2>1, <2>2, <2>3, <3>1
  <2> QED BY <1>8, <1>9, <2>4, <2>5, <2>6, ApplyStep
<1> QED BY <1>w, <1>9, <1>10, <1>11 DEF Act

LEMMA RunAppliesActs ==
  ASSUME IInv, NEW s \in Services, RunApplies(s)
  PROVE  Act(s, "manual")
<1>i. Types /\ Shapes /\ AllProper /\ AllOnce /\ SchedulerAlive
  BY DEF IInv
<1>r. now \in Nat /\ "manual" \in Roles
  BY <1>i, CronAssumption DEF Types, Roles
<1>p. PICK p : p = proc[s]["manual"]
  OBVIOUS
<1>x. PICK x : x = CHOOSE y \in p.done : TRUE
  OBVIOUS
<1>1. x \in p.done /\ p \in ProcType /\ Shape("manual", p)
  BY <1>i, <1>r, <1>p, <1>x DEF RunApplies, Types, Shapes
<1>2. /\ p.pc = "work" /\ p.job = "none" /\ p.todo = <<>> /\ p.done = {x} /\ x \in Result
  BY <1>1 DEF Shape, ProcType
<1>j. PICK i \in Jobs : i = x.job
  BY <1>2 DEF Result
<1>3. /\ \A j \in Jobs : Holds(p, j) <=> j = i
      /\ \A j \in Jobs : j \in Begun(p) => j = i
      /\ i \in {y.job : y \in p.done} /\ i \in touched
  <2>1. \A j \in Jobs : j \in Begun(p) <=> j = i
    BY <1>2, <1>j DEF Begun
  <2>2. Todo(p) = {}
    BY <1>2 DEF Todo, ToSet
  <2>3. \A j \in Jobs : Holds(p, j) <=> j = i
    BY <1>1, <1>r, <2>1, <2>2, HoldsIs
  <2>4. i \in touched
    BY <1>i, <1>p, <2>3 DEF AllOnce
  <2> QED BY <1>1, <1>j, <2>1, <2>3, <2>4
<1>o. Open(s)
  BY <1>2, <1>p, <1>r, OpenIs
<1>d. PICK d : d = disk
  OBVIOUS
<1>e. PICK e : e = mem[s]
  OBVIOUS
<1>4. /\ d \in [Jobs -> JobRecord] /\ \A j \in Jobs : Proper(created, j, d[j])
      /\ e \in [Jobs -> JobRecord] /\ \A j \in Jobs : Proper(created, j, e[j])
  BY <1>i, <1>d, <1>e DEF Types, AllProper
<1>u. PICK r : r = ApplyResult(e[i], x)
  OBVIOUS
<1>5. r \in JobRecord /\ Proper(created, i, r) /\ r.running = None
  <2>1. e[i] \in JobRecord /\ Proper(created, i, e[i])
    BY <1>4
  <2> QED BY <1>2, <1>j, <1>u, <2>1, ApplyResultIs
<1>v. PICK v : v = IF ~r.present THEN Gone ELSE IF d[i].present THEN r ELSE d[i]
  OBVIOUS
<1>6. v \in JobRecord /\ Proper(created, i, v) /\ v.running = None
  BY <1>4, <1>5, <1>v, GoneIs DEF Proper
<1>a. PICK a : a = [d EXCEPT ![i] = v]
  OBVIOUS
<1>m. PICK m : m = Maintain(a, now)
  OBVIOUS
<1>7. /\ IF e[i].present
         THEN Persist(s, m) /\ Arm(s, m) /\ SetProcReloaded(s, "manual", Free)
         ELSE /\ disk' = disk /\ mem' = mem /\ loaded' = loaded /\ timer' = timer
              /\ SetProc(s, "manual", Free)
      /\ started' = started /\ now' = now /\ events' = events /\ created' = created
      /\ touched' = touched
  BY <1>p, <1>x, <1>j, <1>d, <1>e, <1>u, <1>v, <1>a, <1>m DEF RunApplies, store
<1>8. /\ a \in [Jobs -> JobRecord]
      /\ \A j \in Jobs : /\ Proper(created, j, a[j])
                         /\ j = i => a[j].running = None
                         /\ j # i => a[j] = d[j]
  BY <1>4, <1>6, <1>a
<1>9. /\ Upkept(created, a, m) /\ \A j \in Jobs : a[j].enabled => m[j].next = a[j].next
  <2>1. a \in [Jobs -> JobRecord] /\ \A j \in Jobs : Proper(created, j, a[j])
    BY <1>8
  <2> QED BY <1>m, <1>r, <2>1, MaintainIs
<1>10. /\ Turned(s, "manual", Free) /\ Free.done = {}
       /\ \A j \in Jobs : ~Holds(Free, j) /\ j \notin Todo(Free) /\ j \notin Begun(Free) /\ Free.job # j
  <2>1. SetProc(s, "manual", Free) \/ SetProcReloaded(s, "manual", Free)
    BY <1>7
  <2>q. PICK q : q = Free
    OBVIOUS
  <2> QED BY <1>i, <1>r, <2>1, <2>q, TurnedFree DEF Pcs
<1>11. /\ proc'[s]["manual"] = Free /\ Moves(s, "manual")
       /\ proc'[s]["boot"].pc = proc[s]["boot"].pc /\ proc'[s]["tick"].pc = proc[s]["tick"].pc
  BY <1>10 DEF Turned, Roles
<1>12. CASE e[i].present
  <2>1. Stored(s, m, m)
    BY <1>i, <1>7, <1>9, <1>12, PersistIs DEF Upkept
  <2>2. Timed(s) /\ (NextWake(m) # {} => timer'[s] \in 0..(now + Clamp))
    BY <1>i, <1>7, <1>9, <1>12, ArmIs DEF Upkept
  <2>w. Writes(s)
    BY <1>i, <1>o, <1>7, <2>1, <2>2 DEF Writes, Stored, Timed, Types, Open
  <2>3. s = started => SchedulerAlive'
    BY <1>i, <1>7, <2>1, <2>2, AliveIs DEF Stored
  <2>4. ASSUME NEW j \in Jobs PROVE JobStep(s, "manual", j)
    <3>1. disk'[j] = m[j] /\ mem'[s][j] = m[j] /\ disk[j] = d[j]
      BY <1>d, <2>1 DEF Stored
    <3>2. /\ Proper(created, j, m[j]) /\ m[j].enabled = a[j].enabled
          /\ m[j].running # None => j # i /\ d[j].running # None
          /\ j # i => m[j].enabled = d[j].enabled /\ (d[j].enabled => m[j].next = d[j].next)
      BY <1>8, <1>9 DEF Upkept, Kept
    <3>3. RecordStep(s, "manual", j)
      <4>1. SkipStep(s, "manual", j)
        BY <1>3, <1>p, <1>10, <1>11, <3>1, <3>2 DEF SkipStep
      <4> QED BY <1>3, <1>7, <3>1, <3>2, <4>1 DEF RecordStep, Alike
    <3>4. started = 1 /\ MarkerAfter(s, j) =>
            loaded[s] /\ ~Holds(proc[s]["manual"], j) /\ Marker(s, j)
      BY <1>o, <1>p, <1>3, <3>1, <3>2 DEF MarkerAfter, Marker, Open
    <3>5. j \notin touched' => j \notin Begun(proc[s]["manual"])
      BY <1>3, <1>7, <1>p
    <3> QED BY <1>10, <1>11, <3>3, <3>4, <3>5, ApplyStep
  <2> QED BY <1>o, <1>11, <2>w, <2>3, <2>4 DEF Act, Open
<1>13. CASE ~e[i].present
  <2>1. Stored(s, disk, mem[s])
    BY <1>i, <1>o, <1>7, <1>13, StoreStays DEF Open
  <2>2. Timed(s)
    BY <1>i, <1>7, <1>13, TimerStays
  <2>w. Writes(s)
    BY <1>i, <1>o, <1>7, <2>1, <2>2 DEF Writes, Stored, Timed, Types, Open
  <2>3. s = started => SchedulerAlive'
    BY <1>i, <1>7, <1>11, <1>13 DEF SchedulerAlive
  <2>4. ASSUME NEW j \in Jobs PROVE JobStep(s, "manual", j)
    <3>1. RecordStep(s, "manual", j) /\ (MarkerAfter(s, j) <=> Marker(s, j)) /\ loaded[s]
      BY <1>o, <1>7, <1>13, NoWriteStep DEF Open
    <3>2. started = 1 /\ Marker(s, j) => j # i
      <4> SUFFICES ASSUME started = 1 PROVE ~Marker(s, i)
        OBVIOUS
      <4>1. e[i] = Gone
        BY <1>4, <1>13 DEF Proper
      <4>2. d[i].present = e[i].present
        BY <1>o, <1>d, <1>e DEF Open, Alike
      <4>3. d[i] = Gone
        BY <1>4, <1>13, <4>2 DEF Proper
      <4> QED BY <1>d, <1>e, <4>1, <4>3, GoneIs DEF Marker
    <3>3. started = 1 /\ MarkerAfter(s, j) =>
            loaded[s] /\ ~Holds(proc[s]["manual"], j) /\ Marker(s, j)
      BY <1>p, <1>3, <3>1, <3>2
    <3>4. j \notin touched' => j \notin Begun(proc[s]["manual"])
      BY <1>3, <1>7, <1>p
    <3> QED BY <1>10, <1>11, <3>1, <3>3, <3>4, ApplyStep
  <2> QED BY <1>o, <1>11, <2>w, <2>3, <2>4 DEF Act, Open
<1> QED BY <1>12, <1>13


-----------------------------------------------------------------------------
(***************************************************************************)
(* The calls of users and agents, and what they find.                      *)
(***************************************************************************)

\* A call that starts nothing: the service writes d to the file and m to its memory.
LEMMA CallActs ==
  ASSUME IInv, NEW s \in Services, Open(s), proc' = proc,
         NEW m, Stored(s, disk', m), Timed(s),
         \/ NextWake(m) # {} => timer'[s] \in 0..(now + Clamp)
         \/ timer'[s] = timer[s] /\ (NextWake(m) # {} => NextWake(mem[s]) # {}),
         started' = started, now' = now, events' \in 0..MaxEvents,
         created \subseteq created', created' \subseteq Jobs,
         touched \subseteq touched', touched' \subseteq Jobs,
         \A j \in Jobs : /\ RecordStep(s, "manual", j)
                         /\ started = 1 /\ MarkerAfter(s, j) => Marker(s, j)
  PROVE  Act(s, "manual")
<1>i. Types /\ Shapes /\ SchedulerAlive /\ "manual" \in Roles
  BY DEF IInv, Roles
<1>1. Writes(s)
  BY DEF Writes, Stored, Timed, Open
<1>2. Moves(s, "manual")
  BY <1>i, ProcStays DEF Turned
<1>3. s = started => SchedulerAlive'
  <2>1. mem'[s] = m
    BY DEF Stored
  <2> QED BY <1>i, <2>1 DEF SchedulerAlive
<1>4. ASSUME NEW j \in Jobs PROVE JobStep(s, "manual", j)
  <2>1. started = 1 /\ MarkerAfter(s, j) => loaded[s] /\ Marker(s, j)
    BY DEF Open
  <2> QED BY <2>1, QuietStep
<1> QED BY <1>1, <1>2, <1>3, <1>4 DEF Act, Open

LEMMA AddActs ==
  ASSUME IInv, NEW s \in Services, NEW i \in Jobs, Add(s, i)
  PROVE  Act(s, "manual")
<1>i. Types /\ AllProper
  BY DEF IInv
<1>r. now \in Nat
  BY <1>i, CronAssumption DEF Types
<1>o. Open(s)
  BY OpenIs DEF Add, Op
<1>e. PICK e : e = mem[s]
  OBVIOUS
<1>v. PICK v : v = WithNext(New, NextRun(i, New, now))
  OBVIOUS
<1>a. PICK a : a = [e EXCEPT ![i] = v]
  OBVIOUS
<1>m. PICK m : m = Recompute(a, now)
  OBVIOUS
<1>c. PICK c : c = created \cup {i}
  OBVIOUS
<1>1. /\ Persist(s, m) /\ Arm(s, m) /\ created' = c /\ i \notin created
      /\ proc' = proc /\ started' = started /\ now' = now /\ touched' = touched
      /\ events' \in 0..MaxEvents
  <2>1. events' \in 0..MaxEvents
    BY <1>i, CronAssumption DEF Add, Op, Event, Types
  <2> QED BY <1>o, <1>e, <1>v, <1>a, <1>m, <1>c, <2>1 DEF Add, WithNext, Open
<1>2. e \in [Jobs -> JobRecord] /\ \A j \in Jobs : Proper(created, j, e[j])
  BY <1>i, <1>e DEF Types, AllProper
<1>3. v \in JobRecord /\ Proper(c, i, v) /\ v.running = None
  <2>1. New \in JobRecord /\ New.present /\ New.enabled /\ New.running = None /\ New.last = None
    BY GoneIs
  <2>t. PICK t : t = NextRun(i, New, now)
    OBVIOUS
  <2>2. t \in Times /\ t # None
    BY <1>r, <2>1, <2>t, NextRunIs
  <2>3. v \in JobRecord /\ SameRun(v, New) /\ v.next = t
    BY <1>v, <2>1, <2>2, <2>t, NextSet
  <2> QED BY <1>c, <2>1, <2>2, <2>3 DEF Proper, SameRun
<1>4. /\ a \in [Jobs -> JobRecord]
      /\ \A j \in Jobs : /\ Proper(c, j, a[j])
                         /\ j = i => a[j].running = None
                         /\ j # i => a[j] = e[j]
  BY <1>2, <1>3, <1>a, <1>c DEF Proper
<1>5. Upkept(c, a, m)
  <2>1. a \in [Jobs -> JobRecord] /\ \A j \in Jobs : Proper(c, j, a[j])
    BY <1>4
  <2> QED BY <1>m, <1>r, <2>1, RecomputeIs
<1>6. m \in [Jobs -> JobRecord]
  BY <1>5 DEF Upkept
<1>7. Stored(s, disk', m) /\ disk' = m
  BY <1>i, <1>1, <1>6, PersistIs DEF Stored
<1>8. Timed(s) /\ (NextWake(m) # {} => timer'[s] \in 0..(now + Clamp))
  BY <1>i, <1>1, <1>6, ArmIs
<1>9. ASSUME NEW j \in Jobs
      PROVE  /\ RecordStep(s, "manual", j)
             /\ started = 1 /\ MarkerAfter(s, j) => Marker(s, j)
  <2>1. disk'[j] = m[j] /\ mem'[s][j] = m[j] /\ mem[s][j] = e[j]
    BY <1>e, <1>7 DEF Stored
  <2>2. /\ Proper(c, j, m[j]) /\ m[j].enabled = a[j].enabled
        /\ m[j].running # None => e[j].running # None
        /\ j # i => m[j].enabled = e[j].enabled
    BY <1>4, <1>5 DEF Upkept, Kept
  <2>3. Recomputes(s, j)
    BY DEF Recomputes
  <2>4. started = 1 => e[j].enabled = disk[j].enabled
    BY <1>o, <1>e DEF Open, Alike
  <2>5. j \in created => j # i
    BY <1>1
  <2>6. SkipStep(s, "manual", j)
    BY <2>3 DEF SkipStep
  <2>7. RecordStep(s, "manual", j)
    BY <1>1, <2>1, <2>2, <2>4, <2>5, <2>6 DEF RecordStep, Alike
  <2> QED BY <2>1, <2>2, <2>7 DEF MarkerAfter, Marker
<1>10. created \subseteq created' /\ created' \subseteq Jobs /\ touched' \subseteq Jobs
  BY <1>i, <1>1, <1>c DEF Types
<1> QED BY <1>o, <1>1, <1>7, <1>8, <1>9, <1>10, CallActs

\* A user's patch.
LEMMA PatchedIs ==
  ASSUME NEW c, NEW i \in Jobs, NEW r \in JobRecord, Proper(c, i, r), r.present, now \in Nat,
         NEW patch \in {"enable", "disable", "schedule", "other"}, NEW v,
         v = Patched(i, r, patch)
  PROVE  /\ v \in JobRecord /\ Proper(c, i, v) /\ v.running \in {None, r.running}
         /\ patch \notin {"enable", "schedule"} /\ v.enabled =>
              r.next = None \/ v.next = r.next
<1>0. None \in Times /\ r.enabled \in BOOLEAN /\ i \in c
  BY GoneIs DEF Proper
<1>b. PICK b \in BOOLEAN : b = IF patch = "enable" THEN TRUE ELSE IF patch = "disable" THEN FALSE
                               ELSE r.enabled
  BY <1>0
<1>e. PICK e : e = WithEnabled(r, b)
  OBVIOUS
<1>1. e \in JobRecord /\ SameTimes(e, r) /\ e.enabled = b
  BY <1>e, EnabledSet
<1>t. PICK t : t = NextRun(i, e, now)
  OBVIOUS
<1>2. t \in Times /\ (e.enabled /\ t = None => Kind[i] = "at" /\ e.status = "ok" /\ e.last # None)
  BY <1>1, <1>t, NextRunIs
<1>3. v = IF patch \in {"enable", "disable", "schedule"}
          THEN IF e.enabled THEN WithNext(e, t) ELSE [e EXCEPT !.next = None, !.running = None]
          ELSE IF e.enabled /\ e.next = None THEN WithNext(e, t) ELSE e
  <2>1. e = [r EXCEPT !.enabled = IF patch = "enable" THEN TRUE
                                 ELSE IF patch = "disable" THEN FALSE ELSE @]
    BY <1>b, <1>e DEF WithEnabled
  <2> QED BY <1>t, <2>1 DEF Patched, WithNext
<1>4. CASE v = WithNext(e, t) /\ e.enabled /\ (patch # "other" \/ e.next = None)
  <2>1. v \in JobRecord /\ SameRun(v, e) /\ v.next = t
    BY <1>1, <1>2, <1>4, NextSet
  <2>2. Proper(c, i, v)
    BY <1>0, <1>1, <1>2, <1>4, <2>1 DEF Proper, SameRun, SameTimes
  <2>3. patch \in {"enable", "schedule"} \/ e.next = None
    BY <1>b, <1>1, <1>4
  <2> QED BY <1>1, <1>4, <2>1, <2>2, <2>3 DEF SameRun, SameTimes
<1>5. CASE ~e.enabled /\ v = [e EXCEPT !.next = None, !.running = None]
  <2>w. PICK w : w = WithNext(e, None)
    OBVIOUS
  <2>1. w \in JobRecord /\ SameRun(w, e)
    BY <1>0, <1>1, <2>w, NextSet
  <2>2. v = WithRunning(w, None)
    BY <1>5, <2>w DEF WithRunning, WithNext
  <2>3. v \in JobRecord /\ Alike(v, w) /\ v.running = None
    BY <1>0, <2>1, <2>2, RunningSet
  <2> QED BY <1>0, <1>1, <1>5, <2>1, <2>3 DEF Proper, SameRun, Alike, SameTimes
<1>6. CASE v = e /\ (~e.enabled \/ e.next # None)
  BY <1>0, <1>1, <1>6 DEF Proper, SameTimes
<1>7. \/ v = WithNext(e, t) /\ e.enabled /\ (patch # "other" \/ e.next = None)
      \/ ~e.enabled /\ v = [e EXCEPT !.next = None, !.running = None]
      \/ v = e /\ (~e.enabled \/ e.next # None)
  BY <1>3
<1> QED BY <1>4, <1>5, <1>6, <1>7


LEMMA UpdateActs ==
  ASSUME IInv, NEW s \in Services, NEW i \in Jobs,
         NEW patch \in {"enable", "disable", "schedule", "other"}, Update(s, i, patch)
  PROVE  Act(s, "manual")
<1>i. Types /\ AllProper
  BY DEF IInv
<1>r. now \in Nat
  BY <1>i, CronAssumption DEF Types
<1>o. Open(s)
  BY OpenIs DEF Update, Op
<1>e. PICK e : e = mem[s]
  OBVIOUS
<1>v. PICK v : v = Patched(i, e[i], patch)
  OBVIOUS
<1>m. PICK m : m = [e EXCEPT ![i] = v]
  OBVIOUS
<1>2. e \in [Jobs -> JobRecord] /\ \A j \in Jobs : Proper(created, j, e[j])
  BY <1>i, <1>e DEF Types, AllProper
<1>1. /\ Persist(s, m) /\ Arm(s, m) /\ created' = created /\ e[i].present
      /\ proc' = proc /\ started' = started /\ now' = now /\ touched' = touched \cup {i}
      /\ events' \in 0..MaxEvents
  <2>1. events' \in 0..MaxEvents
    BY <1>i, CronAssumption DEF Update, Op, Event, Types
  <2>2. [e EXCEPT ![i] = Patched(i, @, patch)] = m
    BY <1>2, <1>v, <1>m
  <2> QED BY <1>o, <1>e, <2>1, <2>2 DEF Update, Open
<1>3. /\ v \in JobRecord /\ Proper(created, i, v) /\ v.running \in {None, e[i].running}
      /\ patch \notin {"enable", "schedule"} /\ v.enabled =>
           e[i].next = None \/ v.next = e[i].next
  <2>1. e[i] \in JobRecord /\ Proper(created, i, e[i])
    BY <1>2
  <2> QED BY <1>1, <1>r, <1>v, <2>1, PatchedIs
<1>4. m \in [Jobs -> JobRecord] /\ \A j \in Jobs : m[j] = IF j = i THEN v ELSE e[j]
  BY <1>2, <1>3, <1>m
<1>7. Stored(s, disk', m) /\ disk' = m
  BY <1>i, <1>1, <1>4, PersistIs DEF Stored
<1>8. Timed(s) /\ (NextWake(m) # {} => timer'[s] \in 0..(now + Clamp))
  BY <1>i, <1>1, <1>4, ArmIs
<1>9. ASSUME NEW j \in Jobs
      PROVE  /\ RecordStep(s, "manual", j)
             /\ started = 1 /\ MarkerAfter(s, j) => Marker(s, j)
  <2>1. disk'[j] = m[j] /\ mem'[s][j] = m[j] /\ mem[s][j] = e[j]
    BY <1>e, <1>7 DEF Stored
  <2>2. Proper(created, j, m[j]) /\ (m[j].running # None => e[j].running # None)
    BY <1>2, <1>3, <1>4
  <2>3. started = 1 => Alike(e[j], disk[j])
    BY <1>o, <1>e DEF Open
  <2>4. SkipStep(s, "manual", j)
    <3>1. CASE patch \in {"enable", "schedule"} /\ j = i
      BY <3>1 DEF SkipStep, Recomputes
    <3>2. CASE patch \notin {"enable", "schedule"} /\ j = i
      BY <1>3, <1>4, <2>1, <2>3, <3>2 DEF SkipStep, Alike
    <3>3. CASE j # i
      BY <1>4, <2>1, <2>3, <3>3 DEF SkipStep, Alike
    <3> QED BY <3>1, <3>2, <3>3
  <2>5. j \notin touched' => m[j] = e[j]
    BY <1>1, <1>4
  <2>6. RecordStep(s, "manual", j)
    BY <1>1, <2>1, <2>2, <2>3, <2>4, <2>5 DEF RecordStep, Alike
  <2> QED BY <2>1, <2>2, <2>6 DEF MarkerAfter, Marker
<1>10. created \subseteq created' /\ created' \subseteq Jobs /\ touched' \subseteq Jobs
  BY <1>i, <1>1 DEF Types
<1> QED BY <1>o, <1>1, <1>7, <1>8, <1>9, <1>10, CallActs

LEMMA RemoveActs ==
  ASSUME IInv, NEW s \in Services, NEW i \in Jobs, RemoveJob(s, i)
  PROVE  Act(s, "manual")
<1>i. Types /\ AllProper
  BY DEF IInv
<1>o. Open(s)
  BY OpenIs DEF RemoveJob, Op
<1>e. PICK e : e = mem[s]
  OBVIOUS
<1>m. PICK m : m = [e EXCEPT ![i] = Gone]
  OBVIOUS
<1>1. /\ Persist(s, m) /\ Arm(s, m) /\ created' = created
      /\ proc' = proc /\ started' = started /\ now' = now /\ touched' = touched
      /\ events' \in 0..MaxEvents
  <2>1. events' \in 0..MaxEvents
    BY <1>i, CronAssumption DEF RemoveJob, Op, Event, Types
  <2> QED BY <1>o, <1>e, <1>m, <2>1 DEF RemoveJob, Open
<1>2. e \in [Jobs -> JobRecord] /\ \A j \in Jobs : Proper(created, j, e[j])
  BY <1>i, <1>e DEF Types, AllProper
<1>4. m \in [Jobs -> JobRecord] /\ \A j \in Jobs : m[j] = IF j = i THEN Gone ELSE e[j]
  BY <1>2, <1>m, GoneIs
<1>7. Stored(s, disk', m) /\ disk' = m
  BY <1>i, <1>1, <1>4, PersistIs DEF Stored
<1>8. Timed(s) /\ (NextWake(m) # {} => timer'[s] \in 0..(now + Clamp))
  BY <1>i, <1>1, <1>4, ArmIs
<1>9. ASSUME NEW j \in Jobs
      PROVE  /\ RecordStep(s, "manual", j)
             /\ started = 1 /\ MarkerAfter(s, j) => Marker(s, j)
  <2>1. disk'[j] = m[j] /\ mem'[s][j] = m[j] /\ mem[s][j] = e[j]
    BY <1>e, <1>7 DEF Stored
  <2>2. Proper(created, j, m[j]) /\ (m[j] = e[j] \/ m[j] = Gone)
    BY <1>2, <1>4, GoneIs DEF Proper
  <2>3. started = 1 => Alike(e[j], disk[j])
    BY <1>o, <1>e DEF Open
  <2>4. RecordStep(s, "manual", j)
    BY <1>1, <2>1, <2>2, <2>3, GoneIs DEF RecordStep, SkipStep, Alike
  <2> QED BY <2>1, <2>2, <2>4, GoneIs DEF MarkerAfter, Marker
<1>10. created \subseteq created' /\ created' \subseteq Jobs /\ touched' \subseteq Jobs
  BY <1>i, <1>1 DEF Types
<1> QED BY <1>o, <1>1, <1>7, <1>8, <1>9, <1>10, CallActs

LEMMA ReadActs ==
  ASSUME IInv, NEW s \in Services, Read(s)
  PROVE  Act(s, "manual")
<1>i. Types /\ AllProper
  BY DEF IInv
<1>r. now \in Nat
  BY <1>i, CronAssumption DEF Types
<1>o. Open(s)
  BY OpenIs DEF Read
<1>e. PICK e : e = mem[s]
  OBVIOUS
<1>m. PICK m : m = Maintain(e, now)
  OBVIOUS
<1>1. /\ PersistChange(s, e, m) /\ created' = created /\ timer' = timer
      /\ proc' = proc /\ started' = started /\ now' = now /\ touched' = touched
      /\ events' = events
  BY <1>o, <1>e, <1>m DEF Read, Open
<1>2. e \in [Jobs -> JobRecord] /\ \A j \in Jobs : Proper(created, j, e[j])
  BY <1>i, <1>e DEF Types, AllProper
<1>3. Upkept(created, e, m) /\ \A j \in Jobs : e[j].enabled => m[j].next = e[j].next
  <2>1. e \in [Jobs -> JobRecord]
    BY <1>2
  <2> QED BY <1>2, <1>m, <1>r, <2>1, MaintainIs
<1>4. m \in [Jobs -> JobRecord]
  BY <1>3 DEF Upkept
<1>7. Stored(s, disk', m) /\ disk' = IF m = e THEN disk ELSE m
  BY <1>i, <1>1, <1>2, <1>4, PersistChangeIs
<1>8. Timed(s) /\ timer'[s] = timer[s]
  BY <1>i, <1>1, TimerStays
<1>b. \A j \in Jobs : e[j].enabled \in BOOLEAN /\ m[j].enabled \in BOOLEAN
  BY <1>2, <1>4, GoneIs
<1>w. NextWake(m) # {} => NextWake(mem[s]) # {}
  <2>1. \A j \in Jobs : m[j].enabled /\ m[j].next # None => e[j].enabled /\ e[j].next # None
    BY <1>3, <1>b DEF Upkept, Kept
  <2> QED BY <1>2, <1>4, <1>e, <2>1, WakeFrom
<1>9. ASSUME NEW j \in Jobs
      PROVE  /\ RecordStep(s, "manual", j)
             /\ started = 1 /\ MarkerAfter(s, j) => Marker(s, j)
  <2>1. disk'[j] \in {disk[j], m[j]} /\ mem'[s][j] = m[j] /\ mem[s][j] = e[j]
    BY <1>e, <1>7 DEF Stored
  <2>2. Proper(created, j, m[j]) /\ Proper(created, j, disk[j]) /\ Kept(e[j], m[j])
        /\ (e[j].enabled => m[j].next = e[j].next)
    BY <1>i, <1>3 DEF AllProper, Upkept
  <2>3. started = 1 => Alike(e[j], disk[j])
    BY <1>o, <1>e DEF Open
  <2>4. disk'[j] = m[j] \/ (disk'[j] = disk[j] /\ m[j] = e[j])
    BY <1>7
  <2>5. RecordStep(s, "manual", j)
    BY <1>1, <1>b, <2>1, <2>2, <2>3, <2>4 DEF RecordStep, SkipStep, Alike, Kept
  <2> QED BY <2>1, <2>2, <2>4, <2>5 DEF MarkerAfter, Marker, Kept
<1>10. created' \subseteq Jobs /\ touched' \subseteq Jobs /\ events' \in 0..MaxEvents
  BY <1>i, <1>1 DEF Types
<1> QED BY <1>o, <1>1, <1>7, <1>8, <1>9, <1>10, <1>w, CallActs


-----------------------------------------------------------------------------
(***************************************************************************)
(* Every step keeps the invariant, and the theorems.                       *)
(***************************************************************************)

\* A step of a service is one of one of its roles.
LEMMA StepActs ==
  ASSUME IInv, NEW s \in Services, TimerFires(s) \/ ServiceStep(s) \/ UserStep(s)
  PROVE  \E k \in Roles : Act(s, k)
<1>r. "boot" \in Roles /\ "tick" \in Roles /\ "manual" \in Roles
  BY DEF Roles
<1>1. CASE TimerFires(s)
  BY <1>r, <1>1, TimerFiresActs
<1>2. CASE ServiceStep(s)
  <2>1. CASE BootClears(s)
    BY <1>r, <2>1, BootClearsActs
  <2>2. CASE BootCollects(s)
    BY <1>r, <2>2, BootCollectsActs
  <2>3. CASE BootEnds(s)
    BY <1>r, <2>3, BootEndsActs
  <2>4. CASE TickCollects(s)
    BY <1>r, <2>4, TickCollectsActs
  <2>5. CASE TickEnds(s)
    BY <1>r, <2>5, TickEndsActs
  <2>6. CASE RunApplies(s)
    BY <1>r, <2>6, RunAppliesActs
  <2>7. CASE \E k \in Roles : JobBegins(s, k) \/ OutcomesApplied(s, k)
    BY <2>7, JobBeginsActs, OutcomesAppliedActs
  <2>8. CASE \E k \in Roles, status \in {"ok", "error"} : JobEnds(s, k, status)
    BY <2>8, JobEndsActs
  <2> QED BY <1>2, <2>1, <2>2, <2>3, <2>4, <2>5, <2>6, <2>7, <2>8 DEF ServiceStep
<1>3. CASE UserStep(s)
  <2>1. CASE \E j \in Jobs : Add(s, j) \/ RemoveJob(s, j)
    BY <1>r, <2>1, AddActs, RemoveActs
  <2>2. CASE \E j \in Jobs, patch \in {"enable", "disable", "schedule", "other"} :
               Update(s, j, patch)
    BY <1>r, <2>2, UpdateActs
  <2>3. CASE \E j \in Jobs, forced \in BOOLEAN : RunReserves(s, j, forced)
    BY <1>r, <2>3, RunReservesActs
  <2>4. CASE Read(s)
    BY <1>r, <2>4, ReadActs
  <2> QED BY <1>3, <2>1, <2>2, <2>3, <2>4 DEF UserStep
<1> QED BY <1>1, <1>2, <1>3

LEMMA NextKeeps ==
  ASSUME IInv, [Next]_vars
  PROVE  IInv'
<1>1. CASE Next
  <2>1. Recorded /\ Step
    BY <1>1 DEF Next
  <2>2. CASE \E s \in Services : TimerFires(s) \/ ServiceStep(s) \/ UserStep(s)
    BY <2>1, <2>2, StepActs, ActKeeps
  <2>3. CASE Reload \/ Crash \/ Tick
    BY <2>1, <2>3, ReloadKeeps, CrashKeeps, TickKeeps
  <2> QED BY <2>1, <2>2, <2>3 DEF Step
<1>2. CASE UNCHANGED vars
  <2> USE <1>2 DEF vars, store, control
  <2>1. Types'
    BY DEF IInv, Types
  <2>2. Shapes' /\ AllOpened'
    BY DEF IInv, Shapes, AllOpened, Opened
  <2>3. AllProper' /\ AllMarked'
    BY DEF IInv, AllProper, AllMarked, Marked
  <2>4. Single' /\ AllOnce'
    BY DEF IInv, Single, AllOnce, OnceOnly
  <2>5. SchedulerAlive'
    BY DEF IInv, SchedulerAlive
  <2> QED BY <2>1, <2>2, <2>3, <2>4, <2>5 DEF IInv
<1> QED BY <1>1, <1>2

\* In every state of cron the records, the markers and what is executing fit together as
\* IInv says.
THEOREM CronInvariant == Spec => []IInv
<1>1. IInv /\ [Next]_vars => IInv'
  BY NextKeeps
<1> QED BY <1>1, InitInv, PTL DEF Spec

\* A service never executes one job twice at once, by its start, its timer or by hand,
\* unless the job's running marker was cleared under a run.
THEOREM JobsDoNotOverlap == Spec => []NoOverlap
<1>1. IInv => NoOverlap
  <2> SUFFICES ASSUME IInv, NEW j \in Jobs \ unmarked, NEW s \in Services
               PROVE  Cardinality(Executing(j, s)) <= 1
    BY DEF NoOverlap
  <2>1. \A k, l \in Executing(j, s) : k = l
    BY DEF IInv, AllMarked, Marked, Holds, Executing
  <2>2. CASE Executing(j, s) = {}
    BY <2>2, FS_EmptySet
  <2>3. CASE Executing(j, s) # {}
    <3>1. PICK k : Executing(j, s) = {k}
      BY <2>1, <2>3
    <3>2. Cardinality({k}) = 1
      BY FS_Singleton
    <3> QED BY <3>1, <3>2
  <2> QED BY <2>2, <2>3
<1> QED BY <1>1, CronInvariant, PTL

\* Without a reload a one-shot job is started once, unless a user took it up again or its
\* running marker was cleared under a run, be it by a crash.
THEOREM OneShotsRunOnce == Spec => []OneShotOnce
<1>1. IInv => OneShotOnce
  BY DEF IInv, AllOnce, OnceOnly, OneShotOnce
<1> QED BY <1>1, CronInvariant, PTL

\* Every variable keeps its type; and without a reload a marker in the file is of a run
\* that was taken and whose result is not applied yet.
THEOREM NoMarkerIsLeftOver == Spec => []MarkersAreHeld
<1>1. IInv => MarkersAreHeld
  <2> SUFFICES ASSUME IInv PROVE MarkersAreHeld
    OBVIOUS
  <2>1. TypeOK
    <3>1. ASSUME NEW s \in Services, NEW k \in Roles
          PROVE  /\ proc[s][k].pc \in Pcs /\ proc[s][k].todo \in Seq(Jobs)
                 /\ proc[s][k].live \in BOOLEAN /\ proc[s][k].job \in Jobs \cup {"none"}
                 /\ proc[s][k].since \in None..Horizon
                 /\ proc[s][k].done \subseteq Result /\ proc[s][k].skip \subseteq Jobs
      <4>1. proc[s][k] \in ProcType
        BY DEF IInv, Types
      <4> QED BY <4>1 DEF ProcType
    <3>2. \A j \in Jobs : disk[j] \in JobRecord /\ \A s \in Services : mem[s][j] \in JobRecord
      BY DEF IInv, Types
    <3> QED BY <3>1, <3>2 DEF IInv, Types, TypeOK, Pcs
  <2>2. ASSUME started = 1, proc[1]["boot"].pc # "clear", NEW j \in Jobs,
               disk[j].running # None
        PROVE  Held(j)
    <3>1. 1 \in Services /\ Opened(1)
      BY <2>2 DEF IInv, Types, AllOpened
    <3>2. loaded[1]
      BY <2>2, <3>1 DEF Opened
    <3> QED BY <2>2, <3>1, <3>2 DEF IInv, Single, Held
  <2> QED BY <2>1, <2>2 DEF MarkersAreHeld
<1> QED BY <1>1, CronInvariant, PTL

\* Once its start is over, the gateway's service has a timer, at most Clamp away, while a
\* job of its memory has a next run: whatever calls interleave, and while a tick is
\* executing jobs, too, if the service replaced none.
THEOREM TimerStaysAlive == Spec => []SchedulerAlive
<1>1. IInv => SchedulerAlive
  BY DEF IInv
<1> QED BY <1>1, CronInvariant, PTL

\* Without a reload no tick, read or run of another job moves the next run of a job that is
\* due: only the end of a start, an addition and an update of the job do.
THEOREM OnlyRecomputesSkip == Spec => OnlyRecomputeSkips
<1>1. ASSUME IInv, Next, NEW j \in Jobs, started = 1, started' = 1, Skipped(j)
      PROVE  \E s \in Services : Recomputes(s, j)
  <2>1. /\ disk[j].enabled /\ disk'[j].enabled /\ disk[j].next \in 0..now
        /\ disk'[j].next > disk[j].next
        /\ ~\E s \in Services, k \in Roles :
              j \in {x.job : x \in proc[s][k].done} /\ proc'[s][k].done = {}
    BY <1>1 DEF Skipped
  <2>2. disk[j].next # None /\ disk'[j].next # disk[j].next
    <3>1. disk[j].next \in Nat /\ None \notin Nat
      BY <2>1 DEF None
    <3> QED BY <2>1, <3>1
  <2>3. CASE \E s \in Services : TimerFires(s) \/ ServiceStep(s) \/ UserStep(s)
    <3>1. PICK s \in Services, k \in Roles : Act(s, k)
      BY <1>1, <2>3, StepActs
    <3>2. SkipStep(s, k, j)
      BY <3>1 DEF Act, JobStep
    <3> QED BY <1>1, <2>1, <2>2, <3>2 DEF SkipStep
  <2>4. CASE Reload \/ Crash \/ Tick
    BY <2>2, <2>4 DEF Reload, Crash, Tick, store
  <2> QED BY <1>1, <2>3, <2>4 DEF Next, Step
<1>2. IInv /\ [Next]_vars =>
        [\A j \in Jobs : started = 1 /\ started' = 1 /\ Skipped(j) =>
           \E s \in Services : BootEnds(s) \/ (\E k \in Jobs : Add(s, k))
                               \/ \E patch \in {"enable", "schedule"} : Update(s, j, patch)]_vars
  BY <1>1 DEF Recomputes
<1> QED BY <1>2, CronInvariant, PTL DEF Spec, OnlyRecomputeSkips

=============================================================================
