----------------------------- MODULE TaskFiles ------------------------------
(***************************************************************************)
(* The task files of an agent's workspace and the lock files beside them:  *)
(* infra/task-lock.ts, the tools of task-crud.ts and task-blocking.ts, the *)
(* delegations, and the checks of infra/task-continuation-runner.ts.       *)
(*                                                                         *)
(* A tool call or a chain of checks is an actor.  Each file system call is *)
(* a step, and so is the run of an agent that a check waits for with the   *)
(* lock in hand.  A lock file holds a process id and a time, not a holder: *)
(* it is free, torn (created, not yet written), fresh, old (over a minute) *)
(* or dead (its process is gone); `by' is who created it.  File operations *)
(* take less than a minute, so only runs of an agent make a lock old.      *)
(***************************************************************************)
EXTENDS Integers, FiniteSets

CONSTANTS
  Tasks,
  Calls,         \* sessions of the agent, each in one tool call at a time
  Chains,        \* chains of checks, 1..n: the process's and one per restart inside it
  None,
  MaxRequests,   \* MAX_UNBLOCK_REQUESTS
  MaxFailures,   \* MAX_UNBLOCK_FAILURES
  MaxReassign,   \* recoveries of a zombie, the last of which gives it up
  Scenarios      \* settings and bounds: the tools called and how often, chains,
                 \* crashes, and what the first process finds of each task

ASSUME TasksAssumption ==
  /\ Chains \in SUBSET (Nat \ {0}) /\ Calls \cap Chains = {}
  /\ None \notin Tasks \cup Calls \cup Chains
  /\ "continuation" \notin Tasks \cup {None}
  /\ {MaxRequests, MaxFailures, MaxReassign} \subseteq Nat \ {0}
  /\ Scenarios \subseteq
       [ops : SUBSET {"update", "complete", "cancel", "approve", "block", "resume", "pick",
                      "delegate"},
        calls : Nat, chains : Nat, crashes : Nat,
        found : SUBSET {"none", "in_progress", "blocked", "backlog"}]

VARIABLES
  scenario,   \* the settings and bounds chosen; without chains the runner is disabled
  file,       \* task -> content of <task>.md, or None
  lock,       \* key -> <key>.lock
  act,        \* actor -> where it is
  policy,     \* the a2a policy lets the agent ask the others
  alive,      \* the process runs
  chains,     \* chains begun in this process
  calls, crashes,
  born,       \* tasks created (history)
  archived,   \* tasks with an entry in the history file
  sent,       \* unblock requests sent since the task was last blocked (history)
  bypassed    \* tasks whose lock was removed under its holder, or not taken (history)

vars == <<scenario, file, lock, act, policy, alive, chains, calls, crashes,
          born, archived, sent, bypassed>>
bounds == <<scenario, policy, alive, chains, calls, crashes, born>>

Actors == Calls \cup Chains
Pickup == "continuation"   \* the lock continuation_<agent>
Keys == Tasks \cup {Pickup}
Statuses == {"pending_approval", "in_progress", "blocked", "backlog",
             "interrupted", "completed", "cancelled"}
Stages == {"zombies", "pickup", "unblock", "remind"}

\* `added': task_backlog_add made it, and createdBy and assignee are set; `idle':
\* no activity for longer than the zombie TTL.
Content == [status : Statuses, added : BOOLEAN, requests : 0..MaxRequests,
            escalation : {"none", "requesting", "failed"},
            failures : 0..MaxFailures, reassigned : 0..MaxReassign, idle : BOOLEAN]
ASSUME NoContent == None \notin Content

Free == [state |-> "free", by |-> None]
AtRest == [pc |-> "rest", op |-> "none", task |-> None, key |-> None, copy |-> None,
           todo |-> {}, stale |-> FALSE]

Exists(t) == file[t] # None
With(status) == {t \in Tasks : Exists(t) /\ file[t].status = status}
NewTask(s) == [status |-> s, added |-> s = "backlog", requests |-> 0,
               escalation |-> "none", failures |-> 0, reassigned |-> 0, idle |-> FALSE]
Touched(f) == [f EXCEPT !.idle = FALSE]

\* formatTaskFileMd: the recoveries are written down with the backlog data only,
\* which a task of task_start has none of once it is out of the backlog.
Stored(f) == IF f.status = "backlog" \/ f.added THEN f ELSE [f EXCEPT !.reassigned = 0]

\* A process begins one chain of checks, if they are enabled.
First == IF scenario.chains = 0 THEN 0 ELSE 1

-----------------------------------------------------------------------------
Init ==
  /\ scenario \in Scenarios
  /\ \E found \in [Tasks -> scenario.found] :
       /\ file = [t \in Tasks |-> IF found[t] = "none" THEN None ELSE NewTask(found[t])]
       /\ born = {t \in Tasks : found[t] # "none"}
  /\ lock = [k \in Keys |-> Free]
  /\ act = [a \in Actors |-> AtRest]
  /\ policy \in BOOLEAN
  /\ alive = TRUE /\ chains = First /\ calls = 0 /\ crashes = 0
  /\ archived = {} /\ sent = [t \in Tasks |-> 0] /\ bypassed = {}

Move(a, next) == act' = [act EXCEPT ![a] = next]
At(a, pc) == alive /\ act[a].pc = pc

\* task_start, with or without approval, and task_backlog_add.
Create(t) ==
  /\ alive /\ t \notin born
  /\ \E s \in {"in_progress", "pending_approval", "backlog"} :
       file' = [file EXCEPT ![t] = NewTask(s)]
  /\ born' = born \cup {t}
  /\ UNCHANGED <<scenario, lock, act, policy, alive, chains, calls, crashes,
                 archived, sent, bypassed>>

\* What a tool makes of the copy it has; a completed task may be refused by the
\* stop guard, and is then only touched.  A resumed task has no blocking data any
\* more, so that its failures are not written down either.
Effects(o, f) ==
  CASE o \in {"update", "delegate"} -> {Touched(f)}
    [] o = "complete" -> {Touched(f), [f EXCEPT !.status = "completed"]}
    [] o = "cancel" -> {[f EXCEPT !.status = "cancelled"]}
    [] o \in {"approve", "pick"} -> {[Touched(f) EXCEPT !.status = "in_progress"]}
    [] o = "block" -> {[Touched(f) EXCEPT !.status = "blocked", !.requests = 0,
                                          !.escalation = "none"]}
    [] o = "resume" -> {[Touched(f) EXCEPT !.status = "in_progress", !.requests = 0,
                                           !.escalation = "none", !.failures = 0]}

\* The tools that read the task again once they have its lock.
Rereading == {"update", "complete", "pick", "delegate"}

\* A tool is called and reads the task; what it requires of the status it
\* requires of this copy.  task_approve goes on without a lock.
Call(c, o, t) ==
  /\ At(c, "rest") /\ calls < scenario.calls
  /\ calls' = calls + 1
  /\ Exists(t)
  /\ o = "resume" => file[t].status = "blocked"
  /\ o = "approve" => file[t].status = "pending_approval"
  /\ o = "pick" => file[t].status = "backlog" /\ With("in_progress") = {}
  /\ IF o = "approve"
       THEN \E f \in Effects(o, file[t]) :
              Move(c, [AtRest EXCEPT !.pc = "write", !.op = o, !.task = t, !.copy = f])
       ELSE Move(c, [AtRest EXCEPT !.pc = "probe", !.op = o, !.task = t, !.key = t,
                                   !.copy = IF o \in Rereading THEN None ELSE file[t]])
  /\ UNCHANGED <<scenario, file, lock, policy, alive, chains, crashes, born,
                 archived, sent, bypassed>>

-----------------------------------------------------------------------------
\* acquireTaskLock, call by call.

\* Not acquired: a tool returns an error, a delegation is written all the same,
\* a check goes on with the next task; a pickup first gives up its other lock.
Refused(a) ==
  LET r == act[a] IN
    IF r.op = "delegate" THEN [r EXCEPT !.pc = "reread", !.key = None]
    ELSE IF a \in Calls THEN AtRest
    ELSE IF r.op = "pickup" /\ r.key # Pickup THEN [r EXCEPT !.pc = "release", !.key = Pickup]
    ELSE [r EXCEPT !.pc = "next", !.key = None, !.task = None]

\* The file of a lock is removed, whatever it has become since it was read.
Removed(a, k) ==
  /\ lock' = [lock EXCEPT ![k] = Free]
  /\ bypassed' = IF lock[k].by \in Actors \ {a} THEN bypassed \cup {k} ELSE bypassed

\* fs.unlink of a lock found old, dead or malformed.
Unlink(a) ==
  /\ At(a, "unlink")
  /\ Removed(a, act[a].key)
  /\ Move(a, [act[a] EXCEPT !.pc = "open"])
  /\ UNCHANGED <<bounds, file, archived, sent>>

\* fs.open.
Opened(a) ==
  /\ lock' = [lock EXCEPT ![act[a].key] = [state |-> "torn", by |-> a]]
  /\ Move(a, [act[a] EXCEPT !.pc = "fill"])

\* Mutant: a lock that another has created since it was removed is opened too.
OpenShared(a) ==
  /\ At(a, "open")
  /\ Opened(a)
  /\ UNCHANGED <<bounds, file, archived, sent, bypassed>>

\* The lock has been removed and is opened with "wx".
Open(a) ==
  /\ At(a, "open")
  /\ IF lock[act[a].key] = Free THEN Opened(a) ELSE Move(a, Refused(a)) /\ UNCHANGED lock
  /\ UNCHANGED <<bounds, file, archived, sent, bypassed>>

\* Mutant: the process of a lock is not looked at.
ProbePatient(a) ==
  /\ At(a, "probe")
  /\ LET s == lock[act[a].key].state IN
       \/ s = "free" /\ Opened(a)
       \/ s \in {"fresh", "dead", "torn"} /\ Move(a, Refused(a)) /\ UNCHANGED lock
       \/ s = "old" /\ Move(a, [act[a] EXCEPT !.pc = "unlink"]) /\ UNCHANGED lock
  /\ UNCHANGED <<bounds, file, archived, sent, bypassed>>

\* fs.readFile of the lock: there is none, and it is opened in the same step; it
\* is held; it is one to remove.  A torn one may also have been created since
\* the lock was found missing.
Probe(a) ==
  /\ At(a, "probe")
  /\ LET s == lock[act[a].key].state IN
       \/ s = "free" /\ Opened(a)
       \/ s = "fresh" /\ Move(a, Refused(a)) /\ UNCHANGED lock
       \/ s = "torn" /\ lock[act[a].key].by # None /\ Move(a, Refused(a)) /\ UNCHANGED lock
       \/ s \in {"old", "dead", "torn"} /\ Move(a, [act[a] EXCEPT !.pc = "unlink"])
            /\ UNCHANGED lock
  /\ UNCHANGED <<bounds, file, archived, sent, bypassed>>

\* handle.write, to a file that may be gone already.  block, resume and cancel
\* go on with the copy from before.
Fill(a) ==
  /\ At(a, "fill")
  /\ LET k == act[a].key IN
       lock' = IF lock[k].by = a THEN [lock EXCEPT ![k].state = "fresh"] ELSE lock
  /\ LET r == act[a] IN
       IF r.op \in Rereading \cup Stages
         THEN Move(a, [r EXCEPT !.pc = IF r.key = Pickup THEN "look" ELSE "reread"])
         ELSE \E f \in Effects(r.op, r.copy) : Move(a, [r EXCEPT !.pc = "write", !.copy = f])
  /\ UNCHANGED <<bounds, file, archived, sent, bypassed>>

\* release: fs.unlink.
Release(a) ==
  /\ At(a, "release")
  /\ LET r == act[a] IN
       /\ IF r.key = None THEN UNCHANGED <<lock, bypassed>> ELSE Removed(a, r.key)
       /\ Move(a, IF a \in Calls THEN AtRest
                  ELSE IF r.op = "pickup" /\ r.key # Pickup THEN [r EXCEPT !.key = Pickup]
                  ELSE [r EXCEPT !.pc = "next", !.key = None, !.task = None])
  /\ UNCHANGED <<bounds, file, archived, sent>>

\* A minute passes in the run of an agent that the creator of a lock waits for.
Ages(k) ==
  /\ alive /\ lock[k].state = "fresh" /\ act[lock[k].by].pc = "agent"
  /\ lock' = [lock EXCEPT ![k].state = "old"]
  /\ UNCHANGED <<bounds, file, act, archived, sent, bypassed>>

-----------------------------------------------------------------------------
\* The file of a task is replaced or removed: others' copies of it are stale.
Replaced(a, t, f, next) ==
  /\ file' = [file EXCEPT ![t] = f]
  /\ act' = [b \in Actors |->
       IF b = a THEN next
       ELSE IF act[b].task = t /\ act[b].pc \in {"write", "agent"}
         THEN [act[b] EXCEPT !.stale = TRUE] ELSE act[b]]

\* The task is read again under the lock.
Reread(c) ==
  /\ c \in Calls /\ At(c, "reread")
  /\ LET r == act[c]
         t == r.task
     IN IF ~Exists(t) \/ (r.op = "pick" /\ file[t].status # "backlog")
          THEN Move(c, [r EXCEPT !.pc = "release"])
          ELSE \E f \in Effects(r.op, file[t]) :
                 Move(c, [r EXCEPT !.pc = "write", !.copy = f, !.stale = FALSE])
  /\ UNCHANGED <<bounds, file, lock, archived, sent, bypassed>>

\* What follows writeTask: the history, another agent's run, or the release.
Afterwards(a) ==
  LET r == act[a]
      s == r.copy.status
  IN IF r.op \in {"complete", "cancel"} /\ s \in {"completed", "cancelled"} THEN {"archive"}
     ELSE IF r.op = "pickup" THEN {"agent"}
     ELSE IF r.op = "zombies" /\ s = "interrupted" THEN {"agent", "release"}
     ELSE {"release"}

Done(r, pc) == [r EXCEPT !.pc = pc, !.copy = None, !.stale = FALSE]

\* writeTask.  A block begins a new round of requests.
Write(a) ==
  /\ At(a, "write")
  /\ LET r == act[a] IN
       /\ \E pc \in Afterwards(a) : Replaced(a, r.task, Stored(r.copy), Done(r, pc))
       /\ sent' = IF r.op = "block" THEN [sent EXCEPT ![r.task] = 0] ELSE sent
       /\ bypassed' = IF r.key = None THEN bypassed \cup {r.task} ELSE bypassed
  /\ UNCHANGED <<bounds, lock, archived>>

\* Mutant: a failure to write the history is passed over.
ArchiveAtBest(c) ==
  /\ At(c, "archive")
  /\ archived' \in {archived, archived \cup {act[c].task}}
  /\ Move(c, [act[c] EXCEPT !.pc = "delete"])
  /\ UNCHANGED <<bounds, file, lock, sent, bypassed>>

\* appendToHistory, which throws if it does not get the lock of the history.
Archive(c) ==
  /\ At(c, "archive")
  /\ \/ /\ archived' = archived \cup {act[c].task}
        /\ Move(c, [act[c] EXCEPT !.pc = "delete"])
     \/ /\ Move(c, [act[c] EXCEPT !.pc = "release"])
        /\ UNCHANGED archived
  /\ UNCHANGED <<bounds, file, lock, sent, bypassed>>

\* deleteTask.
Delete(c) ==
  /\ At(c, "delete")
  /\ Replaced(c, act[c].task, None, [act[c] EXCEPT !.pc = "release"])
  /\ UNCHANGED <<bounds, lock, archived, sent, bypassed>>

-----------------------------------------------------------------------------
\* runContinuationCheck for the agent: zombies, pickup, unblock, remind.

Zombie(f) == f.status = "in_progress" /\ f.idle

\* The timer fires; the files are listed.
Check(k) ==
  /\ k <= chains /\ At(k, "rest")
  /\ Move(k, [AtRest EXCEPT !.pc = "next", !.op = "zombies", !.todo = {t \in Tasks : Exists(t)}])
  /\ UNCHANGED <<bounds, file, lock, archived, sent, bypassed>>

\* What the next stage begins with; no reminders while the agent is busy.
Following(o) ==
  CASE o = "zombies" -> {[AtRest EXCEPT !.pc = "probe", !.op = "pickup", !.key = Pickup]}
    [] o = "pickup" -> {[AtRest EXCEPT !.pc = "next", !.op = "unblock", !.todo = With("blocked")]}
    [] o = "unblock" ->
         {[AtRest EXCEPT !.pc = "next", !.op = "remind", !.todo = todo] :
            todo \in {{}, {t \in With("blocked") :
                             file[t].requests > 0 /\ file[t].escalation # "failed"}}}
    [] o = "remind" -> {AtRest}

NextStage(k) ==
  /\ k \in Chains /\ At(k, "next") /\ act[k].todo = {}
  /\ \E next \in Following(act[k].op) : Move(k, next)
  /\ UNCHANGED <<bounds, file, lock, archived, sent, bypassed>>

\* The next task of the list.  A zombie is looked for in the file, a reminder
\* may have to wait for its cooldown.
NextTask(k, t) ==
  /\ k \in Chains /\ At(k, "next") /\ t \in act[k].todo
  /\ LET rest == [act[k] EXCEPT !.todo = @ \ {t}] IN
       \/ /\ act[k].op = "zombies" => Exists(t) /\ Zombie(file[t])
          /\ Move(k, [rest EXCEPT !.pc = "probe", !.task = t, !.key = t])
       \/ /\ \/ act[k].op = "zombies" /\ ~(Exists(t) /\ Zombie(file[t]))
             \/ act[k].op = "remind"
          /\ Move(k, rest)
  /\ UNCHANGED <<bounds, file, lock, archived, sent, bypassed>>

\* checkAgentForContinuation with its lock: the agent is busy or its task not
\* yet idle, is prompted to go on with it, or a task of the backlog is due, unless
\* one waits for approval.
Look(k) ==
  /\ At(k, "look")
  /\ \/ Move(k, [act[k] EXCEPT !.pc = "release"])
     \/ /\ With("in_progress") # {}
        /\ Move(k, [act[k] EXCEPT !.pc = "agent"])
  /\ UNCHANGED <<bounds, file, lock, archived, sent, bypassed>>

PicksUp(k) ==
  /\ At(k, "look")
  /\ With("in_progress") = {} /\ With("pending_approval") = {}
  /\ \E t \in With("backlog") :
       Move(k, [act[k] EXCEPT !.pc = "probe", !.task = t, !.key = t])
  /\ UNCHANGED <<bounds, file, lock, archived, sent, bypassed>>

\* A zombie goes back to the backlog, or is given up.
Recovered(f) ==
  LET n == f.reassigned + 1 IN
    IF n < MaxReassign
      THEN [Touched(f) EXCEPT !.reassigned = n, !.status = "backlog"]
      ELSE [Touched(f) EXCEPT !.reassigned = MaxReassign, !.status = "interrupted"]

\* The task is still what the stage of a check read it for.
Still(o, t) ==
  /\ Exists(t)
  /\ CASE o = "zombies" -> Zombie(file[t])
       [] o = "pickup" -> file[t].status = "backlog"
       [] o \in {"unblock", "remind"} -> file[t].status = "blocked"

\* Read again under the lock: the check writes at once, or has another agent run
\* first, or leaves the task, as it does in the cooldown after a request.
Consider(k) ==
  /\ k \in Chains /\ At(k, "reread")
  /\ LET r == act[k]
         f == file[r.task]
         Writes(g) == Move(k, [r EXCEPT !.pc = "write", !.copy = g, !.stale = FALSE])
     IN IF ~Still(r.op, r.task)
          THEN Move(k, [r EXCEPT !.pc = "release"])
          ELSE \/ r.op = "zombies" /\ Writes(Recovered(f))
               \/ r.op = "pickup" /\ Writes([Touched(f) EXCEPT !.status = "in_progress"])
               \/ r.op = "remind" /\ Move(k, [r EXCEPT !.pc = "agent"])
               \/ /\ r.op = "unblock" /\ (f.requests >= MaxRequests \/ ~policy)
                  /\ Writes([f EXCEPT !.escalation = "failed"])
               \/ /\ r.op = "unblock" /\ f.requests \in 1..(MaxRequests - 1)
                  /\ Move(k, [r EXCEPT !.pc = "release"])
  /\ UNCHANGED <<bounds, file, lock, archived, sent, bypassed>>

\* Mutant: the agent is asked however often it was.
RequestsAgain(k) ==
  /\ k \in Chains /\ At(k, "reread") /\ act[k].op = "unblock"
  /\ Still("unblock", act[k].task) /\ policy
  /\ Move(k, [act[k] EXCEPT !.pc = "agent", !.copy = file[act[k].task], !.stale = FALSE])
  /\ UNCHANGED <<bounds, file, lock, archived, sent, bypassed>>

\* The agent that can help is asked.
Requests(k) ==
  /\ k \in Chains /\ At(k, "reread") /\ act[k].op = "unblock"
  /\ LET t == act[k].task IN
       /\ Still("unblock", t) /\ file[t].requests < MaxRequests /\ policy
       /\ Move(k, [act[k] EXCEPT !.pc = "agent", !.copy = file[t], !.stale = FALSE])
  /\ UNCHANGED <<bounds, file, lock, archived, sent, bypassed>>

\* agentCommand returns, or throws.  A request is written down in the copy from
\* before it.
Replies(k) ==
  /\ At(k, "agent")
  /\ LET r == act[k]
         failures == r.copy.failures + 1
         Writes(g) == Move(k, [r EXCEPT !.pc = "write", !.copy = g])
     IN \/ /\ r.op # "unblock"
           /\ Move(k, [r EXCEPT !.pc = "release"])
           /\ UNCHANGED sent
        \/ /\ r.op = "unblock"
           /\ Writes([Touched(r.copy) EXCEPT !.requests = @ + 1, !.escalation = "requesting",
                                             !.failures = 0])
           /\ sent' = [sent EXCEPT ![r.task] = IF @ <= MaxRequests THEN @ + 1 ELSE @]
        \/ /\ r.op = "unblock"
           /\ Writes([r.copy EXCEPT
                !.failures = IF failures < MaxFailures THEN failures ELSE MaxFailures,
                !.escalation = IF failures >= MaxFailures THEN "failed"
                               ELSE IF @ = "none" \/ r.copy.requests = 0 THEN "requesting"
                               ELSE @])
           /\ UNCHANGED sent
  /\ UNCHANGED <<bounds, file, lock, archived, bypassed>>

-----------------------------------------------------------------------------
\* A day without activity on a task the agent works on, and no call under way.
Idles(t) ==
  /\ alive /\ Exists(t) /\ file[t].status = "in_progress" /\ ~file[t].idle
  /\ \A a \in Actors : act[a].pc # "agent" /\ (a \in Calls => act[a].pc = "rest")
  /\ file' = [file EXCEPT ![t].idle = TRUE]
  /\ UNCHANGED <<bounds, lock, act, archived, sent, bypassed>>

\* The process dies: lock files stay.
Crash ==
  /\ alive /\ crashes < scenario.crashes
  /\ crashes' = crashes + 1
  /\ alive' = FALSE
  /\ act' = [a \in Actors |-> AtRest]
  /\ lock' = [k \in Keys |->
       IF lock[k].state \in {"fresh", "old"} THEN [state |-> "dead", by |-> None]
       ELSE [lock[k] EXCEPT !.by = None]]
  /\ UNCHANGED <<scenario, file, policy, chains, calls, born, archived, sent, bypassed>>

\* The gateway is started: startTaskContinuationRunner.
Start ==
  /\ ~alive
  /\ alive' = TRUE /\ chains' = First
  /\ UNCHANGED <<scenario, file, lock, act, policy, calls, crashes, born,
                 archived, sent, bypassed>>

\* A restart inside the process: nobody stops the former runner.
RestartInProcess ==
  /\ alive /\ chains # 0 /\ chains < scenario.chains
  /\ chains' = chains + 1
  /\ UNCHANGED <<scenario, file, lock, act, policy, alive, calls, crashes, born,
                 archived, sent, bypassed>>

Locking(a) == Probe(a) \/ Unlink(a) \/ Open(a) \/ Fill(a) \/ Release(a)
CallStep(c) == Locking(c) \/ Reread(c) \/ Write(c) \/ Archive(c) \/ Delete(c)
CheckStep(k) ==
  \/ Locking(k) \/ Write(k)
  \/ Check(k) \/ NextStage(k) \/ (\E t \in Tasks : NextTask(k, t))
  \/ Look(k) \/ PicksUp(k) \/ Consider(k) \/ Requests(k) \/ Replies(k)

Next ==
  \/ \E t \in Tasks : Create(t) \/ Idles(t)
  \/ \E c \in Calls, o \in scenario.ops, t \in Tasks : Call(c, o, t)
  \/ \E c \in Calls : CallStep(c)
  \/ \E k \in Chains : CheckStep(k)
  \/ \E k \in Keys : Ages(k)
  \/ Crash \/ Start \/ RestartInProcess

Spec == Init /\ [][Next]_vars

\* Promises settle, timers fire, a dead gateway is started again, a cooldown
\* ends, a lane is not busy for ever, and a task nobody works on becomes idle.
FairSpec ==
  /\ Spec
  /\ \A c \in Calls : WF_vars(CallStep(c))
  /\ \A k \in Chains : WF_vars(CheckStep(k))
  /\ SF_vars(\E k \in Chains : Requests(k) \/ PicksUp(k))
  /\ WF_vars(Start)
  /\ \A t \in Tasks : SF_vars(Idles(t))

-----------------------------------------------------------------------------
TypeOK ==
  /\ file \in [Tasks -> Content \cup {None}]
  /\ lock \in [Keys -> [state : {"free", "torn", "fresh", "old", "dead"},
                        by : Actors \cup {None}]]
  /\ \A a \in Actors : act[a].copy \in Content \cup {None} /\ act[a].todo \subseteq Tasks

\* A task that was created is in its file or in the history, at every moment a
\* crash may come and whatever the others do.
NothingVanishes == \A t \in born : Exists(t) \/ t \in archived

\* Who reads a task under its lock and writes it back overwrites nobody, as long
\* as no lock of the task was taken from its holder, and nobody wrote without it.
LockedWritesAreFresh ==
  [][\A a \in Actors :
       (At(a, "write") /\ act'[a].pc # "write" /\ act[a].op \in Rereading \cup Stages
          /\ act[a].key # None /\ act[a].task \notin bypassed)
         => ~act[a].stale]_vars

\* The others are asked MAX_UNBLOCK_REQUESTS times about a blocked task, unless a
\* request was not written down: the process died, or the lock was bypassed.
\* (And every variable keeps its type.)
RequestsBounded ==
  TypeOK /\ \A t \in Tasks : sent[t] <= MaxRequests \/ t \in bypassed \/ crashes > 0

\* A task that needs nothing more of the runner.
Settled(t) ==
  \/ ~Exists(t)
  \/ file[t].status \in {"pending_approval", "interrupted", "completed", "cancelled"}
  \/ file[t].status = "blocked" /\ file[t].escalation = "failed"
  \/ file[t].status = "backlog" /\ With("pending_approval") # {}

\* A task of task_start is picked up again, and how often it was recovered forgotten.
Forgotten(t) ==
  /\ Exists(t) /\ ~file[t].added
  /\ \E k \in Chains : act[k].pc = "agent" /\ act[k].op = "pickup" /\ act[k].task = t

\* A task the agent has abandoned does not stay under way, in the backlog or
\* blocked for ever: it is recovered, picked up and asked about until it ends, is
\* given up, or waits for a person; a lock that a dead process left is no obstacle.
\* A task of task_start is never given up, as its count is lost: of it this says
\* that it is picked up again and again.  For one chain: two can find the lock
\* with each other at every check.
AbandonedTasksEnd ==
  \A t \in Tasks :
    (Exists(t) /\ scenario.chains = 1) ~> (Settled(t) \/ Forgotten(t))

=============================================================================
