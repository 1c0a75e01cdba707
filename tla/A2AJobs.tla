------------------------------- MODULE A2AJobs -------------------------------
(***************************************************************************)
(* The durable jobs of agent-to-agent conversations: a file for each job   *)
(* (a2a-job-manager), the flow that holds the conversation and moves the   *)
(* file from PENDING over RUNNING to COMPLETED (a2a-job-orchestrator), and *)
(* what a starting gateway does with the files it finds (a2a-job-reaper,   *)
(* server-startup).                                                        *)
(*                                                                         *)
(* A status is changed by reading the file, writing a temporary file and   *)
(* renaming it over the job's: three steps, and two writers of a job share *)
(* the temporary file.  A crash ends every flow; a restart inside the      *)
(* process lets them go on beside the reaper.  Of a record only the status *)
(* and its age are kept.  What agents say is left out, and each of         *)
(* readFile, writeFile, rename and unlink is one step.                     *)
(***************************************************************************)
EXTENDS Naturals, FiniteSets

CONSTANTS
  Jobs,          \* the jobs that messages ask for, each once: ids are run ids
  MaxCrashing,   \* bound: only starts before this one may crash
  MaxRestarting  \* bound: only starts before this one restart in the process

ASSUME JobsAssumption == {MaxCrashing, MaxRestarting} \subseteq Nat

Open == {"PENDING", "RUNNING"}
Finished == {"COMPLETED", "FAILED", "ABANDONED"}
Statuses == Open \cup Finished

VARIABLES
  file,      \* job -> the status in its file, or "none"
  age,       \* job -> 0 fresh, 1 over an hour, 2 over a week since updatedAt
  tmp,       \* job -> the status in its temporary file, or "none"
  asked,     \* jobs that were asked for
  flows,     \* the flows under way in this process
  boot,      \* where the gateway's start has got to
  starts,    \* starts so far
  survived   \* jobs with a flow that was older than the last start (history)

jobsVars == <<file, age, tmp, asked, flows, boot, starts, survived>>
jobFiles == <<file, age, tmp>>

\* A flow creates the file, marks it RUNNING, waits for the first reply, talks,
\* and marks the end; io is how far it is with the file.
Flow(j, kind, stage, io) ==
  [job |-> j, kind |-> kind, gen |-> starts, stage |-> stage, io |-> io]
Writing(stage) ==
  CASE stage = "create" -> "PENDING"
    [] stage = "start"  -> "RUNNING"
    [] stage = "finish" -> "COMPLETED"
    [] stage = "fail"   -> "FAILED"

\* todo: the files or jobs left of the present loop; seen: what it has read;
\* job: whose status the reaper is changing.
Phase(pc, todo, seen) == [pc |-> pc, todo |-> todo, seen |-> seen, job |-> "none", io |-> "read"]
Unseen == [j \in Jobs |-> "none"]
Down == Phase("down", {}, Unseen)
Files == {j \in Jobs : file[j] # "none"}

Move(f, stage, io) == flows' = (flows \ {f}) \cup {[f EXCEPT !.stage = stage, !.io = io]}
Leave(f) == flows' = flows \ {f}

\* Mutant: a new flow is not marked RUNNING.
ContinueUnmarked(f) ==
  CASE f.stage \in {"create", "start"} -> Move(f, "wait", "read")
    [] OTHER                           -> Leave(f)

\* What follows the change of the status that a stage makes.
Continue(f) ==
  CASE f.stage = "create" -> Move(f, "start", "read")
    [] f.stage = "start"  -> Move(f, "wait", "read")
    [] OTHER              -> Leave(f)

WriteTmp(j, status) == tmp' = [tmp EXCEPT ![j] = status]

\* rename(tmpPath, filePath)
RenameTmp(j) ==
  /\ file' = [file EXCEPT ![j] = tmp[j]]
  /\ age' = [age EXCEPT ![j] = 0]
  /\ tmp' = [tmp EXCEPT ![j] = "none"]

\* The process is gone, and its flows with it.
Died ==
  /\ flows' = {}
  /\ boot' = Down
  /\ survived' = {}

-----------------------------------------------------------------------------
JobsInit ==
  /\ file = [j \in Jobs |-> "none"]
  /\ age = [j \in Jobs |-> 0]
  /\ tmp = [j \in Jobs |-> "none"]
  /\ asked = {}
  /\ flows = {}
  /\ boot = Down
  /\ starts = 0
  /\ survived = {}

(***************************************************************************)
(* The flows.                                                              *)
(***************************************************************************)

\* Mutant: the channels start before the jobs of the last process are dealt with.
CreateAndStartFlowEarly(j) ==
  /\ boot.pc # "down"
  /\ j \notin asked
  /\ asked' = asked \cup {j}
  /\ flows' = flows \cup {Flow(j, "new", "create", "write")}
  /\ UNCHANGED <<jobFiles, boot, starts, survived>>

\* createAndStartFlow, called by a channel: channels start after the jobs.
CreateAndStartFlow(j) ==
  /\ boot.pc \in {"up", "failed"}
  /\ j \notin asked
  /\ asked' = asked \cup {j}
  /\ flows' = flows \cup {Flow(j, "new", "create", "write")}
  /\ UNCHANGED <<jobFiles, boot, starts, survived>>

\* updateStatus reads the job; it does nothing for a file that is not there.
FlowReads(f) ==
  /\ f.stage \in {"start", "finish", "fail"}
  /\ f.io = "read"
  /\ IF file[f.job] = "none" THEN Continue(f) ELSE Move(f, f.stage, "write")
  /\ UNCHANGED <<jobFiles, asked, boot, starts, survived>>

FlowWrites(f) ==
  /\ f.io = "write"
  /\ WriteTmp(f.job, Writing(f.stage))
  /\ Move(f, f.stage, "rename")
  /\ UNCHANGED <<file, age, asked, boot, starts, survived>>

FlowRenames(f) ==
  /\ f.io = "rename"
  /\ tmp[f.job] # "none"
  /\ RenameTmp(f.job)
  /\ Continue(f)
  /\ UNCHANGED <<asked, boot, starts, survived>>

\* Another writer has taken the temporary file away.  createAndStartFlow's
\* caller catches; after the conversation the job is marked FAILED; otherwise
\* nobody catches and the process exits on the unhandled rejection.
FlowRenameThrows(f) ==
  /\ f.io = "rename"
  /\ tmp[f.job] = "none"
  /\ \/ f.stage = "create" /\ Leave(f) /\ UNCHANGED <<boot, survived>>
     \/ f.stage = "finish" /\ Move(f, "fail", "read") /\ UNCHANGED <<boot, survived>>
     \/ f.stage \in {"start", "fail"} /\ Died
  /\ UNCHANGED <<jobFiles, asked, starts>>

\* runSessionsSendA2AFlow waits for the run that a new flow names.
FirstReply(f) ==
  /\ f.stage = "wait"
  /\ f.kind = "new"
  /\ Move(f, "talk", "read")
  /\ UNCHANGED <<jobFiles, asked, boot, starts, survived>>

\* Mutant: a flow without a reply is over before its end is recorded.
NoReplyUnrecorded(f) ==
  /\ f.stage = "wait"
  /\ Leave(f)
  /\ UNCHANGED <<jobFiles, asked, boot, starts, survived>>

\* Without a reply it returns: the wait failed or timed out, or the flow was
\* resumed and has neither a first reply nor a run to wait for.
NoReply(f) ==
  /\ f.stage = "wait"
  /\ Move(f, "finish", "read")
  /\ UNCHANGED <<jobFiles, asked, boot, starts, survived>>

\* Turns and announcement are over; an error in them is caught inside.
TalkEnds(f) ==
  /\ f.stage = "talk"
  /\ Move(f, "finish", "read")
  /\ UNCHANGED <<jobFiles, asked, boot, starts, survived>>

FlowStep(f) ==
  \/ FlowReads(f)
  \/ FlowWrites(f)
  \/ FlowRenames(f)
  \/ FlowRenameThrows(f)
  \/ FirstReply(f)
  \/ NoReply(f)
  \/ TalkEnds(f)

(***************************************************************************)
(* The start of a gateway.                                                 *)
(***************************************************************************)

RunOnStartup ==
  /\ boot' = Phase("scan", Files, Unseen)
  /\ starts' = starts + 1

\* The service manager starts the process.
StartProcess ==
  /\ boot.pc = "down"
  /\ RunOnStartup
  /\ UNCHANGED <<jobFiles, asked, flows, survived>>

\* SIGUSR1: the next lifecycle begins in the same process.
RestartInProcess ==
  /\ boot.pc \in {"up", "failed"}
  /\ starts < MaxRestarting
  /\ RunOnStartup
  /\ survived' = survived \cup {f.job : f \in flows}
  /\ UNCHANGED <<jobFiles, asked, flows>>

\* runOnStartup and getResumableJobs read the files, one at a time: isStale
\* asks of a RUNNING job how long ago it was updated.
ReadJob(j) ==
  /\ boot.pc \in {"scan", "collect"}
  /\ j \in boot.todo
  /\ boot' = [boot EXCEPT !.todo = @ \ {j},
                          !.seen[j] = IF file[j] = "RUNNING" /\ age[j] > 0
                                      THEN "STALE" ELSE file[j]]
  /\ UNCHANGED <<jobFiles, asked, flows, starts, survived>>

\* Mutant: the reaper takes every job that is not PENDING for a RUNNING one.
ScannedAll ==
  /\ boot.pc = "scan"
  /\ boot.todo = {}
  /\ boot' = Phase("reap", {j \in Jobs : boot.seen[j] \notin {"none", "PENDING"}}, boot.seen)
  /\ UNCHANGED <<jobFiles, asked, flows, starts, survived>>

Scanned ==
  /\ boot.pc = "scan"
  /\ boot.todo = {}
  /\ boot' = Phase("reap", {j \in Jobs : boot.seen[j] \in {"RUNNING", "STALE"}}, boot.seen)
  /\ UNCHANGED <<jobFiles, asked, flows, starts, survived>>

\* abandonJob or updateStatus("PENDING") for a job that was RUNNING when it was
\* scanned, whatever it is now.
ReapReads(j) ==
  /\ boot.pc = "reap"
  /\ boot.io = "read"
  /\ j \in boot.todo
  /\ boot' = IF file[j] = "none" THEN [boot EXCEPT !.todo = @ \ {j}]
             ELSE [boot EXCEPT !.todo = @ \ {j}, !.job = j, !.io = "write"]
  /\ UNCHANGED <<jobFiles, asked, flows, starts, survived>>

Verdict(j) == IF boot.seen[j] = "STALE" THEN "ABANDONED" ELSE "PENDING"

ReapWrites ==
  /\ boot.io = "write"
  /\ WriteTmp(boot.job, Verdict(boot.job))
  /\ boot' = [boot EXCEPT !.io = "rename"]
  /\ UNCHANGED <<file, age, asked, flows, starts, survived>>

ReapRenames ==
  /\ boot.io = "rename"
  /\ tmp[boot.job] # "none"
  /\ RenameTmp(boot.job)
  /\ boot' = [boot EXCEPT !.io = "read", !.job = "none"]
  /\ UNCHANGED <<asked, flows, starts, survived>>

\* The error ends the start of the jobs; the gateway goes on.
ReapThrows ==
  /\ boot.io = "rename"
  /\ tmp[boot.job] = "none"
  /\ boot' = Phase("failed", {}, Unseen)
  /\ UNCHANGED <<jobFiles, asked, flows, starts, survived>>

Reaped ==
  /\ boot.pc = "reap"
  /\ boot.io = "read"
  /\ boot.todo = {}
  /\ boot' = Phase("clean", Files, Unseen)
  /\ UNCHANGED <<jobFiles, asked, flows, starts, survived>>

\* cleanupFinishedJobs: files of jobs that finished over a week ago go.
Clean(j) ==
  /\ boot.pc = "clean"
  /\ j \in boot.todo
  /\ file' = IF file[j] \in Finished /\ age[j] = 2
             THEN [file EXCEPT ![j] = "none"] ELSE file
  /\ boot' = [boot EXCEPT !.todo = @ \ {j}]
  /\ UNCHANGED <<age, tmp, asked, flows, starts, survived>>

Cleaned ==
  /\ boot.pc = "clean"
  /\ boot.todo = {}
  /\ boot' = Phase("collect", Files, Unseen)
  /\ UNCHANGED <<jobFiles, asked, flows, starts, survived>>

\* resumeFlows of the PENDING ones; then the channels start.
Resume ==
  /\ boot.pc = "collect"
  /\ boot.todo = {}
  /\ flows' = flows \cup {Flow(j, "resumed", "start", "read") :
                            j \in {i \in Jobs : boot.seen[i] = "PENDING"}}
  /\ boot' = Phase("up", {}, Unseen)
  /\ UNCHANGED <<jobFiles, asked, starts, survived>>

BootStep ==
  \/ StartProcess
  \/ Scanned
  \/ ReapWrites
  \/ ReapRenames
  \/ ReapThrows
  \/ Reaped
  \/ Cleaned
  \/ Resume
  \/ \E j \in Jobs : ReadJob(j) \/ ReapReads(j) \/ Clean(j)

ProcessDies ==
  /\ boot.pc # "down"
  /\ starts < MaxCrashing
  /\ Died
  /\ UNCHANGED <<jobFiles, asked, starts>>

\* An hour, or a week, with no flow under way: a flow takes some minutes, the
\* start of a gateway less.
Later ==
  /\ flows = {}
  /\ boot.pc \in {"down", "up", "failed"}
  /\ age' = [j \in Jobs |-> IF file[j] # "none" /\ age[j] < 2 THEN age[j] + 1 ELSE age[j]]
  /\ UNCHANGED <<file, tmp, asked, flows, boot, starts, survived>>

JobsNext ==
  \/ \E j \in Jobs : CreateAndStartFlow(j)
  \/ \E f \in flows : FlowStep(f)
  \/ RestartInProcess
  \/ BootStep
  \/ ProcessDies
  \/ Later

JobsSpec == JobsInit /\ [][JobsNext]_jobsVars

\* A start goes on and a dead process is started again; the calls of a flow
\* have timeouts.  Nothing makes a crash, a restart or a message happen.
FairJobs ==
  /\ JobsSpec
  /\ WF_jobsVars(BootStep)
  /\ WF_jobsVars(\E f \in flows : FlowStep(f))

-----------------------------------------------------------------------------
FlowType ==
  [job : Jobs, kind : {"new", "resumed"}, gen : 1..starts,
   stage : {"create", "start", "wait", "talk", "finish", "fail"},
   io : {"read", "write", "rename"}]

JobsTypeOK ==
  /\ file \in [Jobs -> Statuses \cup {"none"}]
  /\ age \in [Jobs -> 0..2]
  /\ tmp \in [Jobs -> Statuses \cup {"none"}]
  /\ asked \subseteq Jobs
  /\ flows \subseteq FlowType
  /\ boot.pc \in {"down", "scan", "reap", "clean", "collect", "up", "failed"}
  /\ boot.todo \subseteq Jobs
  /\ boot.seen \in [Jobs -> Statuses \cup {"STALE", "none"}]
  /\ boot.job \in Jobs \cup {"none"}
  /\ boot.io \in {"read", "write", "rename"}
  /\ starts \in Nat
  /\ survived \subseteq Jobs

\* A job has one flow, however starts, crashes and new messages fall: the
\* reaper looks for jobs to resume before a channel can create one
\* (startGatewaySidecars).  A flow that outlived a restart of the lifecycle is
\* the exception: its job is resumed beside it.
OneFlowPerJob ==
  \A f, g \in flows : f.job = g.job /\ f.job \notin survived => f = g

\* The file tells how far the flow is, so that the next start can judge it:
\* RUNNING from before the first reply is awaited until the end is recorded,
\* never finished under a flow that still talks ("The job is persisted to disk
\* BEFORE the flow starts").  (And every variable keeps its type.)
RecordFollowsFlow ==
  JobsTypeOK /\ \A f \in flows :
    f.job \notin survived =>
      /\ f.stage = "start" => file[f.job] = "PENDING"
      /\ f.stage \in {"wait", "talk", "finish"} => file[f.job] = "RUNNING"

\* A job that has finished is never opened again, by the reaper or by a late
\* write of its flow; once a week has passed the file may go.  Again a flow
\* that outlived a restart is the exception: the reaper's PENDING may
\* overwrite its COMPLETED.
FinishedStaysFinished ==
  [][\A j \in Jobs : file[j] \in Finished /\ j \notin survived =>
       file'[j] = file[j] \/ (file'[j] = "none" /\ age[j] = 2)]_jobsVars

\* Every job comes to an end, across crashes, restarts and days without a
\* gateway, unless the start of the jobs itself failed.
EveryJobFinishes ==
  \A j \in Jobs : file[j] \in Open ~> (file[j] \notin Open \/ boot.pc = "failed")

=============================================================================
