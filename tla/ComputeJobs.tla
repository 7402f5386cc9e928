------------------------------ MODULE ComputeJobs ------------------------------
(***************************************************************************)
(* Background jobs of the compute broker (src/vps/server.ts), its agent    *)
(* (scripts/pair-notebook-agent.py) and the editor that submits and stops  *)
(* them (src/vscode/vpsCompute.ts).  The broker keeps one file per job and *)
(* a ledger of confirmed stops; the agent polls, records its intent before *)
(* it starts a detached runner, and reports output and result; the runner  *)
(* and the supervisor below it outlive the agent.                          *)
(*                                                                         *)
(* All jobs are of one agent and one session.  Time is left out: what a    *)
(* deadline would end may end at any moment.                               *)
(***************************************************************************)
EXTENDS Naturals, FiniteSets

CONSTANTS
  Jobs, Installs,  \* jobs; installations that poll with the credential of the agent
  Stops,           \* confirmations that may be asked for: the jobs to stop, or "session"
  Chunk, MaxOut,   \* output units of a report, and of a job
  MaxTimeouts,     \* bound: requests somebody stops waiting for
  MaxCrashes,      \* bound: ends of the broker and of agents
  MaxKills,        \* bound: runners and supervisors killed, and losses of power
  MaxFails,        \* bound: writes of the broker that fail
  Torn             \* a failed write may have replaced the file (publishTemporaryFile)

VARIABLES
  disk, index,     \* job files, and the jobs the broker has in memory
  ops, ledger,     \* cancellation operations in memory and on disk (confirmations)
  up,              \* the broker: down, up, or within finishCancellation
  calls,           \* requests on their way
  receipt,         \* the editor: receipts of submissions (PendingSubmissionStore)
  stopTold,        \* the editor: a stop of the session was confirmed to it
  agent,           \* what each agent process is doing
  files,           \* the directory of a job: manifest, cancel, result, execution.json, output
  proc,            \* runner, supervisor, training and its workers
  starts,          \* times Python was started for a job
  bound            \* how much of each bound is spent

vars == <<disk, index, ops, ledger, up, calls, receipt, stopTold, agent, files, proc, starts, bound>>

-----------------------------------------------------------------------------
NoJob == [st |-> "none", cancel |-> FALSE, inst |-> "none", log |-> 0]
Terminal == {"succeeded", "failed", "cancelled", "interrupted"}
Active(j) == index[j].st \in {"running", "cancel_pending"}
Live(j) == index[j].st \in {"queued", "running", "cancel_pending"}

NoOp == [state |-> "none", targets |-> {}]
NoFiles == [manifest |-> FALSE, cancel |-> FALSE, result |-> "none", exec |-> "none", out |-> 0]
NoProc == [runner |-> "none", sup |-> "none", leader |-> "none", workers |-> FALSE]
Down == [phase |-> "down", known |-> "none"]
Idle(a) == [phase |-> "idle", known |-> a.known]

Init ==
  /\ disk = [j \in Jobs |-> NoJob] /\ index = disk
  /\ ops = [o \in Stops |-> NoOp] /\ ledger = ops
  /\ up = [phase |-> "up"]
  /\ calls = {}
  /\ receipt = [j \in Jobs |-> "none"] /\ stopTold = FALSE
  /\ agent = [i \in Installs |-> [phase |-> "idle", known |-> "none"]]
  /\ files = [i \in Installs |-> [j \in Jobs |-> NoFiles]]
  /\ proc = [i \in Installs |-> [j \in Jobs |-> NoProc]]
  /\ starts = [j \in Jobs |-> 0]
  /\ bound = [timeouts |-> 0, crashes |-> 0, kills |-> 0, fails |-> 0]

Within(kind, limit) == bound[kind] < limit /\ bound' = [bound EXCEPT ![kind] = @ + 1]

-----------------------------------------------------------------------------
(* Files of the broker.  save writes the file, then the index; a write that *)
(* fails may have replaced the file all the same.                           *)
Save(j, rec) == disk' = [disk EXCEPT ![j] = rec] /\ index' = [index EXCEPT ![j] = rec]
SaveFails(j, rec) ==
  /\ Within("fails", MaxFails)
  /\ disk' = disk \/ (Torn /\ disk' = [disk EXCEPT ![j] = rec])
  /\ UNCHANGED index
PersistFails(new) ==
  /\ Within("fails", MaxFails)
  /\ ledger' = ledger \/ (Torn /\ ledger' = new)

(* dispatch: one operation at a time, after those that are being applied.   *)
Applying == {o \in Stops : ops[o].state = "applying"}
Serves == up.phase = "up" /\ Applying = {}

IsStopped == "session" \in Stops /\ ops["session"].state \in {"applying", "applied"}

broker == <<disk, index, ops, ledger, up>>
editor == <<receipt, stopTold>>
machine == <<files, proc, starts>>

-----------------------------------------------------------------------------
(* The editor: a receipt before the request, and again while it is kept.    *)
Prepare(j) ==
  /\ receipt[j] = "none" /\ ~stopTold
  /\ receipt' = [receipt EXCEPT ![j] = "kept"]
  /\ UNCHANGED <<broker, calls, stopTold, agent, machine, bound>>

Deliver(j) ==
  /\ receipt[j] = "kept" /\ [kind |-> "submit", job |-> j] \notin calls
  /\ calls' = calls \cup {[kind |-> "submit", job |-> j]}
  /\ UNCHANGED <<broker, editor, agent, machine, bound>>

(* The answer clears the receipt when it arrives in time.                   *)
Answered(j) ==
  \/ receipt' = [receipt EXCEPT ![j] = "cleared"] /\ UNCHANGED bound
  \/ Within("timeouts", MaxTimeouts) /\ UNCHANGED receipt

Refuses(j) == IsStopped

Submit(j) ==
  /\ Serves
  /\ [kind |-> "submit", job |-> j] \in calls /\ calls' = calls \ {[kind |-> "submit", job |-> j]}
  /\ LET rec == [NoJob EXCEPT !.st = "queued"] IN
     \/ index[j].st # "none" /\ Answered(j) /\ UNCHANGED <<disk, index>>
     \/ /\ index[j].st = "none" /\ Refuses(j)
        /\ UNCHANGED <<disk, index, receipt, bound>>
     \/ /\ index[j].st = "none" /\ ~Refuses(j)
        /\ \/ Save(j, rec) /\ Answered(j)
           \/ SaveFails(j, rec) /\ UNCHANGED receipt
  /\ UNCHANGED <<ops, ledger, up, stopTold, agent, machine>>

(* requestCancellation: the jobs to stop are fixed and shown; a newer       *)
(* challenge stands for the older ones.                                     *)
Challenge(o) ==
  /\ Serves /\ ops[o].state \in {"none", "pending"}
  /\ o # "session" => Live(o)
  /\ LET new == [ops EXCEPT ![o] = [state |-> "pending",
                                     targets |-> IF o = "session" THEN {j \in Jobs : Live(j)} ELSE {o}]]
     IN \/ ops' = new /\ ledger' = new /\ UNCHANGED bound
        \/ PersistFails(new) /\ UNCHANGED ops
  /\ UNCHANGED <<disk, index, up, calls, editor, agent, machine>>

(* applyCancellation: the jobs shown are those that are active, or another  *)
(* challenge is needed.                                                     *)
Shown(o) == IF o = "session" THEN {j \in Jobs : Live(j)} = ops[o].targets ELSE Live(o)

Confirm(o) ==
  /\ Serves /\ ops[o].state = "pending" /\ Shown(o)
  /\ ops' = [ops EXCEPT ![o].state = "applying"]
  /\ up' = [phase |-> "intent", op |-> o, starting |-> FALSE]
  /\ UNCHANGED <<disk, index, ledger, calls, editor, agent, machine, bound>>

(* finishCancellation, from the confirmation or ahead of another request.   *)
Resume(o) ==
  /\ up.phase = "up" /\ o \in Applying
  /\ up' = [phase |-> "intent", op |-> o, starting |-> FALSE]
  /\ UNCHANGED <<disk, index, ops, ledger, calls, editor, agent, machine, bound>>

(* A failed write ends the operation, and the start of the broker.          *)
Fails == up' = IF up.starting THEN [phase |-> "down"] ELSE [phase |-> "up"]

SaveIntent ==
  /\ up.phase = "intent"
  /\ \/ ledger' = ops /\ up' = [phase |-> "targets", op |-> up.op, starting |-> up.starting, left |-> ops[up.op].targets]
        /\ UNCHANGED bound
     \/ PersistFails(ops) /\ Fails
  /\ UNCHANGED <<disk, index, ops, calls, editor, agent, machine>>

(* mutant of Stopped: a job that runs is called cancelled at once           *)
StoppedAtOnce(rec) == [rec EXCEPT !.cancel = TRUE, !.st = "cancelled"]

Stopped(rec) ==
  [rec EXCEPT !.cancel = TRUE, !.st = IF rec.st = "queued" THEN "cancelled" ELSE "cancel_pending"]

StopTarget(j) ==
  /\ up.phase = "targets" /\ j \in up.left
  /\ IF disk[j].st \in Terminal
     THEN up' = [up EXCEPT !.left = @ \ {j}] /\ UNCHANGED <<disk, index, bound>>
     ELSE \/ Save(j, Stopped(disk[j])) /\ up' = [up EXCEPT !.left = @ \ {j}] /\ UNCHANGED bound
          \/ SaveFails(j, Stopped(disk[j])) /\ Fails
  /\ UNCHANGED <<ops, ledger, calls, editor, agent, machine>>

(* The receipt; once told of a stop of the session the editor forgets its   *)
(* own receipts of that session.                                            *)
SaveReceipt ==
  /\ up.phase = "targets" /\ up.left = {}
  /\ LET done == [ops EXCEPT ![up.op].state = "applied"] IN
     \/ /\ ops' = done /\ ledger' = done /\ UNCHANGED bound
        /\ up' = IF up.starting THEN [phase |-> "recover"] ELSE [phase |-> "up"]
     \/ PersistFails(done) /\ Fails /\ UNCHANGED ops
  /\ UNCHANGED <<disk, index, calls, editor, agent, machine>>

(* The answer to the confirmation, or to one that repeats it.               *)
ToldOfStop ==
  /\ Serves /\ "session" \in Stops /\ ops["session"].state = "applied" /\ ~stopTold
  /\ stopTold' = TRUE
  /\ receipt' = [j \in Jobs |-> IF receipt[j] = "kept" THEN "cleared" ELSE receipt[j]]
  /\ UNCHANGED <<broker, calls, agent, machine, bound>>

-----------------------------------------------------------------------------
(* The broker ends, and starts: challenges nobody confirmed are forgotten,  *)
(* confirmed stops are finished before it listens.                          *)
BrokerEnds ==
  /\ up.phase # "down" /\ Within("crashes", MaxCrashes)
  /\ up' = [phase |-> "down"]
  /\ calls' = {}
  /\ UNCHANGED <<disk, index, ops, ledger, editor, agent, machine>>

Loaded(op) == IF op.state = "pending" THEN NoOp ELSE op

BrokerStarts ==
  /\ up.phase = "down"
  /\ index' = disk /\ ops' = [o \in Stops |-> Loaded(ledger[o])]
  /\ up' = [phase |-> "recover"]
  /\ UNCHANGED <<disk, ledger, calls, editor, agent, machine, bound>>

Recovers ==
  /\ up.phase = "recover"
  /\ IF Applying = {} THEN up' = [phase |-> "up"]
     ELSE \E o \in Applying : up' = [phase |-> "intent", op |-> o, starting |-> TRUE]
  /\ UNCHANGED <<disk, index, ops, ledger, calls, editor, agent, machine, bound>>

-----------------------------------------------------------------------------
(* The agent polls; an answer names the job it has to see to.               *)
Poll(i) ==
  /\ agent[i].phase = "idle"
  /\ agent' = [agent EXCEPT ![i] = [phase |-> "poll", known |-> agent[i].known]]
  /\ calls' = calls \cup {[kind |-> "poll", inst |-> i]}
  /\ UNCHANGED <<broker, editor, machine, bound>>

AgentHas(i, new) == IF agent[i].phase = "poll" THEN agent' = [agent EXCEPT ![i] = new] ELSE UNCHANGED agent
Gets(i, j, rec) ==
  AgentHas(i, [phase |-> "got", known |-> agent[i].known, job |-> j, cancel |-> rec.cancel, log |-> rec.log])

MayClaim(i) == \A j \in Jobs : Active(j) => index[j].inst = i

ServePoll(i) ==
  /\ Serves
  /\ [kind |-> "poll", inst |-> i] \in calls /\ calls' = calls \ {[kind |-> "poll", inst |-> i]}
  /\ \/ ~MayClaim(i) /\ AgentHas(i, Idle(agent[i])) /\ UNCHANGED <<disk, index, bound>>
     \/ /\ MayClaim(i)
        /\ \E j \in Jobs : Active(j) /\ Gets(i, j, IF agent[i].known = j THEN index[j] ELSE disk[j])
        /\ UNCHANGED <<disk, index, bound>>
     \/ /\ \A j \in Jobs : ~Active(j) /\ index[j].st # "queued"
        /\ AgentHas(i, [phase |-> "idle", known |-> "none"]) /\ UNCHANGED <<disk, index, bound>>
     \/ /\ \A j \in Jobs : ~Active(j)
        /\ \E j \in Jobs :
             /\ index[j].st = "queued"
             /\ \/ LET claimed == [disk[j] EXCEPT !.st = "running", !.inst = i] IN
                   \/ Save(j, claimed) /\ Gets(i, j, claimed) /\ UNCHANGED bound
                   \/ SaveFails(j, claimed) /\ AgentHas(i, Idle(agent[i]))
                \/ /\ Save(j, [disk[j] EXCEPT !.st = "failed"]) /\ UNCHANGED bound
                   /\ AgentHas(i, [phase |-> "idle", known |-> "none"])
  /\ UNCHANGED <<ops, ledger, up, editor, machine>>

(* Anybody may stop waiting for an answer; the request stays on its way.    *)
AgentTimesOut(i) ==
  /\ agent[i].phase \in {"poll", "report"} /\ Within("timeouts", MaxTimeouts)
  /\ agent' = [agent EXCEPT ![i] = Idle(agent[i])]
  /\ UNCHANGED <<broker, calls, editor, machine>>

(* A request that was lost with the broker fails.                           *)
CallFails(i) ==
  /\ agent[i].phase \in {"poll", "report"}
  /\ {c \in calls : c.kind = agent[i].phase /\ c.inst = i} = {}
  /\ agent' = [agent EXCEPT ![i] = Idle(agent[i])]
  /\ UNCHANGED <<broker, calls, editor, machine, bound>>

AgentEnds(i) ==
  /\ agent[i].phase # "down" /\ Within("crashes", MaxCrashes)
  /\ agent' = [agent EXCEPT ![i] = Down]
  /\ UNCHANGED <<broker, calls, editor, machine>>

AgentStarts(i) ==
  /\ agent[i].phase = "down"
  /\ agent' = [agent EXCEPT ![i] = Idle(Down)]
  /\ UNCHANGED <<broker, calls, editor, machine, bound>>

-----------------------------------------------------------------------------
(* ensure_job: the intent is recorded before anything is started, and what  *)
(* was recorded is not started again.                                       *)
Mine(i) == files[i][agent[i].job]
SetFiles(i, j, f) == files' = [files EXCEPT ![i][j] = f]

Record(i) ==
  /\ agent[i].phase = "got" /\ ~Mine(i).manifest
  /\ SetFiles(i, agent[i].job, [Mine(i) EXCEPT !.manifest = TRUE, !.cancel = @ \/ agent[i].cancel])
  /\ agent' = [agent EXCEPT ![i].phase = "spawn"]
  /\ UNCHANGED <<broker, calls, editor, proc, starts, bound>>

Spawn(i) ==
  /\ agent[i].phase = "spawn"
  /\ agent' = [agent EXCEPT ![i].phase = "ensured"]
  /\ \/ proc' = [proc EXCEPT ![i][agent[i].job].runner = "starting"] /\ UNCHANGED files
     \/ SetFiles(i, agent[i].job, [Mine(i) EXCEPT !.result = "failed"]) /\ UNCHANGED proc
  /\ UNCHANGED <<broker, calls, editor, starts, bound>>

Recorded(i) == agent[i].phase = "got" /\ Mine(i).manifest
RunLocked(p)  == p.runner \in {"preparing", "watching", "stopping"}
ExecLocked(p) == p.sup \in {"watching", "cleaning"}

(* Nobody holds run.lock or execution.lock.                                 *)
Unattended(i) == ~RunLocked(proc[i][agent[i].job]) /\ ~ExecLocked(proc[i][agent[i].job])

Recover(i) ==
  /\ Recorded(i)
  /\ SetFiles(i, agent[i].job, [Mine(i) EXCEPT !.cancel = @ \/ agent[i].cancel])
  /\ agent' = [agent EXCEPT ![i].phase = "ensured"]
  /\ UNCHANGED <<broker, calls, editor, proc, starts, bound>>

(* A failure adds a line to the output before it is the result.             *)
WithFailure(f, result) == [f EXCEPT !.result = result, !.out = @ + 1]

(* After ten seconds.                                                       *)
Interrupt(i) ==
  /\ Recorded(i) /\ Mine(i).result = "none" /\ Unattended(i)
  /\ SetFiles(i, agent[i].job, WithFailure([Mine(i) EXCEPT !.cancel = @ \/ agent[i].cancel], "interrupted"))
  /\ agent' = [agent EXCEPT ![i].phase = "ensured"]
  /\ UNCHANGED <<broker, calls, editor, proc, starts, bound>>

(* tick: output is read from where the broker has it, and the result is     *)
(* sent with the last of it.                                                *)
ReadOutput(i) ==
  /\ agent[i].phase = "ensured"
  /\ agent' = [agent EXCEPT ![i] = [phase |-> "read", known |-> agent[i].job, job |-> agent[i].job, log |-> agent[i].log,
       len |-> IF Mine(i).out <= agent[i].log THEN 0
               ELSE IF Mine(i).out - agent[i].log < Chunk THEN Mine(i).out - agent[i].log ELSE Chunk]]
  /\ UNCHANGED <<broker, calls, editor, machine, bound>>

Reportable(i) == IF agent[i].log + agent[i].len >= Mine(i).out THEN Mine(i).result ELSE "none"

SendReport(i) ==
  /\ agent[i].phase = "read"
  /\ agent' = [agent EXCEPT ![i] = [phase |-> "report", known |-> agent[i].known]]
  /\ calls' = calls \cup {[kind |-> "report", inst |-> i, job |-> agent[i].job, offset |-> agent[i].log,
                           len |-> agent[i].len, result |-> Reportable(i)]}
  /\ UNCHANGED <<broker, editor, machine, bound>>

(* report: output is appended once, and a job that is over does not change. *)
Reported(rec, c) ==
  [rec EXCEPT !.log = IF c.offset + c.len > @ THEN c.offset + c.len ELSE @,
              !.st = IF c.result = "none" THEN @ ELSE c.result]

Acceptable(rec, c) ==
  /\ index[c.job].inst = c.inst /\ c.offset <= rec.log
  /\ c.result = "cancelled" => rec.cancel
  /\ rec.st \in Terminal => c.offset + c.len <= rec.log /\ c.result \in {"none", rec.st}

Hears(c) ==
  /\ agent' = IF agent[c.inst].phase # "report" THEN agent
              ELSE [agent EXCEPT ![c.inst] = [phase |-> "idle", known |-> IF c.result = "none" THEN c.job ELSE "none"]]
  /\ files' = IF agent[c.inst].phase = "report" /\ disk'[c.job].cancel
              THEN [files EXCEPT ![c.inst][c.job].cancel = TRUE] ELSE files

ServeReport(c) ==
  /\ Serves /\ c.kind = "report" /\ calls' = calls \ {c}
  /\ \/ ~Acceptable(disk[c.job], c) /\ UNCHANGED <<disk, index, files, bound>>
        /\ agent' = IF agent[c.inst].phase = "report" THEN [agent EXCEPT ![c.inst] = Idle(agent[c.inst])] ELSE agent
     \/ /\ Acceptable(disk[c.job], c) /\ (disk[c.job].st \in Terminal \/ Reported(disk[c.job], c) = disk[c.job])
        /\ UNCHANGED <<disk, index, bound>> /\ Hears(c)
     \/ /\ Acceptable(disk[c.job], c) /\ disk[c.job].st \notin Terminal
        /\ Reported(disk[c.job], c) # disk[c.job]
        /\ \/ Save(c.job, Reported(disk[c.job], c)) /\ Hears(c) /\ UNCHANGED bound
           \/ /\ SaveFails(c.job, Reported(disk[c.job], c)) /\ UNCHANGED files
              /\ agent' = IF agent[c.inst].phase = "report" THEN [agent EXCEPT ![c.inst] = Idle(agent[c.inst])] ELSE agent
  /\ UNCHANGED <<ops, ledger, up, editor, proc, starts>>

-----------------------------------------------------------------------------
(* run_job: the runner takes its lock, prepares, and starts a supervisor.   *)
Runs(i, j, p, f) ==
  /\ proc' = [proc EXCEPT ![i][j] = p] /\ files' = [files EXCEPT ![i][j] = f]
  /\ UNCHANGED <<broker, calls, editor, agent, bound>>

RunnerLocks(i, j) ==
  LET p == proc[i][j] f == files[i][j] IN
  /\ p.runner = "starting"
  /\ \/ f.result # "none" /\ Runs(i, j, [p EXCEPT !.runner = "over"], f)
     \/ f.result = "none" /\ ~f.cancel /\ Runs(i, j, [p EXCEPT !.runner = "preparing"], f)
     \/ f.result = "none" /\ f.cancel
        /\ Runs(i, j, [p EXCEPT !.runner = "over"], [f EXCEPT !.result = "cancelled"])
  /\ UNCHANGED starts

RunnerPrepared(i, j) ==
  LET p == proc[i][j] f == files[i][j] IN
  /\ p.runner = "preparing"
  /\ \/ Runs(i, j, [p EXCEPT !.runner = "over"], WithFailure(f, "failed"))
     \/ f.cancel /\ Runs(i, j, [p EXCEPT !.runner = "over"], [f EXCEPT !.result = "cancelled"])
     \/ ~f.cancel /\ Runs(i, j, [p EXCEPT !.runner = "watching", !.sup = "starting"], f)
  /\ UNCHANGED starts

(* It asks the supervisor to stop by closing its pipe, and waits.           *)
RunnerStops(i, j) ==
  LET p == proc[i][j] IN
  /\ p.runner = "watching" /\ files[i][j].cancel /\ p.sup \in {"starting", "watching"}
  /\ Runs(i, j, [p EXCEPT !.runner = "stopping"], files[i][j])
  /\ UNCHANGED starts

(* The result is what the supervisor found, if the output was captured; one *)
(* that was killed leaves its processes to the runner.                      *)
RunnerEnds(i, j) ==
  LET p == proc[i][j] f == files[i][j] IN
  /\ p.runner \in {"watching", "stopping"}
  /\ \/ /\ p.sup = "over"
        /\ \/ Runs(i, j, [p EXCEPT !.runner = "over"], [f EXCEPT !.result = f.exec])
           \/ Runs(i, j, [p EXCEPT !.runner = "over"], WithFailure(f, "failed"))
     \/ /\ p.sup = "killed"
        /\ Runs(i, j, [p EXCEPT !.runner = "over", !.leader = IF @ = "running" THEN "killed" ELSE @, !.workers = FALSE],
                WithFailure(f, "failed"))
  /\ UNCHANGED starts

-----------------------------------------------------------------------------
(* supervise_job                                                            *)
Disconnected(p) == p.runner \notin {"watching"}

SupervisorLocks(i, j) ==
  LET p == proc[i][j] f == files[i][j] IN
  /\ p.sup = "starting"
  /\ IF f.result # "none" \/ f.cancel \/ Disconnected(p)
     THEN /\ Runs(i, j, [p EXCEPT !.sup = "over"], [f EXCEPT !.exec = IF f.cancel THEN "cancelled" ELSE "failed"])
          /\ UNCHANGED starts
     ELSE /\ Runs(i, j, [p EXCEPT !.sup = "watching", !.leader = "running", !.workers = TRUE], f)
          /\ starts' = [starts EXCEPT ![j] = @ + 1]

Cleaned(p) == [p EXCEPT !.sup = "over", !.leader = IF @ = "running" THEN "killed" ELSE @, !.workers = FALSE]

(* The end of the training is seen before the pipe.                         *)
SupervisorSees(i, j) ==
  LET p == proc[i][j] f == files[i][j] IN
  /\ p.sup = "watching"
  /\ p.leader # "running" \/ Disconnected(p)
  /\ Runs(i, j, [p EXCEPT !.sup = "cleaning"],
          [f EXCEPT !.exec = IF p.leader = "running" /\ f.cancel THEN "cancelled" ELSE "none"])
  /\ UNCHANGED starts

(* What is left of the process tree is stopped before execution.json.       *)
SupervisorCleans(i, j) ==
  LET p == proc[i][j] f == files[i][j] IN
  /\ p.sup = "cleaning"
  /\ Runs(i, j, Cleaned(p),
          [f EXCEPT !.exec = IF @ = "cancelled" THEN @ ELSE IF p.leader = "ok" THEN "succeeded" ELSE "failed"])
  /\ UNCHANGED starts

(* The training writes, and ends.                                           *)
Writes(i, j) ==
  /\ proc[i][j].leader = "running" /\ files[i][j].out < MaxOut
  /\ RunLocked(proc[i][j])
  /\ Runs(i, j, proc[i][j], [files[i][j] EXCEPT !.out = @ + 1])
  /\ UNCHANGED starts

TrainingEnds(i, j) ==
  /\ proc[i][j].leader = "running"
  /\ \E how \in {"ok", "bad"} : Runs(i, j, [proc[i][j] EXCEPT !.leader = how], files[i][j])
  /\ UNCHANGED starts

(* Processes are killed one at a time, or all when the machine loses power. *)
Kill(i, j) ==
  LET p == proc[i][j] IN
  /\ Within("kills", MaxKills)
  /\ \/ p.runner \in {"starting", "preparing", "watching", "stopping"}
        /\ proc' = [proc EXCEPT ![i][j].runner = "killed"]
     \/ p.sup \in {"starting", "watching", "cleaning"} /\ RunLocked(p)
        /\ proc' = [proc EXCEPT ![i][j].sup = "killed"]
  /\ UNCHANGED <<broker, calls, editor, agent, files, starts>>

PowerFails(i) ==
  /\ Within("kills", MaxKills)
  /\ agent' = [agent EXCEPT ![i] = Down]
  /\ proc' = [proc EXCEPT ![i] = [j \in Jobs |->
       [runner |-> IF proc[i][j].runner = "none" THEN "none" ELSE "over",
        sup |-> IF proc[i][j].sup = "none" THEN "none" ELSE "over",
        leader |-> IF proc[i][j].leader = "running" THEN "killed" ELSE proc[i][j].leader, workers |-> FALSE]]]
  /\ \/ UNCHANGED files
     \/ \E j \in Jobs : files' = [files EXCEPT ![i][j].out = 0]
  /\ UNCHANGED <<broker, calls, editor, starts>>

-----------------------------------------------------------------------------
Editor == (\E j \in Jobs : Prepare(j) \/ Deliver(j)) \/ ToldOfStop

Broker ==
  \/ \E j \in Jobs : Submit(j) \/ StopTarget(j)
  \/ \E o \in Stops : Challenge(o) \/ Confirm(o) \/ Resume(o)
  \/ SaveIntent \/ SaveReceipt \/ BrokerEnds \/ BrokerStarts \/ Recovers
  \/ \E i \in Installs : ServePoll(i)
  \/ \E c \in calls : ServeReport(c)

Agent(i) ==
  \/ Poll(i) \/ CallFails(i) \/ AgentStarts(i)
  \/ Record(i) \/ Spawn(i) \/ Recover(i) \/ Interrupt(i) \/ ReadOutput(i) \/ SendReport(i)

Runner(i, j) == RunnerLocks(i, j) \/ RunnerPrepared(i, j) \/ RunnerStops(i, j) \/ RunnerEnds(i, j)
Supervisor(i, j) == SupervisorLocks(i, j) \/ SupervisorSees(i, j) \/ SupervisorCleans(i, j)

Next ==
  \/ Editor \/ Broker
  \/ \E i \in Installs :
       \/ Agent(i) \/ AgentTimesOut(i) \/ AgentEnds(i) \/ PowerFails(i)
       \/ \E j \in Jobs : Runner(i, j) \/ Supervisor(i, j) \/ Writes(i, j) \/ TrainingEnds(i, j) \/ Kill(i, j)

Spec == Init /\ [][Next]_vars

(* Processes run on and are started again, requests are served, and ten     *)
(* seconds pass; nobody has to ask for anything, and a training may go on   *)
(* for ever.                                                                *)
BrokerWorks ==
  \/ \E o \in Stops : Resume(o)
  \/ \E j \in Jobs : StopTarget(j)
  \/ SaveIntent \/ SaveReceipt \/ BrokerStarts \/ Recovers
  \/ \E i \in Installs : ServePoll(i)
  \/ \E c \in calls : ServeReport(c)

FairSpec ==
  /\ Spec /\ WF_vars(BrokerWorks)
  /\ \A i \in Installs :
       /\ WF_vars(Agent(i)) /\ SF_vars(Interrupt(i))
       /\ \A j \in Jobs : WF_vars(Runner(i, j)) /\ WF_vars(Supervisor(i, j))

-----------------------------------------------------------------------------
(* A job's Python is started at most once, whatever is sent again, whoever  *)
(* polls, and whatever crashes.                                             *)
TrainedOnce == \A j \in Jobs : starts[j] <= 1

(* When the broker calls a job over, nothing of it runs any more; and one   *)
(* that was cancelled in the queue never ran.                               *)
OverMeansGone ==
  \A j \in Jobs :
    /\ disk[j].st \in Terminal =>
         \A i \in Installs : proc[i][j].leader # "running" /\ ~proc[i][j].workers
    /\ disk[j].st = "cancelled" /\ disk[j].inst = "none" => starts[j] = 0

(* What it says of the job is what happened, with all of its output.        *)
ResultIsTrue ==
  \A j \in Jobs, i \in Installs :
    disk[j].inst = i =>
      /\ disk[j].st = "succeeded" => proc[i][j].leader = "ok"
      /\ disk[j].st \in {"succeeded", "failed", "cancelled"} => disk[j].log >= files[i][j].out
      /\ disk[j].st = "cancelled" => \E o \in Stops : ops[o].state # "pending" /\ j \in ledger[o].targets

(* A job somebody prepared is known to the broker or its receipt is kept,   *)
(* until the session is stopped.                                            *)
NotForgotten ==
  \A j \in Jobs : receipt[j] = "cleared" => disk[j].st # "none" \/ stopTold

(* After a confirmed stop, broker and editor restarted or not, the session  *)
(* has no job that nobody asked to stop.                                    *)
StopHolds ==
  stopTold => \A j \in Jobs : disk[j].st \in Terminal \cup {"none"} \/ disk[j].cancel

JobsAreExact == TrainedOnce /\ OverMeansGone /\ ResultIsTrue /\ NotForgotten /\ StopHolds

===============================================================================
