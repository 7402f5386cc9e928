------------------------ MODULE PersistentExecution ------------------------
(***************************************************************************)
(* The executions of a persistent session: the server that admits, hands   *)
(* out and completes them (src/src/vps/persistentServer.ts), the permanent *)
(* receipts it keeps of every request (persistentHistory.ts) and the agent *)
(* of one device that runs the code                                        *)
(* (src/scripts/pair-notebook-session-agent.py).                           *)
(*                                                                         *)
(* The server handles one call after the other.  A call is a list of       *)
(* steps, "todo"; each write to the disk is a step, after which the        *)
(* process may be killed, which may fail, and which may have taken effect  *)
(* although it failed (core/atomicFile.ts).  The agent keeps a receipt of  *)
(* each command on its own disk; its calls may time out, be handled later  *)
(* and be sent again.                                                      *)
(*                                                                         *)
(* There is one notebook, which can be renamed and hidden, and one file    *)
(* that every run returns.  Runs are numbered in the order of admission.   *)
(* The store of the project's files is PersistentWorkspace; here its       *)
(* commits are single writes.  Members, devices, kernel controls, chunks   *)
(* and sizes are not told apart: that a limit of bytes is exceeded is a    *)
(* choice, and outputs of archived runs do not expire.                     *)
(***************************************************************************)
EXTENDS Naturals, Sequences, FiniteSets

CONSTANTS Requests,       \* request ids chosen by the clients
          Paths,          \* names the notebook may have
          None,           \* no run, no receipt, no report
          Home,           \* its name at first
          MaxExecutions,  \* MAX_EXECUTIONS
          MaxPending,     \* four executions in the code
          MaxRuns,        \* bound on admitted executions
          MaxEvents,      \* bound on the events of a run
          MaxFailures,    \* bound on failing writes, kills of the server and of
                          \* the agent and calls that time out, together
          MaxChanges      \* bound on renames, hidings, edits, stops, cancels and
                          \* trims because of bytes, together

ASSUME PersistentAssumption ==
  /\ MaxExecutions \in Nat /\ MaxPending \in 1..MaxExecutions
  /\ {MaxRuns, MaxEvents, MaxFailures, MaxChanges} \subseteq Nat
  /\ Home \in Paths

Ids == 1..MaxRuns

VARIABLES mem,       \* the session record in memory
          disk,      \* what the server has written
          todo,      \* the steps left of the call it is handling
          call,      \* that call
          late,      \* calls of the agent that timed out and may still arrive
          agent,     \* the agent's process
          receipts,  \* the agent's receipts, on its disk
          used,      \* counters for the bounds
          launches,  \* how often a request's code was started
          applied,   \* how often a result was written to the project
          acked      \* runs whose final report was acknowledged

serverVars == <<mem, disk, todo, call>>
agentVars == <<agent, receipts, launches>>
vars == <<serverVars, late, agentVars, used, applied, acked>>

Terminal == {"completed", "failed", "interrupted"}
Results == {"outputs", "file"}
NoCall == [op |-> "none", req |-> None, path |-> None, id |-> 0, body |-> None,
           waiting |-> FALSE, undo |-> None, victim |-> 0]
IsUp == todo # <<"down">>
Idle == todo = <<>>
Ahead == IF Idle THEN "none" ELSE Head(todo)
At(step) == Ahead = step

Known(runs) == {id \in Ids : runs[id] # None}
Least(S) == CHOOSE x \in S : \A y \in S : x <= y
Failure == /\ used.failures < MaxFailures
           /\ used' = [used EXCEPT !.failures = @ + 1]
Change == /\ used.changes < MaxChanges
          /\ used' = [used EXCEPT !.changes = @ + 1]

Init ==
  LET fresh == [runs |-> [id \in Ids |-> None], epoch |-> 1, generation |-> 1,
                open |-> TRUE]
  IN /\ mem = fresh
     /\ disk = [session |-> fresh, requests |-> [q \in Requests |-> None],
                executions |-> [id \in Ids |-> None], results |-> {},
                publications |-> {}, notebook |-> [path |-> Home, version |-> 1],
                file |-> [version |-> 1, by |-> 0], created |-> 0]
  /\ todo = <<>> /\ call = NoCall /\ late = {}
  /\ agent = [stage |-> "free", active |-> 0]
  /\ receipts = [id \in Ids |-> None]
  /\ used = [failures |-> 0, changes |-> 0]
  /\ launches = [q \in Requests |-> 0]
  /\ applied = [id \in Ids |-> [k \in Results |-> 0]]
  /\ acked = {}

-----------------------------------------------------------------------------
(* Writing: every step that writes, what it leaves on the disk, and how a  *)
(* call that fails ends.                                                   *)

Current == mem.runs[call.id]

\* What the disk holds after the write of a step.
Written(step) ==
  CASE step = "save"    -> [disk EXCEPT !.session = mem]
    [] step = "reserve" -> [disk EXCEPT !.requests[call.req] =
                              [id |-> call.id, path |-> call.path],
                              !.created = call.id]
    [] step = "register" -> [disk EXCEPT !.executions[call.id] =
                              [path |-> call.path, final |-> None]]
    [] step = "archive" -> [disk EXCEPT !.executions[call.victim].final =
                              mem.runs[call.victim]]
    [] step = "unlink"  -> [disk EXCEPT !.results = @ \ {call.victim}]
    [] step = "results" -> [disk EXCEPT !.results = @ \cup {call.id}]
    [] step = "publish" -> [disk EXCEPT !.notebook.version = @ + 1,
                              !.publications = @ \cup {<<call.id, "outputs">>}]
    [] step = "deliver" -> [disk EXCEPT
                              !.file = [version |-> @.version + 1, by |-> call.id],
                              !.publications = @ \cup {<<call.id, "file">>}]
    [] step = "rename"  -> [disk EXCEPT !.notebook =
                              [path |-> call.path, version |-> @.version + 1]]
Writes == {"save", "reserve", "register", "archive", "unlink", "results",
           "publish", "deliver", "rename"}

Count(written) ==
  applied' = IF ~written THEN applied
             ELSE CASE Ahead = "publish" -> [applied EXCEPT ![call.id]["outputs"] = @ + 1]
                    [] Ahead = "deliver" -> [applied EXCEPT ![call.id]["file"] = @ + 1]
                    [] OTHER -> applied
Begins(c, steps) == call' = c /\ todo' = steps
Goes(steps) == todo' = steps \o Tail(todo)

\* The rest of the call does not happen; an error while starting ends the
\* process.
Abort == /\ todo' = IF call.op = "boot" THEN <<"down">> ELSE <<>>
         /\ call' = NoCall

\* What the code does in memory once a write has succeeded.
AfterWrite(step) ==
  CASE step = "register" ->
         mem' = [mem EXCEPT !.runs[call.id] =
                   [req |-> call.req, path |-> call.path, state |-> "queued",
                    epoch |-> mem.epoch, generation |-> mem.generation,
                    offset |-> 0, reports |-> {}, merge |-> FALSE,
                    published |-> 0, version |-> disk.notebook.version,
                    base |-> disk.file.version, error |-> FALSE, notes |-> 0]]
    [] step = "archive" -> mem' = [mem EXCEPT !.runs[call.victim] = None]
    [] step = "rename" ->
         mem' = [mem EXCEPT !.runs = [id \in Ids |->
                   IF id \in Known(mem.runs) /\ @[id].state \in {"queued", "running"}
                      /\ @[id].path = disk.notebook.path
                   THEN [@[id] EXCEPT !.path = call.path] ELSE @[id]]]
    [] OTHER -> mem' = mem

\* history.archive refuses another identity, or another result of a run that
\* is archived already.
Refuses(run, kept) == \/ kept.path # run.path
                      \/ kept.final # None /\ kept.final # run

Write ==
  /\ Ahead \in Writes
  /\ disk' = Written(Ahead) /\ AfterWrite(Ahead) /\ Count(TRUE)
  /\ todo' = Tail(todo)
  /\ call' = IF Tail(todo) = <<>> THEN NoCall ELSE [call EXCEPT !.undo = None]
  /\ UNCHANGED <<late, agentVars, used, acked>>

\* The write fails, with or without effect.  report, saveOutputs and
\* finishResultMerge take back what they changed in memory.
WriteFails ==
  /\ Ahead \in Writes
  /\ \E written \in BOOLEAN :
       disk' = (IF written THEN Written(Ahead) ELSE disk) /\ Count(written)
  /\ mem' = IF call.undo = None THEN mem
            ELSE [mem EXCEPT !.runs[call.id] = call.undo]
  /\ Abort /\ Failure
  /\ UNCHANGED <<late, agentVars, acked>>

-----------------------------------------------------------------------------
(* trimHistory *)

\* hasOutputDependents
HasDependents(id) ==
  LET run == mem.runs[id]
  IN /\ run.published # 0
     /\ \E other \in Known(mem.runs) \ {id} :
          LET o == mem.runs[other]
          IN /\ <<o.path, o.generation, o.epoch>> = <<run.path, run.generation, run.epoch>>
             /\ o.merge \/ o.state \in {"queued", "running"}
             /\ o.version <= run.published
Trimmable == {id \in Known(mem.runs) :
                mem.runs[id].state \in Terminal /\ ~mem.runs[id].merge
                /\ ~HasDependents(id)}
Full == call.op = "execute" /\ Cardinality(Known(mem.runs)) >= MaxExecutions

Noted(id) == [mem.runs[id] EXCEPT !.notes =
                IF id \in disk.results /\ @ < 2 THEN @ + 1 ELSE @]

\* The oldest run that may go is archived; its results file is mentioned in it
\* every time this is tried.  The archive's 409 ends the call.
TrimOne ==
  /\ At("trim") /\ Trimmable # {}
  /\ IF Full THEN UNCHANGED used ELSE Change
  /\ LET id == Least(Trimmable)
     IN /\ mem' = [mem EXCEPT !.runs[id] = Noted(id)]
        /\ IF Refuses(Noted(id), disk.executions[id]) THEN Abort
           ELSE Begins([call EXCEPT !.victim = id, !.undo = None],
                       <<"archive", "save", "unlink">> \o todo)
  /\ UNCHANGED <<disk, late, agentVars, applied, acked>>

TrimEnds ==
  /\ At("trim")
  /\ Full => Trimmable = {}
  /\ todo' = Tail(todo)
  /\ UNCHANGED <<mem, disk, call, late, agentVars, used, applied, acked>>

-----------------------------------------------------------------------------
(* execute *)

IsKnown(q) == \/ \E id \in Known(mem.runs) : mem.runs[id].req = q
              \/ disk.requests[q] # None

\* A client asks; a known request is answered from memory or from its receipt,
\* which changes nothing, and those that are not known differ in nothing.
Execute(p) ==
  /\ Idle /\ mem.open /\ disk.created < MaxRuns
  /\ \E q \in Requests : ~IsKnown(q)
  /\ Begins([NoCall EXCEPT !.op = "execute", !.path = p, !.id = disk.created + 1,
                           !.req = CHOOSE q \in Requests : ~IsKnown(q)],
            <<"trim", "admit">>)
  /\ UNCHANGED <<mem, disk, late, agentVars, used, applied, acked>>

Pending == {id \in Known(mem.runs) : mem.runs[id].state \in {"queued", "running"}}

Admit ==
  /\ At("admit")
  /\ IF Cardinality(Pending) < MaxPending /\ call.path = disk.notebook.path
     THEN todo' = <<"reserve", "register", "save", "reply">> /\ UNCHANGED call
     ELSE Abort
  /\ UNCHANGED <<mem, disk, late, agentVars, used, applied, acked>>

-----------------------------------------------------------------------------
(* claim *)

ClaimCall == [NoCall EXCEPT !.op = "claim", !.waiting = TRUE]
Running == {id \in Known(mem.runs) : mem.runs[id].state = "running"}
Queued == {id \in Known(mem.runs) : mem.runs[id].state = "queued"}

\* A run that is running is only recovered; a stopped session hands out none.
HandleClaim(c) ==
  IF Running # {}
  THEN Begins([c EXCEPT !.op = "recover", !.id = Least(Running)], <<"reply">>)
  ELSE /\ mem.open /\ Queued # {}
       /\ Begins(c, <<"scan">>)

Launchable(run) == /\ run.epoch = mem.epoch /\ run.generation = mem.generation
                   /\ run.path = disk.notebook.path

\* The oldest queued run is saved as running, or as failed when the session
\* changed since it was admitted, and then the next one is tried.
Scan ==
  /\ At("scan")
  /\ IF Queued = {} THEN Abort /\ UNCHANGED mem
     ELSE LET id == Least(Queued) IN
          IF Launchable(mem.runs[id])
          THEN /\ mem' = [mem EXCEPT !.runs[id].state = "running"]
               /\ todo' = <<"save", "reply">> /\ call' = [call EXCEPT !.id = id]
          ELSE /\ mem' = [mem EXCEPT !.runs[id].state = "failed", !.runs[id].error = TRUE]
               /\ todo' = <<"save", "scan">> /\ UNCHANGED call
  /\ UNCHANGED <<disk, late, agentVars, used, applied, acked>>

-----------------------------------------------------------------------------
(* report and finishResultMerge *)

\* The run a report is about: in memory, or archived with its result.
ReportedRun(id) == IF mem.runs[id] # None THEN mem.runs[id]
                   ELSE IF disk.executions[id] = None THEN None
                   ELSE disk.executions[id].final
Repeated(run, body) == run # None /\ body \in run.reports
Expected(run, body) == run # None /\ run.state = "running" /\ run.offset = body.offset

\* Mutant: A repeated report is refused like any other stale one.
HandleReportStale(c) ==
  /\ Expected(ReportedRun(c.id), c.body)
  /\ Begins(c, IF c.body.state \in {"completed", "failed"}
               THEN <<"trim", "results", "apply">> ELSE <<"trim", "apply">>)

\* Mutant: A repeated report is answered at once.
HandleReportAnswered(c) ==
  LET run == ReportedRun(c.id)
  IN IF Repeated(run, c.body) THEN Begins(c, <<"reply">>)
     ELSE /\ Expected(run, c.body)
          /\ Begins(c, IF c.body.state \in {"completed", "failed"}
                       THEN <<"trim", "results", "apply">> ELSE <<"trim", "apply">>)

\* A report is applied once; the same report again finishes the merge and is
\* answered; any other is refused as stale.
HandleReport(c) ==
  LET run == ReportedRun(c.id)
  IN IF Repeated(run, c.body)
     THEN Begins(c, IF run.merge THEN <<"merge", "reply">> ELSE <<"reply">>)
     ELSE /\ Expected(run, c.body)
          /\ Begins(c, IF c.body.state \in {"completed", "failed"}
                       THEN <<"trim", "results", "apply">> ELSE <<"trim", "apply">>)

Reported(run, body) ==
  [run EXCEPT !.state = body.state, !.offset = body.end,
              !.merge = body.state \in {"completed", "failed"},
              !.reports = @ \cup {body}]

Apply ==
  /\ At("apply")
  /\ mem' = [mem EXCEPT !.runs[call.id] = Reported(@, call.body)]
  /\ call' = [call EXCEPT !.undo = Current]
  /\ todo' = IF mem'.runs[call.id].merge THEN <<"save", "merge", "trim", "save", "reply">>
             ELSE <<"save", "trim", "save", "reply">>
  /\ UNCHANGED <<disk, late, agentVars, used, applied, acked>>

\* A run from before a privacy change publishes nothing.  saveOutputs: the
\* intended publication is saved before it is made.
Merge ==
  /\ At("merge")
  /\ CASE Current.epoch # mem.epoch -> Goes(<<"finish">>) /\ UNCHANGED <<mem, call>>
       [] Current.epoch = mem.epoch /\ call.id \notin disk.results -> Abort /\ UNCHANGED mem
       [] OTHER ->
            IF Current.published # 0 /\ <<call.id, "outputs">> \in disk.publications
            THEN Goes(<<"files", "finish">>) /\ UNCHANGED <<mem, call>>
            ELSE IF Current.path # disk.notebook.path
            THEN /\ mem' = [mem EXCEPT !.runs[call.id].error = TRUE]
                 /\ Goes(<<"files", "finish">>) /\ UNCHANGED call
            ELSE /\ mem' = [mem EXCEPT !.runs[call.id].published = disk.notebook.version]
                 /\ call' = [call EXCEPT !.undo = Current]
                 /\ Goes(<<"save", "publish", "files", "finish">>)
  /\ UNCHANGED <<disk, late, agentVars, used, applied, acked>>

\* saveResults: a file that nobody changed since is replaced; a file that
\* holds the result already is left; anything else is a conflict.
Files ==
  /\ At("files")
  /\ IF /\ <<call.id, "file">> \notin disk.publications
        /\ disk.file.version = Current.base
     THEN Goes(<<"deliver">>) /\ UNCHANGED mem
     ELSE /\ Goes(<<>>)
          /\ mem' = [mem EXCEPT !.runs[call.id].error = @ \/ disk.file.by # call.id]
  /\ UNCHANGED <<disk, call, late, agentVars, used, applied, acked>>

Merged(run) == [run EXCEPT !.merge = FALSE,
                 !.state = IF run.epoch = mem.epoch /\ run.error /\ @ = "completed"
                           THEN "failed" ELSE @]

\* Mutant: The publications are dropped before the end of the merge is saved.
FinishRetainsFirst ==
  /\ At("finish")
  /\ mem' = [mem EXCEPT !.runs[call.id] = Merged(@)]
  /\ call' = [call EXCEPT !.undo = [Merged(Current) EXCEPT !.merge = TRUE]]
  /\ Goes(<<"retain", "save">>)
  /\ UNCHANGED <<disk, late, agentVars, used, applied, acked>>

Finish ==
  /\ At("finish")
  /\ mem' = [mem EXCEPT !.runs[call.id] = Merged(@)]
  /\ call' = [call EXCEPT !.undo = [Merged(Current) EXCEPT !.merge = TRUE]]
  /\ Goes(<<"save", "retain">>)
  /\ UNCHANGED <<disk, late, agentVars, used, applied, acked>>

\* retainResultPublications, which may fail like any write.
Retained == {p \in disk.publications : /\ p[1] \in Known(mem.runs)
                                       /\ \/ mem.runs[p[1]].merge
                                          \/ p[2] = "outputs" /\ HasDependents(p[1])}
Retain ==
  /\ At("retain")
  /\ \/ disk' = [disk EXCEPT !.publications = Retained] /\ Goes(<<>>) /\ UNCHANGED <<call, used>>
     \/ /\ Failure /\ Abort
        /\ disk' \in {disk, [disk EXCEPT !.publications = Retained]}
  /\ UNCHANGED <<mem, late, agentVars, applied, acked>>

-----------------------------------------------------------------------------
(* The users *)

\* The record changes in memory and is saved.
Saves(m) == /\ Idle /\ mem' = m /\ Begins(NoCall, <<"save">>)
            /\ UNCHANGED <<disk, late, agentVars, applied, acked>>

\* privacyBarrier
Hide == /\ mem.open /\ Change
        /\ Saves([mem EXCEPT !.epoch = @ + 1, !.generation = @ + 1])

\* lifecycle: stop and start.
Stop == /\ Change
        /\ Saves([mem EXCEPT !.open = FALSE, !.generation = @ + 1,
                    !.runs = [id \in Ids |-> IF id \in Queued
                                THEN [@[id] EXCEPT !.state = "interrupted"] ELSE @[id]]])
Start == ~mem.open /\ Saves([mem EXCEPT !.open = TRUE]) /\ UNCHANGED used

\* kernelControl: interrupt of a queued run.
Cancel(id) == /\ mem.open /\ id \in Queued /\ Change
              /\ Saves([mem EXCEPT !.runs[id].state = "interrupted"])

\* The notebook is renamed, then the runs that name it.
Rename(p) ==
  /\ Idle /\ mem.open /\ p # disk.notebook.path /\ Change
  /\ Begins([NoCall EXCEPT !.path = p], <<"rename", "save">>)
  /\ UNCHANGED <<mem, disk, late, agentVars, applied, acked>>

\* A member writes the file that runs return.
Edit ==
  /\ Idle /\ mem.open /\ Change
  /\ disk' = [disk EXCEPT !.file = [version |-> @.version + 1, by |-> 0]]
  /\ UNCHANGED <<mem, todo, call, late, agentVars, applied, acked>>

-----------------------------------------------------------------------------
(* The agent *)

\* The agent is blocked on a call of its own.  What it does by itself commutes
\* with the server's steps and is taken between two calls.
Waiting == call.waiting
Active == receipts[agent.active]

\* Mutant: A command that was cut short by a restart of the agent is run again.
AcceptsAgain ==
  LET id == call.id
      known == receipts[id] # None
      fresh == [state |-> "running", events |-> 0, offset |-> 0, pending |-> None]
      run == IF known THEN receipts[id]
             ELSE IF call.op = "recover" THEN [fresh EXCEPT !.state = "interrupted"] ELSE fresh
  IN /\ receipts' = [receipts EXCEPT ![id] = run]
     /\ agent' = [stage |-> IF run.state = "running" THEN "prepared" ELSE "over", active |-> id]

\* _claim: the receipt of a command is durable before its kernel starts.  A
\* command that ran before a restart, or whose receipt is missing, is not run.
Accepts ==
  LET id == call.id
      known == receipts[id] # None
      fresh == [state |-> "running", events |-> 0, offset |-> 0, pending |-> None]
      given == IF known THEN receipts[id] ELSE fresh
      over == known \/ call.op = "recover"
      run == IF over /\ given.state = "running"
             THEN [given EXCEPT !.state = "interrupted"] ELSE given
  IN /\ receipts' = [receipts EXCEPT ![id] = run]
     /\ agent' = [stage |-> IF over THEN "over" ELSE "prepared", active |-> id]

\* _report: the acknowledged events; after the final report the agent is free.
Acknowledged ==
  LET final == call.body.state # "running"
  IN /\ receipts' = [receipts EXCEPT ![call.id].offset = call.body.end,
                                     ![call.id].pending = None]
     /\ agent' = IF final THEN [stage |-> "free", active |-> 0] ELSE agent
     /\ acked' = IF final THEN acked \cup {call.id} ELSE acked

Reply ==
  /\ todo = <<"reply">>
  /\ IF ~Waiting THEN UNCHANGED <<agent, receipts, acked>>
     ELSE IF call.op = "report" THEN Acknowledged
     ELSE IF call.op \in {"claim", "recover"} THEN Accepts /\ UNCHANGED acked
     ELSE UNCHANGED <<agent, receipts, acked>>
  /\ Begins(NoCall, <<>>)
  /\ UNCHANGED <<mem, disk, late, used, launches, applied>>

\* _tick: a claim when nothing is active.  (With an active command the same
\* call returns the same command, for its controls.)
Claim ==
  /\ Idle /\ agent.stage = "free"
  /\ HandleClaim(ClaimCall)
  /\ UNCHANGED <<mem, disk, late, agentVars, used, applied, acked>>

\* The command is sent to the kernel.
RequestOf(id) == CHOOSE q \in Requests : /\ disk.requests[q] # None
                                         /\ disk.requests[q].id = id
Launch ==
  /\ agent.stage = "prepared" /\ Idle
  /\ launches' = [launches EXCEPT ![RequestOf(agent.active)] = @ + 1]
  /\ agent' = [agent EXCEPT !.stage = "running"]
  /\ UNCHANGED <<serverVars, late, receipts, used, applied, acked>>

\* The environment or the kernel cannot be prepared.
NoKernel ==
  /\ agent.stage = "prepared" /\ Idle
  /\ receipts' = [receipts EXCEPT ![agent.active].state = "failed"]
  /\ agent' = [agent EXCEPT !.stage = "over"]
  /\ UNCHANGED <<serverVars, late, launches, used, applied, acked>>

\* _drain: output, and the end of the command or of its kernel.
Output ==
  /\ agent.stage = "running" /\ Idle /\ Active.events < MaxEvents
  /\ receipts' = [receipts EXCEPT ![agent.active].events = @ + 1]
  /\ UNCHANGED <<serverVars, late, agent, launches, used, applied, acked>>
End ==
  /\ agent.stage = "running" /\ Idle
  /\ \E s \in Terminal : receipts' = [receipts EXCEPT ![agent.active].state = s]
  /\ agent' = [agent EXCEPT !.stage = "over"]
  /\ UNCHANGED <<serverVars, late, launches, used, applied, acked>>

\* _report: what is new is written down as the report that is sent until it is
\* acknowledged.
Prepare ==
  /\ agent.stage \in {"running", "over"} /\ Idle /\ Active.pending = None
  /\ Active.events > Active.offset \/ Active.state # "running"
  /\ receipts' = [receipts EXCEPT ![agent.active].pending =
                    [offset |-> Active.offset, end |-> Active.events,
                     state |-> Active.state]]
  /\ UNCHANGED <<serverVars, late, agent, launches, used, applied, acked>>

ReportCall == [NoCall EXCEPT !.op = "report", !.id = agent.active,
                             !.body = Active.pending, !.waiting = TRUE]
Send ==
  /\ Idle /\ agent.stage \in {"running", "over"} /\ Active.pending # None
  /\ HandleReport(ReportCall)
  /\ UNCHANGED <<mem, disk, late, agentVars, used, applied, acked>>

\* A call times out while the server handles it, which shows when it replies,
\* or before it arrives; then it may arrive at any later time, or never.
TimesOut ==
  /\ Failure
  /\ \/ /\ Waiting /\ todo = <<"reply">> /\ call' = [call EXCEPT !.waiting = FALSE]
        /\ UNCHANGED late
     \/ /\ agent.stage = "free" /\ Idle
        /\ late' = late \cup {[ClaimCall EXCEPT !.waiting = FALSE]} /\ UNCHANGED call
     \/ /\ agent.stage \in {"running", "over"} /\ Idle /\ Active.pending # None
        /\ late' = late \cup {[ReportCall EXCEPT !.waiting = FALSE]} /\ UNCHANGED call
  /\ UNCHANGED <<mem, disk, todo, agentVars, applied, acked>>
Arrive(c) ==
  /\ Idle /\ c \in late /\ late' = late \ {c}
  /\ IF c.op = "claim" THEN HandleClaim(c) ELSE HandleReport(c)
  /\ UNCHANGED <<mem, disk, agentVars, used, applied, acked>>

-----------------------------------------------------------------------------
(* Kills and restarts *)

\* The agent is killed and started again: what it was doing is forgotten.
AgentRestarts ==
  /\ Idle \/ Waiting
  /\ Failure
  /\ agent' = [stage |-> "free", active |-> 0]
  /\ call' = [call EXCEPT !.waiting = FALSE]
  /\ UNCHANGED <<mem, disk, todo, late, receipts, launches, applied, acked>>

\* A kill before a step that only changes memory is one before the next write.
ServerKilled ==
  /\ Idle \/ Ahead \in Writes \cup {"retain", "reply"}
  /\ Failure
  /\ Begins(NoCall, <<"down">>) /\ mem' = disk.session
  /\ UNCHANGED <<disk, late, agentVars, applied, acked>>

\* start: a record with too many executions is refused; runs that were not
\* handed out are interrupted; merges that were cut short are finished.
Boot ==
  /\ ~IsUp /\ Cardinality(Known(disk.session.runs)) <= MaxExecutions
  /\ LET s == disk.session IN
       mem' = [s EXCEPT !.runs = [id \in Ids |->
                 IF id \in Known(s.runs) /\ @[id].state = "queued"
                 THEN [@[id] EXCEPT !.state = "interrupted"] ELSE @[id]]]
  /\ Begins([NoCall EXCEPT !.op = "boot"], <<"merges", "retain", "save">>)
  /\ UNCHANGED <<disk, late, agentVars, used, applied, acked>>

ToMerge == {id \in Known(mem.runs) : mem.runs[id].merge}
BootMerges ==
  /\ At("merges")
  /\ IF ToMerge = {} THEN Goes(<<>>) /\ UNCHANGED call
     ELSE todo' = <<"merge">> \o todo /\ call' = [call EXCEPT !.id = Least(ToMerge)]
  /\ UNCHANGED <<mem, disk, late, agentVars, used, applied, acked>>

-----------------------------------------------------------------------------
UserCalls == \/ \E p \in Paths : Execute(p)
             \/ Hide \/ Stop \/ Start \/ Edit
             \/ \E id \in Ids : Cancel(id)
             \/ \E p \in Paths : Rename(p)
Steps == \/ Write \/ TrimOne \/ TrimEnds \/ Admit \/ Scan \/ Apply
         \/ Merge \/ Files \/ Finish \/ Retain \/ Reply
         \/ BootMerges
AgentSteps == Launch \/ NoKernel \/ End \/ Prepare \/ Claim \/ Send
Failures == \/ WriteFails \/ TimesOut \/ AgentRestarts \/ ServerKilled

Next == \/ UserCalls \/ Steps \/ AgentSteps \/ Output \/ Failures
        \/ \E c \in late : Arrive(c)
        \/ Boot

Spec == Init /\ [][Next]_vars

\* A call that was begun goes on and a killed process is started again; calls
\* are handled in the order of arrival, so the agent is not passed over for
\* ever (its own steps are taken between calls too); the code of a cell ends.
Fairness == /\ WF_vars(Steps) /\ WF_vars(Boot) /\ SF_vars(AgentSteps)
FairSpec == Spec /\ Fairness

-----------------------------------------------------------------------------
(* What stays true of the server and the agent, for the proofs.            *)

Bodies == [offset : Nat, end : Nat, state : {"running"} \cup Terminal]
Runs == [req : Requests, path : Paths, state : {"queued", "running"} \cup Terminal,
         epoch : Nat, generation : Nat, offset : Nat, reports : SUBSET Bodies,
         merge : BOOLEAN, published : Nat, version : Nat, base : Nat,
         error : BOOLEAN, notes : Nat]
Receipts == [state : {"running"} \cup Terminal, events : Nat, offset : Nat,
             pending : Bodies \cup {None}]
Calls == [op : {"none", "execute", "claim", "recover", "report", "boot"},
          req : Requests \cup {None}, path : Paths \cup {None}, id : 0..MaxRuns,
          body : Bodies \cup {None}, waiting : BOOLEAN, undo : Runs \cup {None},
          victim : 0..MaxRuns]
Sessions == [runs : [Ids -> Runs \cup {None}], epoch : Nat, generation : Nat,
             open : BOOLEAN]
Admissions == [id : Ids, path : Paths]
Records == [path : Paths, final : Runs \cup {None}]
Disks == [session : Sessions, requests : [Requests -> Admissions \cup {None}],
          executions : [Ids -> Records \cup {None}], results : SUBSET Ids,
          publications : SUBSET (Ids \X Results),
          notebook : [path : Paths, version : Nat],
          file : [version : Nat, by : 0..MaxRuns], created : 0..MaxRuns]

ASSUME NoneAssumption ==
  /\ None \notin Requests /\ None \notin Paths /\ None \notin Bodies /\ None \notin Runs
  /\ None \notin Receipts /\ None \notin Admissions /\ None \notin Records

MergeSteps == {"merge", "files", "finish", "publish", "deliver"}
TrimSteps == {"trim", "archive", "save", "unlink"}
Plan == MergeSteps \cup TrimSteps \cup
        {"admit", "reserve", "register", "reply", "scan", "results", "apply",
         "retain", "merges", "rename", "down"}

ServerTypes ==
  /\ mem \in Sessions /\ disk \in Disks
  /\ todo \in Seq(Plan) /\ call \in Calls /\ late \subseteq Calls
AgentTypes ==
  /\ agent \in [stage : {"free", "prepared", "running", "over"}, active : 0..MaxRuns]
  /\ receipts \in [Ids -> Receipts \cup {None}]
  /\ launches \in [Requests -> Nat]
GhostTypes ==
  /\ used \in [failures : Nat, changes : Nat]
  /\ applied \in [Ids -> [Results -> Nat]]
  /\ acked \subseteq Ids
TypeOK == ServerTypes /\ AgentTypes /\ GhostTypes

\* The steps that are left of a call.
Left(steps) == {steps[i] : i \in DOMAIN steps}

\* What may not come after a step: a merge is done once in a call and its steps
\* in their order, and a run is archived next or not at all.
Barred(step) ==
  {"archive"} \cup
  CASE step \in {"merges", "merge", "finish"} -> MergeSteps
    [] step \in {"files", "deliver"} -> MergeSteps \ {"finish"}
    [] step = "publish" -> {"publish"}
    [] OTHER -> {}
Straight(steps) ==
  \A i, j \in DOMAIN steps : i < j => steps[j] \notin Barred(steps[i])

\* Every call does what it can do only.
PlanInv ==
  /\ Straight(todo)
  /\ call.op = "none" =>
       \/ todo \in {<<>>, <<"down">>, <<"save">>}
       \/ todo = <<"rename", "save">> /\ call.path \in Paths
  /\ call.op = "execute" =>
       /\ call.req \in Requests /\ call.path \in Paths /\ call.id \in Ids
       /\ \/ Left(todo) \subseteq TrimSteps \cup {"admit"}
          \/ todo \in {<<"reserve", "register", "save", "reply">>,
                       <<"register", "save", "reply">>, <<"save", "reply">>, <<"reply">>}
  /\ call.op = "claim" =>
       \/ todo \in {<<"scan">>, <<"save", "scan">>}
       \/ todo \in {<<"save", "reply">>, <<"reply">>} /\ call.id \in Ids
  /\ call.op = "recover" => todo = <<"reply">> /\ call.id \in Ids
  /\ call.op = "report" =>
       Left(todo) \subseteq TrimSteps \cup MergeSteps \cup {"results", "apply", "retain", "reply"}
  /\ call.op = "boot" => Left(todo) \subseteq MergeSteps \cup {"merges", "retain", "save"}

\* A report names a run the agent has a receipt of.
ReportOf(c) == c.op = "report" => /\ c.id \in Ids /\ c.body \in Bodies
                                  /\ receipts[c.id] # None
CallsInv ==
  /\ ReportOf(call)
  /\ \A c \in late : /\ c.op \in {"claim", "report"} /\ c.undo = None /\ ~c.waiting
                     /\ ReportOf(c)

\* The runs that the steps of a call change are there.
UndoInv ==
  call.undo # None => /\ At("save") /\ call.op \in {"report", "boot"} /\ call.id \in Ids
                      /\ mem.runs[call.id] # None
VictimInv ==
  At("archive") => /\ call.victim \in Ids /\ mem.runs[call.victim] # None
                   /\ mem.runs[call.victim].state \in Terminal
                   /\ ~mem.runs[call.victim].merge
MergingInv ==
  Left(todo) \cap MergeSteps # {} => /\ call.id \in Ids /\ mem.runs[call.id] # None
                                     /\ mem.runs[call.id].merge
ApplyingInv ==
  "apply" \in Left(todo) => /\ call.op = "report" /\ mem.runs[call.id] # None
                            /\ mem.runs[call.id].state = "running"
                            /\ mem.runs[call.id].offset = call.body.offset
                            /\ Left(todo) \cap MergeSteps = {}

\* A run has one receipt of its request and one of its own, which is there as
\* long as the run is in a record.
RecordsInv ==
  /\ \A q \in Requests : disk.requests[q] # None => disk.requests[q].id <= disk.created
  /\ \A q, r \in Requests : /\ disk.requests[q] # None /\ disk.requests[r] # None
                            /\ disk.requests[q].id = disk.requests[r].id
                            => q = r
  /\ \A id \in 1..disk.created : \E q \in Requests : disk.requests[q] # None
                                                     /\ disk.requests[q].id = id
  /\ \A id \in Ids :
       /\ mem.runs[id] # None \/ disk.session.runs[id] # None => disk.executions[id] # None
       /\ disk.executions[id] # None =>
            /\ id <= disk.created
            /\ disk.executions[id].final # None =>
                 /\ disk.executions[id].final.state \in Terminal
                 /\ ~disk.executions[id].final.merge

\* The run that is admitted is new.
AdmittingInv ==
  /\ {"admit", "reserve"} \cap Left(todo) # {} =>
       disk.requests[call.req] = None /\ call.id = disk.created + 1
  /\ todo = <<"register", "save", "reply">> =>
       call.id = disk.created /\ disk.executions[call.id] = None

\* The agent was told to start the run, or has.
Started(id) == \/ agent.stage = "prepared" /\ agent.active = id
               \/ \E q \in Requests : /\ disk.requests[q] # None
                                      /\ disk.requests[q].id = id /\ launches[q] > 0
Unqueued(run) == run # None => run.state # "queued"

\* The agent's command has a receipt, and one that is not started yet was never
\* started.
CommandInv ==
  /\ agent.stage # "free" => agent.active \in Ids /\ receipts[agent.active] # None
  /\ agent.stage = "prepared" =>
       \A q \in Requests : disk.requests[q] # None /\ disk.requests[q].id = agent.active
                             => launches[q] = 0
  /\ \A q \in Requests : /\ launches[q] <= 1
                         /\ launches[q] > 0 => disk.requests[q] # None

\* A run that was started is queued nowhere, and only the archive takes it out
\* of a record.
StartedInv ==
  \A id \in Ids : Started(id) =>
    /\ receipts[id] # None /\ disk.executions[id] # None
    /\ Unqueued(mem.runs[id]) /\ Unqueued(disk.session.runs[id])
    /\ mem.runs[id] = None \/ disk.session.runs[id] = None => disk.executions[id].final # None
    /\ call.id = id => Unqueued(call.undo)

\* A run is handed out after it was saved as running.
HandedInv ==
  call.op = "claim" /\ todo \in {<<"save", "reply">>, <<"reply">>} =>
    /\ mem.runs[call.id] # None /\ Unqueued(mem.runs[call.id])
    /\ todo = <<"reply">> => disk.session.runs[call.id] # None
                             /\ Unqueued(disk.session.runs[call.id])

CallInv == PlanInv /\ CallsInv /\ UndoInv /\ VictimInv /\ MergingInv /\ ApplyingInv
StartInv == CallInv /\ RecordsInv /\ AdmittingInv /\ CommandInv /\ StartedInv /\ HandedInv

\* The final report is among those a run has taken, and it is over for good.
HasFinal(run) == \E body \in run.reports : body.state \in Terminal
Over(run) == run.state \in Terminal /\ ~run.merge
Done(run) == Over(run) /\ HasFinal(run)
Changed(id) == call.undo # None /\ call.id = id

\* A run's state and offset are those of its final report.
Sound(run) ==
  run # None =>
    /\ run.merge => run.state \in {"completed", "failed"} /\ HasFinal(run)
    /\ \A body \in run.reports : body.state \in Terminal =>
         run.state \in Terminal /\ run.offset = body.end
    /\ run.state = "queued" => run.reports = {} /\ ~run.merge

\* What the record in memory, M, the record on the disk, D, and the archived
\* result, F, of one run say of each other, while the process is down or up.
\* Between a change that is taken back when it cannot be saved and its save, M is
\* ahead of D.
Agree(down, changed, M, D, F) ==
  /\ Sound(M) /\ Sound(D) /\ Sound(F)
  /\ F # None => /\ Over(F)
                 /\ M = None \/ Over(M) \/ (down /\ M.state = "queued")
                 /\ D = None \/ Over(D) \/ D.state = "queued"
                 /\ HasFinal(F) => (M = None \/ Done(M)) /\ (D = None \/ Done(D))
  /\ M = None /\ D # None => F # None
  /\ D # None => /\ D.state = "running" => M # None /\ (M.state = "running" \/ changed)
                 /\ D.merge /\ ~changed => M # None /\ (M.merge \/ M.state = "running")
  /\ M # None /\ ~changed =>
       /\ HasFinal(M) => D # None /\ D.state \in Terminal /\ HasFinal(D)
       /\ Done(M) => Over(D)

Final(id) == IF disk.executions[id] = None THEN None ELSE disk.executions[id].final
AgreeInv ==
  /\ \A id \in Ids :
       Agree(~IsUp, Changed(id), mem.runs[id], disk.session.runs[id], Final(id))
  /\ call.undo # None =>
       /\ Sound(call.undo) /\ Final(call.id) = None
       /\ \/ call.undo.state = "running"
          \/ /\ call.undo.merge /\ call.undo.reports = mem.runs[call.id].reports
             /\ disk.session.runs[call.id] # None
             /\ disk.session.runs[call.id].state \in Terminal
             /\ HasFinal(disk.session.runs[call.id])

\* A final report tells all the events of a command that is over.
Tells(receipt, body) ==
  body # None /\ body.state \in Terminal =>
    receipt # None /\ receipt.state \in Terminal /\ body.end = receipt.events
TellsAll(receipt, run) == run # None => \A body \in run.reports : Tells(receipt, body)
BodyInv ==
  /\ \A id \in Ids :
       /\ receipts[id] # None => Tells(receipts[id], receipts[id].pending)
       /\ TellsAll(receipts[id], mem.runs[id]) /\ TellsAll(receipts[id], disk.session.runs[id])
       /\ TellsAll(receipts[id], Final(id))
  /\ call.op = "report" => Tells(receipts[call.id], call.body)
  /\ call.undo # None => TellsAll(receipts[call.id], call.undo)
  /\ \A c \in late : c.op = "report" => Tells(receipts[c.id], c.body)
  /\ agent.stage \in {"prepared", "running"} => receipts[agent.active].state = "running"

\* A report that is about to be answered has been taken, and its merge ended.
ReplyInv ==
  call.op = "report" /\ todo # <<>> /\ "apply" \notin Left(todo) =>
    IF mem.runs[call.id] = None
    THEN Final(call.id) # None /\ call.body \in Final(call.id).reports
    ELSE /\ call.body \in mem.runs[call.id].reports
         /\ mem.runs[call.id].merge => Left(todo) \cap {"merge", "finish"} # {}

\* What was acknowledged is over everywhere.
Settled(run) == run = None \/ Done(run)
AckInv ==
  \A id \in acked :
    /\ Settled(mem.runs[id]) /\ Settled(disk.session.runs[id]) /\ ~Changed(id)
    /\ mem.runs[id] = None \/ disk.session.runs[id] = None =>
         Final(id) # None /\ Done(Final(id))

\* What was published of a run is remembered until the run is over everywhere.
Remembers(published, run, id, k) ==
  \/ run = None \/ Over(run)
  \/ /\ run.merge /\ <<id, k>> \in published
     /\ k = "outputs" => run.published # 0
AppliedInv ==
  /\ disk.notebook.version > 0
  /\ \A id \in Ids, k \in Results :
       /\ applied[id][k] \in {0, 1}
       /\ applied[id][k] = 1 =>
            /\ disk.executions[id] # None
            /\ Remembers(disk.publications, mem.runs[id], id, k)
            /\ Remembers(disk.publications, disk.session.runs[id], id, k)
            /\ Changed(id) => Remembers(disk.publications, call.undo, id, k)
  /\ "publish" \in Left(todo) =>
       /\ applied[call.id]["outputs"] = 0 /\ mem.runs[call.id].published # 0
       /\ \/ call.undo # None
          \/ /\ disk.session.runs[call.id] # None
             /\ disk.session.runs[call.id].merge /\ disk.session.runs[call.id].published # 0
  /\ "deliver" \in Left(todo) => applied[call.id]["file"] = 0

DurableInv == AgreeInv /\ BodyInv /\ ReplyInv /\ AckInv /\ AppliedInv

-----------------------------------------------------------------------------
(* Properties *)

\* The code of a request is started at most once, over repeated requests and
\* reports, calls that arrive late, archived runs, and kills of both sides; and
\* once started it is on the server's disk as more than queued, so no restart
\* takes it for a run that was never handed out.
LaunchedOnce ==
  \A q \in Requests :
    /\ launches[q] <= 1
    /\ launches[q] > 0 =>
         LET id == disk.requests[q].id IN
         \/ disk.executions[id].final # None
         \/ disk.session.runs[id] # None /\ disk.session.runs[id].state # "queued"

\* A run's outputs and its file are written to the project at most once, over
\* failed and repeated merges.
AppliedOnce == \A id \in Ids, k \in Results : applied[id][k] <= 1

\* What others were told stays true.  What the agent was told to forget is on
\* the server's disk: all the events, a final state and a finished merge, in the
\* record or in the archive.  And between two calls, a run that lookups say is
\* over is not running on the disk: whatever could be read of it, a restart
\* does not take back.
ToldIsDurable ==
  /\ \A id \in acked :
       LET run == IF disk.session.runs[id] # None THEN disk.session.runs[id]
                  ELSE disk.executions[id].final
       IN run # None /\ run.state \in Terminal /\ ~run.merge
          /\ run.offset = receipts[id].events
  /\ Idle => \A id \in Known(mem.runs) : mem.runs[id].state \in Terminal =>
               \/ disk.session.runs[id] = None
               \/ disk.session.runs[id].state # "running"

\* Every admitted run is settled, and its result is merged as long as the agent
\* holds the report it would have to repeat.
EveryRunSettles ==
  \A id \in Ids : id \in Pending \cup ToMerge ~>
                    id \notin Pending /\ (id \notin ToMerge \/ agent.active # id)
=============================================================================
