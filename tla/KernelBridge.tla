---------------------------- MODULE KernelBridge ----------------------------
(* The kernel of one notebook: the client in the extension                   *)
(* (JupyterKernel, core/pythonKernel.ts), the bridge process it talks to     *)
(* over a pair of pipes (media/jupyter_kernel_bridge.py, with its main       *)
(* thread, its channel threads, its monitor and its interrupt timers) and    *)
(* the Jupyter kernel the bridge starts, whose code may leave worker         *)
(* processes behind in the kernel's process group.                           *)
(*                                                                           *)
(* A bridge is numbered by the spawn that made it, a kernel by its pid.      *)
(* Promises that settle within one turn of the event loop settle within one  *)
(* action.  Left out: input replies, completions and kernel information,     *)
(* the size limits and the conversion of outputs.                            *)
EXTENDS Naturals, Sequences, FiniteSets

CONSTANTS Requests,       \* the executions, 1..n, asked for in this order
          Sequential,     \* each one waits for the one before it (one cell queue)
          MaxPending,     \* MAX_KERNEL_PENDING_EXECUTIONS
          MaxFaults,      \* deaths, crashes, failed starts and restarts
          MaxStops, MaxInterrupts, MaxRestarts

VARIABLES
  calls,      \* [Requests -> state]: the promises of execute()
  sent,       \* [Requests -> bridge]: where the command was written, 0 nowhere
  client,     \* the fields of JupyterKernel
  cleaning,   \* <<pid>> of the group retireFailedProcess is ending, else <<>>
  stop,       \* the confirmed stop under way
  bridge,     \* [Bridges -> process]: the bridge processes
  stdin,      \* [Bridges -> Seq(command)]
  stdout,     \* [Bridges -> Seq(message)]
  table,      \* [Bridges -> partial function of Requests]: PENDING
  timers,     \* [Bridges -> SUBSET Requests]: interrupts scheduled, not yet due
  kern,       \* [Bridges -> kernel]: the bridge's kernel process
  iopub,      \* [Bridges -> Seq(<<state, request>>)]
  shell,      \* [Bridges -> Seq(<<status, request>>)]
  workers,    \* the pids of groups that still hold processes beside the kernel
  pids,       \* kernels started so far
  bound,      \* faults, stops, interrupts and restarts used up
  finished,   \* history: executions whose code ran to its end
  asked,      \* history: executions an interrupt was asked for
  hit,        \* history: executions a signal ended
  trouble,    \* history: bridges that failed, restarted or were stopped
  retired     \* history: groups handed to retireFailedProcess

jsVars == <<calls, sent, client, cleaning, stop, retired>>
kernVars == <<kern, iopub, shell, workers, pids, finished, hit>>
vars == <<calls, sent, client, cleaning, stop, bridge, stdin, stdout, table, timers, kern, iopub, shell,
          workers, pids, bound, finished, asked, hit, trouble, retired>>

Bridges == 1..(1 + MaxFaults + MaxStops)
None == 0
Idle == "none"
Settled == {"ok", "error", "refused", "rejected"}

(* One entry of PENDING. *)
Entry == [reply |-> "", idle |-> FALSE, busy |-> FALSE, asked |-> FALSE, scheduled |-> FALSE]
Known(b) == DOMAIN table[b]
Without(f, r) == [q \in DOMAIN f \ {r} |-> f[q]]

Init ==
  /\ calls = [r \in Requests |-> "new"]
  /\ sent = [r \in Requests |-> None]
  /\ client = [process |-> None, ready |-> FALSE, starting |-> FALSE, stopping |-> FALSE, pid |-> 0,
               killed |-> {}, failed |-> {}, exited |-> {}]
  /\ cleaning = <<>>
  /\ stop = [phase |-> Idle, child |-> None, pid |-> 0, sent |-> FALSE]
  /\ bridge = [b \in Bridges |-> [up |-> Idle, stop |-> FALSE, paused |-> FALSE]]
  /\ stdin = [b \in Bridges |-> <<>>]
  /\ stdout = [b \in Bridges |-> <<>>]
  /\ table = [b \in Bridges |-> <<>>]
  /\ timers = [b \in Bridges |-> {}]
  /\ kern = [b \in Bridges |-> [pid |-> 0, alive |-> FALSE, queue |-> <<>>, running |-> 0]]
  /\ iopub = [b \in Bridges |-> <<>>]
  /\ shell = [b \in Bridges |-> <<>>]
  /\ workers = {} /\ pids = 0
  /\ bound = [faults |-> 0, stops |-> 0, interrupts |-> 0, restarts |-> 0]
  /\ finished = {} /\ asked = {} /\ hit = {} /\ trouble = {} /\ retired = {}

-----------------------------------------------------------------------------
(* The client. *)

Use(k, max) == bound[k] < max /\ bound' = [bound EXCEPT ![k] = @ + 1]
Waiting == {r \in Requests : calls[r] = "starting"}
Outstanding == {r \in Requests : calls[r] = "pending"}

(* What start() answers at once: a ready bridge that was not killed.  ready  *)
(* survives the bridge it was said by when that bridge is only killed.       *)
Ready == client.ready /\ client.process # None /\ client.process \notin client.killed

Settle(c, rs, how) == [r \in Requests |-> IF r \in rs THEN how ELSE c[r]]
(* rejectAll(): what was sent and not answered is rejected. *)
RejectAll(c) == Settle(c, {r \in Requests : c[r] = "pending"}, "rejected")
(* A start that fails rejects all who wait for it. *)
StartFails(c) == Settle(c, {r \in Requests : c[r] = "starting"}, "rejected")

(* The rest of execute() once start() has answered: refused at the limit,    *)
(* else remembered and written to the bridge.                                *)
Submitted(rs) ==
  LET fits == Cardinality(Outstanding \cup rs) <= MaxPending IN
  /\ calls' = Settle(calls, rs, IF fits THEN "pending" ELSE "rejected")
  /\ sent' = [r \in Requests |-> IF r \in rs /\ fits THEN client.process ELSE sent[r]]

Commands(rs) == [i \in 1..Cardinality(rs) |->
                   <<"execute", CHOOSE r \in rs : Cardinality({q \in rs : q <= r}) = i>>]

(* spawnBridge(). *)
NextBridge == 1 + Cardinality({b \in Bridges : bridge[b].up # Idle})
Spawned == [client EXCEPT !.process = NextBridge, !.starting = TRUE, !.stopping = FALSE]
(* mutant of MaySpawn: the cleanup of the failed process is not waited for *)
SpawnsAtOnce == ~client.starting
MaySpawn == ~client.starting /\ cleaning = <<>>
Spawns ==
  /\ client' = Spawned
  /\ bridge' = [bridge EXCEPT ![NextBridge].up = "booting"]

(* The stop that waits for the answer of its interrupt, or for the start     *)
(* before it, goes on in the turn that rejects it.                           *)
StopGoesOn == stop' = [stop EXCEPT !.phase = IF @ = "asking" THEN "term" ELSE @]

(* A kill() of the bridge: Python dies of SIGTERM without its finally. *)
Dead(b) == [bridge EXCEPT ![b].up = "dead"]

(* execute(): start(), which answers, joins the start under way, waits for   *)
(* the cleanup of a failed process or spawns a bridge; then the submission.  *)
Execute(r) ==
  /\ calls[r] = "new"
  /\ \A q \in 1..(r - 1) : IF Sequential THEN calls[q] \in Settled ELSE calls[q] # "new"
  /\ IF cleaning = <<>> /\ Ready
     THEN /\ Submitted({r})
          /\ stdin' = [stdin EXCEPT ![client.process] =
                         IF calls'[r] = "pending" THEN Append(@, <<"execute", r>>) ELSE @]
          /\ UNCHANGED <<client, bridge>>
     ELSE /\ calls' = [calls EXCEPT ![r] = "starting"]
          /\ IF MaySpawn THEN Spawns ELSE UNCHANGED <<client, bridge>>
          /\ UNCHANGED <<sent, stdin>>
  /\ UNCHANGED <<timers, cleaning, stop, stdout, table, kernVars, bound, asked, trouble, retired>>

(* interrupt() and restart() of a running kernel. *)
Interrupt ==
  /\ Ready /\ Use("interrupts", MaxInterrupts)
  /\ stdin' = [stdin EXCEPT ![client.process] = Append(@, <<"interrupt", 0>>)]
  /\ asked' = asked \cup Outstanding
  /\ UNCHANGED <<timers, jsVars, bridge, stdout, table, kernVars, trouble>>

Restart ==
  /\ Ready /\ Use("restarts", MaxRestarts)
  /\ stdin' = [stdin EXCEPT ![client.process] = Append(@, <<"restart", 0>>)]
  /\ UNCHANGED <<timers, jsVars, bridge, stdout, table, kernVars, asked, trouble>>

(* A signal to the process group of a pid: SIGTERM ends the kernel, SIGKILL  *)
(* the workers too.  An unknown pid, 0, is not signalled.                    *)
Ended(k) == [k EXCEPT !.alive = FALSE, !.queue = <<>>, !.running = 0]
GroupEnds(p) == [b \in Bridges |-> IF p # 0 /\ kern[b].pid = p THEN Ended(kern[b]) ELSE kern[b]]

(* retireFailedProcess(child, kernelPid) up to its pause: SIGTERM for the    *)
(* group, and the bridge killed.                                             *)
Retires(b) ==
  /\ cleaning' = <<client.pid>>
  /\ retired' = retired \cup ({client.pid} \ {0})
  /\ kern' = GroupEnds(client.pid)
  /\ bridge' = Dead(b)
Abandoned == [client EXCEPT !.process = None, !.ready = FALSE, !.pid = 0]

(* ... and after it: SIGKILL for what is left of the group.  Those who       *)
(* waited for it in start() spawn the next bridge.                           *)
CleanupEnds ==
  /\ cleaning # <<>>
  /\ kern' = GroupEnds(cleaning[1])
  /\ workers' = workers \ {cleaning[1]}
  /\ cleaning' = <<>>
  /\ IF Waiting # {} /\ ~client.starting THEN Spawns ELSE UNCHANGED <<client, bridge>>
  /\ UNCHANGED <<timers, calls, sent, stop, retired, stdin, stdout, table, iopub, shell, pids, bound,
                 finished, asked, hit, trouble>>

(* One line of the bridge that is still the client's process. *)
Reads(b, type) ==
  /\ client.process = b /\ b \notin client.failed
  /\ stdout[b] # <<>> /\ Head(stdout[b])[1] = type
  /\ stdout' = [stdout EXCEPT ![b] = Tail(@)]

ReadKernelProcess(b) ==
  /\ Reads(b, "kernelProcess")
  /\ client' = [client EXCEPT !.pid = Head(stdout[b])[2]]
  /\ UNCHANGED <<timers, calls, sent, cleaning, stop, retired, bridge, stdin, table, kernVars, bound, asked, trouble>>

(* ready: who waited in start() goes on, a stop that waited among them. *)
ReadReady(b) ==
  /\ Reads(b, "ready")
  /\ client' = [client EXCEPT !.pid = Head(stdout[b])[2], !.ready = TRUE, !.starting = FALSE]
  /\ Submitted(Waiting)
  /\ LET asks == stop.phase = "asking" /\ ~stop.sent
         fits == {r \in Waiting : calls'[r] = "pending"} IN
     /\ stdin' = [stdin EXCEPT ![b] = @ \o Commands(fits) \o (IF asks THEN <<<<"interrupt", 0>>>> ELSE <<>>)]
     /\ stop' = [stop EXCEPT !.sent = @ \/ asks]
     /\ asked' = IF asks THEN asked \cup Outstanding \cup fits ELSE asked
  /\ UNCHANGED <<timers, cleaning, retired, bridge, table, kernVars, bound, trouble>>

ReadFatal(b) ==
  /\ Reads(b, "fatal")
  /\ calls' = RejectAll(IF client.starting THEN StartFails(calls) ELSE calls)
  /\ client' = [client EXCEPT !.starting = FALSE, !.killed = @ \cup {b}]
  /\ bridge' = Dead(b)
  /\ StopGoesOn
  /\ UNCHANGED <<timers, sent, cleaning, retired, stdin, table, kernVars, bound, asked, trouble>>

(* complete: the call it answers, if it still waits. *)
Answered(b, how) == LET r == Head(stdout[b])[2] IN
  Settle(calls, {r} \cap Outstanding, how)

ReadComplete(b) ==
  /\ Reads(b, "complete") /\ Head(stdout[b])[3] # "died"
  /\ calls' = Answered(b, Head(stdout[b])[3])
  /\ UNCHANGED <<timers, sent, client, cleaning, stop, retired, bridge, stdin, table, kernVars, bound, asked, trouble>>

(* A completion that says KernelDied comes before the fatal message: the     *)
(* bridge is retired first, then the call answered and the others rejected.  *)
ReadDied(b) ==
  /\ Reads(b, "complete") /\ Head(stdout[b])[3] = "died"
  /\ Retires(b)
  /\ client' = Abandoned
  /\ calls' = RejectAll(Answered(b, "error"))
  /\ StopGoesOn
  /\ UNCHANGED <<timers, sent, stdin, table, iopub, shell, workers, pids, bound, finished, hit, asked, trouble>>

(* commandError of an execute, and the answer of a restart with its pid. *)
ReadRefusal(b) ==
  /\ Reads(b, "commandError")
  /\ calls' = Answered(b, "refused")
  /\ UNCHANGED <<timers, sent, client, cleaning, stop, retired, bridge, stdin, table, kernVars, bound, asked, trouble>>

ReadRestarted(b) ==
  /\ Reads(b, "restarted")
  /\ client' = [client EXCEPT !.pid = Head(stdout[b])[2]]
  /\ UNCHANGED <<timers, calls, sent, cleaning, stop, retired, bridge, stdin, table, kernVars, bound, asked, trouble>>

(* The start that takes longer than 35 seconds. *)
StartupTimesOut ==
  /\ client.starting /\ Use("faults", MaxFaults)
  /\ calls' = StartFails(calls)
  /\ client' = [client EXCEPT !.starting = FALSE, !.killed = @ \cup {client.process}]
  /\ bridge' = Dead(client.process)
  /\ trouble' = trouble \cup {client.process}
  /\ IF stop.sent THEN UNCHANGED stop ELSE StopGoesOn
  /\ UNCHANGED <<timers, sent, cleaning, retired, stdin, stdout, table, kernVars, asked>>

(* A pipe to a bridge that is gone reports its error before the exit event.  *)
StreamFails(b) ==
  /\ bridge[b].up = "dead" /\ b \notin client.exited \cup client.failed
  /\ client.process = b /\ ~client.stopping
  /\ stdin[b] # <<>>
  /\ calls' = RejectAll(IF client.starting THEN StartFails(calls) ELSE calls)
  /\ client' = [client EXCEPT !.starting = FALSE, !.killed = @ \cup {b}, !.failed = @ \cup {b}]
  /\ StopGoesOn
  /\ UNCHANGED <<timers, sent, cleaning, retired, bridge, stdin, stdout, table, kernVars, bound, asked, trouble>>

Concerns(b) == client.process = b

(* The exit of a bridge.  That of a bridge replaced meanwhile, or stopped,   *)
(* concerns nobody.                                                          *)
Exits(b) ==
  /\ bridge[b].up = "dead" /\ b \notin client.exited
  /\ IF Concerns(b)
     THEN /\ client' = [Abandoned EXCEPT !.starting = FALSE, !.exited = @ \cup {b}]
          /\ calls' = RejectAll(IF client.starting THEN StartFails(calls) ELSE calls)
          /\ IF client.stopping THEN UNCHANGED <<cleaning, retired, kern, bridge>> ELSE Retires(b)
          /\ StopGoesOn
          /\ stdout' = [stdout EXCEPT ![b] = <<>>]
     ELSE /\ client' = [client EXCEPT !.exited = @ \cup {b}]
          /\ UNCHANGED <<calls, cleaning, retired, kern, bridge, stdout, stop>>
  /\ UNCHANGED <<timers, sent, stdin, table, iopub, shell, workers, pids, bound, finished, hit, asked, trouble>>

-----------------------------------------------------------------------------
(* The confirmed stop: interrupt, shutdown, SIGTERM, SIGKILL.  The process   *)
(* and the pid it ends are those it found at its start.                      *)
StopBegins ==
  /\ stop.phase \in {Idle, "done"} /\ cleaning = <<>>
  /\ Use("stops", MaxStops)
  /\ LET child == client.process
         asks == child # None /\ child \notin client.killed IN
     /\ stop' = [phase |-> IF asks THEN "asking" ELSE "term", child |-> child, pid |-> client.pid,
                 sent |-> Ready]
     /\ stdin' = IF Ready THEN [stdin EXCEPT ![child] = Append(@, <<"interrupt", 0>>)] ELSE stdin
     /\ asked' = IF Ready THEN asked \cup Outstanding ELSE asked
     /\ trouble' = IF child = None THEN trouble ELSE trouble \cup {child}
  /\ client' = [client EXCEPT !.stopping = TRUE]
  /\ UNCHANGED <<timers, calls, sent, cleaning, retired, bridge, stdout, table, kernVars>>

StopShutsDown ==
  /\ stop.phase = "asking" /\ stop.sent
  /\ stop' = [stop EXCEPT !.phase = "term"]
  /\ stdin' = IF client.process = None \/ client.process \in client.killed THEN stdin
              ELSE [stdin EXCEPT ![client.process] = Append(@, <<"shutdown", 0>>)]
  /\ UNCHANGED <<timers, calls, sent, client, cleaning, retired, bridge, stdout, table, kernVars, bound, asked, trouble>>

StopTerminates ==
  /\ stop.phase = "term"
  /\ stop' = [stop EXCEPT !.phase = "kill"]
  /\ kern' = GroupEnds(stop.pid)
  /\ UNCHANGED <<timers, calls, sent, client, cleaning, retired, bridge, stdin, stdout, table, iopub, shell,
                 workers, pids, bound, finished, hit, asked, trouble>>

StopEnds ==
  /\ stop.phase = "kill"
  /\ stop' = [stop EXCEPT !.phase = "done"]
  /\ kern' = GroupEnds(stop.pid)
  /\ workers' = workers \ {stop.pid}
  /\ bridge' = IF stop.child = None THEN bridge ELSE Dead(stop.child)
  /\ IF client.process = stop.child
     THEN /\ client' = Abandoned
          /\ calls' = RejectAll(calls)
     ELSE UNCHANGED <<client, calls>>
  /\ UNCHANGED <<timers, sent, cleaning, retired, stdin, stdout, table, iopub, shell, pids, bound, finished,
                 hit, asked, trouble>>

-----------------------------------------------------------------------------
(* The bridge: its start. *)
Emit(b, ms) == stdout' = [stdout EXCEPT ![b] = @ \o ms]

StartKernel(b) ==
  /\ bridge[b].up = "booting" /\ kern[b].pid = 0
  /\ pids' = pids + 1
  /\ kern' = [kern EXCEPT ![b].pid = pids + 1, ![b].alive = TRUE]
  /\ Emit(b, <<<<"kernelProcess", pids + 1>>>>)
  /\ UNCHANGED <<timers, jsVars, bridge, stdin, table, iopub, shell, workers, bound, finished, hit, asked, trouble>>

Becomes(b, up) == bridge' = [bridge EXCEPT ![b].up = up]

BridgeReady(b) ==
  /\ bridge[b].up = "booting" /\ kern[b].alive
  /\ Becomes(b, "on")
  /\ Emit(b, <<<<"ready", kern[b].pid>>>>)
  /\ UNCHANGED <<timers, jsVars, stdin, table, kernVars, bound, asked, trouble>>

(* A start that fails, of its own or because the kernel died meanwhile. *)
StartFailed(b) ==
  /\ bridge[b].up = "booting"
  /\ Becomes(b, "dead")
  /\ kern' = [kern EXCEPT ![b] = Ended(@)]
  /\ workers' = workers \ {kern[b].pid}
  /\ Emit(b, <<<<"fatal">>>>)
  /\ trouble' = trouble \cup {b}
  /\ UNCHANGED <<timers, jsVars, stdin, table, iopub, shell, pids, finished, hit, asked>>

BridgeFails(b) == StartFailed(b) /\ Use("faults", MaxFaults)
KernelNeverReady(b) == StartFailed(b) /\ kern[b].pid # 0 /\ ~kern[b].alive /\ UNCHANGED bound

(* Its main thread: one command a step.  After the monitor has set STOP it   *)
(* still reads commands.                                                     *)
Takes(b, kind) ==
  /\ bridge[b].up = "on" /\ ~bridge[b].paused
  /\ stdin[b] # <<>> /\ Head(stdin[b])[1] = kind
  /\ stdin' = [stdin EXCEPT ![b] = Tail(@)]

(* execute, or its refusal when the code cannot be decoded or sent. *)
TakeExecute(b) ==
  /\ Takes(b, "execute")
  /\ LET r == Head(stdin[b])[2] IN
     \/ /\ table' = [table EXCEPT ![b] = [q \in Known(b) \cup {r} |-> IF q = r THEN Entry ELSE table[b][q]]]
        /\ kern' = [kern EXCEPT ![b].queue = IF kern[b].alive THEN Append(@, r) ELSE @]
        /\ UNCHANGED <<stdout, bound>>
     \/ /\ Use("faults", MaxFaults)
        /\ Emit(b, <<<<"commandError", r>>>>)
        /\ UNCHANGED <<table, kern>>
  /\ UNCHANGED <<timers, jsVars, bridge, iopub, shell, workers, pids, finished, hit, asked, trouble>>

(* schedule_interrupt(): one timer for an entry, and only one ever. *)
MayInterrupt(e) == e.busy /\ e.asked /\ ~e.scheduled
Scheduled(e) == [e EXCEPT !.scheduled = @ \/ MayInterrupt(e)]

TakeInterrupt(b) ==
  /\ Takes(b, "interrupt")
  /\ LET told == [r \in Known(b) |-> [table[b][r] EXCEPT !.asked = TRUE]] IN
     /\ table' = [table EXCEPT ![b] = [r \in Known(b) |-> Scheduled(told[r])]]
     /\ timers' = [timers EXCEPT ![b] = @ \cup {r \in Known(b) : MayInterrupt(told[r])}]
  /\ UNCHANGED <<jsVars, bridge, stdout, kernVars, bound, asked, trouble>>

(* fail_pending(): every entry is answered and forgotten. *)
Failed(b, how) == [i \in 1..Cardinality(Known(b)) |->
  <<"complete", CHOOSE r \in Known(b) : Cardinality({q \in Known(b) : q <= r}) = i, how>>]

(* restart: under the lifecycle lock the entries fail and the channels       *)
(* pause ...                                                                 *)
TakeRestart(b) ==
  /\ Takes(b, "restart")
  /\ Emit(b, Failed(b, "error"))
  /\ table' = [table EXCEPT ![b] = <<>>]
  /\ bridge' = [bridge EXCEPT ![b].paused = TRUE]
  /\ trouble' = trouble \cup {b}
  /\ UNCHANGED <<timers, jsVars, kernVars, bound, asked>>

(* ... then the old group is killed and a new kernel started, or not. *)
RestartEnds(b) ==
  /\ bridge[b].up = "on" /\ bridge[b].paused
  /\ bridge' = [bridge EXCEPT ![b].paused = FALSE]
  /\ workers' = workers \ {kern[b].pid}
  /\ \/ /\ pids' = pids + 1
        /\ kern' = [kern EXCEPT ![b] = [pid |-> pids + 1, alive |-> TRUE, queue |-> <<>>, running |-> 0]]
        /\ Emit(b, <<<<"restarted", pids + 1>>>>)
        /\ UNCHANGED bound
     \/ /\ Use("faults", MaxFaults)
        /\ kern' = [kern EXCEPT ![b] = Ended(@)]
        /\ UNCHANGED <<pids, stdout>>
  /\ UNCHANGED <<timers, jsVars, stdin, table, iopub, shell, finished, hit, asked, trouble>>

(* shutdown leaves the loop: the entries fail, then the group is killed. *)
TakeShutdown(b) ==
  /\ Takes(b, "shutdown")
  /\ bridge' = [bridge EXCEPT ![b].up = "leaving", ![b].stop = TRUE]
  /\ Emit(b, Failed(b, "error"))
  /\ table' = [table EXCEPT ![b] = <<>>]
  /\ UNCHANGED <<timers, jsVars, kernVars, bound, asked, trouble>>

ShutdownKernel(b) ==
  /\ bridge[b].up = "leaving"
  /\ Becomes(b, "dead")
  /\ kern' = [kern EXCEPT ![b] = Ended(@)]
  /\ workers' = workers \ {kern[b].pid}
  /\ UNCHANGED <<timers, jsVars, stdin, stdout, table, iopub, shell, pids, bound, finished, hit, asked, trouble>>

(* The channel threads and maybe_complete(): an entry with its reply and     *)
(* its idle state is answered, whichever came last.                          *)
Listening(b) == bridge[b].up = "on" /\ ~bridge[b].stop /\ ~bridge[b].paused

MaybeComplete(b, r, e) ==
  IF e.reply # "" /\ e.idle
  THEN /\ table' = [table EXCEPT ![b] = Without(@, r)]
       /\ Emit(b, <<<<"complete", r, e.reply>>>>)
  ELSE /\ table' = [table EXCEPT ![b][r] = e]
       /\ UNCHANGED stdout

ReadIopub(b) ==
  /\ Listening(b) /\ iopub[b] # <<>>
  /\ iopub' = [iopub EXCEPT ![b] = Tail(@)]
  /\ LET r == Head(iopub[b])[2]
         busy == Head(iopub[b])[1] = "busy" IN
     IF r \notin Known(b) THEN UNCHANGED <<table, stdout, timers>>
     ELSE LET e == [table[b][r] EXCEPT !.busy = busy, !.idle = @ \/ ~busy] IN
          /\ timers' = IF MayInterrupt(e) THEN [timers EXCEPT ![b] = @ \cup {r}] ELSE timers
          /\ MaybeComplete(b, r, Scheduled(e))
  /\ UNCHANGED <<jsVars, bridge, stdin, kern, shell, workers, pids, finished, hit, bound, asked, trouble>>

ReadShell(b) ==
  /\ Listening(b) /\ shell[b] # <<>>
  /\ shell' = [shell EXCEPT ![b] = Tail(@)]
  /\ LET r == Head(shell[b])[2] IN
     IF r \notin Known(b) THEN UNCHANGED <<table, stdout>>
     ELSE MaybeComplete(b, r, [table[b][r] EXCEPT !.reply = Head(shell[b])[1]])
  /\ UNCHANGED <<timers, jsVars, bridge, stdin, kern, iopub, workers, pids, finished, hit, bound, asked, trouble>>

(* The timer of an interrupt: the entry it was made for must still be there  *)
(* and busy.  The signal ends what the kernel runs at that moment.           *)
StillDue(b, r) == r \in Known(b) /\ table[b][r].busy

DeliverInterrupt(b, r) ==
  /\ bridge[b].up = "on" /\ r \in timers[b]
  /\ timers' = [timers EXCEPT ![b] = @ \ {r}]
  /\ LET delivers == StillDue(b, r) /\ Listening(b)
         victim == kern[b].running IN
     /\ IF delivers /\ victim # 0
        THEN /\ kern' = [kern EXCEPT ![b].running = 0]
             /\ shell' = [shell EXCEPT ![b] = Append(@, <<"error", victim>>)]
             /\ iopub' = [iopub EXCEPT ![b] = Append(@, <<"idle", victim>>)]
             /\ hit' = hit \cup {victim}
        ELSE UNCHANGED <<kern, shell, iopub, hit>>
  /\ UNCHANGED <<jsVars, bridge, stdin, stdout, table, workers, pids, finished, bound, asked, trouble>>

(* The monitor: a dead kernel fails the entries, then the bridge. *)
MonitorKernel(b) ==
  /\ Listening(b) /\ ~kern[b].alive
  /\ Emit(b, Failed(b, "died") \o <<<<"fatal">>>>)
  /\ table' = [table EXCEPT ![b] = <<>>]
  /\ bridge' = [bridge EXCEPT ![b].stop = TRUE]
  /\ UNCHANGED <<timers, jsVars, stdin, kernVars, bound, asked, trouble>>

BridgeCrashes(b) ==
  /\ bridge[b].up \in {"booting", "on"} /\ Use("faults", MaxFaults)
  /\ bridge' = Dead(b)
  /\ trouble' = trouble \cup {b}
  /\ UNCHANGED <<timers, jsVars, stdin, stdout, table, kernVars, asked>>

-----------------------------------------------------------------------------
(* The kernel (ipykernel) runs one execution after the other. *)
Says(b, state, r) == iopub' = [iopub EXCEPT ![b] = Append(@, <<state, r>>)]

KernelBegins(b) ==
  /\ kern[b].alive /\ kern[b].running = 0 /\ kern[b].queue # <<>>
  /\ kern' = [kern EXCEPT ![b].running = Head(kern[b].queue), ![b].queue = Tail(@)]
  /\ Says(b, "busy", Head(kern[b].queue))
  /\ UNCHANGED <<timers, jsVars, bridge, stdin, stdout, table, shell, workers, pids, finished, hit, bound, asked, trouble>>

KernelFinishes(b) ==
  /\ kern[b].running # 0
  /\ kern' = [kern EXCEPT ![b].running = 0]
  /\ shell' = [shell EXCEPT ![b] = Append(@, <<"ok", kern[b].running>>)]
  /\ Says(b, "idle", kern[b].running)
  /\ finished' = finished \cup {kern[b].running}
  /\ UNCHANGED <<timers, jsVars, bridge, stdin, stdout, table, workers, pids, hit, bound, asked, trouble>>

(* The code starts a process that outlives the cell, in the kernel's group. *)
KernelForks(b) ==
  /\ kern[b].running # 0 /\ kern[b].pid \notin workers
  /\ workers' = workers \cup {kern[b].pid}
  /\ UNCHANGED <<timers, jsVars, bridge, stdin, stdout, table, kern, iopub, shell, pids, finished, hit, bound, asked, trouble>>

KernelDies(b) ==
  /\ kern[b].alive /\ Use("faults", MaxFaults)
  /\ kern' = [kern EXCEPT ![b] = Ended(@)]
  /\ trouble' = trouble \cup {b}
  /\ UNCHANGED <<timers, jsVars, bridge, stdin, stdout, table, iopub, shell, workers, pids, finished, hit, asked>>

(* A kernel whose bridge is gone notices and exits. *)
OrphanExits(b) ==
  /\ bridge[b].up = "dead" /\ kern[b].alive
  /\ kern' = [kern EXCEPT ![b] = Ended(@)]
  /\ UNCHANGED <<timers, jsVars, bridge, stdin, stdout, table, iopub, shell, workers, pids, finished, hit, bound, asked, trouble>>

-----------------------------------------------------------------------------
Client ==
  \/ CleanupEnds \/ StopShutsDown \/ StopTerminates \/ StopEnds
  \/ \E b \in Bridges :
       \/ ReadKernelProcess(b) \/ ReadReady(b) \/ ReadFatal(b) \/ ReadComplete(b) \/ ReadDied(b)
       \/ ReadRefusal(b) \/ ReadRestarted(b) \/ StreamFails(b) \/ Exits(b)
BridgeSteps(b) ==
  \/ StartKernel(b) \/ BridgeReady(b) \/ KernelNeverReady(b)
  \/ TakeExecute(b) \/ TakeInterrupt(b) \/ TakeRestart(b) \/ RestartEnds(b) \/ TakeShutdown(b)
  \/ ShutdownKernel(b) \/ ReadIopub(b) \/ ReadShell(b) \/ MonitorKernel(b)
  \/ \E r \in Requests : DeliverInterrupt(b, r)
KernelSteps(b) == KernelBegins(b) \/ KernelFinishes(b) \/ OrphanExits(b)
Faults(b) == BridgeFails(b) \/ BridgeCrashes(b) \/ KernelDies(b)

Next ==
  \/ Client
  \/ \E r \in Requests : Execute(r)
  \/ Interrupt \/ Restart \/ StopBegins \/ StartupTimesOut
  \/ \E b \in Bridges : BridgeSteps(b) \/ KernelSteps(b) \/ KernelForks(b) \/ Faults(b)

Spec == Init /\ [][Next]_vars

ClientReads(b) ==
  \/ ReadKernelProcess(b) \/ ReadReady(b) \/ ReadFatal(b) \/ ReadComplete(b) \/ ReadDied(b)
  \/ ReadRefusal(b) \/ ReadRestarted(b)
BridgeWorks(b) ==
  \/ StartKernel(b) \/ BridgeReady(b) \/ KernelNeverReady(b)
  \/ TakeExecute(b) \/ TakeInterrupt(b) \/ TakeRestart(b) \/ TakeShutdown(b)
  \/ RestartEnds(b) \/ ShutdownKernel(b)
CodeRuns(b) == KernelBegins(b) \/ KernelFinishes(b)

(* Every thread, event and timer runs, and code ends. *)
FairSpec ==
  /\ Spec
  /\ WF_vars(CleanupEnds) /\ WF_vars(StopShutsDown) /\ WF_vars(StopTerminates) /\ WF_vars(StopEnds)
  /\ \A b \in Bridges :
       /\ WF_vars(ClientReads(b)) /\ WF_vars(BridgeWorks(b)) /\ WF_vars(CodeRuns(b))
       /\ WF_vars(ReadIopub(b)) /\ WF_vars(ReadShell(b)) /\ WF_vars(MonitorKernel(b))
       /\ WF_vars(Exits(b)) /\ WF_vars(OrphanExits(b))

-----------------------------------------------------------------------------
(* An execution is answered with success only if its code ran to its end. *)
ResultIsTrue == \A r \in Requests : calls[r] = "ok" => r \in finished

(* A call is rejected only for what happened to the bridge it was written    *)
(* to: late messages, exits and stops of another bridge do not reach it.     *)
FailsByItsOwn == \A r \in Requests :
  (calls[r] \in {"rejected", "error"} /\ sent[r] # None) => (sent[r] \in trouble \/ r \in hit)

(* An interrupt ends only executions it was asked for: those submitted when  *)
(* it was sent, and all of a bridge being stopped.  Checked for executions   *)
(* one after the other, as PerNotebookExecutionQueue submits them: the       *)
(* bridge may not have heard yet that the kernel is idle when the timer      *)
(* delivers the signal (jupyter_kernel_bridge.py:245-252), and it would hit  *)
(* an execution that was waiting behind.                                     *)
HitsWhatWasAsked == \A r \in hit : r \in asked \/ (sent[r] = stop.child /\ stop.phase # Idle)

(* Once a group has been handed over for cleaning, no later bridge runs code *)
(* while a process of it is left.                                            *)
RetiredFirst == \A b \in Bridges :
  (b = client.process /\ kern[b].running # 0) => \A p \in retired : p < kern[b].pid => p \notin workers

ExecutionsAreExact == ResultIsTrue /\ FailsByItsOwn /\ HitsWhatWasAsked /\ RetiredFirst

=============================================================================
