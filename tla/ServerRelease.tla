---------------------------- MODULE ServerRelease ----------------------------
(***************************************************************************)
(* How the installer puts a release of the server in place: installation,  *)
(* update, repair and rollback (src/installer/pair_installer: cli.py for a *)
(* server it manages, legacy.py for one it found, manager.py for the       *)
(* update command), with what systemd does meanwhile.                      *)
(*                                                                         *)
(* One operation runs at a time, under a lock.  Any step of it may fail,   *)
(* the installer may be killed between two steps, and the machine may      *)
(* restart.  A release directory is a number; its version is kept beside.  *)
(***************************************************************************)
EXTENDS Naturals, Sequences

CONSTANTS
  Managed,  \* the installer set the server up itself
  Present,  \* a server is there at the start
  Versions, \* versions of the setup utility
  Good,     \* those whose server works on this machine
  MaxOps, MaxFails, MaxKills \* bounds on operations, failures, and kills and restarts

VARIABLES
  dirs,    \* version by release directory
  server,  \* where /opt/pair-notebook/server leads, and whether it is a directory itself
  units,   \* the version whose setup wrote the services and their configuration
  record,  \* installation.json
  running, \* the release directory each service runs
  enabled, \* services that start with the machine
  busy,    \* a saved project is running
  op,      \* the operation under way
  before,  \* what there was when it began
  outcome, \* how the last one ended
  ops, fails, kills

vars == <<dirs, server, units, record, running, enabled, busy, op, before, outcome, ops, fails, kills>>

Services == {"server", "worker"}
None     == [version |-> 0, previous |-> 0]
NoOp     == [name |-> "none"]
Leads(d) == [at |-> d, real |-> FALSE]
Version(d) == IF d = 0 THEN 0 ELSE dirs[d]
All(d)   == [s \in Services |-> d]
State    == [server |-> server, units |-> units, record |-> record, running |-> running]

Init ==
  /\ IF Present
     THEN /\ \E v \in Good : /\ dirs = <<v>> /\ units = v
                             /\ record = IF Managed THEN [version |-> v, previous |-> 0] ELSE None
          /\ server \in {[at |-> 1, real |-> r] : r \in IF Managed THEN {FALSE} ELSE BOOLEAN}
          /\ running \in [Services -> {0, 1}] /\ enabled = Services
     ELSE /\ dirs = <<>> /\ units = 0 /\ record = None /\ server = Leads(0)
          /\ running = All(0) /\ enabled = {}
  /\ busy = FALSE /\ op = NoOp /\ before = State /\ outcome = "none"
  /\ ops = 0 /\ fails = 0 /\ kills = 0

-----------------------------------------------------------------------------
(* The steps of each operation, and of its handler.                         *)
Steps(name) ==
  CASE name = "install" /\ Managed -> <<"prepare", "stop", "switch", "configure", "start", "verify", "record">>
    [] name = "install"            -> <<"prepare", "stop", "move", "switch", "start", "verify", "record">>
    [] name = "rollback" /\ Managed -> <<"switch", "start", "verify", "record">>
    [] OTHER                        -> <<"stop", "switch", "start", "verify", "record">>
Rescue(o) ==
  CASE Head(o.todo) = "prepare" -> <<>>
    [] o.name = "rollback" /\ Managed -> IF Head(o.todo) = "record" THEN <<>> ELSE <<"relink", "start">>
    [] o.name = "rollback"            -> <<"halt", "relink", "resume">>
    [] ~Managed                       -> <<"halt", "relink", "resume", "health">>
    [] o.previous = 0                 -> <<"halt", "disable">>
    [] OTHER                          -> <<"halt", "configureBack", "relink", "resume", "health">>

Idle == op = NoOp
At(step) == op # NoOp /\ Head(op.todo) = step
Active == {s \in Services : running[s] # 0}

Ends(how) == op' = NoOp /\ outcome' = how
Advance ==
  IF Len(op.todo) > 1 THEN op' = [op EXCEPT !.todo = Tail(@)] /\ outcome' = outcome
  ELSE Ends(IF op.rescuing THEN "failed" ELSE "done")
Counts == UNCHANGED <<busy, before, ops, fails, kills>>

(* Which previous release an operation falls back to.                       *)
PreviousOf == IF Managed /\ record = None THEN 0 ELSE server.at

(* The update command starts an update of its own accord only while no      *)
(* saved project runs.                                                      *)
automatic_update_ready == ~busy

(* install and update: an older utility refuses.  A server that was found   *)
(* must hold a packaged release.                                            *)
Begin(v, automatic) ==
  /\ automatic => record # None /\ v > record.version /\ automatic_update_ready
  /\ Idle /\ ops < MaxOps /\ ops' = ops + 1
  /\ ~Managed => server.at # 0
  /\ v >= IF Managed THEN record.version ELSE Version(server.at)
  /\ op' = [name |-> "install", automatic |-> automatic, todo |-> Steps("install"), rescuing |-> FALSE, version |-> v, target |-> 0,
            previous |-> PreviousOf, real |-> server.real, moved |-> FALSE, switched |-> FALSE, active |-> Active]
  /\ before' = State
  /\ UNCHANGED <<dirs, server, units, record, running, enabled, busy, outcome, fails, kills>>

BeginRollback ==
  /\ Idle /\ ops < MaxOps /\ ops' = ops + 1
  /\ record.previous # 0
  /\ op' = [name |-> "rollback", automatic |-> FALSE, todo |-> Steps("rollback"), rescuing |-> FALSE, version |-> Version(record.previous),
            target |-> record.previous, previous |-> server.at, real |-> FALSE, moved |-> FALSE, switched |-> FALSE,
            active |-> Active]
  /\ before' = State
  /\ UNCHANGED <<dirs, server, units, record, running, enabled, busy, outcome, fails, kills>>

(* Everything that can be checked is checked before a service stops; the    *)
(* release gets a directory of its own.                                     *)
Prepare ==
  /\ At("prepare")
  /\ dirs' = Append(dirs, op.version)
  /\ op' = [op EXCEPT !.todo = Tail(@), !.target = Len(dirs) + 1]
  /\ UNCHANGED <<server, units, record, running, enabled, outcome>> /\ Counts

Stop ==
  /\ At("stop")
  /\ running' = [s \in Services |-> 0] /\ busy' = FALSE
  /\ Advance
  /\ UNCHANGED <<dirs, server, units, record, enabled, before, ops, fails, kills>>

(* A server that is a directory is set aside.                               *)
Move ==
  /\ At("move")
  /\ server' = IF server.real THEN Leads(0) ELSE server
  /\ op' = [op EXCEPT !.todo = Tail(@), !.moved = server.real]
  /\ UNCHANGED <<dirs, units, record, running, enabled, outcome>> /\ Counts

switch ==
  /\ At("switch")
  /\ server' = Leads(op.target)
  /\ op' = [op EXCEPT !.todo = Tail(@), !.switched = TRUE]
  /\ UNCHANGED <<dirs, units, record, running, enabled, outcome>> /\ Counts

Configure ==
  /\ At("configure")
  /\ units' = op.version
  /\ Advance
  /\ UNCHANGED <<dirs, server, record, running, enabled>> /\ Counts

(* A managed server is enabled and restarted.                               *)
Start ==
  /\ At("start")
  /\ running' = [s \in Services |-> IF Managed \/ running[s] = 0 THEN server.at ELSE running[s]]
  /\ enabled' = IF Managed THEN Services ELSE enabled
  /\ busy' = (busy /\ ~Managed)
  /\ Advance
  /\ UNCHANGED <<dirs, server, units, record, before, ops, fails, kills>>

(* A check passes when what runs works.  The handler for a managed server   *)
(* waits for one even when none ran before.                                 *)
Checks == At("verify") \/ (At("health") /\ (Managed \/ "server" \in op.active))
Works == Version(running["server"]) \in Good

Verify ==
  /\ Checks
  /\ Works
  /\ Advance
  /\ UNCHANGED <<dirs, server, units, record, running, enabled>> /\ Counts

WriteRecord ==
  /\ At("record")
  /\ record' = [version |-> op.version, previous |-> op.previous]
  /\ Advance
  /\ UNCHANGED <<dirs, server, units, running, enabled>> /\ Counts

-----------------------------------------------------------------------------
(* The handlers.                                                            *)
Halt ==
  /\ At("halt")
  /\ running' = [s \in Services |-> 0] /\ busy' = FALSE
  /\ Advance
  /\ UNCHANGED <<dirs, server, units, record, enabled, before, ops, fails, kills>>

ConfigureBack ==
  /\ At("configureBack")
  /\ units' = before.units /\ record' = before.record
  /\ Advance
  /\ UNCHANGED <<dirs, server, running, enabled>> /\ Counts

(* mutant of Relink: a directory that was set aside stays there.          *)
RelinkLeads ==
  /\ At("relink")
  /\ server' = IF Managed \/ op.switched \/ op.name = "rollback" THEN Leads(op.previous) ELSE server
  /\ Advance
  /\ UNCHANGED <<dirs, units, record, running, enabled>> /\ Counts

(* Back to the release, or to the directory that was set aside.             *)
Relink ==
  /\ At("relink")
  /\ server' = IF op.moved THEN [at |-> op.previous, real |-> TRUE]
               ELSE IF Managed \/ op.switched \/ op.name = "rollback" THEN Leads(op.previous) ELSE server
  /\ Advance
  /\ UNCHANGED <<dirs, units, record, running, enabled>> /\ Counts

Resume ==
  /\ At("resume")
  /\ running' = [s \in Services |-> IF s \in op.active /\ running[s] = 0 THEN server.at ELSE running[s]]
  /\ Advance
  /\ UNCHANGED <<dirs, server, units, record, enabled>> /\ Counts

Disable ==
  /\ At("disable")
  /\ enabled' = {}
  /\ Advance
  /\ UNCHANGED <<dirs, server, units, record, running>> /\ Counts

NoHealth ==
  /\ At("health") /\ ~Checks
  /\ Advance
  /\ UNCHANGED <<dirs, server, units, record, running, enabled>> /\ Counts

(* A step fails, with services of it stopped or started already; the check  *)
(* of a server that does not work always does.                              *)
Touched ==
  CASE At("stop") \/ At("halt") -> {[s \in Services |-> IF s \in done THEN 0 ELSE running[s]] : done \in SUBSET Services}
    [] At("start") \/ At("resume") -> {[s \in Services |-> IF s \in done THEN server.at ELSE running[s]] : done \in SUBSET Services}
    [] OTHER -> {running}
MustFail == Checks /\ ~Works
CanFail == ~At("disable") /\ ~(Managed /\ At("halt"))
Fails ==
  /\ ~Idle
  /\ \/ MustFail /\ fails' = fails
     \/ ~MustFail /\ CanFail /\ fails < MaxFails /\ fails' = fails + 1
  /\ running' \in Touched
  /\ IF op.rescuing THEN Ends("broken")
     ELSE IF Rescue(op) = <<>> THEN Ends(IF At("prepare") THEN "refused" ELSE "raised")
     ELSE op' = [op EXCEPT !.todo = Rescue(op), !.rescuing = TRUE] /\ outcome' = outcome
  /\ busy' = (busy /\ running'["server"] # 0)
  /\ UNCHANGED <<dirs, server, units, record, enabled, before, ops, kills>>

(* The installer is killed, or the machine restarts.                        *)
Killed == kills < MaxKills /\ kills' = kills + 1 /\ op' = NoOp /\ outcome' = IF Idle THEN outcome ELSE "killed"
Kill ==
  /\ ~Idle /\ Killed
  /\ UNCHANGED <<dirs, server, units, record, running, enabled, busy, before, ops, fails>>
Reboot ==
  /\ Killed
  /\ running' = [s \in Services |-> IF s \in enabled THEN server.at ELSE 0] /\ busy' = FALSE
  /\ UNCHANGED <<dirs, server, units, record, enabled, before, ops, fails>>

(* Members start and stop a project.                                        *)
Members ==
  /\ busy' = ~busy /\ Works
  /\ UNCHANGED <<dirs, server, units, record, running, enabled, op, before, outcome, ops, fails, kills>>

Next ==
  \/ \E v \in Versions, automatic \in BOOLEAN : Begin(v, automatic)
  \/ BeginRollback
  \/ Prepare \/ Stop \/ Move \/ switch \/ Configure \/ Start \/ Verify \/ WriteRecord
  \/ Halt \/ ConfigureBack \/ Relink \/ Resume \/ Disable \/ NoHealth
  \/ Fails \/ Kill \/ Reboot
  \/ Members

Spec == Init /\ [][Next]_vars

-----------------------------------------------------------------------------
(* The record names the release the server path leads to, it works, and     *)
(* services run it or nothing.  A server that was found has no record yet.  *)
Sound(s) ==
  /\ s.server.at # 0 /\ Version(s.server.at) \in Good
  /\ s.record.version \in {Version(s.server.at)} \cup (IF Managed THEN {} ELSE {0})
  /\ \A x \in Services : s.running[x] \in {0, s.server.at}

(* After an operation that failed and whose handler ran to its end, the     *)
(* server is the one there was: the same release, record and services, and  *)
(* what ran before runs again.                                              *)
FailureRestores ==
  outcome = "failed" /\ Idle /\ kills = 0 /\ Sound(before) =>
    /\ server = before.server /\ record = before.record /\ units = before.units
    /\ \A s \in Services : before.running[s] # 0 => running[s] = before.running[s]

(* An operation that is done leaves a server that works, whatever was       *)
(* interrupted before it: a record is only ever written for such a release. *)
DoneIsSound ==
  /\ outcome = "done" /\ Idle => Sound(State)
  /\ record.version \in Good \cup {0}

=============================================================================
