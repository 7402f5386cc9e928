------------------------------ MODULE ServerData ------------------------------
(***************************************************************************)
(* What the installer does to the data of the server: recovery of a lost   *)
(* owner credential (src/installer/pair_installer/recovery.py) and removal *)
(* of the installation after an export of its sources (removal.py and      *)
(* removal_volumes.py), while the server itself writes the same files.     *)
(*                                                                         *)
(* One operation runs at a time.  Any step of it may fail, the installer   *)
(* may be killed between two steps, the machine may restart.  One project  *)
(* stands for all: its sources, its record, and the credential of its      *)
(* owner, which is part of the record.                                     *)
(***************************************************************************)
EXTENDS Naturals, Sequences

CONSTANTS
  Calm,     \* nobody uses the project while an operation is under way
  MaxWork,  \* bound on changes of the project
  MaxOps, MaxFails, MaxKills \* bounds on operations, failures, and kills and restarts

VARIABLES
  up,       \* the server runs
  kept,     \* the services are installed
  data,     \* "whole", "partly" removed or "gone"
  mounted, listed, image, \* the loop volume of an older installation: mounted, in fstab, there
  sources,  \* revision of the project's sources
  record,   \* session.json: [rev, owner]
  exports,  \* revisions of the sources that were exported whole
  held,     \* credentials the owner or an administrator has
  op,       \* the operation under way
  before,   \* what there was when it began
  outcome,  \* how the last one ended
  torn,     \* a recovery was killed after it replaced the credential
  ops, fails, kills, issued

vars == <<up, kept, data, mounted, listed, image, sources, record, exports, held, op, before, outcome,
          torn, ops, fails, kills, issued>>

NoOp  == [name |-> "none"]
State == [up |-> up, mounted |-> mounted, listed |-> listed, record |-> record, sources |-> sources]

Init ==
  /\ up \in BOOLEAN /\ kept = TRUE /\ data = "whole"
  /\ image \in BOOLEAN /\ mounted = image /\ listed = image
  /\ sources = 0 /\ record = [rev |-> 0, owner |-> 0] /\ exports = {} /\ held = {0}
  /\ op = NoOp /\ before = State /\ outcome = "none" /\ torn = FALSE
  /\ ops = 0 /\ fails = 0 /\ kills = 0 /\ issued = 0

-----------------------------------------------------------------------------
Idle == op = NoOp
At(step) == op # NoOp /\ Head(op.todo) = step
Visible == image => mounted

Steps(name) ==
  IF name = "recover" THEN <<"halt", "replace", "start", "view", "output">>
  ELSE <<"validate", "halt", "export", "detach", "proxy", "units", "delete", "images">>
Guarded(o) == o.name = "recover" \/ Head(o.todo) \in {"export", "detach", "proxy"}
Rescue(o) == IF o.name = "recover" THEN <<"halt", "putBack", "resume">> ELSE <<"attach", "resume">>

Advance ==
  IF Len(op.todo) > 1 THEN op' = [op EXCEPT !.todo = Tail(@)] /\ outcome' = outcome
  ELSE op' = NoOp /\ outcome' = IF op.rescuing THEN "failed" ELSE "done"
Counts == UNCHANGED <<before, ops, fails, kills>>
Storage == <<kept, data, mounted, listed, image>>
Owner   == <<held, torn, issued>>

Begin(name) ==
  /\ Idle /\ ops < MaxOps /\ ops' = ops + 1 /\ data # "gone"
  /\ name = "recover" => up /\ data = "whole" /\ Visible
  /\ op' = [name |-> name, todo |-> Steps(name), rescuing |-> FALSE, active |-> up,
            original |-> record, changed |-> FALSE, listed |-> listed, mounted |-> mounted]
  /\ before' = State
  /\ UNCHANGED <<up, Storage, sources, record, exports, Owner, outcome, fails, kills>>

(* Everything that can be refused is refused before a service stops.        *)
Validate ==
  /\ At("validate") /\ data = "whole"
  /\ op' = [op EXCEPT !.todo = Tail(@), !.active = up]
  /\ UNCHANGED <<up, Storage, sources, record, exports, Owner, outcome>> /\ Counts

Halt ==
  /\ At("halt")
  /\ up' = FALSE
  /\ Advance
  /\ UNCHANGED <<Storage, sources, record, exports, Owner>> /\ Counts

(* The record is read after the server stopped, and gets a new credential.  *)
ReplaceOwner ==
  /\ At("replace")
  /\ record' = [record EXCEPT !.owner = issued + 1] /\ issued' = issued + 1
  /\ op' = [op EXCEPT !.todo = Tail(@), !.original = record, !.changed = TRUE]
  /\ UNCHANGED <<up, Storage, sources, exports, held, torn, outcome>> /\ Counts

Start ==
  /\ At("start") \/ (At("resume") /\ op.active)
  /\ up' = TRUE
  /\ Advance
  /\ UNCHANGED <<Storage, sources, record, exports, Owner>> /\ Counts
NoStart ==
  /\ At("resume") /\ ~op.active
  /\ Advance
  /\ UNCHANGED <<up, Storage, sources, record, exports, Owner>> /\ Counts

(* The server must know the credential before it is handed out.             *)
View ==
  /\ At("view") /\ up
  /\ Advance
  /\ UNCHANGED <<up, Storage, sources, record, exports, Owner>> /\ Counts
Output ==
  /\ At("output")
  /\ held' = held \cup {issued} /\ torn' = FALSE
  /\ Advance
  /\ UNCHANGED <<up, Storage, sources, record, exports, issued>> /\ Counts

PutBack ==
  /\ At("putBack")
  /\ record' = IF op.changed THEN op.original ELSE record
  /\ Advance
  /\ UNCHANGED <<up, Storage, sources, exports, Owner>> /\ Counts


(* preserve_sources lists the sources again.                                *)
Export ==
  /\ At("export")
  /\ exports' = IF data = "whole" /\ Visible THEN exports \cup {sources} ELSE exports
  /\ Advance
  /\ UNCHANGED <<up, Storage, sources, record, Owner>> /\ Counts

Detach ==
  /\ At("detach")
  /\ mounted' = FALSE /\ listed' = FALSE
  /\ Advance
  /\ UNCHANGED <<up, kept, data, image, sources, record, exports, Owner>> /\ Counts
Attach ==
  /\ At("attach")
  /\ mounted' = op.mounted /\ listed' = op.listed
  /\ Advance
  /\ UNCHANGED <<up, kept, data, image, sources, record, exports, Owner>> /\ Counts

RemoveProxy ==
  /\ At("proxy")
  /\ Advance
  /\ UNCHANGED <<up, Storage, sources, record, exports, Owner>> /\ Counts
RemoveUnits ==
  /\ At("units")
  /\ kept' = FALSE
  /\ Advance
  /\ UNCHANGED <<up, data, mounted, listed, image, sources, record, exports, Owner>> /\ Counts
(* A volume that was detached is not reached.                               *)
Delete ==
  /\ At("delete")
  /\ data' = "gone"
  /\ Advance
  /\ UNCHANGED <<up, kept, mounted, listed, image, sources, record, exports, Owner>> /\ Counts
RemoveImages ==
  /\ At("images")
  /\ image' = (image /\ ~op.listed)
  /\ Advance
  /\ UNCHANGED <<up, kept, data, mounted, listed, sources, record, exports, Owner>> /\ Counts

(* A step fails: an unmount after one of two, a removal halfway.            *)
Fails ==
  /\ ~Idle
  /\ \/ At("validate") /\ data # "whole" /\ fails' = fails
     \/ fails < MaxFails /\ fails' = fails + 1
  /\ mounted' \in IF At("detach") THEN {mounted, FALSE} ELSE {mounted}
  /\ data' \in IF At("delete") THEN {data, "partly"} ELSE {data}
  /\ IF Guarded(op) /\ ~op.rescuing THEN op' = [op EXCEPT !.todo = Rescue(op), !.rescuing = TRUE] /\ outcome' = outcome
     ELSE op' = NoOp /\ outcome' = IF op.rescuing THEN "broken" ELSE "raised"
  /\ torn' = (torn \/ (op.rescuing /\ op.changed))
  /\ UNCHANGED <<up, kept, listed, image, sources, record, exports, held, issued, before, ops, kills>>

Killed ==
  /\ kills < MaxKills /\ kills' = kills + 1
  /\ op' = NoOp /\ outcome' = IF Idle THEN outcome ELSE "killed"
  /\ torn' = (torn \/ (~Idle /\ op.changed))
Kill ==
  /\ ~Idle /\ Killed
  /\ UNCHANGED <<up, Storage, sources, record, exports, held, issued, before, ops, fails>>
Reboot ==
  /\ Killed
  /\ up' = kept /\ mounted' = listed
  /\ UNCHANGED <<kept, data, listed, image, sources, record, exports, held, issued, before, ops, fails>>

(* The server saves what members do.                                        *)
Members ==
  /\ up /\ data = "whole" /\ Visible /\ sources + record.rev < MaxWork
  /\ Calm /\ ~Idle => op.name = "uninstall"
  /\ \/ sources' = sources + 1 /\ record' = record
     \/ record' = [record EXCEPT !.rev = @ + 1] /\ sources' = sources
  /\ UNCHANGED <<up, Storage, exports, Owner, op, before, outcome, ops, fails, kills>>

Next ==
  \/ Begin("recover") \/ Begin("uninstall")
  \/ Validate \/ Halt \/ ReplaceOwner \/ Start \/ NoStart \/ View \/ Output \/ PutBack
  \/ Export \/ Detach \/ Attach \/ RemoveProxy \/ RemoveUnits \/ Delete \/ RemoveImages
  \/ Fails \/ Kill \/ Reboot
  \/ Members

Spec == Init /\ [][Next]_vars

-----------------------------------------------------------------------------
(* What is removed was exported before, up to the last change.              *)
SourcesAreExported == data # "whole" => sources \in exports

(* Whatever fails, the owner has a credential the server accepts; only a    *)
(* recovery that was cut off itself, its handler included, leaves none,     *)
(* and the next one that gets through gives one.                            *)
OwnerKeepsAccess == Idle /\ ~torn => record.owner \in held

(* A failure that was handled leaves the volume mounted and the server      *)
(* running, if it did, on the record there was.                             *)
DataIsRestored ==
  outcome = "failed" /\ Idle /\ kills = 0 =>
    up = before.up /\ mounted = before.mounted /\ listed = before.listed /\ record.owner = before.record.owner

(* Recovery keeps what members did.                                         *)
RecordsStay == record'.rev >= record.rev
=============================================================================
