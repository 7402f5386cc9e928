--------------------------- MODULE StorageAdapter ---------------------------
(***************************************************************************)
(* How the Session Host keeps its two folders: the working copy its own    *)
(* editors use, and the backing folder, the durable copy of the project    *)
(* (src/core/persistence.ts, with its callers in src/runtime/session.ts).  *)
(*                                                                         *)
(* Edits schedule a path; a debounced flush takes what is pending and      *)
(* writes it in one queue with removals, renames, new folders and binary   *)
(* files.  What a call does at once (the pending set, the redirects and    *)
(* tombstones of paths) takes effect while earlier operations still wait   *)
(* in the queue or stand between their steps.                              *)
(*                                                                         *)
(* A path is the sequence of its names.  Contents are a kind and a number; *)
(* an editor that saves an open document writes the working copy as the    *)
(* adapter would.  Backing is the folder on disk whether bound or not.     *)
(***************************************************************************)
EXTENDS Naturals, Sequences, SequencesExt, FiniteSets

CONSTANTS
  Paths,    \* paths of the project and of the host's private files
  Private,  \* paths that are never shared
  Initial,  \* paths of the project at the start
  Bound,    \* the backing folder is chosen at the start
  Ops,      \* what users do
  MaxOps,   \* bound on operations of users
  MaxFails  \* bound on writes that fail

VARIABLES
  project,   \* contents by path, as the participants share them
  working,   \* the working copy
  backing,   \* the backing folder
  bound,     \* the adapter writes the backing folder
  pending,   \* paths to write
  timer,     \* a flush is due
  redirects, \* renames on their way through the queue, oldest first
  removed,   \* paths whose writes are dropped
  queue,     \* operations; the first one is under way
  collected, \* contents gathered for a folder that was chosen
  active,    \* "yes", "stopping" or "no"
  astray,    \* paths that an operation left other than they should be, until they are written
  ops, fails

vars == <<project, working, backing, bound, pending, timer, redirects, removed, queue,
          collected, active, astray, ops, fails>>

(* astray is a history variable: paths at which the code itself leaves the  *)
(* backing folder other than the project, until what they should hold is    *)
(* written there.                                                           *)
(*   - A document a failed flush brings back goes by the path it was        *)
(*     scheduled under, which no rename on its way redirects any more once  *)
(*     it is through (requeue, persistence.ts:143-156).                     *)
(*   - A removal that waits takes what was made again at its path           *)
(*     meanwhile (294-301).                                                 *)
(*   - A rename that waits moves the old file over what was written under   *)
(*     the new name before its turn, and fails on a folder that is no       *)
(*     longer empty (337-345, 657-664).                                     *)
(*   - Renames of a name that another one, still on its way, leaves: the    *)
(*     redirects know no order (416-430).                                   *)
(*   - A folder made again while a file that was in it is on its way to the *)
(*     disk: nothing drops that write any more (436-440).                   *)
(*   - What changes while the binary files of a folder that was chosen are  *)
(*     hashed (session.ts:4255-4279).                                       *)

Nothing == <<"none", 0>>
Folder  == <<"folder", 0>>
Kind(c) == c[1]
Shared  == Paths \ Private
Below(p) == {q \in Paths : IsPrefix(p, q)}
Parent(p) == Front(p)
HasParent(at, p) == Len(p) > 1 => at[Parent(p)] = Folder
Moved(p, from, to) == to \o SubSeq(p, Len(from) + 1, Len(p))
Remapped(p, from, to) == IF IsPrefix(from, p) THEN Moved(p, from, to) ELSE p
Documents == {p \in Shared : Kind(project[p]) = "text"}
Binaries  == {p \in Shared : Kind(project[p]) = "binary"}

(* A path below which there are others is a folder.                         *)
StartsAt(p) == IF \E q \in Paths : q # p /\ IsPrefix(p, q) THEN Folder ELSE <<"text", 0>>
StartProject == [p \in Paths |-> IF p \in Initial \ Private THEN StartsAt(p) ELSE Nothing]
StartFolder  == [p \in Paths |-> IF p \in Initial THEN StartsAt(p) ELSE Nothing]

Init ==
  /\ project = StartProject /\ working = StartFolder
  /\ bound = Bound
  /\ IF Bound THEN backing = StartFolder
     ELSE backing \in {StartFolder, [p \in Paths |-> Nothing], [p \in Paths |-> StartsAt(p)]}
  /\ pending = {} /\ timer = FALSE /\ redirects = <<>> /\ removed = {} /\ queue = <<>>
  /\ collected = {} /\ active = "yes" /\ astray = {} /\ ops = 0 /\ fails = 0

-----------------------------------------------------------------------------
(* mutant of Redirected: what is in a folder that was renamed stays behind  *)
RedirectedItself(p) ==
  LET hits == {i \in DOMAIN redirects : redirects[i].from = p}
  IN IF hits = {} THEN p ELSE redirects[CHOOSE i \in hits : TRUE].to

(* Paths as the adapter sees them now.                                      *)
Redirected(p) ==
  LET hits == {i \in DOMAIN redirects : IsPrefix(redirects[i].from, p)}
      first == CHOOSE i \in hits : \A j \in hits : i <= j
  IN IF hits = {} THEN p ELSE Moved(p, redirects[first].from, redirects[first].to)
resolveCurrentPath(p) ==
  LET at[n \in Nat] == IF n = 0 THEN p ELSE Redirected(at[n - 1])
      Seen(n) == \E m \in 0..(n - 1) : at[m] = at[n]
  IN at[CHOOSE n \in 1..Cardinality(Paths) : Seen(n) /\ \A m \in 1..(n - 1) : ~Seen(m)]
isRemovedFrom(p, gone) == \E r \in gone : IsPrefix(r, p)
isRemoved(p) == isRemovedFrom(p, removed)
clearRemoved(p, gone) == {r \in gone : ~IsPrefix(r, p) /\ ~IsPrefix(p, r)}

(* The steps of a flush: read the next document, write it to the backing    *)
(* folder, write it to the working copy.                                    *)
Flushing(todo, last) ==
  [op |-> "flush", todo |-> todo, last |-> last, now |-> <<>>, final |-> <<>>, bytes |-> Nothing]
schedule(p) ==
  IF active = "no" THEN UNCHANGED <<pending, timer, removed>>
  ELSE /\ removed' = clearRemoved(p, removed)
       /\ pending' = pending \cup {p}
       /\ timer' = TRUE

Enqueue(op) == queue' = Append(queue, op)
Done == queue' = Tail(queue)

(* The timer of the debounce, or of a retry.                                *)
flush ==
  /\ timer
  /\ timer' = FALSE /\ pending' = {}
  /\ Enqueue(Flushing(pending, FALSE))
  /\ UNCHANGED <<project, working, backing, bound, redirects, removed, collected, active, astray, ops, fails>>

First == Head(queue)
At(op) == queue # <<>> /\ First.op = op

(* A document that was removed meanwhile is left out.                       *)
SkipDocument(p) ==
  /\ isRemoved(resolveCurrentPath(p))
  /\ queue' = [queue EXCEPT ![1].todo = @ \ {p}, ![1].now = <<>>, ![1].bytes = Nothing]
  /\ UNCHANGED <<project, working, backing, bound, pending, timer, redirects, removed, collected, active, astray, ops, fails>>

(* What the project holds, or else the bytes of the working copy.           *)
Serialized(p) == IF Kind(project[p]) = "text" THEN project[p] ELSE working[p]
Serialize(p) ==
  LET rel == resolveCurrentPath(p)
  IN /\ First.now = <<>> /\ ~isRemoved(rel)
     /\ Serialized(rel) \notin {Nothing, Folder}
     /\ queue' = [queue EXCEPT ![1].now = p, ![1].bytes = Serialized(rel)]
     /\ UNCHANGED <<project, working, backing, bound, pending, timer, redirects, removed, collected, active, astray, ops, fails>>

(* A file needs its folders: an atomic write makes them.                    *)
Put(at, p, c) ==
  [q \in Paths |-> IF q = p THEN c ELSE IF IsStrictPrefix(q, p) THEN Folder ELSE at[q]]

(* A file that is written is as it should be, and its folders are there.    *)
Written(p) == {q \in Paths : IsPrefix(q, p)}

WriteBacking ==
  LET to == resolveCurrentPath(First.now)
  IN /\ First.now # <<>> /\ First.final = <<>> /\ ~isRemoved(to)
     /\ backing' = IF bound THEN Put(backing, to, First.bytes) ELSE backing
     /\ queue' = [queue EXCEPT ![1].final = to]
     /\ astray' = astray \ {q \in Written(to) : project[q] \in {Folder, First.bytes}}
     /\ UNCHANGED <<project, working, bound, pending, timer, redirects, removed, collected, active, ops, fails>>

WriteWorking ==
  /\ First.final # <<>>
  /\ working' = Put(working, First.final, First.bytes)
  /\ queue' = [queue EXCEPT ![1] = Flushing(First.todo \ {First.now}, First.last)]
  /\ UNCHANGED <<project, backing, bound, pending, timer, redirects, removed, collected, active, astray, ops, fails>>

(* requeue: a failure brings back what was not written, by the path it was  *)
(* scheduled under, and a later retry.                                      *)
Outstanding(todo) == {p \in todo : ~isRemoved(resolveCurrentPath(p))}
requeue(todo) ==
  IF active = "no" THEN UNCHANGED <<pending, timer, astray>>
  ELSE /\ astray' = astray \cup ({resolveCurrentPath(p) : p \in Outstanding(todo)} \ todo)
       /\ pending' = pending \cup Outstanding(todo)
       /\ timer' = (timer \/ Outstanding(todo) # {})

(* stop: once the last flush is done nothing is written any more.           *)
FlushEnds(todo) ==
  /\ Done
  /\ IF First.last THEN active' = "no" /\ pending' = {} /\ timer' = FALSE /\ UNCHANGED astray
     ELSE active' = active /\ requeue(todo)

FlushFails ==
  /\ At("flush") /\ First.todo # {}
  /\ \/ fails < MaxFails /\ fails' = fails + 1
     \/ /\ First.now = <<>>
        /\ \E p \in First.todo : ~isRemoved(resolveCurrentPath(p))
                                 /\ Serialized(resolveCurrentPath(p)) \in {Nothing, Folder}
        /\ fails' = fails
  /\ FlushEnds(First.todo)
  /\ UNCHANGED <<project, working, backing, bound, redirects, removed, collected, ops>>

FlushDone ==
  /\ At("flush") /\ First.todo = {}
  /\ FlushEnds({})
  /\ UNCHANGED <<project, working, backing, bound, redirects, removed, collected, ops, fails>>

FlushStep ==
  /\ At("flush")
  /\ \/ \E p \in First.todo : (First.now \in {<<>>, p} /\ First.final = <<>> /\ SkipDocument(p)) \/ Serialize(p)
     \/ WriteBacking
     \/ WriteWorking

(* A removal leaves what is private, and the folders that hold it.          *)
HoldsPrivate(at, p) == \E k \in Private : IsStrictPrefix(p, k) /\ at[k] # Nothing
Without(at, p) ==
  [q \in Paths |-> IF q \in Below(p) \cap Shared /\ ~HoldsPrivate(at, q) THEN Nothing ELSE at[q]]

(* Where the renames still to come take it.                                 *)
Carried(p) ==
  FoldLeft(LAMBDA q, op : IF op.op = "rename" THEN Remapped(q, op.at, op.to) ELSE q, p, queue)

RemoveDone ==
  /\ At("remove")
  /\ working' = Without(working, First.at)
  /\ backing' = IF bound THEN Without(backing, First.at) ELSE backing
  /\ Done
  /\ astray' = astray \cup {q \in Below(First.at) : project[Carried(q)] # Nothing}
  /\ UNCHANGED <<project, bound, pending, timer, redirects, removed, collected, active, ops, fails>>

CreateDirectoryDone ==
  /\ At("mkdir")
  /\ LET to == resolveCurrentPath(First.at)
     IN IF isRemoved(to) THEN UNCHANGED <<working, backing, astray>>
        ELSE /\ astray' = astray \ Written(to)
             /\ working' = Put(working, to, Folder)
             /\ backing' = IF bound THEN Put(backing, to, Folder) ELSE backing
  /\ Done
  /\ UNCHANGED <<project, bound, pending, timer, redirects, removed, collected, active, ops, fails>>

(* A binary file saved here goes to the backing folder, unless it changed   *)
(* meanwhile: then the caller starts over with what is there.               *)
MirrorDone ==
  /\ At("mirror")
  /\ LET to    == resolveCurrentPath(First.at)
         again == bound /\ ~isRemoved(to) /\ working[to] # First.bytes
     IN /\ backing' = IF bound /\ ~isRemoved(to) /\ ~again THEN Put(backing, to, First.bytes) ELSE backing
        /\ astray' = IF bound /\ ~isRemoved(to) /\ ~again THEN astray \ Written(to)
                     ELSE IF ~bound /\ working[to] # First.bytes THEN astray \cup {to} ELSE astray
        /\ project' = IF ~again /\ Kind(project[to]) = "binary" THEN [project EXCEPT ![to] = First.bytes]
                      ELSE project
        /\ queue' = IF again /\ Kind(working[to]) = "binary"
                    THEN Append(Tail(queue), [First EXCEPT !.bytes = working[to]]) ELSE Tail(queue)
  /\ UNCHANGED <<working, bound, pending, timer, redirects, removed, collected, active, ops, fails>>

(* One that was received whole goes to both folders.                        *)
ReceiveDone ==
  /\ At("receive")
  /\ LET to == resolveCurrentPath(First.at)
     IN IF isRemoved(to) THEN UNCHANGED <<project, working, backing, astray>>
        ELSE /\ astray' = astray \ Written(to)
             /\ backing' = IF bound THEN Put(backing, to, First.bytes) ELSE backing
             /\ working' = Put(working, to, First.bytes)
             /\ project' = IF Kind(project[to]) = "binary" THEN [project EXCEPT ![to] = First.bytes] ELSE project
  /\ Done
  /\ UNCHANGED <<bound, pending, timer, redirects, removed, collected, active, ops, fails>>

(* A rename replaces a file, or an empty folder; renameOrPending forgives a *)
(* missing source when its write is still to come.                          *)
Present(at, from) == at[from] # Nothing
CanMove(at, from, to) ==
  /\ Present(at, from)
  /\ \/ at[to] = Nothing
     \/ at[to] = Folder /\ at[from] = Folder /\ \A q \in Below(to) \ {to} : at[q] = Nothing
     \/ Folder \notin {at[to], at[from]}
Renamed(at, from, to) ==
  [q \in Paths |->
     IF q \in Below(from) THEN Nothing
     ELSE IF q \in Below(to) THEN (IF Moved(q, to, from) \in Paths THEN at[Moved(q, to, from)] ELSE Nothing)
     ELSE IF IsStrictPrefix(q, to) THEN Folder ELSE at[q]]
MoveOrPending(at, from, to) == IF CanMove(at, from, to) THEN Renamed(at, from, to) ELSE at
Forgiven(at, from, to, remapped) == CanMove(at, from, to) \/ (~Present(at, from) /\ remapped)

RenameDone ==
  /\ At("rename")
  /\ LET from == First.at
         to   == First.to
         here == First.local \/ Forgiven(working, from, to, First.remapped)
         both == here /\ (bound => Forgiven(backing, from, to, First.remapped))
         lost == ~First.local /\ (IF here THEN ~Present(backing, from) ELSE ~Present(working, from))
         over == here /\ CanMove(backing, from, to) /\ Kind(backing[to]) \in {"text", "binary"}
     IN /\ astray' = astray \cup {Remapped(q, from, to) : q \in astray}
                     \cup (IF ~bound \/ (both /\ ~over) THEN {}
                           ELSE IF both THEN {to} ELSE Below(from) \cup Below(to))
        /\ working' = IF ~First.local /\ here THEN MoveOrPending(working, from, to) ELSE working
        /\ backing' = IF bound /\ here THEN MoveOrPending(backing, from, to) ELSE backing
        /\ redirects' = SelectSeq(redirects, LAMBDA r : r # [from |-> from, to |-> to])
        /\ IF ~both /\ lost /\ project[to] = Folder  \* ensureLivePathMaterialized
           THEN /\ removed' = clearRemoved(to, removed)
                /\ queue' = Append(Tail(queue), [op |-> "mkdir", at |-> to])
                /\ UNCHANGED <<pending, timer>>
           ELSE /\ Done
                /\ IF ~both /\ lost /\ Kind(project[to]) = "text" THEN schedule(to)
                   ELSE UNCHANGED <<pending, timer, removed>>
  /\ UNCHANGED <<project, bound, collected, active, ops, fails>>

-----------------------------------------------------------------------------
(* A folder for the project: replaced by it, or taken as it is when it      *)
(* holds the very same.                                                     *)
Desired(at, want) ==
  [q \in Paths |-> IF q \in Private THEN at[q]
                   ELSE IF want[q] # Nothing THEN want[q]
                   ELSE IF at[q] = Folder /\ HoldsPrivate(at, q) THEN Folder ELSE Nothing]
MatchesOn(some, at, want) ==
  \A q \in some : at[q] = want[q] \/ (want[q] = Nothing /\ at[q] = Folder /\ HoldsPrivate(at, q))
Matches(at, want) == MatchesOn(Shared, at, want)
SourcesHold(want) == \A q \in Shared : Kind(want[q]) = "binary" => working[q] = want[q]

(* What went astray and has changed since the folder was gathered.          *)
Unsettled(want) == {q \in astray : project[q] # want[q]}

MaterializeDone ==
  /\ At("materialize")
  /\ IF SourcesHold(First.want) THEN backing' = Desired(backing, First.want) /\ bound' = bound
     ELSE /\ backing' = [q \in Paths |-> IF Kind(First.want[q]) \in {"text", "folder"} THEN First.want[q] ELSE backing[q]]
          /\ bound' = FALSE
  /\ Done /\ astray' = First.late \cup Unsettled(First.want)
  /\ UNCHANGED <<project, working, pending, timer, redirects, removed, collected, active, ops, fails>>

BindDone ==
  /\ At("bind")
  /\ bound' = Matches(backing, First.want)
  /\ Done /\ astray' = First.late \cup Unsettled(First.want)
  /\ UNCHANGED <<project, working, backing, pending, timer, redirects, removed, collected, active, ops, fails>>

(* setBackingFolder; what the documents are is read at once, binary files   *)
(* are hashed one after the other.                                          *)
ChooseFolder(mode) ==
  LET op == [op |-> mode, want |-> project, late |-> {}]
  IN /\ active = "yes" /\ ~bound /\ collected = {} /\ ~\E i \in DOMAIN queue : queue[i].op = "bind"
     /\ "choose" \in Ops
     /\ bound' = (mode = "materialize")
     /\ IF Binaries = {} THEN Enqueue(op) /\ collected' = {}
        ELSE collected' = {op} /\ queue' = queue
     /\ UNCHANGED <<project, working, backing, pending, timer, redirects, removed, active, astray, ops, fails>>

(* Changed meanwhile, or about to be by a binary file on its way.           *)
Overtaken(want) ==
  {q \in Shared : \/ want[q] # project[q]
                  \/ \E i \in DOMAIN queue : queue[i].op \in {"mirror", "receive"} /\ resolveCurrentPath(queue[i].at) = q}

CollectDone(op) ==
  /\ op \in collected /\ collected' = {}
  /\ IF SourcesHold(op.want) THEN Enqueue([op EXCEPT !.late = Overtaken(op.want)]) /\ bound' = bound
     ELSE bound' = FALSE /\ queue' = queue
  /\ UNCHANGED <<project, working, backing, pending, timer, redirects, removed, active, astray, ops, fails>>

-----------------------------------------------------------------------------
(* What the users do, here or elsewhere.                                    *)
Acts(op) ==
  /\ op \in Ops /\ active = "yes" /\ ops < MaxOps /\ ops' = ops + 1
  /\ UNCHANGED <<bound, redirects, collected, active, fails>>
Fresh(kind) == <<kind, ops + 1>>

Edit(p) ==
  /\ Acts("edit") /\ p \in Documents
  /\ project' = [project EXCEPT ![p] = Fresh("text")]
  /\ schedule(p)
  /\ UNCHANGED <<working, backing, queue, astray>>

CreateDocument(p, local) ==
  /\ Acts("create") /\ project[p] = Nothing /\ HasParent(project, p) /\ StartsAt(p) # Folder
  /\ project' = [project EXCEPT ![p] = Fresh("text")]
  /\ working' = IF local THEN Put(working, p, Fresh("text")) ELSE working
  /\ schedule(p)
  /\ UNCHANGED <<backing, queue, astray>>

(* Writes of files that are gone, when a name that was removed is free again. *)
OnTheirWay == pending \cup UNION {queue[i].todo : i \in {j \in DOMAIN queue : queue[j].op = "flush"}}
Revived(p) ==
  {q \in OnTheirWay : project'[q] = Nothing /\ isRemoved(q) /\ ~isRemovedFrom(q, clearRemoved(p, removed))}

CreateDirectory(p, local) ==
  /\ Acts("create") /\ project[p] = Nothing /\ HasParent(project, p) /\ StartsAt(p) = Folder
  /\ project' = [project EXCEPT ![p] = Folder]
  /\ working' = IF local THEN Put(working, p, Folder) ELSE working
  /\ astray' = astray \cup Revived(p)
  /\ removed' = clearRemoved(p, removed)
  /\ Enqueue([op |-> "mkdir", at |-> p])
  /\ UNCHANGED <<backing, pending, timer>>

Delete(p, local) ==
  /\ Acts("delete") /\ project[p] # Nothing
  /\ project' = [q \in Paths |-> IF q \in Below(p) THEN Nothing ELSE project[q]]
  /\ working' = IF local THEN [q \in Paths |-> IF q \in Below(p) THEN Nothing ELSE working[q]] ELSE working
  /\ removed' = removed \cup {p}
  /\ pending' = pending \ Below(p)
  /\ Enqueue([op |-> "remove", at |-> p])
  /\ UNCHANGED <<backing, timer, astray>>

Rename(from, to, local) ==
  /\ "rename" \in Ops /\ active = "yes" /\ ops < MaxOps /\ ops' = ops + 1
  /\ project[from] # Nothing /\ project[to] = Nothing /\ HasParent(project, to)
  /\ StartsAt(from) = StartsAt(to) /\ ~IsPrefix(from, to) /\ ~IsPrefix(to, from)
  /\ local => CanMove(working, from, to)
  /\ project' = Renamed(project, from, to)
  /\ working' = IF local THEN Renamed(working, from, to) ELSE working
  /\ redirects' = IF \E i \in DOMAIN redirects : redirects[i].from = from
                  THEN [i \in DOMAIN redirects |-> IF redirects[i].from = from THEN [from |-> from, to |-> to] ELSE redirects[i]]
                  ELSE Append(redirects, [from |-> from, to |-> to])
  /\ astray' = IF \E i \in DOMAIN redirects : IsPrefix(redirects[i].from, to) \/ IsPrefix(to, redirects[i].from)
               THEN astray \cup Below(from) \cup Below(to) ELSE astray \cup Revived(to)
  /\ removed' = clearRemoved(to, removed \cup {from})
  /\ pending' = {Remapped(p, from, to) : p \in pending}
  /\ Enqueue([op |-> "rename", at |-> from, to |-> to, local |-> local,
              remapped |-> \E p \in pending : IsPrefix(from, p)])
  /\ UNCHANGED <<backing, bound, timer, collected, active, fails>>

(* A binary file is saved here, or the last frame of one arrives.           *)
SaveBinary(p) ==
  /\ Acts("binary") /\ HasParent(project, p) /\ StartsAt(p) # Folder /\ Kind(project[p]) \in {"none", "binary"}
  /\ working' = Put(working, p, Fresh("binary"))
  /\ project' = IF project[p] = Nothing THEN [project EXCEPT ![p] = <<"binary", 0>>] ELSE project
  /\ removed' = clearRemoved(p, removed)
  /\ Enqueue([op |-> "mirror", at |-> p, bytes |-> Fresh("binary")])
  /\ UNCHANGED <<backing, pending, timer, astray>>

ReceiveBinary(p) ==
  /\ Acts("binary") /\ HasParent(project, p) /\ StartsAt(p) # Folder /\ Kind(project[p]) \in {"none", "binary"}
  /\ project' = IF project[p] = Nothing THEN [project EXCEPT ![p] = <<"binary", 0>>] ELSE project
  /\ removed' = clearRemoved(p, removed)
  /\ Enqueue([op |-> "receive", at |-> p, bytes |-> Fresh("binary")])
  /\ UNCHANGED <<working, backing, pending, timer, astray>>

(* stop: a last flush, after the other users are gone.                      *)
Stop ==
  /\ "stop" \in Ops /\ active = "yes" /\ collected = {}
  /\ active' = "stopping" /\ timer' = FALSE /\ pending' = {}
  /\ Enqueue(Flushing(pending, TRUE))
  /\ UNCHANGED <<project, working, backing, bound, redirects, removed, collected, astray, ops, fails>>

Worker ==
  \/ FlushStep \/ FlushFails \/ FlushDone
  \/ RemoveDone \/ CreateDirectoryDone \/ MirrorDone \/ ReceiveDone \/ RenameDone
  \/ MaterializeDone \/ BindDone
  \/ \E op \in collected : CollectDone(op)

Users ==
  \/ \E p \in Shared : Edit(p) \/ SaveBinary(p) \/ ReceiveBinary(p)
  \/ \E p \in Shared, local \in BOOLEAN : CreateDocument(p, local) \/ CreateDirectory(p, local) \/ Delete(p, local)
  \/ \E from, to \in Shared, local \in BOOLEAN : Rename(from, to, local)
  \/ ChooseFolder("materialize") \/ ChooseFolder("bind")
  \/ Stop

Next == flush \/ Worker \/ Users

Spec == Init /\ [][Next]_vars

-----------------------------------------------------------------------------
Quiet == queue = <<>> /\ ~timer /\ collected = {}

(* When nothing is under way and no timer is running, the backing folder    *)
(* holds the project, whatever was queued or in flight when a path was      *)
(* renamed, removed or made (persistence.ts:318-343, 416-431): no edit is   *)
(* left out, nothing deleted has come back, and a folder stays only for the *)
(* private files in it.  Excepted are the paths that are astray.            *)
BackingIsProject == bound /\ Quiet /\ active = "yes" => MatchesOn(Shared \ astray, backing, project)

(* What the host keeps private in the folder is neither removed nor         *)
(* replaced: it stays, or moves with the folder it is in.                   *)
KeptPrivate == {k \in Private : backing[k] # Nothing}
PrivateFilesStay == Cardinality(KeptPrivate') = Cardinality(KeptPrivate)

(* A runtime that stopped, and met no failure on the way, left everything   *)
(* in the backing folder, paths that are astray excepted.                   *)
StoppedIsSaved == active = "no" /\ fails = 0 /\ bound => MatchesOn(Shared \ astray, backing, project)
=============================================================================
