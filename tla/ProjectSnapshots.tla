-------------------------- MODULE ProjectSnapshots --------------------------
(***************************************************************************)
(* How a participant that joins gets the project: the Session Host collects *)
(* it and sends it file by file (sendSnapshot of src/runtime/session.ts),   *)
(* the one who joins writes it into an empty folder                         *)
(* (downloadProjectSnapshot of src/runtime/bootstrap.ts).  Every request is *)
(* a generation of its own.  A route that breaks starts a new generation,   *)
(* which resumes with the files that are complete; a frame the route lost   *)
(* is noticed by what comes after it.                                       *)
(*                                                                         *)
(* A file is a number, in the order of its path; its content is a version   *)
(* per chunk, and a hash is the content itself.  Folders and the limits on  *)
(* sizes and paths are left out.                                            *)
(***************************************************************************)
EXTENDS Naturals, Sequences, FiniteSets, SnapshotParameters

CONSTANTS
  MaxFileRetries,   \* MAX_SNAPSHOT_FILE_RETRIES
  MaxTransfers,     \* MAX_ACTIVE_SNAPSHOT_TRANSFERS
  CheckpointFrames, \* MAX_SNAPSHOT_CHECKPOINT_FRAMES
  Window,           \* frames a route holds before awaitDrain waits
  MaxLost,          \* bound: frames a route loses
  MaxCuts           \* bound: routes that break

VARIABLES
  project,    \* the project of the host: a version of each file, 0 when there is none
  isHost,     \* coordinator.isCurrentHost()
  active,     \* activeSnapshotGenerations of the participant, 0 when there is none
  job,        \* sendSnapshot
  remembered, \* sentSnapshotTransfers
  queue,      \* requests on their way and in the background queue
  up,         \* acknowledgements and retries for the host
  down,       \* what is on its way to the participant or in its messageQueue
  link,       \* the route, and whether a request was made over it
  join,       \* what became of downloadProjectSnapshot
  peer,       \* what the participant knows of this generation
  completed,  \* the files it has, by their hash
  disk,       \* the folder it writes to
  gens,       \* requestedSnapshotGenerations
  used,       \* edits, losses and cuts so far
  taken       \* history: the project as each generation collected it

hostSide == <<project, isHost, active, job, remembered>>
peerSide == <<join, peer, completed, disk, gens>>
vars == <<hostSide, peerSide, queue, up, down, link, used, taken>>

Index == 1 .. Chunks
Whole(v) == [i \in Index |-> v]
None == <<>>
Existing(files) == {f \in Files : files[f] # 0}
Finished == {f \in Files : completed[f] # None}

Idle == [st |-> "idle", gen |-> 0, has |-> [f \in Files |-> None], files |-> [f \in Files |-> 0],
         todo |-> {}, file |-> 0, open |-> 0, chunk |-> 1, intact |-> TRUE, frames |-> 0, check |-> 0]
(* resetSnapshotGeneration *)
Fresh(g) == [gen |-> g, begun |-> FALSE, total |-> 0, transfer |-> 0, declared |-> 0, files |-> {},
             resumed |-> {}, ready |-> FALSE, started |-> {},
             transfers |-> [f \in {} |-> None]]

Frame(t, g) == [type |-> t, gen |-> g]

Init ==
  /\ project \in [Files -> {0, 1}]
  /\ isHost = TRUE /\ active = 0 /\ job = Idle /\ remembered = {}
  /\ queue = <<>> /\ up = <<>> /\ down = <<Frame("hello", 0)>>
  /\ link = [up |-> TRUE, asked |-> FALSE]
  /\ join = "running" /\ peer = Fresh(0) /\ gens = 0
  /\ completed = [f \in Files |-> None]
  /\ disk \in [Files -> {None, Whole(0)}]
  /\ used = [edits |-> 0, lost |-> 0, cuts |-> 0]
  /\ taken = [g \in {} |-> None]

-----------------------------------------------------------------------------
(* The host. *)

\* Users change the project while it is sent.
Edit(f) ==
  /\ used.edits < MaxEdits
  /\ used' = [used EXCEPT !.edits = @ + 1]
  /\ \E v \in {0, used.edits + 2} : v # project[f] /\ project' = [project EXCEPT ![f] = v]
  /\ UNCHANGED <<isHost, active, job, remembered, peerSide, queue, up, down, link, taken>>

\* The host hands its role to somebody else.
Retire ==
  /\ isHost /\ isHost' = FALSE
  /\ UNCHANGED <<project, active, job, remembered, peerSide, queue, up, down, link, used, taken>>

\* assertCurrentHost
Current == isHost /\ active = job.gen

\* A former host refuses; a generation that is under way refuses another.
TakeRequest ==
  /\ job.st = "idle" /\ queue # <<>> /\ queue' = Tail(queue)
  /\ IF isHost /\ active = 0
     THEN /\ active' = Head(queue).gen
          /\ job' = [Idle EXCEPT !.st = "collecting", !.gen = Head(queue).gen, !.has = Head(queue).completed]
          /\ down' = down
     ELSE /\ down' = IF link.up THEN Append(down, Frame("error", Head(queue).gen)) ELSE down
          /\ UNCHANGED <<active, job>>
  /\ UNCHANGED <<project, isHost, remembered, peerSide, up, link, used, taken>>

\* awaitSnapshotCheckpoint
Awaits(j) == [j EXCEPT !.st = "waiting", !.check = @ + 1, !.frames = 0]
Checkpoint(j) == [type |-> "checkpoint", gen |-> j.gen, check |-> j.check]

\* sendSnapshotManifest
Manifest(g, files, resumed) == [type |-> "manifest", gen |-> g, files |-> files, resumed |-> resumed]

\* What is collected is announced, and the host waits for the first checkpoint.
Collect ==
  LET todo == {f \in Existing(project) : job.has[f] # Whole(project[f])}
      resumed == Existing(project) \ todo
      j == Awaits([job EXCEPT !.files = project, !.todo = todo])
  IN
  /\ job.st = "collecting" /\ Current /\ link.up
  /\ taken' = [g \in DOMAIN taken \cup {job.gen} |-> IF g = job.gen THEN project ELSE taken[g]]
  /\ job' = j
  /\ down' = down \o
       << [type |-> "begin", gen |-> job.gen, total |-> Cardinality(Existing(project)),
           transfer |-> Cardinality(todo), declared |-> Cardinality(resumed)],
          Manifest(job.gen, Existing(project), resumed),
          Frame("manifestEnd", job.gen), Checkpoint(j) >>
  /\ UNCHANGED <<project, isHost, active, remembered, peerSide, queue, up, link, used>>

\* A frame goes out; after many of them the host waits for a checkpoint.
Sends(frame, j) ==
  /\ Current /\ link.up /\ Len(down) < Window
  /\ down' = Append(down, frame) /\ job' = j
  /\ UNCHANGED <<project, isHost, active, peerSide, queue, up, link, used, taken>>
SendsAndDrains(frame, j) ==
  IF j.frames < CheckpointFrames THEN Sends(frame, j)
  ELSE /\ Current /\ link.up /\ Len(down) < Window
       /\ down' = down \o <<frame, Checkpoint(Awaits(j))>> /\ job' = Awaits(j)
       /\ UNCHANGED <<project, isHost, active, peerSide, queue, up, link, used, taken>>

StartFrame(f) == [type |-> "start", gen |-> job.gen, file |-> f, version |-> job.files[f]]
ChunkFrame(g, f, i, v) == [type |-> "chunk", gen |-> g, file |-> f, index |-> i, version |-> v]
EndFrame(g, f) == [type |-> "fileEnd", gen |-> g, file |-> f]
Sending == job.st = "sending" /\ job.file # 0

\* rememberSentSnapshotTransfer
Announced(f) == [gen |-> job.gen, file |-> f, version |-> job.files[f]]

\* The next file, in the order of the paths.  A binary file is opened as it is now.
SendStart ==
  /\ job.st = "sending" /\ job.file = 0
  /\ \E f \in job.todo :
       /\ \A g \in job.todo : f <= g
       /\ Sends(StartFrame(f), [job EXCEPT !.file = f, !.todo = @ \ {f}, !.chunk = 1, !.intact = TRUE,
                                           !.frames = @ + 1,
                                           !.open = IF f \in Streamed THEN project[f] ELSE job.files[f]])
       /\ remembered' = remembered \cup {Announced(f)}

\* streamFileChunks: a file that is replaced meanwhile is read as it was opened,
\* one that is written over as it is now.  A document was collected as a whole.
SendChunk ==
  /\ Sending /\ job.chunk <= Chunks /\ job.open # 0
  /\ \E v \in {job.open} \cup IF job.file \in Streamed THEN {project[job.file]} \ {0} ELSE {} :
       SendsAndDrains(ChunkFrame(job.gen, job.file, job.chunk, v),
                      [job EXCEPT !.chunk = @ + 1, !.frames = @ + 1,
                                  !.intact = @ /\ v = job.files[job.file]])
  /\ UNCHANGED remembered

SendFileEnd ==
  /\ Sending /\ job.chunk > Chunks /\ job.intact
  /\ SendsAndDrains(EndFrame(job.gen, job.file), [job EXCEPT !.file = 0, !.frames = @ + 1])
  /\ UNCHANGED remembered

\* A last checkpoint when anything was sent since, and the end.
SendEnd ==
  /\ job.st = "sending" /\ job.file = 0 /\ job.todo = {}
  /\ Current /\ link.up
  /\ IF job.frames > 0
     THEN job' = Awaits(job) /\ down' = Append(down, Checkpoint(Awaits(job))) /\ UNCHANGED active
     ELSE job' = Idle /\ active' = 0 /\ down' = Append(down, Frame("end", job.gen))
  /\ UNCHANGED <<project, isHost, remembered, peerSide, queue, up, link, used, taken>>

\* What ends a generation early: another host, a route that is gone or was
\* replaced, a project that cannot be collected, a binary file that vanished or
\* changed, a checkpoint that is not acknowledged in time.
Break ==
  /\ \/ job.st \in {"collecting", "waiting"}
     \/ job.st = "sending" /\ (~Current \/ ~link.up)
     \/ Sending /\ job.open = 0
     \/ Sending /\ job.chunk > Chunks /\ ~job.intact
  /\ active' = IF active = job.gen THEN 0 ELSE active
  /\ job' = Idle
  /\ down' = IF link.up THEN Append(down, Frame("error", job.gen)) ELSE down
  /\ UNCHANGED <<project, isHost, remembered, peerSide, queue, up, link, used, taken>>

\* acceptSnapshotCheckpoint
Acknowledged ==
  /\ up # <<>> /\ Head(up).type = "ack" /\ up' = Tail(up)
  /\ job' = IF job.st = "waiting" /\ job.check = Head(up).check /\ {job.gen, active} = {Head(up).gen}
            THEN [job EXCEPT !.st = "sending"] ELSE job
  /\ UNCHANGED <<project, isHost, active, remembered, peerSide, queue, down, link, used, taken>>

\* resendSnapshotChunks: what a retry names of a file of this generation, in
\* order; a binary file as it is now.
Resend ==
  LET m == Head(up)
      known == {r \in remembered : r.gen = m.gen /\ r.file = m.file /\ active = m.gen /\ isHost}
  IN
  /\ up # <<>> /\ m.type = "retry" /\ up' = Tail(up)
  /\ \/ /\ known = {} \/ ~link.up \/ (m.file \in Streamed /\ project[m.file] = 0)
        /\ down' = down
     \/ \E r \in known, order \in [1 .. Cardinality(m.missing) -> m.missing] :
          LET v == IF m.file \in Streamed THEN project[m.file] ELSE r.version IN
          /\ link.up /\ v # 0
          /\ \A a, b \in DOMAIN order : a < b => order[a] < order[b]
          /\ down' = down \o [k \in DOMAIN order |-> ChunkFrame(m.gen, m.file, order[k], v)]
                          \o <<EndFrame(m.gen, m.file)>>
  /\ UNCHANGED <<project, isHost, active, job, remembered, peerSide, queue, link, used, taken>>

-----------------------------------------------------------------------------
(* The route. *)

Prefixes(q) == {SubSeq(q, 1, k) : k \in 0 .. Len(q)}

\* cancelSnapshotGeneration
Cancel ==
  /\ active' = 0
  /\ remembered' = IF active = 0 THEN remembered ELSE {r \in remembered : r.gen # active}

\* Whatever had not arrived is gone.
Cut ==
  /\ link.up /\ join = "running" /\ used.cuts < MaxCuts
  /\ used' = [used EXCEPT !.cuts = @ + 1]
  /\ link' = [link EXCEPT !.up = FALSE]
  /\ down' \in Prefixes(down) /\ up' \in Prefixes(up) /\ queue' \in Prefixes(queue)
  /\ UNCHANGED <<hostSide, peerSide, taken>>

\* Both sides find a new route; the host greets the participant.
Reconnect ==
  /\ ~link.up /\ join = "running"
  /\ link' = [up |-> TRUE, asked |-> FALSE]
  /\ Cancel
  /\ down' = down \o <<Frame("recovered", 0), Frame("hello", 0)>>
  /\ UNCHANGED <<project, isHost, job, peerSide, queue, up, used, taken>>

\* A second route takes the place of the first before that was missed.
Replace ==
  /\ link.up /\ join = "running" /\ used.cuts < MaxCuts
  /\ used' = [used EXCEPT !.cuts = @ + 1]
  /\ link' = [link EXCEPT !.asked = FALSE]
  /\ Cancel
  /\ \E d \in Prefixes(down) : down' = Append(d, Frame("hello", 0))
  /\ up' \in Prefixes(up) /\ queue' \in Prefixes(queue)
  /\ UNCHANGED <<project, isHost, job, peerSide, taken>>

\* The host stops waiting for a participant without a route.
Departed ==
  /\ ~link.up /\ active # 0 /\ Cancel
  /\ UNCHANGED <<project, isHost, job, peerSide, queue, up, down, link, used, taken>>

\* The route loses the next frame of either direction.
Lose ==
  /\ used.lost < MaxLost /\ link.up
  /\ used' = [used EXCEPT !.lost = @ + 1]
  /\ \/ /\ down # <<>> /\ Head(down).type \notin {"hello", "recovered"}
        /\ down' = Tail(down) /\ UNCHANGED up
     \/ up # <<>> /\ up' = Tail(up) /\ UNCHANGED down
  /\ UNCHANGED <<hostSide, peerSide, queue, link, taken>>

-----------------------------------------------------------------------------
(* The participant: its messageQueue handles a frame after the other. *)

Takes(t) ==
  /\ join = "running" /\ down # <<>> /\ Head(down).type \in t /\ down' = Tail(down)
  /\ UNCHANGED <<hostSide, used, taken>>
\* Mutant: a frame of an earlier generation is taken for one of this.
MineOfAny(t) == Takes({t}) /\ peer.gen # 0
Mine(t) == Takes({t}) /\ peer.gen # 0 /\ Head(down).gen = peer.gen
Quiet == UNCHANGED <<queue, up, link, gens>>
Fail == join' = "failed" /\ UNCHANGED <<peer, completed, disk>>

\* requestSnapshot.  The host takes one request over a route and drops the
\* route at a second one.
Request ==
  /\ gens' = gens + 1
  /\ peer' = Fresh(IF link.up THEN gens + 1 ELSE 0)
  /\ queue' = IF link.up /\ ~link.asked THEN Append(queue, [gen |-> gens + 1, completed |-> completed])
              ELSE queue
  /\ link' = [up |-> link.up /\ ~link.asked, asked |-> link.up]
  /\ UNCHANGED <<join, up, completed, disk>>

OnHello ==
  /\ Takes({"hello"})
  /\ IF peer.gen = 0 THEN Request ELSE Quiet /\ UNCHANGED <<join, peer, completed, disk>>
OnRecovered == Takes({"recovered"}) /\ Request

\* A frame of a generation that is over.
Stale ==
  /\ Takes({"begin", "manifest", "manifestEnd", "checkpoint", "start", "chunk", "fileEnd", "end", "error"})
  /\ peer.gen = 0 \/ Head(down).gen # peer.gen
  /\ Quiet /\ UNCHANGED <<join, peer, completed, disk>>

OnError == Mine("error") /\ Fail /\ Quiet

OnBegin ==
  /\ Mine("begin") /\ Quiet
  /\ IF peer.begun THEN Fail
     ELSE /\ peer' = [peer EXCEPT !.begun = TRUE, !.total = Head(down).total,
                                  !.transfer = Head(down).transfer, !.declared = Head(down).declared]
          /\ UNCHANGED <<join, completed, disk>>

OnManifest ==
  /\ Mine("manifest") /\ Quiet
  /\ IF ~peer.begun \/ peer.ready THEN Fail
     ELSE /\ peer' = [peer EXCEPT !.files = @ \cup Head(down).files, !.resumed = @ \cup Head(down).resumed]
          /\ UNCHANGED <<join, completed, disk>>

\* completeManifest
OnManifestEnd ==
  /\ Mine("manifestEnd") /\ Quiet
  /\ IF /\ peer.begun /\ ~peer.ready
        /\ Cardinality(peer.files) = peer.total /\ Cardinality(peer.resumed) = peer.declared
        /\ peer.transfer + peer.declared = peer.total
        /\ peer.resumed \subseteq peer.files \cap Finished
     THEN /\ completed' = [f \in Files |-> IF f \in peer.resumed THEN completed[f] ELSE None]
          /\ peer' = [peer EXCEPT !.ready = TRUE]
          /\ UNCHANGED <<join, disk>>
     ELSE Fail

OnCheckpoint ==
  /\ Mine("checkpoint") /\ UNCHANGED <<queue, link, gens>>
  /\ IF peer.begun
     THEN /\ up' = IF link.up THEN Append(up, [type |-> "ack", gen |-> peer.gen, check |-> Head(down).check])
                   ELSE up
          /\ UNCHANGED <<join, peer, completed, disk>>
     ELSE Fail /\ UNCHANGED up

Entry(t, f, x) == [g \in DOMAIN t \cup {f} |-> IF g = f THEN x ELSE t[g]]

OnStart ==
  LET m == Head(down) IN
  /\ Mine("start") /\ Quiet
  /\ IF peer.ready /\ m.file \in peer.files \ (peer.started \cup Finished)
        /\ Cardinality(DOMAIN peer.transfers) < MaxTransfers
     THEN /\ peer' = [peer EXCEPT !.started = @ \cup {m.file},
                        !.transfers = Entry(@, m.file, [version |-> m.version, received |-> None, retries |-> 0])]
          /\ UNCHANGED <<join, completed, disk>>
     ELSE Fail

OnChunk ==
  LET m == Head(down) IN
  /\ Mine("chunk") /\ Quiet
  /\ IF m.file \in DOMAIN peer.transfers
     THEN /\ peer' = IF m.index \in DOMAIN peer.transfers[m.file].received THEN peer
                     ELSE [peer EXCEPT !.transfers[m.file].received = Entry(@, m.index, m.version)]
          /\ UNCHANGED <<join, completed, disk>>
     ELSE Fail

\* Missing chunks are asked for again; a whole file is compared with its hash
\* and published.
OnFileEnd ==
  LET f == Head(down).file
      t == peer.transfers[f]
      missing == Index \ DOMAIN t.received
  IN
  /\ Mine("fileEnd") /\ UNCHANGED <<queue, link, gens>>
  /\ \/ /\ f \notin DOMAIN peer.transfers \/ (missing # {} /\ t.retries >= MaxFileRetries)
           \/ (missing = {} /\ t.received # Whole(t.version))
        /\ Fail /\ UNCHANGED up
     \/ /\ f \in DOMAIN peer.transfers /\ missing # {} /\ t.retries < MaxFileRetries
        /\ peer' = [peer EXCEPT !.transfers[f].retries = @ + 1]
        /\ up' = IF link.up THEN Append(up, [type |-> "retry", gen |-> peer.gen, file |-> f, missing |-> missing])
                 ELSE up
        /\ UNCHANGED <<join, completed, disk>>
     \/ /\ f \in DOMAIN peer.transfers /\ t.received = Whole(t.version)
        /\ peer' = [peer EXCEPT !.transfers = [g \in DOMAIN @ \ {f} |-> @[g]]]
        /\ disk' = [disk EXCEPT ![f] = t.received]
        /\ completed' = [completed EXCEPT ![f] = t.received]
        /\ UNCHANGED <<join, up>>

\* Everything was received: reconcileSnapshot removes what is not of the project.
OnEnd ==
  /\ Mine("end") /\ Quiet
  /\ IF peer.ready /\ DOMAIN peer.transfers = {} /\ Finished = peer.files
     THEN /\ disk' = [f \in Files |-> IF f \in peer.files THEN disk[f] ELSE None]
          /\ join' = "joined"
          /\ UNCHANGED <<peer, completed>>
     ELSE Fail

\* The participant cancels, or nothing arrives for too long.
GiveUp ==
  /\ join = "running" /\ Fail
  /\ UNCHANGED <<hostSide, gens, queue, up, down, link, used, taken>>

HostStep ==
  \/ (\E f \in Files : Edit(f)) \/ Retire \/ TakeRequest \/ Collect \/ SendStart \/ SendChunk
  \/ SendFileEnd \/ SendEnd \/ Break \/ Acknowledged \/ Resend
RouteStep == Cut \/ Reconnect \/ Replace \/ Departed \/ Lose
PeerStep ==
  \/ OnHello \/ OnRecovered \/ Stale \/ OnError \/ OnBegin \/ OnManifest \/ OnManifestEnd
  \/ OnCheckpoint \/ OnStart \/ OnChunk \/ OnFileEnd \/ OnEnd \/ GiveUp
Next == HostStep \/ RouteStep \/ PeerStep
Spec == Init /\ [][Next]_vars

-----------------------------------------------------------------------------
Versions == 0 .. MaxEdits + 1
Contents == {None} \cup {Whole(v) : v \in Versions}
Received == UNION {[indices -> Versions] : indices \in SUBSET Index}
Transfer == [version : Versions, received : Received, retries : Nat]
Requests == [gen : Nat, completed : [Files -> Contents]]
Answers == [type : {"ack"}, gen : Nat, check : Nat]
             \cup [type : {"retry"}, gen : Nat, file : Files, missing : SUBSET Index]
Frames ==
  [type : {"hello", "recovered", "manifestEnd", "end", "error"}, gen : Nat]
    \cup [type : {"checkpoint"}, gen : Nat, check : Nat]
    \cup [type : {"begin"}, gen : Nat, total : Nat, transfer : Nat, declared : Nat]
    \cup [type : {"manifest"}, gen : Nat, files : SUBSET Files, resumed : SUBSET Files]
    \cup [type : {"start"}, gen : Nat, file : Files, version : Versions]
    \cup [type : {"chunk"}, gen : Nat, file : Files, index : Index, version : Versions]
    \cup [type : {"fileEnd"}, gen : Nat, file : Files]
Jobs ==
  [st : {"idle", "collecting", "sending", "waiting"}, gen : Nat, has : [Files -> Contents],
   files : [Files -> Versions], todo : SUBSET Files, file : Files \cup {0}, open : Versions,
   chunk : Nat \ {0}, intact : BOOLEAN, frames : Nat, check : Nat]
Peers(transfers) ==
  [gen : Nat, begun : BOOLEAN, total : Nat, transfer : Nat, declared : Nat, files : SUBSET Files,
   resumed : SUBSET Files, ready : BOOLEAN, started : SUBSET Files, transfers : {transfers}]

(* Types of the state.                                                      *)
TypeOK ==
  /\ project \in [Files -> Versions] /\ isHost \in BOOLEAN /\ active \in Nat
  /\ job \in Jobs /\ remembered \subseteq [gen : Nat, file : Files, version : Versions]
  /\ queue \in Seq(Requests) /\ up \in Seq(Answers) /\ down \in Seq(Frames)
  /\ link \in [up : BOOLEAN, asked : BOOLEAN]
  /\ join \in {"running", "joined", "failed"} /\ gens \in Nat
  /\ peer \in Peers(peer.transfers)
  /\ peer.transfers \in [DOMAIN peer.transfers -> Transfer] /\ DOMAIN peer.transfers \subseteq Files
  /\ completed \in [Files -> Contents] /\ disk \in [Files -> Contents]
  /\ used \in [edits : Nat, lost : Nat, cuts : Nat]
  /\ taken \in [DOMAIN taken -> [Files -> Versions]] /\ DOMAIN taken \subseteq 1 .. gens

(* A participant that joined has the project exactly as the host collected  *)
(* it for its last request: every file, nothing else, and none of an earlier *)
(* attempt (snapshotEnd of bootstrap.ts).                                   *)
JoinedIsWhole ==
  join = "joined" =>
    /\ peer.gen \in DOMAIN taken
    /\ \A f \in Files : disk[f] = IF taken[peer.gen][f] = 0 THEN None ELSE Whole(taken[peer.gen][f])

(* Whatever is lost or changes on the way, each file in the folder is one   *)
(* version of it as a whole, and what a next request resumes with is there.  *)
FilesAreWhole ==
  \A f \in Files :
    /\ disk[f] # None => \E v \in Versions : disk[f] = Whole(v)
    /\ join # "joined" /\ completed[f] # None => disk[f] = completed[f]

-----------------------------------------------------------------------------
(* Why a participant that joined has the project: what is true of a         *)
(* generation on every part of its way.                                     *)

\* Every request is a generation of its own, and none is collected twice.
GenerationsInv ==
  /\ \A i, j \in 1 .. Len(queue) : i < j => queue[i].gen < queue[j].gen
  /\ \A i \in 1 .. Len(queue) :
       queue[i].gen \in 1 .. gens /\ \A g \in DOMAIN taken \cup {job.gen} : g < queue[i].gen
  /\ {job.gen, peer.gen} \subseteq 0 .. gens
  /\ job.st = "collecting" => job.gen \notin DOMAIN taken \cup {0}
  /\ job.st \in {"sending", "waiting"} => job.gen \in DOMAIN taken /\ job.files = taken[job.gen]

\* The participant still has what it named when it asked for this generation.
Asking(g) == g = peer.gen /\ ~peer.ready
RequestsInv ==
  /\ \A i \in 1 .. Len(queue) : Asking(queue[i].gen) => queue[i].completed = completed
  /\ job.st = "collecting" /\ Asking(job.gen) => job.has = completed

\* A frame says what was collected, and leaves out only what is there already.
Has(g, files) == \A f \in files : completed[f] = Whole(taken[g][f])
Honest(m) ==
  /\ m.type \in {"begin", "manifest", "start"} => m.gen \in DOMAIN taken
  /\ m.type = "begin" => m.total = Cardinality(Existing(taken[m.gen]))
  /\ m.type = "manifest" => /\ m.files = Existing(taken[m.gen])
                            /\ Asking(m.gen) => Has(m.gen, m.resumed)
  /\ m.type = "start" => m.version = taken[m.gen][m.file]
FramesInv == \A i \in 1 .. Len(down) : Honest(down[i])

\* The participant knows the files of this generation and has none but of it.
PeerInv ==
  /\ ~peer.begun => peer.files = {} /\ peer.resumed = {} /\ ~peer.ready
  /\ peer.begun => /\ peer.gen \in DOMAIN taken
                   /\ peer.total = Cardinality(Existing(taken[peer.gen]))
                   /\ peer.files \subseteq Existing(taken[peer.gen])
  /\ ~peer.ready => DOMAIN peer.transfers = {} /\ Has(peer.gen, peer.resumed)
  /\ peer.ready => /\ peer.files = Existing(taken[peer.gen]) /\ Has(peer.gen, Finished)
                   /\ \A f \in DOMAIN peer.transfers : peer.transfers[f].version = taken[peer.gen][f]

SnapshotInv ==
  /\ TypeOK /\ GenerationsInv /\ RequestsInv /\ FramesInv /\ PeerInv
  /\ FilesAreWhole /\ JoinedIsWhole
=============================================================================
