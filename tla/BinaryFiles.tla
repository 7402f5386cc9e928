----------------------------- MODULE BinaryFiles -----------------------------
(***************************************************************************)
(* One binary file of a session (src/runtime/session.ts): a save is        *)
(* streamed to everybody in chunks, a transfer is published only when it   *)
(* is complete and its hash is right, versions decide who has the newest   *)
(* content, and acknowledgements say who need not be sent it again.        *)
(* A content is the sequence of its two chunks and is its own hash.        *)
(***************************************************************************)
EXTENDS Naturals, Sequences, FiniteSets, Functions

CONSTANTS
  Peers,       \* participants: numbers from 1; 1 is the Session Host
  Writers,     \* those whose user saves the file
  MaxWrites,   \* bound: saves
  MaxJobs,     \* bound: streams of one participant at a time
  MaxStreams,  \* bound: streams before the last change that is noticed
  MaxCuts,     \* bound: routes that break
  MaxStops,    \* bound: runtimes that stop and start again
  MaxDrops,    \* bound: frames refused by a full inbound queue
  Calm         \* TRUE: a save comes when the last one has been sent, and a
               \* route comes back after the streams it broke have ended

VARIABLES
  local,  \* what each participant keeps
  net,    \* frames on their way, for every ordered pair of participants
  up,     \* the pairs of participants with a route
  bound   \* saves, cuts, stops, drops and transfer identifiers so far

vars == <<local, net, up, bound>>

Content(c) == <<c, c>>
NoVersion  == [n |-> 0, by |-> 0, hash |-> <<>>]
Idle       == [from |-> 0]   \* no publication under way

Pairs == {pq \in Peers \X Peers : pq[1] # pq[2]}
Joined(p, q) == {p, q} \in up
Others(p) == {q \in Peers \ {p} : Joined(p, q)}

(* mutant of Older: the number of the version alone decides                 *)
OlderNumber(a, b) == a.n < b.n

(* compareBinaryVersion; contents are numbered in the order of their hash.  *)
Older(a, b) ==
  \/ a.n < b.n
  \/ a.n = b.n /\ a.by < b.by
  \/ a.n = b.n /\ a.by = b.by /\ a.hash # b.hash /\ (a.hash = <<>> \/ (b.hash # <<>> /\ a.hash[1] < b.hash[1]))

-----------------------------------------------------------------------------
(* Frames sent by p in one step, [to, f] each, behind what is on its way.   *)
Sent(p, out, rest) ==
  [pq \in Pairs |->
     LET mine == SelectSeq(out, LAMBDA o : o.to = pq[2])
     IN IF pq[1] = p /\ Joined(p, pq[2]) THEN rest[pq] \o [i \in DOMAIN mine |-> mine[i].f]
        ELSE rest[pq]]

(* The same frame for every participant of S.                               *)
ToAll(S, f) ==
  LET toAll[T \in SUBSET S] == IF T = {} THEN <<>>
        ELSE LET q == CHOOSE q \in T : TRUE IN Append(toAll[T \ {q}], [to |-> q, f |-> f])
  IN toAll[S]

Start(job)     == [type |-> "start", id |-> job.id, v |-> job.v]
Chunk(id, i, c) == [type |-> "chunk", id |-> id, i |-> i, c |-> c]
End(id)        == [type |-> "end", id |-> id]
Abort(id)      == [type |-> "abort", id |-> id]
State(v)       == [type |-> "state", v |-> v]
Wanted(v)      == [type |-> "wanted", v |-> v]
Ack(v)         == [type |-> "ack", v |-> v]

Commit(p, L, out, rest) ==
  /\ local' = [local EXCEPT ![p] = L]
  /\ net' = Sent(p, out, rest)
  /\ UNCHANGED up

(* The file is replaced by a rename: a stream that is open goes on reading  *)
(* what it had opened.                                                      *)
Replace(L, content) ==
  [L EXCEPT !.disk = content, !.event = TRUE,
            !.jobs = {IF j.read # <<>> /\ j.file = <<>> THEN [j EXCEPT !.file = L.disk] ELSE j : j \in @}]

-----------------------------------------------------------------------------
First == [n |-> 1, by |-> 1, hash |-> Content(0)]
Init ==
  /\ local = [p \in Peers |->
       [disk |-> Content(0), ver |-> First, saved |-> First,
        event |-> FALSE,     \* a watcher event is pending
        jobs |-> {},         \* broadcastBinary and synchronizeBinaryVersion
        in |-> {},           \* binaryTransfers
        landing |-> Idle,    \* the transfer finishBinary is publishing
        acked |-> [q \in Peers |-> NoVersion],  \* binaryAcknowledgements
        waits |-> {}]]       \* binarySyncs that wait for an acknowledgement
  /\ net = [pq \in Pairs |-> <<>>]
  /\ up = {{pq[1], pq[2]} : pq \in Pairs}
  /\ bound = [writes |-> 0, cuts |-> 0, stops |-> 0, drops |-> 0, ids |-> 0]

Still(p) == local[p].jobs = {} /\ local[p].landing = Idle /\ ~local[p].event
Quiet == (\A p \in Peers : Still(p)) /\ \A pq \in Pairs : net[pq] = <<>>

(* The user's program rewrites the file in place.                           *)
Save(p) ==
  /\ p \in Writers /\ bound.writes < MaxWrites
  /\ Calm => Quiet
  /\ bound' = [bound EXCEPT !.writes = @ + 1]
  /\ Commit(p, [local[p] EXCEPT !.disk = Content(bound.writes + 1), !.event = TRUE], <<>>, net)

(* A job for participant to, or for everybody connected: to = 0.            *)
NewJob(kind, to, v, try) ==
  [kind |-> kind, to |-> to, id |-> bound.ids + 1, v |-> v, try |-> try, read |-> <<>>, file |-> <<>>]

(* broadcastBinary, from the hash of the file to the first frame; nothing   *)
(* when the file is what the version says.                                  *)
Broadcast(p, L, out, rest, try) ==
  LET v == [n |-> L.ver.n + 1, by |-> p, hash |-> L.disk]
      job == NewJob("cast", 0, v, try)
  IN IF L.ver.hash = L.disk THEN Commit(p, L, out, rest) /\ UNCHANGED bound
     ELSE /\ Commit(p, [L EXCEPT !.jobs = @ \cup {job}], out \o ToAll(Others(p), Start(job)), rest)
          /\ bound' = [bound EXCEPT !.ids = @ + 1]

(* onLocalFile of a binary file.                                            *)
Notice(p) ==
  /\ local[p].event /\ Cardinality(local[p].jobs) < MaxJobs /\ bound.ids < MaxStreams
  /\ Broadcast(p, [local[p] EXCEPT !.event = FALSE], <<>>, net, 1)

Receivers(p, j) == IF j.to = 0 THEN Others(p) ELSE {j.to}

(* streamFileChunks opens the file and sends its first chunk.               *)
ReadFirst(p, j) ==
  /\ j \in local[p].jobs /\ j.read = <<>>
  /\ Commit(p, [local[p] EXCEPT !.jobs = (@ \ {j}) \cup {[j EXCEPT !.read = <<local[p].disk[1]>>]}],
            ToAll(Receivers(p, j), Chunk(j.id, 1, local[p].disk[1])), net)
  /\ UNCHANGED bound

Opened(p, j) == IF j.file = <<>> THEN local[p].disk ELSE j.file

ReadSecond(p, j) ==
  /\ j \in local[p].jobs /\ Len(j.read) = 1
  /\ Commit(p, [local[p] EXCEPT !.jobs = (@ \ {j}) \cup {[j EXCEPT !.read = Append(@, Opened(p, j)[2])]}],
            ToAll(Receivers(p, j), Chunk(j.id, 2, Opened(p, j)[2])), net)
  /\ UNCHANGED bound

Done(L, j) == [L EXCEPT !.jobs = @ \ {j}]

(* The host's copy to the shared folder is checked against the hash too.    *)
Unchanged(p, j) == j.read = j.v.hash /\ (p = 1 => local[p].disk = j.v.hash)

(* The end of broadcastBinary.                                              *)
CastDone(p, j) ==
  /\ j \in local[p].jobs /\ j.kind = "cast" /\ Len(j.read) = 2
  /\ Unchanged(p, j)
  /\ Commit(p, [Done(local[p], j) EXCEPT !.ver = j.v], ToAll(Receivers(p, j), End(j.id)), net)
  /\ UNCHANGED bound

(* The file changed while it was sent: three attempts.                      *)
CastChanged(p, j) ==
  /\ j \in local[p].jobs /\ j.kind = "cast" /\ Len(j.read) = 2
  /\ ~Unchanged(p, j)
  /\ IF j.try = 3 THEN Commit(p, Done(local[p], j), ToAll(Receivers(p, j), Abort(j.id)), net) /\ UNCHANGED bound
     ELSE Broadcast(p, Done(local[p], j), ToAll(Receivers(p, j), Abort(j.id)), net, j.try + 1)

(* persistDescriptor, after the last frame is sent.                         *)
Persist(p) ==
  /\ local[p].saved # local[p].ver
  /\ Commit(p, [local[p] EXCEPT !.saved = local[p].ver], <<>>, net) /\ UNCHANGED bound

(* synchronizeBinaryVersion: once for a participant and version.            *)
MaySynchronize(L, q, v) == L.acked[q] # v /\ <<q, v>> \notin L.waits /\ L.disk = v.hash

SyncDone(p, j) ==
  /\ j \in local[p].jobs /\ j.kind = "sync" /\ Len(j.read) = 2
  /\ IF j.read = j.v.hash THEN Commit(p, Done(local[p], j), <<[to |-> j.to, f |-> End(j.id)]>>, net)
     ELSE Commit(p, [Done(local[p], j) EXCEPT !.waits = @ \ {<<j.to, j.v>>}],
                 <<[to |-> j.to, f |-> Abort(j.id)]>>, net)
  /\ UNCHANGED bound

(* waitForBinaryAck gives up.                                               *)
AckTimeout(p, w) ==
  /\ w \in local[p].waits /\ \A j \in local[p].jobs : ~(j.to = w[1] /\ j.v = w[2])
  /\ net[<<p, w[1]>>] = <<>> /\ net[<<w[1], p>>] = <<>> /\ local[w[1]].landing = Idle
  /\ Commit(p, [local[p] EXCEPT !.waits = @ \ {w}], <<>>, net) /\ UNCHANGED bound

-----------------------------------------------------------------------------
(* beginBinaryTransfer: one transfer of a path for each sender.             *)
OnStart(p, q, f, rest) ==
  /\ Commit(p, IF \E t \in local[p].in : t.from = q THEN local[p]
               ELSE [local[p] EXCEPT !.in = @ \cup {[from |-> q, id |-> f.id, v |-> f.v, got |-> <<>>]}],
            <<>>, rest)
  /\ UNCHANGED bound

Transfer(p, q, id) == {t \in local[p].in : t.from = q /\ t.id = id}

(* acceptBinaryChunk *)
OnChunk(p, q, f, rest) ==
  /\ Commit(p, [local[p] EXCEPT !.in = {IF t.from = q /\ t.id = f.id
                 THEN [t EXCEPT !.got = [i \in DOMAIN @ \cup {f.i} |-> IF i = f.i THEN f.c ELSE @[i]]]
                 ELSE t : t \in @}], <<>>, rest)
  /\ UNCHANGED bound

OnAbort(p, q, f, rest) ==
  /\ Commit(p, [local[p] EXCEPT !.in = @ \ Transfer(p, q, f.id)], <<>>, rest)
  /\ UNCHANGED bound

(* Every chunk is there and the hash is the announced one.                  *)
IsWhole(t) == t.got = t.v.hash

(* finishBinary up to the comparison of versions.                           *)
OnEnd(p, q, f, rest) ==
  LET L == [local[p] EXCEPT !.in = @ \ Transfer(p, q, f.id)]
      whole == {t \in Transfer(p, q, f.id) : IsWhole(t)}
  IN /\ \/ whole = {} /\ Commit(p, L, <<>>, rest)
        \/ \E t \in whole :
             IF Older(t.v, L.ver) THEN Commit(p, L, <<[to |-> q, f |-> Ack(L.ver)]>>, rest)
             ELSE Commit(p, [L EXCEPT !.landing = [from |-> q, v |-> t.v, got |-> t.got, moved |-> FALSE]],
                         <<>>, rest)
     /\ UNCHANGED bound

(* finishBinary: the received file takes the place of the old one, ...      *)
Move(p) ==
  /\ local[p].landing # Idle /\ ~local[p].landing.moved
  /\ LET got == local[p].landing.got
     IN Commit(p, [Replace(local[p], [i \in 1 .. 2 |-> IF i \in DOMAIN got THEN got[i] ELSE 0])
                    EXCEPT !.landing.moved = TRUE], <<>>, net)
  /\ UNCHANGED bound

(* ... then its version is recorded and acknowledged.                       *)
Record(p) ==
  /\ local[p].landing # Idle /\ local[p].landing.moved
  /\ LET x == local[p].landing
     IN Commit(p, [local[p] EXCEPT !.ver = x.v, !.saved = x.v, !.landing = Idle],
               <<[to |-> x.from, f |-> Ack(x.v)]>>, net)
  /\ UNCHANGED bound

(* acceptBinaryAck: the exact answer, or a newer one, ends the wait.        *)
OnAck(p, q, f, rest) ==
  /\ Commit(p, [local[p] EXCEPT !.acked[q] = f.v,
                                !.waits = {w \in @ : w[1] # q \/ Older(f.v, w[2])}], <<>>, rest)
  /\ UNCHANGED bound

Synchronize(p, q, rest) ==
  LET L == local[p]
      job == NewJob("sync", q, L.ver, 1)
  IN IF MaySynchronize(L, q, L.ver)
     THEN /\ Commit(p, [L EXCEPT !.jobs = @ \cup {job}, !.waits = @ \cup {<<q, L.ver>>}],
                    ToAll({q}, Start(job)), rest)
          /\ bound' = [bound EXCEPT !.ids = @ + 1]
     ELSE Commit(p, L, <<>>, rest) /\ UNCHANGED bound

(* reconcileFilesystemState *)
OnState(p, q, f, rest) ==
  IF Older(local[p].ver, f.v)
  THEN Commit(p, local[p], <<[to |-> q, f |-> Wanted(f.v)]>>, rest) /\ UNCHANGED bound
  ELSE IF Older(f.v, local[p].ver) THEN Synchronize(p, q, rest)
  ELSE Commit(p, local[p], <<>>, rest) /\ UNCHANGED bound

(* binarySyncRequest *)
OnWanted(p, q, f, rest) ==
  IF ~Older(local[p].ver, f.v) THEN Synchronize(p, q, rest)
  ELSE Commit(p, local[p], <<[to |-> q, f |-> State(local[p].ver)]>>, rest) /\ UNCHANGED bound

(* Frames are handled one at a time.                                        *)
Deliver(p, q) ==
  LET f == Head(net[<<q, p>>])
      rest == [net EXCEPT ![<<q, p>>] = Tail(@)]
  IN /\ net[<<q, p>>] # <<>> /\ local[p].landing = Idle
     /\ CASE f.type = "start" -> OnStart(p, q, f, rest)
          [] f.type = "chunk" -> OnChunk(p, q, f, rest)
          [] f.type = "end" -> OnEnd(p, q, f, rest)
          [] f.type = "abort" -> OnAbort(p, q, f, rest)
          [] f.type = "ack" -> OnAck(p, q, f, rest)
          [] f.type = "state" -> OnState(p, q, f, rest)
          [] f.type = "wanted" -> OnWanted(p, q, f, rest)

(* enqueueIncomingMessage: the inbound work queue is full.                  *)
Drop(p, q) ==
  /\ net[<<q, p>>] # <<>> /\ bound.drops < MaxDrops
  /\ bound' = [bound EXCEPT !.drops = @ + 1]
  /\ net' = [net EXCEPT ![<<q, p>>] = Tail(@)]
  /\ UNCHANGED <<local, up>>

(* The idle timer of a transfer that gets nothing any more.                 *)
Expire(p, t) ==
  /\ t \in local[p].in
  /\ net[<<t.from, p>>] = <<>> /\ \A j \in local[t.from].jobs : j.id # t.id
  /\ Commit(p, [local[p] EXCEPT !.in = @ \ {t}], <<>>, net) /\ UNCHANGED bound

-----------------------------------------------------------------------------
(* peerDisconnected: acknowledgements of the other side are forgotten and   *)
(* waits for it end; a stream to it alone fails.                            *)
Lost(L, q) ==
  [L EXCEPT !.acked[q] = NoVersion, !.waits = {w \in @ : w[1] # q},
            !.jobs = {j \in @ : j.to # q}]

Cut(p, q) ==
  /\ p < q /\ Joined(p, q) /\ bound.cuts < MaxCuts
  /\ bound' = [bound EXCEPT !.cuts = @ + 1]
  /\ up' = up \ {{p, q}}
  /\ net' = [net EXCEPT ![<<p, q>>] = <<>>, ![<<q, p>>] = <<>>]
  /\ local' = [local EXCEPT ![p] = Lost(@, q), ![q] = Lost(@, p)]

(* peerConnected sends the state of the files both ways.                    *)
Reconnect(p, q) ==
  /\ p < q /\ ~Joined(p, q)
  /\ Calm => local[p].in = {} /\ local[q].in = {} /\ Still(p) /\ Still(q)
  /\ up' = up \cup {{p, q}}
  /\ net' = [net EXCEPT ![<<p, q>>] = <<State(local[p].ver)>>, ![<<q, p>>] = <<State(local[q].ver)>>]
  /\ UNCHANGED <<local, bound>>

(* indexBinaryFiles compares the file with the version that was saved.      *)
Indexed(p) ==
  IF local[p].saved.hash = local[p].disk THEN local[p].saved
  ELSE [n |-> local[p].saved.n + 1, by |-> p, hash |-> local[p].disk]

(* The runtime of p stops at any point and starts again: its routes are     *)
(* gone and what it was receiving is aborted.                               *)
Restart(p) ==
  /\ bound.stops < MaxStops
  /\ bound' = [bound EXCEPT !.stops = @ + 1]
  /\ up' = {pair \in up : p \notin pair}
  /\ net' = [pq \in Pairs |-> IF p \in {pq[1], pq[2]} THEN <<>> ELSE net[pq]]
  /\ local' = [q \in Peers |->
       IF q # p THEN Lost(local[q], p)
       ELSE [local[p] EXCEPT !.ver = Indexed(p), !.event = FALSE, !.jobs = {}, !.in = {},
                             !.landing = Idle, !.acked = [x \in Peers |-> NoVersion], !.waits = {}]]

Streams(p) ==
  \E j \in local[p].jobs :
    \/ ReadFirst(p, j) \/ ReadSecond(p, j)
    \/ CastDone(p, j) \/ CastChanged(p, j) \/ SyncDone(p, j)

Next ==
  \/ \E p \in Peers :
       \/ Save(p) \/ Notice(p) \/ Streams(p) \/ Persist(p) \/ Move(p) \/ Record(p) \/ Restart(p)
       \/ \E w \in local[p].waits : AckTimeout(p, w)
       \/ \E t \in local[p].in : Expire(p, t)
  \/ \E p, q \in Peers : p # q /\ (Deliver(p, q) \/ Drop(p, q) \/ Cut(p, q) \/ Reconnect(p, q))

Spec == Init /\ [][Next]_vars

-----------------------------------------------------------------------------
(* Whatever is lost on the way, a file on a disk is a file someone saved.   *)
WholeFiles ==
  \A p \in Peers : local[p].disk \in {Content(c) : c \in 0 .. bound.writes}

(* When all is sent and everybody is connected, everybody has the content   *)
(* of the newest version.                                                   *)
BinariesAgree ==
  Quiet /\ (\A pq \in Pairs : Joined(pq[1], pq[2])) =>
    \A p, q \in Peers : local[p].disk = local[q].disk /\ local[p].ver.hash = local[p].disk
=============================================================================
