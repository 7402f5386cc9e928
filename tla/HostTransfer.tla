---------------------------- MODULE HostTransfer ----------------------------
(***************************************************************************)
(* Host authority of one Pair Notebook session: the host clock every       *)
(* runtime keeps (SessionCoordinator), the prepare / commit / announce /   *)
(* finalize transfer, the pause until the new host has chosen a folder,    *)
(* setBackingFolder, the session-end fence, and the routes between the     *)
(* runtimes.  sessionEpoch never changes within a session and is left out. *)
(* A frame travels on the route of its ordered pair of peers, in order,    *)
(* and losing the route loses every frame on it; on an emergency relay a   *)
(* frame may also overtake others or get lost alone.                       *)
(***************************************************************************)
EXTENDS Integers, Sequences, FiniteSets

CONSTANTS
  Peers,           \* peer identities; localeCompare orders them as numbers do
  Host0,           \* the host that created the session
  Slots,           \* transferHost calls one runtime may run at once
  MaxTransfers,    \* bound: transferHost calls
  MaxLosses,       \* bound: spontaneous route losses
  MaxRelayFaults,  \* bound: frames a relay reorders or loses
  MaxFolderCalls,  \* bound: setBackingFolder calls
  MaxEnds,         \* bound: endSession calls
  MaxLeaves,       \* bound: runtimes that leave or crash
  DiskFails        \* whether descriptor, flush and folder I/O may fail

ASSUME PeersAssumption == Peers \subseteq Nat /\ Host0 \in Peers
ASSUME BoundsAssumption ==
  /\ {MaxTransfers, MaxLosses, MaxRelayFaults, MaxFolderCalls, MaxEnds, MaxLeaves} \subseteq Nat
  /\ DiskFails \in BOOLEAN

VARIABLES
  clock,     \* coordinator.clock
  waiting,   \* waitingForHostFolder
  folder,    \* descriptor.backingFolder is set
  root,      \* storage.backingRoot is set: flushes reach the shared folder
  ending,    \* endingSession
  closed,    \* the runtime is disposed
  transfer,  \* the transferHost calls under way
  change,    \* the setBackingFolder call under way (changingBackingFolder)
  endCall,   \* the endSession call under way
  prepared,  \* preparedHostTransfers
  net,       \* frames in flight, per ordered pair of peers
  up,        \* pairs of peers with a route
  used,      \* how much of each bound is spent, and how many commits went astray
  lineage    \* history: lineage[e + 1] is the host of epoch e; no action reads it

roleVars == <<clock, waiting, folder, root, lineage>>
callVars == <<transfer, change, endCall>>
vars == <<roleVars, ending, closed, callVars, prepared, net, up, used>>

-----------------------------------------------------------------------------
Clocks == [epoch : Nat, host : Peers]

Older(a, b) == a.epoch < b.epoch \/ (a.epoch = b.epoch /\ a.host < b.host)

MsgTypes == {"prepare", "ready", "commit", "ack", "announce", "finalize",
             "heartbeat", "storageReady", "directory",
             "ending", "endingAck", "endingCancelled", "ended"}

Messages == [type : MsgTypes, clk : Clocks, id : Nat, next : Clocks, ready : BOOLEAN]

\* Mutant: acknowledgements pass the stale-clock filter, too.
AgnosticWithAck == {"finalize", "directory", "ack"}

\* Frames the stale-clock filter of onMessage lets through, and peerDirectory,
\* which the transport handles before it.
Agnostic == {"finalize", "directory"}

IsHost(p) == clock[p].host = p /\ ~closed[p]
Linked(p, q) == p # q /\ {p, q} \in up
Others(p) == {q \in Peers : Linked(p, q)}

\* Every frame is stamped with the sender's clock at the moment it is created.
Frame(type, stamp) ==
  [type |-> type, clk |-> stamp, id |-> 0, next |-> stamp, ready |-> FALSE]
TransferFrame(type, stamp, id, next) ==
  [Frame(type, stamp) EXCEPT !.id = id, !.next = next]

Sent(n, p, q, m) == [n EXCEPT ![p][q] = IF Linked(p, q) THEN Append(@, m) ELSE @]
Broadcast(n, p, m) ==
  [n EXCEPT ![p] = [q \in Peers |-> IF Linked(p, q) THEN Append(n[p][q], m) ELSE n[p][q]]]
Rest(q, p) == [net EXCEPT ![q][p] = Tail(@)]

IdleTransfer == [phase |-> "idle", id |-> 0, next |-> [epoch |-> 0, host |-> Host0], after |-> "paused"]
IdleChange == [phase |-> "idle", at |-> [epoch |-> 0, host |-> Host0], prev |-> FALSE]
IdleEnd == [phase |-> "idle", id |-> 0, waitingFor |-> {}]

Spend(what) == used' = [used EXCEPT ![what] = @ + 1]

Init ==
  /\ clock = [p \in Peers |-> [epoch |-> 0, host |-> Host0]]
  /\ lineage = <<Host0>>
  /\ \E ready \in BOOLEAN :
       /\ waiting = [p \in Peers |-> p = Host0 /\ ~ready]
       /\ folder = [p \in Peers |-> ready /\ p = Host0]
       /\ root = [p \in Peers |-> ready /\ p = Host0]
  /\ ending = [p \in Peers |-> FALSE]
  /\ closed = [p \in Peers |-> FALSE]
  /\ transfer = [p \in Peers |-> [s \in Slots |-> IdleTransfer]]
  /\ change = [p \in Peers |-> IdleChange]
  /\ endCall = [p \in Peers |-> IdleEnd]
  /\ prepared = [p \in Peers |-> {}]
  /\ net = [p \in Peers |-> [q \in Peers |-> <<>>]]
  /\ up = {pair \in SUBSET Peers : Cardinality(pair) = 2}
  /\ used = [transfers |-> 0, losses |-> 0, faults |-> 0, folders |-> 0, ends |-> 0, leaves |-> 0,
             strays |-> 0]

-----------------------------------------------------------------------------
(* Clock changes: SessionCoordinator.applyAnnouncement and onHostChanged.  *)

\* Mutant: a runtime takes its own word for any newer clock.
AcceptsOwn(p, c, announcer) == announcer \in {clock[p].host, p} /\ Older(clock[p], c)

Accepts(p, c, announcer) ==
  announcer = clock[p].host /\ c.epoch = clock[p].epoch + 1 /\ Older(clock[p], c)

\* Mutant: the storage root survives the change of host.
HostChangedKeepsRoot(p, c) ==
  /\ clock' = [clock EXCEPT ![p] = c]
  /\ folder' = [folder EXCEPT ![p] = FALSE]
  /\ waiting' = [waiting EXCEPT ![p] = TRUE]
  /\ UNCHANGED root

\* onHostChanged up to its first await, after an accepted clock c: the storage
\* root and the folder do not survive, and the session pauses.
HostChanged(p, c) ==
  /\ clock' = [clock EXCEPT ![p] = c]
  /\ root' = [root EXCEPT ![p] = FALSE]
  /\ folder' = [folder EXCEPT ![p] = FALSE]
  /\ waiting' = [waiting EXCEPT ![p] = TRUE]

\* disposeAsync: the pending calls are rejected and the routes go away.
Gone(n, p) == [q \in Peers |-> [r \in Peers |-> IF p \in {q, r} THEN <<>> ELSE n[q][r]]]
Dispose(p) ==
  /\ closed' = [closed EXCEPT ![p] = TRUE]
  /\ root' = [root EXCEPT ![p] = FALSE]
  /\ transfer' = [transfer EXCEPT ![p] = [s \in Slots |-> IdleTransfer]]
  /\ change' = [change EXCEPT ![p] = IdleChange]
  /\ endCall' = [endCall EXCEPT ![p] = IdleEnd]
  /\ prepared' = [prepared EXCEPT ![p] = {}]
  /\ net' = Gone(net, p)
  /\ up' = {pair \in up : p \notin pair}

-----------------------------------------------------------------------------
(* transferHost: four stretches between its awaits.                        *)

TransferStart(p, s, q) ==
  /\ IsHost(p) /\ ~ending[p] /\ change[p].phase = "idle"
  /\ Linked(p, q)
  /\ transfer[p][s].phase = "idle"
  /\ used.transfers < MaxTransfers
  /\ LET id == used.transfers + 1
         next == [epoch |-> clock[p].epoch + 1, host |-> q]
     IN /\ transfer' = [transfer EXCEPT ![p][s] =
                          [phase |-> "prepare", id |-> id, next |-> next, after |-> "paused"]]
        /\ net' = Sent(net, p, q, TransferFrame("prepare", clock[p], id, next))
  /\ Spend("transfers")
  /\ UNCHANGED <<roleVars, ending, closed, change, endCall, prepared, up>>

\* Mutant: the root is given up with the commit, before its acknowledgement.
TransferFlushedEarly(p, s) ==
  LET t == transfer[p][s] IN
  /\ ~closed[p] /\ t.phase = "flush" /\ Linked(p, t.next.host)
  /\ root' = [root EXCEPT ![p] = FALSE]
  /\ transfer' = [transfer EXCEPT ![p][s].phase = "commit"]
  /\ net' = Sent(net, p, t.next.host, TransferFrame("commit", clock[p], t.id, t.next))
  /\ UNCHANGED <<clock, waiting, folder, lineage, ending, closed, change, endCall, prepared, up, used>>

\* prepareWorkingCopy and flush are done; the authority is not checked again.
TransferFlushed(p, s) ==
  LET t == transfer[p][s] IN
  /\ ~closed[p] /\ t.phase = "flush" /\ Linked(p, t.next.host)
  /\ transfer' = [transfer EXCEPT ![p][s].phase = "commit"]
  /\ net' = Sent(net, p, t.next.host, TransferFrame("commit", clock[p], t.id, t.next))
  /\ UNCHANGED <<roleVars, ending, closed, change, endCall, prepared, up, used>>

\* Mutant: a failed call is left behind in a phase of its own.
TransferFailsStuck(p, s) ==
  /\ ~closed[p] /\ transfer[p][s].phase \in {"prepare", "flush", "commit"}
  /\ transfer' = [transfer EXCEPT ![p][s].phase = "failed"]
  /\ UNCHANGED <<roleVars, ending, closed, change, endCall, prepared, net, up, used>>

\* A five-second wait runs out, the flush fails, or sendTo finds no route.
TransferFails(p, s) ==
  LET t == transfer[p][s] IN
  /\ ~closed[p]
  /\ \/ t.phase \in {"prepare", "commit"}
     \/ t.phase = "flush" /\ (DiskFails \/ ~Linked(p, t.next.host))
  /\ transfer' = [transfer EXCEPT ![p][s] = IdleTransfer]
  /\ UNCHANGED <<roleVars, ending, closed, change, endCall, prepared, net, up, used>>

\* The target acknowledged the commit: disable the storage root, apply the new
\* clock (the result of applyAnnouncement is not looked at), enter onHostChanged.
\* A commit that no longer follows the clock goes astray.
TransferCommitted(p, s) ==
  LET t == transfer[p][s]
      after == IF waiting[p] THEN "paused" ELSE IF IsHost(p) THEN "host" ELSE "guest"
  IN IF Accepts(p, t.next, p)
     THEN /\ HostChanged(p, t.next)
          /\ lineage' = Append(lineage, t.next.host)
          /\ transfer' = [transfer EXCEPT ![p][s].phase = "publish"]
          /\ UNCHANGED used
     ELSE /\ root' = [root EXCEPT ![p] = FALSE]
          /\ folder' = [folder EXCEPT ![p] = @ /\ IsHost(p)]
          /\ transfer' = [transfer EXCEPT ![p][s].phase = "publish", ![p][s].after = after]
          /\ Spend("strays")
          /\ UNCHANGED <<clock, waiting, lineage>>

\* Mutant: only the target is told.
TransferPublishSilent(p, s) ==
  LET t == transfer[p][s] IN
  /\ ~closed[p] /\ t.phase = "publish"
  /\ root' = [root EXCEPT ![p] = IF t.after = "paused" THEN @ ELSE t.after = "host" /\ folder[p]]
  /\ net' = Sent(net, p, t.next.host, TransferFrame("finalize", clock[p], t.id, t.next))
  /\ transfer' = [transfer EXCEPT ![p][s] = IdleTransfer]
  /\ UNCHANGED <<clock, waiting, folder, lineage, ending, closed, change, endCall, prepared, up, used>>

\* onHostChanged is through its I/O: announce to everybody connected now, and
\* finalize with the target.
TransferPublish(p, s) ==
  LET t == transfer[p][s] IN
  /\ ~closed[p] /\ t.phase = "publish"
  /\ root' = [root EXCEPT ![p] = IF t.after = "paused" THEN @ ELSE t.after = "host" /\ folder[p]]
  /\ net' = Sent(Broadcast(net, p, Frame("announce", clock[p])), p, t.next.host,
                 TransferFrame("finalize", clock[p], t.id, t.next))
  /\ transfer' = [transfer EXCEPT ![p][s] = IdleTransfer]
  /\ UNCHANGED <<clock, waiting, folder, lineage, ending, closed, change, endCall, prepared, up, used>>

\* persistDescriptor rejects inside onHostChanged: transferHost throws there.
TransferPublishFails(p, s) ==
  /\ ~closed[p] /\ transfer[p][s].phase = "publish" /\ DiskFails
  /\ transfer' = [transfer EXCEPT ![p][s] = IdleTransfer]
  /\ UNCHANGED <<roleVars, ending, closed, change, endCall, prepared, net, up, used>>

PreparedExpires(p) ==
  /\ \E e \in prepared[p] : prepared' = [prepared EXCEPT ![p] = @ \ {e}]
  /\ UNCHANGED <<roleVars, ending, closed, callVars, net, up, used>>

-----------------------------------------------------------------------------
(* onMessage: the frame at the head of the route from q to p.              *)

Consume(q, p) == net' = Rest(q, p)
Reply(q, p, m) == net' = Sent(Rest(q, p), p, q, m)

\* The transport stamps frames with the sender's clock; a host announcement
\* carries the new clock in that stamp.
OnAnnounce(q, p, m) ==
  /\ m.type = "announce"
  /\ Consume(q, p)
  /\ IF q = clock[p].host
     THEN /\ prepared' = [prepared EXCEPT ![p] = {e \in @ : ~(e.from = q /\ e.next = m.clk)}]
          /\ IF Accepts(p, m.clk, q) THEN HostChanged(p, m.clk)
             ELSE UNCHANGED <<clock, waiting, folder, root>>
     ELSE UNCHANGED <<clock, waiting, folder, root, prepared>>
  /\ UNCHANGED <<lineage, ending, closed, callVars, up, used>>

OnPrepare(q, p, m) ==
  /\ m.type = "prepare"
  /\ IF q = clock[p].host /\ m.next.host = p /\ m.next.epoch = clock[p].epoch + 1
     THEN /\ prepared' = [prepared EXCEPT ![p] = @ \cup {[id |-> m.id, from |-> q, next |-> m.next]}]
          /\ Reply(q, p, TransferFrame("ready", clock[p], m.id, m.next))
     ELSE UNCHANGED prepared /\ Consume(q, p)
  /\ UNCHANGED <<roleVars, ending, closed, callVars, up, used>>

\* Mutant: the target takes over with the commit instead of the finalize.
OnCommitTakesOver(q, p, m) ==
  /\ m.type = "commit"
  /\ IF [id |-> m.id, from |-> q, next |-> m.next] \in prepared[p]
     THEN HostChanged(p, m.next) /\ Reply(q, p, TransferFrame("ack", clock[p], m.id, m.next))
     ELSE Consume(q, p) /\ UNCHANGED <<clock, waiting, folder, root>>
  /\ UNCHANGED <<lineage, ending, closed, callVars, prepared, up, used>>

\* The commit looks at the prepared entry only, not at the receiver's clock.
OnCommit(q, p, m) ==
  /\ m.type = "commit"
  /\ IF [id |-> m.id, from |-> q, next |-> m.next] \in prepared[p]
     THEN Reply(q, p, TransferFrame("ack", clock[p], m.id, m.next))
     ELSE Consume(q, p)
  /\ UNCHANGED <<roleVars, ending, closed, callVars, prepared, up, used>>

\* resolveHostTransfer: either reply settles whichever wait holds the id.
Awaiting(p, s, q, m) ==
  /\ transfer[p][s].phase \in {"prepare", "commit"}
  /\ transfer[p][s].id = m.id /\ transfer[p][s].next = m.next /\ m.next.host = q

OnTransferReply(q, p, m) ==
  /\ m.type \in {"ready", "ack"}
  /\ Consume(q, p)
  /\ \/ \E s \in Slots :
          /\ Awaiting(p, s, q, m)
          /\ \/ /\ transfer[p][s].phase = "prepare"
                /\ transfer' = [transfer EXCEPT ![p][s].phase = "flush"]
                /\ UNCHANGED <<roleVars, used>>
             \/ transfer[p][s].phase = "commit" /\ TransferCommitted(p, s)
     \/ /\ \A s \in Slots : ~Awaiting(p, s, q, m)
        /\ UNCHANGED <<roleVars, transfer, used>>
  /\ UNCHANGED <<ending, closed, change, endCall, prepared, up>>

OnFinalize(q, p, m) ==
  LET e == [id |-> m.id, from |-> q, next |-> m.next] IN
  /\ m.type = "finalize"
  /\ Consume(q, p)
  /\ prepared' = [prepared EXCEPT ![p] = @ \ {e}]
  /\ IF e \in prepared[p] /\ Accepts(p, m.next, q) THEN HostChanged(p, m.next)
     ELSE UNCHANGED <<clock, waiting, folder, root>>
  /\ UNCHANGED <<lineage, ending, closed, callVars, up, used>>

\* onHostStorageReady
StorageReady(p) ==
  IF waiting[p] /\ (IsHost(p) => folder[p])
  THEN /\ waiting' = [waiting EXCEPT ![p] = FALSE]
       /\ root' = [root EXCEPT ![p] = IsHost(p) /\ folder[p]]
  ELSE UNCHANGED <<waiting, root>>

\* Mutant: a heartbeat resumes the session without looking at its ready flag.
OnStorageNewsAlways(q, p, m) ==
  /\ m.type \in {"heartbeat", "storageReady"}
  /\ Consume(q, p)
  /\ IF q = clock[p].host /\ m.clk = clock[p] THEN StorageReady(p) ELSE UNCHANGED <<waiting, root>>
  /\ UNCHANGED <<clock, folder, lineage, ending, closed, callVars, prepared, up, used>>

OnStorageNews(q, p, m) ==
  /\ m.type \in {"heartbeat", "storageReady"}
  /\ Consume(q, p)
  /\ IF q = clock[p].host /\ m.clk = clock[p]
     THEN IF m.type = "storageReady" \/ m.ready THEN StorageReady(p)
          ELSE waiting' = [waiting EXCEPT ![p] = TRUE] /\ UNCHANGED root
     ELSE UNCHANGED <<waiting, root>>
  /\ UNCHANGED <<clock, folder, lineage, ending, closed, callVars, prepared, up, used>>

\* A directory from anyone but the host this peer trusts drops the route,
\* unless its publisher is a host that has since handed over.
StaleDirectory(q, p, m) == m.clk.epoch < clock[p].epoch /\ m.clk.host = q
OnDirectory(q, p, m) ==
  /\ m.type = "directory"
  /\ IF q = clock[p].host \/ StaleDirectory(q, p, m)
     THEN Consume(q, p) /\ UNCHANGED up
     ELSE /\ up' = up \ {{p, q}}
          /\ net' = [net EXCEPT ![q][p] = <<>>, ![p][q] = <<>>]
  /\ UNCHANGED <<roleVars, ending, closed, callVars, prepared, used>>

OnEnding(q, p, m) ==
  /\ m.type = "ending"
  /\ IF q = clock[p].host
     THEN /\ ending' = [ending EXCEPT ![p] = TRUE]
          /\ Reply(q, p, [Frame("endingAck", clock[p]) EXCEPT !.id = m.id])
     ELSE UNCHANGED ending /\ Consume(q, p)
  /\ UNCHANGED <<roleVars, closed, callVars, prepared, up, used>>

\* acknowledgeSessionEndFence
OnEndingAck(q, p, m) ==
  /\ m.type = "endingAck"
  /\ Consume(q, p)
  /\ LET call == endCall[p]
         rest == call.waitingFor \ {q}
     IN IF IsHost(p) /\ call.phase = "fence" /\ call.id = m.id /\ q \in call.waitingFor
        THEN endCall' = [endCall EXCEPT ![p].waitingFor = rest,
                                        ![p].phase = IF rest = {} THEN "save" ELSE @]
        ELSE UNCHANGED endCall
  /\ UNCHANGED <<roleVars, ending, closed, transfer, change, prepared, up, used>>

OnEndingCancelled(q, p, m) ==
  /\ m.type = "endingCancelled"
  /\ Consume(q, p)
  /\ ending' = [ending EXCEPT ![p] = IF q = clock[p].host THEN FALSE ELSE @]
  /\ UNCHANGED <<roleVars, closed, callVars, prepared, up, used>>

OnEnded(q, p, m) ==
  /\ m.type = "ended"
  /\ IF q = clock[p].host
     THEN Dispose(p) /\ UNCHANGED <<clock, waiting, folder, lineage, ending, used>>
     ELSE Consume(q, p) /\ UNCHANGED <<roleVars, ending, closed, callVars, prepared, up, used>>

Receive(q, p) ==
  /\ net[q][p] # <<>> /\ ~closed[p]
  /\ LET m == Head(net[q][p]) IN
     IF Older(m.clk, clock[p]) /\ m.type \notin Agnostic
     THEN Consume(q, p) /\ UNCHANGED <<roleVars, ending, closed, callVars, prepared, up, used>>
     ELSE \/ OnAnnounce(q, p, m) \/ OnPrepare(q, p, m) \/ OnCommit(q, p, m)
          \/ OnTransferReply(q, p, m) \/ OnFinalize(q, p, m) \/ OnStorageNews(q, p, m)
          \/ OnDirectory(q, p, m) \/ OnEnding(q, p, m) \/ OnEndingAck(q, p, m)
          \/ OnEndingCancelled(q, p, m) \/ OnEnded(q, p, m)

-----------------------------------------------------------------------------
(* setBackingFolder: every stretch re-checks the authority it started with. *)

OwnsFolder(p) == ~closed[p] /\ IsHost(p) /\ clock[p] = change[p].at
HasAuthority(p) == OwnsFolder(p) /\ ~ending[p]

ChangePhase(p, phase) == change' = [change EXCEPT ![p].phase = phase]

FolderStart(p) ==
  /\ IsHost(p) /\ ~ending[p] /\ change[p].phase = "idle"
  /\ used.folders < MaxFolderCalls
  /\ change' = [change EXCEPT ![p] = [phase |-> "validate", at |-> clock[p], prev |-> folder[p]]]
  /\ Spend("folders")
  /\ UNCHANGED <<roleVars, ending, closed, transfer, endCall, prepared, net, up>>

\* 'replace' points the storage at the folder and then fills it;
\* 'reuse-existing' only looks at the folder first.
FolderValidated(p) ==
  /\ change[p].phase = "validate" /\ HasAuthority(p)
  /\ \/ ChangePhase(p, "verify") /\ UNCHANGED <<root, folder>>
     \/ /\ ChangePhase(p, "materialize")
        /\ root' = [root EXCEPT ![p] = TRUE]
        /\ folder' = [folder EXCEPT ![p] = TRUE]
  /\ UNCHANGED <<clock, waiting, lineage, ending, closed, transfer, endCall, prepared, net, up, used>>

\* bindExistingBacking found the folder equal to the project and bound it;
\* the check of the authority that follows is in the same turn.
FolderVerified(p) ==
  /\ change[p].phase = "verify" /\ HasAuthority(p)
  /\ ChangePhase(p, "persist")
  /\ root' = [root EXCEPT ![p] = TRUE]
  /\ folder' = [folder EXCEPT ![p] = TRUE]
  /\ UNCHANGED <<clock, waiting, lineage, ending, closed, transfer, endCall, prepared, net, up, used>>

FolderMaterialized(p) ==
  /\ change[p].phase = "materialize" /\ HasAuthority(p)
  /\ ChangePhase(p, "persist")
  /\ UNCHANGED <<roleVars, ending, closed, transfer, endCall, prepared, net, up, used>>

FolderPersisted(p) ==
  /\ change[p].phase = "persist" /\ HasAuthority(p)
  /\ ChangePhase(p, "publish")
  /\ StorageReady(p)
  /\ UNCHANGED <<clock, folder, lineage, ending, closed, transfer, endCall, prepared, net, up, used>>

FolderPublish(p) ==
  /\ change[p].phase = "publish" /\ HasAuthority(p)
  /\ change' = [change EXCEPT ![p] = IdleChange]
  /\ net' = Broadcast(net, p, Frame("storageReady", clock[p]))
  /\ UNCHANGED <<roleVars, ending, closed, transfer, endCall, prepared, up, used>>

\* The catch and finally blocks: a folder that cannot be used or differs, failed
\* I/O, or an authority lost while waiting.
FolderFails(p) ==
  /\ ~closed[p]
  /\ \/ change[p].phase \in {"validate", "verify"}
     \/ change[p].phase \in {"materialize", "persist"} /\ DiskFails
     \/ change[p].phase # "idle" /\ ~HasAuthority(p)
  /\ IF OwnsFolder(p)
     THEN /\ folder' = [folder EXCEPT ![p] = change[p].prev]
          /\ root' = [root EXCEPT ![p] = change[p].prev /\ ~waiting[p]]
     ELSE root' = [root EXCEPT ![p] = FALSE] /\ UNCHANGED folder
  /\ change' = [change EXCEPT ![p] = IdleChange]
  /\ UNCHANGED <<clock, waiting, lineage, ending, closed, transfer, endCall, prepared, net, up, used>>

-----------------------------------------------------------------------------
(* endSession.                                                             *)

EndStart(p) ==
  /\ IsHost(p) /\ change[p].phase = "idle" /\ endCall[p].phase = "idle"
  /\ used.ends < MaxEnds
  /\ LET id == used.ends + 1
         online == Others(p)
     IN /\ endCall' = [endCall EXCEPT ![p] = [phase |-> IF online = {} THEN "save" ELSE "fence",
                                              id |-> id, waitingFor |-> online]]
        /\ net' = Broadcast(net, p, [Frame("ending", clock[p]) EXCEPT !.id = id])
  /\ ending' = [ending EXCEPT ![p] = TRUE]
  /\ Spend("ends")
  /\ UNCHANGED <<roleVars, closed, transfer, change, prepared, up>>

\* Five seconds are over, or the last peer waited for has disconnected.
FenceExpires(p) ==
  /\ endCall[p].phase = "fence"
  /\ endCall' = [endCall EXCEPT ![p].phase = "save"]
  /\ UNCHANGED <<roleVars, ending, closed, transfer, change, prepared, net, up, used>>

\* While the session waits for a folder the final state goes to the working
\* copy; only saveAsHost asks whether this runtime is still the host.
EndSaves(p) ==
  /\ endCall[p].phase = "save" /\ (waiting[p] \/ IsHost(p))
  /\ endCall' = [endCall EXCEPT ![p].phase = "drain"]
  /\ net' = Broadcast(net, p, Frame("ended", clock[p]))
  /\ UNCHANGED <<roleVars, ending, closed, transfer, change, prepared, up, used>>

EndFails(p) ==
  /\ endCall[p].phase = "save" /\ (DiskFails \/ ~(waiting[p] \/ IsHost(p)))
  /\ endCall' = [endCall EXCEPT ![p] = IdleEnd]
  /\ ending' = [ending EXCEPT ![p] = FALSE]
  /\ net' = Broadcast(net, p, Frame("endingCancelled", clock[p]))
  /\ UNCHANGED <<roleVars, closed, transfer, change, prepared, up, used>>

EndCloses(p) ==
  /\ endCall[p].phase = "drain"
  /\ Dispose(p)
  /\ UNCHANGED <<clock, waiting, folder, lineage, ending, used>>

-----------------------------------------------------------------------------
(* Heartbeats, routes and the end of a runtime.                            *)

\* Mutant: the heartbeat never reports the storage ready.
HeartbeatNeverReady(p, q) ==
  /\ IsHost(p) /\ Linked(p, q) /\ net[p][q] = <<>>
  /\ net' = Sent(net, p, q, Frame("heartbeat", clock[p]))
  /\ UNCHANGED <<roleVars, ending, closed, callVars, prepared, up, used>>

\* heartbeatTick.  A heartbeat behind other frames of its route changes nothing
\* a later one does not, so one is sent when the route is drained.
Heartbeat(p, q) ==
  /\ IsHost(p) /\ Linked(p, q) /\ net[p][q] = <<>>
  /\ net' = Sent(net, p, q, [Frame("heartbeat", clock[p]) EXCEPT !.ready = ~waiting[p]])
  /\ UNCHANGED <<roleVars, ending, closed, callVars, prepared, up, used>>

LinkDown(p, q) ==
  /\ Linked(p, q) /\ used.losses < MaxLosses
  /\ up' = up \ {{p, q}}
  /\ net' = [net EXCEPT ![p][q] = <<>>, ![q][p] = <<>>]
  /\ Spend("losses")
  /\ UNCHANGED <<roleVars, ending, closed, callVars, prepared>>

\* RedundantFrameRelay fans frames out over independent paths: one that is lost on
\* the fastest arrives late on another, or not at all.
Overtaken(s, i) ==
  [j \in 1..Len(s) |-> IF j = 1 THEN s[i] ELSE IF j <= i THEN s[j - 1] ELSE s[j]]
RelayReorders(p, q) ==
  /\ used.faults < MaxRelayFaults
  /\ \E i \in 2..Len(net[p][q]) : net' = [net EXCEPT ![p][q] = Overtaken(@, i)]
  /\ Spend("faults")
  /\ UNCHANGED <<roleVars, ending, closed, callVars, prepared, up>>

RelayLoses(p, q) ==
  /\ net[p][q] # <<>> /\ used.faults < MaxRelayFaults
  /\ Consume(p, q)
  /\ Spend("faults")
  /\ UNCHANGED <<roleVars, ending, closed, callVars, prepared, up>>

\* onPeerJoin on both sides: a host publishes its directory; the clock carried
\* by helloAck is not used.
LinkUp(p, q) ==
  /\ p # q /\ ~closed[p] /\ ~closed[q] /\ {p, q} \notin up
  /\ up' = up \cup {{p, q}}
  /\ net' = [net EXCEPT ![p][q] = IF IsHost(p) THEN <<Frame("directory", clock[p])>> ELSE <<>>,
                        ![q][p] = IF IsHost(q) THEN <<Frame("directory", clock[q])>> ELSE <<>>]
  /\ UNCHANGED <<roleVars, ending, closed, callVars, prepared, used>>

\* The recovery deadline has passed without a route to the trusted host.
HostLost(p) ==
  /\ ~closed[p] /\ clock[p].host # p /\ ~Linked(p, clock[p].host)
  /\ Dispose(p)
  /\ UNCHANGED <<clock, waiting, folder, lineage, ending, used>>

Leave(p) ==
  /\ ~closed[p] /\ used.leaves < MaxLeaves
  /\ Dispose(p)
  /\ Spend("leaves")
  /\ UNCHANGED <<clock, waiting, folder, lineage, ending>>

TransferNext(p) ==
  \/ PreparedExpires(p)
  \/ \E s \in Slots :
       \/ \E q \in Peers : TransferStart(p, s, q)
       \/ TransferFlushed(p, s) \/ TransferFails(p, s)
       \/ TransferPublish(p, s) \/ TransferPublishFails(p, s)

FolderNext(p) ==
  \/ FolderStart(p) \/ FolderValidated(p) \/ FolderVerified(p) \/ FolderMaterialized(p)
  \/ FolderPersisted(p) \/ FolderPublish(p) \/ FolderFails(p)

EndNext(p) ==
  EndStart(p) \/ FenceExpires(p) \/ EndSaves(p) \/ EndFails(p) \/ EndCloses(p)

RouteNext(p) ==
  \/ \E q \in Peers :
       \/ Receive(q, p) \/ Heartbeat(p, q) \/ LinkDown(p, q) \/ LinkUp(p, q)
       \/ RelayReorders(p, q) \/ RelayLoses(p, q)
  \/ HostLost(p) \/ Leave(p)

Next == \E p \in Peers : TransferNext(p) \/ FolderNext(p) \/ EndNext(p) \/ RouteNext(p)

Spec == Init /\ [][Next]_vars

TransferProceeds(p) ==
  \E s \in Slots : TransferFlushed(p, s) \/ TransferFails(p, s)
                     \/ TransferPublish(p, s) \/ TransferPublishFails(p, s)

\* What the runtimes keep doing: the event loops deliver frames, resume awaits
\* and fire timers, the heartbeat interval ticks, and a lost route is restored
\* by signalling or outlived by the recovery deadline.  Nobody has to start a call, choose a folder or expire an entry.
Fairness ==
  \A p \in Peers :
    /\ WF_vars(TransferProceeds(p))
    /\ WF_vars(FolderPersisted(p)) /\ WF_vars(FolderPublish(p))
    /\ WF_vars(HostLost(p))
    /\ WF_vars(FenceExpires(p) \/ EndSaves(p) \/ EndFails(p) \/ EndCloses(p))
    /\ \A q \in Peers :
         WF_vars(Receive(q, p)) /\ WF_vars(Heartbeat(p, q)) /\ WF_vars(LinkUp(p, q))

FairSpec == Spec /\ Fairness

-----------------------------------------------------------------------------
Transfers == [phase : {"idle", "prepare", "flush", "commit", "publish"}, id : Nat,
              next : Clocks, after : {"paused", "host", "guest"}]
Changes == [phase : {"idle", "validate", "verify", "materialize", "persist", "publish"},
            at : Clocks, prev : BOOLEAN]
EndCalls == [phase : {"idle", "fence", "save", "drain"}, id : Nat, waitingFor : SUBSET Peers]
Entries == [id : Nat, from : Peers, next : Clocks]

RoleTypes ==
  /\ clock \in [Peers -> Clocks]
  /\ waiting \in [Peers -> BOOLEAN]
  /\ folder \in [Peers -> BOOLEAN]
  /\ root \in [Peers -> BOOLEAN]
  /\ lineage \in Seq(Peers)
CallTypes ==
  /\ transfer \in [Peers -> [Slots -> Transfers]]
  /\ change \in [Peers -> Changes]
  /\ endCall \in [Peers -> EndCalls]
Counters == {"transfers", "losses", "faults", "folders", "ends", "leaves", "strays"}
RuntimeTypes ==
  /\ ending \in [Peers -> BOOLEAN]
  /\ closed \in [Peers -> BOOLEAN]
  /\ prepared \in [Peers -> SUBSET Entries]
  /\ up \subseteq SUBSET Peers
  /\ used \in [Counters -> Nat]
Nets == [Peers -> [Peers -> Seq(Messages)]]

\* Every variable of the runtimes and of the routes holds a value of its kind.
TypeOK == RoleTypes /\ CallTypes /\ RuntimeTypes /\ net \in Nets

\* No two runtimes believe at the same time that they are the Session Host,
\* whatever is in flight and whoever is cut off (SessionCoordinator.isCurrentHost).
AtMostOneHost == \A p, q \in Peers : IsHost(p) /\ IsHost(q) => p = q

\* Flushes of one runtime at most reach a shared folder, and it is the host's
\* (transferHost: "there is no dual-writer window").
NoDualWriter ==
  \A p, q \in Peers : root[p] => IsHost(p) /\ folder[p] /\ (root[q] => p = q)

\* A participant leaves the pause after a transfer only when the host of its
\* clock has bound a folder under that clock, or has handed over since.
ResumedMeansHostReady ==
  \A p \in Peers :
    LET h == clock[p].host IN
    ~closed[p] /\ ~closed[h] /\ clock[p].epoch > 0 /\ ~waiting[p] =>
      clock[h].epoch > clock[p].epoch \/ (clock[h] = clock[p] /\ ~waiting[h])

\* A transfer that has not been committed takes nothing from the host: a failed
\* prepare, flush or commit leaves it in charge, and of its folder, too (the comment
\* above setBackingRoot in transferHost), unless an older call of a runtime
\* committed out of turn and shut the folder of a host it was not about.
UncommittedTransferKeepsHost ==
  \A p \in Peers, s \in Slots :
    LET t == transfer[p][s] IN
    t.phase \in {"prepare", "flush", "commit"} /\ t.next.epoch = clock[p].epoch + 1 =>
      IsHost(p) /\ (~waiting[p] => root[p] \/ used.strays > 0)

-----------------------------------------------------------------------------
(* Why AtMostOneHost and NoDualWriter hold, as an inductive invariant.      *)

Elems(s) == {s[i] : i \in 1..Len(s)}

\* A clock of the line of succession.
Known(c) == c.epoch + 1 \in 1..Len(lineage) /\ c.host = lineage[c.epoch + 1]

\* A next clock that is of the line, or that its target has outgrown.
Settled(c) == Known(c) \/ clock[c.host].epoch >= c.epoch

KnownClocks == \A p \in Peers : Known(clock[p])

KnownFrames ==
  \A q, p \in Peers : \A m \in Elems(net[q][p]) :
    /\ Known(m.clk) /\ m.clk.epoch <= clock[q].epoch
    /\ m.type = "finalize" => m.next.host = p /\ Settled(m.next)

\* Whoever has a successor in the line knows it.
HostsMovedOn ==
  \A e \in 1..(Len(lineage) - 1) : clock[lineage[e]].epoch >= e

TransfersBehind ==
  \A p \in Peers, s \in Slots :
    LET t == transfer[p][s] IN
    t.phase # "idle" =>
      /\ t.next.epoch <= clock[p].epoch + 1
      /\ t.next.epoch = clock[p].epoch + 1 => clock[p].host = p
      /\ t.next.host # p
      /\ t.phase = "publish" => Settled(t.next)

AuthorityInv ==
  Len(lineage) > 0 /\ KnownClocks /\ KnownFrames /\ HostsMovedOn /\ TransfersBehind

FolderInv ==
  \A p \in Peers :
    /\ folder[p] => clock[p].host = p
    /\ root[p] => ~closed[p] /\ folder[p]

(* Why ResumedMeansHostReady and UncommittedTransferKeepsHost hold.        *)

\* The host of this clock has bound a folder under it, handed over or gone.
Ready(c) ==
  \/ closed[c.host] \/ clock[c.host].epoch > c.epoch
  \/ clock[c.host] = c /\ ~waiting[c.host]

\* Nobody tells itself anything.
NoEcho == \A p \in Peers : net[p][p] = <<>>

\* Frames that end a pause.
Tells(m) == m.type = "storageReady" \/ (m.type = "heartbeat" /\ m.ready)

\* A runtime that is not paused, and every frame that ends a pause, has the word of
\* a host that is ready.
ReadyIsTrue ==
  /\ \A p \in Peers : clock[p].epoch > 0 /\ ~waiting[p] => Ready(clock[p])
  /\ \A q, p \in Peers : \A m \in Elems(net[q][p]) :
       Tells(m) => m.clk.host = q /\ (m.clk.epoch > 0 => Ready(m.clk))

\* What a setBackingFolder call has done under the clock it started with stands
\* until that clock changes.
ChangeHolds(p) ==
  LET c == change[p] IN
  c.phase # "idle" =>
    /\ c.at.host = p /\ c.at.epoch <= clock[p].epoch
    /\ c.at = clock[p] =>
         /\ ~ending[p]
         /\ c.phase \in {"materialize", "persist", "publish"} => folder[p]
         /\ c.phase = "publish" => ~waiting[p]

\* A runtime that has gone makes no calls, and only commits that go astray leave
\* something to restore when they are published.
CallsHold(p) ==
  /\ closed[p] => change[p].phase = "idle" /\ \A s \in Slots : transfer[p][s].phase = "idle"
  /\ used.strays = 0 => \A s \in Slots : transfer[p][s].after = "paused"

\* A host that reports its storage ready flushes to its folder, and a call of
\* setBackingFolder that fails would give that folder back.
HostHasStorage(p) ==
  used.strays = 0 /\ IsHost(p) /\ ~waiting[p] =>
    /\ folder[p] /\ root[p]
    /\ change[p].phase # "idle" =>
         change[p].at = clock[p] /\ (change[p].phase # "publish" => change[p].prev)

Holds(p) == ChangeHolds(p) /\ CallsHold(p) /\ HostHasStorage(p)

StorageInv == NoEcho /\ ReadyIsTrue /\ \A p \in Peers : Holds(p)

-----------------------------------------------------------------------------
\* The clocks of all runtimes behave as one line of succession.
Authority == INSTANCE HostAuthority WITH view <- clock
ImplementsHostAuthority == Authority!Spec

\* A committed handover reaches every runtime that stays in the session.
EveryoneLearns ==
  \A p \in Peers, n \in 1..MaxTransfers :
    Len(lineage) > n ~> clock[p].epoch >= n \/ closed[p]

\* Once its host is ready, a runtime under the same clock leaves the pause, even
\* if the storage-ready frame was lost (recovered by the heartbeats).
PauseEnds ==
  \A h, p \in Peers :
    IsHost(h) /\ ~waiting[h] /\ clock[p] = clock[h] /\ ~closed[p]
      ~> ~waiting[p] \/ closed[p] \/ closed[h] \/ clock[p] # clock[h]

\* Only the runtime that is the Session Host ends the session for everyone
\* (docs/protocol.md:110, session-ended).  The code does not ensure it: when a
\* transfer commits during the fence, endSession (session.ts:2440) does not ask
\* again whether it is the host.
OnlyHostEndsSession ==
  [][\A p \in Peers : endCall[p].phase = "save" /\ endCall'[p].phase = "drain" => IsHost(p)]_vars
=============================================================================
