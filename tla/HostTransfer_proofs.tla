------------------------ MODULE HostTransfer_proofs ------------------------
(***************************************************************************)
(* What holds of the host transfer for every set of peers, every number of *)
(* overlapping calls and every bound: one host, one writer, and a single   *)
(* line of succession.                                                     *)
(***************************************************************************)
EXTENDS HostTransfer, TLAPS

\* Appending adds one element, taking the tail adds none.
LEMMA AppendElems ==
  ASSUME NEW S, NEW s \in Seq(S), NEW m \in S
  PROVE  Append(s, m) \in Seq(S) /\ Elems(Append(s, m)) \subseteq Elems(s) \cup {m}
BY DEF Elems

LEMMA TailElems ==
  ASSUME NEW S, NEW s \in Seq(S), s # <<>>
  PROVE  Tail(s) \in Seq(S) /\ Elems(Tail(s)) \subseteq Elems(s)
         /\ Head(s) \in S /\ Head(s) \in Elems(s)
BY DEF Elems

LEMMA EmptyElems == ASSUME NEW S PROVE <<>> \in Seq(S) /\ Elems(<<>>) = {}
BY DEF Elems

\* Overtaking moves an element of a route, and neither adds nor loses one.
LEMMA OvertakenElems ==
  ASSUME NEW S, NEW s \in Seq(S), NEW i \in 2..Len(s)
  PROVE  Overtaken(s, i) \in Seq(S) /\ Elems(Overtaken(s, i)) \subseteq Elems(s)
<1> DEFINE o == [j \in 1..Len(s) |-> IF j = 1 THEN s[i] ELSE IF j <= i THEN s[j - 1] ELSE s[j]]
<1>1. \A j \in 1..Len(s) : o[j] \in S /\ o[j] \in Elems(s)
  BY DEF Elems
<1>2. o \in Seq(S) /\ Len(o) = Len(s)
  BY <1>1
<1> QED BY <1>1, <1>2 DEF Overtaken, Elems

\* A frame sent to one peer joins that route only.
LEMMA SentFrame ==
  ASSUME NEW n \in Nets, NEW p \in Peers, NEW q \in Peers, NEW m \in Messages
  PROVE  /\ Sent(n, p, q, m) \in Nets
         /\ \A a, b \in Peers : \A x \in Elems(Sent(n, p, q, m)[a][b]) :
              (a = p /\ b = q /\ x = m) \/ x \in Elems(n[a][b])
<1>1. n[p][q] \in Seq(Messages)
  BY DEF Nets
<1>2. Append(n[p][q], m) \in Seq(Messages)
      /\ Elems(Append(n[p][q], m)) \subseteq Elems(n[p][q]) \cup {m}
  BY <1>1, AppendElems
<1> QED BY <1>1, <1>2 DEF Sent, Nets

\* A broadcast adds its frame to routes of its sender.
LEMMA BroadcastFrame ==
  ASSUME NEW n \in Nets, NEW p \in Peers, NEW m \in Messages
  PROVE  /\ Broadcast(n, p, m) \in Nets
         /\ \A a, b \in Peers : \A x \in Elems(Broadcast(n, p, m)[a][b]) :
              x \in Elems(n[a][b]) \/ (a = p /\ x = m)
<1>1. \A q \in Peers : n[p][q] \in Seq(Messages)
  BY DEF Nets
<1>2. \A q \in Peers : Append(n[p][q], m) \in Seq(Messages)
        /\ Elems(Append(n[p][q], m)) \subseteq Elems(n[p][q]) \cup {m}
  BY <1>1, AppendElems
<1> QED BY <1>1, <1>2 DEF Broadcast, Nets

\* Taking the head of a route loses no other frame and invents none.
LEMMA RestFrames ==
  ASSUME net \in Nets, NEW q \in Peers, NEW p \in Peers, net[q][p] # <<>>
  PROVE  /\ Rest(q, p) \in Nets
         /\ Head(net[q][p]) \in Messages /\ Head(net[q][p]) \in Elems(net[q][p])
         /\ \A a, b \in Peers : Elems(Rest(q, p)[a][b]) \subseteq Elems(net[a][b])
<1>1. net[q][p] \in Seq(Messages)
  BY DEF Nets
<1>2. Tail(net[q][p]) \in Seq(Messages) /\ Elems(Tail(net[q][p])) \subseteq Elems(net[q][p])
      /\ Head(net[q][p]) \in Messages /\ Head(net[q][p]) \in Elems(net[q][p])
  BY <1>1, TailElems
<1> QED BY <1>1, <1>2 DEF Rest, Nets

\* A disposed runtime leaves no frame behind.
LEMMA GoneFrames ==
  ASSUME net \in Nets, NEW p \in Peers
  PROVE  /\ Gone(net, p) \in Nets
         /\ \A a, b \in Peers : Elems(Gone(net, p)[a][b]) \subseteq Elems(net[a][b])
<1>1. <<>> \in Seq(Messages) /\ Elems(<<>>) = {}
  BY EmptyElems
<1> QED BY <1>1 DEF Gone, Nets

-----------------------------------------------------------------------------
(* Types.                                                                  *)

LEMMA FrameTypes ==
  ASSUME NEW c \in Clocks, NEW d \in Clocks, NEW id \in Nat, NEW b \in BOOLEAN
  PROVE  /\ \A type \in MsgTypes : /\ Frame(type, c) \in Messages
                                   /\ TransferFrame(type, c, id, d) \in Messages
                                   /\ [Frame(type, c) EXCEPT !.id = id] \in Messages
                                   /\ [Frame(type, c) EXCEPT !.ready = b] \in Messages
         /\ \A type : /\ Frame(type, c).clk = c /\ Frame(type, c).type = type
                      /\ TransferFrame(type, c, id, d).clk = c
                      /\ TransferFrame(type, c, id, d).type = type
                      /\ TransferFrame(type, c, id, d).next = d
BY DEF Frame, TransferFrame, Messages

\* The acknowledgement of an end fence (session.ts:3511).
LEMMA EndingAckType ==
  ASSUME NEW c \in Clocks, NEW id \in Nat
  PROVE  /\ [Frame("endingAck", c) EXCEPT !.id = id] \in Messages
         /\ [Frame("endingAck", c) EXCEPT !.id = id].clk = c
         /\ [Frame("endingAck", c) EXCEPT !.id = id].type = "endingAck"
<1>1. "endingAck" \in MsgTypes
  BY DEF MsgTypes
<1> QED BY <1>1 DEF Frame, Messages

LEMMA IdleTypes ==
  IdleTransfer \in Transfers /\ IdleChange \in Changes /\ IdleEnd \in EndCalls
BY PeersAssumption DEF IdleTransfer, IdleChange, IdleEnd, Transfers, Changes, EndCalls, Clocks

LEMMA InitTypes == Init => TypeOK
<1> SUFFICES ASSUME Init PROVE TypeOK
  OBVIOUS
<1>1. RoleTypes
  BY PeersAssumption DEF Init, RoleTypes, Clocks
<1>2. CallTypes
  BY IdleTypes DEF Init, CallTypes
<1>3. RuntimeTypes
  BY DEF Init, RuntimeTypes, Counters
<1>4. net \in Nets
  BY EmptyElems DEF Init, Nets
<1> QED BY <1>1, <1>2, <1>3, <1>4 DEF TypeOK

\* The transfer actions keep every type.
LEMMA TransferTypes ==
  ASSUME TypeOK, NEW p \in Peers, TransferNext(p)
  PROVE  TypeOK'
<1>0. net \in Nets /\ clock[p] \in Clocks /\ RoleTypes /\ CallTypes /\ RuntimeTypes
  BY DEF TypeOK, RoleTypes
<1>a. \A s \in Slots : /\ transfer[p][s] \in Transfers /\ transfer[p][s].id \in Nat
                       /\ transfer[p][s].next \in Clocks /\ transfer[p][s].next.host \in Peers
  BY <1>0 DEF CallTypes, Transfers, Clocks
<1>1. CASE PreparedExpires(p)
  <2>1. RuntimeTypes'
    BY <1>0, <1>1 DEF PreparedExpires, RuntimeTypes
  <2>2. RoleTypes' /\ CallTypes' /\ net' = net
    BY <1>0, <1>1 DEF PreparedExpires, RoleTypes, CallTypes, roleVars, callVars
  <2> QED BY <1>0, <2>1, <2>2 DEF TypeOK
<1>2. ASSUME NEW s \in Slots, NEW q \in Peers, TransferStart(p, s, q) PROVE TypeOK'
  <2> DEFINE id == used.transfers + 1
             next == [epoch |-> clock[p].epoch + 1, host |-> q]
  <2>1. id \in Nat /\ next \in Clocks
    BY <1>0 DEF RuntimeTypes, Counters, Clocks
  <2>2. TransferFrame("prepare", clock[p], id, next) \in Messages
    BY <1>0, <2>1, FrameTypes DEF MsgTypes
  <2>3. net' \in Nets
    BY <1>0, <1>2, <2>2, SentFrame DEF TransferStart
  <2>4. CallTypes'
    BY <1>0, <1>2, <2>1 DEF TransferStart, CallTypes, Transfers
  <2>5. RuntimeTypes'
    BY <1>0, <1>2 DEF TransferStart, RuntimeTypes, Counters, Spend
  <2>6. RoleTypes'
    BY <1>0, <1>2 DEF TransferStart, RoleTypes, roleVars
  <2> QED BY <2>3, <2>4, <2>5, <2>6 DEF TypeOK
<1>3. ASSUME NEW s \in Slots, TransferFlushed(p, s) PROVE TypeOK'
  <2> DEFINE t == transfer[p][s]
  <2>2. TransferFrame("commit", clock[p], t.id, t.next) \in Messages
    BY <1>0, <1>a, FrameTypes DEF MsgTypes
  <2>3. net' \in Nets
    BY <1>0, <1>3, <1>a, <2>2, SentFrame DEF TransferFlushed
  <2>4. CallTypes'
    BY <1>0, <1>3, <1>a DEF TransferFlushed, CallTypes, Transfers
  <2>5. RuntimeTypes' /\ RoleTypes'
    BY <1>0, <1>3 DEF TransferFlushed, RuntimeTypes, RoleTypes, roleVars
  <2> QED BY <2>3, <2>4, <2>5 DEF TypeOK
<1>4. ASSUME NEW s \in Slots, TransferFails(p, s) \/ TransferPublishFails(p, s) PROVE TypeOK'
  <2>1. CallTypes'
    BY <1>0, <1>4, IdleTypes DEF TransferFails, TransferPublishFails, CallTypes
  <2>2. RuntimeTypes' /\ RoleTypes' /\ net' = net
    BY <1>0, <1>4 DEF TransferFails, TransferPublishFails, RuntimeTypes, RoleTypes, roleVars
  <2> QED BY <1>0, <2>1, <2>2 DEF TypeOK
<1>5. ASSUME NEW s \in Slots, TransferPublish(p, s) PROVE TypeOK'
  <2> DEFINE t == transfer[p][s]
             n == Broadcast(net, p, Frame("announce", clock[p]))
  <2>1. TransferFrame("finalize", clock[p], t.id, t.next) \in Messages
        /\ Frame("announce", clock[p]) \in Messages
    BY <1>0, <1>a, FrameTypes DEF MsgTypes
  <2>2. n \in Nets
    BY <1>0, <2>1, BroadcastFrame
  <2>3. net' \in Nets
    BY <1>5, <1>a, <2>1, <2>2, SentFrame DEF TransferPublish
  <2>4. CallTypes'
    BY <1>0, <1>5, IdleTypes DEF TransferPublish, CallTypes
  <2>5. RoleTypes'
    BY <1>0, <1>5 DEF TransferPublish, RoleTypes
  <2>6. RuntimeTypes'
    BY <1>0, <1>5 DEF TransferPublish, RuntimeTypes
  <2> QED BY <2>3, <2>4, <2>5, <2>6 DEF TypeOK
<1> QED BY <1>1, <1>2, <1>3, <1>4, <1>5 DEF TransferNext

\* So do those of setBackingFolder.
LEMMA FolderTypes ==
  ASSUME TypeOK, NEW p \in Peers, FolderNext(p)
  PROVE  TypeOK'
<1>0. net \in Nets /\ clock[p] \in Clocks /\ RoleTypes /\ CallTypes /\ RuntimeTypes
      /\ change[p].prev \in BOOLEAN /\ folder[p] \in BOOLEAN
  BY DEF TypeOK, RoleTypes, CallTypes, Changes
<1>b. \A phase \in {"verify", "materialize", "persist", "publish"} :
        ChangePhase(p, phase) => change' \in [Peers -> Changes]
  <2>1. change \in [Peers -> Changes] /\ change[p] \in Changes
    BY <1>0 DEF CallTypes
  <2> QED BY <2>1 DEF ChangePhase, Changes
<1>1. CASE FolderStart(p)
  <2>1. CallTypes'
    BY <1>0, <1>1 DEF FolderStart, CallTypes, Changes
  <2>2. RuntimeTypes'
    BY <1>0, <1>1 DEF FolderStart, RuntimeTypes, Counters, Spend
  <2>3. RoleTypes' /\ net' = net
    BY <1>0, <1>1 DEF FolderStart, RoleTypes, roleVars
  <2> QED BY <1>0, <2>1, <2>2, <2>3 DEF TypeOK
<1>2. CASE FolderValidated(p) \/ FolderVerified(p) \/ FolderMaterialized(p) \/ FolderPersisted(p)
  <2>0. \E phase \in {"verify", "materialize", "persist", "publish"} : ChangePhase(p, phase)
    BY <1>2 DEF FolderValidated, FolderVerified, FolderMaterialized, FolderPersisted
  <2>1. CallTypes'
    BY <1>0, <1>2, <1>b, <2>0 DEF FolderValidated, FolderVerified, FolderMaterialized,
                                  FolderPersisted, CallTypes
  <2>2. RuntimeTypes' /\ net' = net
    BY <1>0, <1>2 DEF FolderValidated, FolderVerified, FolderMaterialized, FolderPersisted,
                      RuntimeTypes
  <2>3. CASE FolderPersisted(p)
    <3>1. RoleTypes'
      BY <1>0, <2>3 DEF FolderPersisted, StorageReady, IsHost, RoleTypes
    <3> QED BY <1>0, <2>1, <2>2, <3>1 DEF TypeOK
  <2>4. CASE FolderValidated(p) \/ FolderVerified(p) \/ FolderMaterialized(p)
    <3>1. RoleTypes'
      BY <1>0, <2>4 DEF FolderValidated, FolderVerified, FolderMaterialized, RoleTypes, roleVars
    <3> QED BY <1>0, <2>1, <2>2, <3>1 DEF TypeOK
  <2> QED BY <1>2, <2>3, <2>4
<1>3. CASE FolderPublish(p)
  <2>1. Frame("storageReady", clock[p]) \in Messages
    BY <1>0, FrameTypes DEF MsgTypes
  <2>2. net' \in Nets
    BY <1>0, <1>3, <2>1, BroadcastFrame DEF FolderPublish
  <2>3. CallTypes'
    BY <1>0, <1>3, IdleTypes DEF FolderPublish, CallTypes
  <2>4. RuntimeTypes' /\ RoleTypes'
    BY <1>0, <1>3 DEF FolderPublish, RuntimeTypes, RoleTypes, roleVars
  <2> QED BY <2>2, <2>3, <2>4 DEF TypeOK
<1>4. CASE FolderFails(p)
  <2>1. CallTypes'
    BY <1>0, <1>4, IdleTypes DEF FolderFails, CallTypes
  <2>2. RuntimeTypes' /\ net' = net
    BY <1>0, <1>4 DEF FolderFails, RuntimeTypes
  <2>3. RoleTypes'
    BY <1>0, <1>4 DEF FolderFails, RoleTypes
  <2> QED BY <1>0, <2>1, <2>2, <2>3 DEF TypeOK
<1> QED BY <1>1, <1>2, <1>3, <1>4 DEF FolderNext

\* Disposing a runtime keeps every type.
LEMMA DisposeTypes ==
  ASSUME TypeOK, NEW p \in Peers, Dispose(p), UNCHANGED <<clock, waiting, folder, lineage, ending>>,
         used' \in [Counters -> Nat]
  PROVE  TypeOK'
<1>0. net \in Nets /\ RoleTypes /\ CallTypes /\ RuntimeTypes
  BY DEF TypeOK
<1>1. net' \in Nets
  BY <1>0, GoneFrames DEF Dispose
<1>2. CallTypes'
  BY <1>0, IdleTypes DEF Dispose, CallTypes
<1>3. RuntimeTypes'
  BY <1>0 DEF Dispose, RuntimeTypes
<1>4. RoleTypes'
  BY <1>0 DEF Dispose, RoleTypes
<1> QED BY <1>1, <1>2, <1>3, <1>4 DEF TypeOK

\* And those of endSession.
LEMMA EndTypes ==
  ASSUME TypeOK, NEW p \in Peers, EndNext(p)
  PROVE  TypeOK'
<1>0. net \in Nets /\ clock[p] \in Clocks /\ RoleTypes /\ CallTypes /\ RuntimeTypes
  BY DEF TypeOK, RoleTypes
<1>1. CASE EndStart(p)
  <2> DEFINE id == used.ends + 1
  <2>1. id \in Nat /\ Others(p) \in SUBSET Peers
    BY <1>0 DEF RuntimeTypes, Counters, Others
  <2>2. [Frame("ending", clock[p]) EXCEPT !.id = id] \in Messages
    BY <1>0, <2>1, FrameTypes DEF MsgTypes
  <2>3. net' \in Nets
    BY <1>0, <1>1, <2>2, BroadcastFrame DEF EndStart
  <2>4. CallTypes'
    BY <1>0, <1>1, <2>1 DEF EndStart, CallTypes, EndCalls
  <2>5. RuntimeTypes'
    BY <1>0, <1>1 DEF EndStart, RuntimeTypes, Counters, Spend
  <2>6. RoleTypes'
    BY <1>0, <1>1 DEF EndStart, RoleTypes, roleVars
  <2> QED BY <2>3, <2>4, <2>5, <2>6 DEF TypeOK
<1>2. CASE FenceExpires(p)
  <2>1. CallTypes'
    BY <1>0, <1>2 DEF FenceExpires, CallTypes, EndCalls
  <2>2. RuntimeTypes' /\ RoleTypes' /\ net' = net
    BY <1>0, <1>2 DEF FenceExpires, RuntimeTypes, RoleTypes, roleVars
  <2> QED BY <1>0, <2>1, <2>2 DEF TypeOK
<1>3. CASE EndSaves(p)
  <2>1. Frame("ended", clock[p]) \in Messages
    BY <1>0, FrameTypes DEF MsgTypes
  <2>2. net' \in Nets
    BY <1>0, <1>3, <2>1, BroadcastFrame DEF EndSaves
  <2>3. CallTypes'
    BY <1>0, <1>3 DEF EndSaves, CallTypes, EndCalls
  <2>4. RuntimeTypes' /\ RoleTypes'
    BY <1>0, <1>3 DEF EndSaves, RuntimeTypes, RoleTypes, roleVars
  <2> QED BY <2>2, <2>3, <2>4 DEF TypeOK
<1>4. CASE EndFails(p)
  <2>1. Frame("endingCancelled", clock[p]) \in Messages
    BY <1>0, FrameTypes DEF MsgTypes
  <2>2. net' \in Nets
    BY <1>0, <1>4, <2>1, BroadcastFrame DEF EndFails
  <2>3. CallTypes'
    BY <1>0, <1>4, IdleTypes DEF EndFails, CallTypes
  <2>4. RuntimeTypes' /\ RoleTypes'
    BY <1>0, <1>4 DEF EndFails, RuntimeTypes, RoleTypes, roleVars
  <2> QED BY <2>2, <2>3, <2>4 DEF TypeOK
<1>5. CASE EndCloses(p)
  BY <1>0, <1>5, DisposeTypes DEF EndCloses, RuntimeTypes
<1> QED BY <1>1, <1>2, <1>3, <1>4, <1>5 DEF EndNext

\* Committing a transfer applies the clock the waiting call holds.
LEMMA CommittedTypes ==
  ASSUME RoleTypes, CallTypes, used \in [Counters -> Nat],
         NEW p \in Peers, NEW s \in Slots, TransferCommitted(p, s)
  PROVE  /\ RoleTypes' /\ transfer' \in [Peers -> [Slots -> Transfers]]
         /\ used' \in [Counters -> Nat]
<1>1. /\ transfer[p][s] \in Transfers /\ transfer[p][s].next \in Clocks
      /\ transfer[p][s].next.host \in Peers
  BY DEF CallTypes, Transfers, Clocks
<1>2. \A t \in Transfers : [transfer EXCEPT ![p][s] = t] \in [Peers -> [Slots -> Transfers]]
  BY DEF CallTypes
<1>0. used' \in [Counters -> Nat]
  BY DEF TransferCommitted, Spend, Counters
<1>3. CASE Accepts(p, transfer[p][s].next, p)
  <2>1. [transfer[p][s] EXCEPT !.phase = "publish"] \in Transfers
    BY <1>1 DEF Transfers
  <2>2. transfer' = [transfer EXCEPT ![p][s] = [transfer[p][s] EXCEPT !.phase = "publish"]]
    BY <1>3 DEF TransferCommitted, CallTypes
  <2>3. HostChanged(p, transfer[p][s].next) /\ lineage' = Append(lineage, transfer[p][s].next.host)
    BY <1>3 DEF TransferCommitted
  <2>4. lineage' \in Seq(Peers)
    BY <1>1, <2>3, AppendElems DEF RoleTypes
  <2>5. RoleTypes'
    BY <1>1, <2>3, <2>4 DEF HostChanged, RoleTypes
  <2> QED BY <1>0, <1>2, <2>1, <2>2, <2>5
<1>4. CASE ~Accepts(p, transfer[p][s].next, p)
  <2> DEFINE after == IF waiting[p] THEN "paused" ELSE IF IsHost(p) THEN "host" ELSE "guest"
  <2>1. [transfer[p][s] EXCEPT !.phase = "publish", !.after = after] \in Transfers
    BY <1>1 DEF Transfers
  <2>2. transfer' = [transfer EXCEPT ![p][s] =
                       [transfer[p][s] EXCEPT !.phase = "publish", !.after = after]]
    BY <1>4, ZenonT(60) DEF TransferCommitted, CallTypes
  <2>3. /\ UNCHANGED <<clock, waiting, lineage>>
        /\ root' = [root EXCEPT ![p] = FALSE]
        /\ folder' = [folder EXCEPT ![p] = @ /\ IsHost(p)]
    BY <1>4 DEF TransferCommitted
  <2>4. (folder[p] /\ IsHost(p)) \in BOOLEAN
    BY DEF IsHost
  <2>5. RoleTypes'
    BY <2>3, <2>4 DEF RoleTypes
  <2> QED BY <1>0, <1>2, <2>1, <2>2, <2>5
<1> QED BY <1>3, <1>4

\* Handling a frame keeps every type.
LEMMA ReceiveTypes ==
  ASSUME TypeOK, NEW p \in Peers, NEW q \in Peers, Receive(q, p)
  PROVE  TypeOK'
<1> DEFINE m == Head(net[q][p])
<1>0. net \in Nets /\ clock[p] \in Clocks /\ RoleTypes /\ CallTypes /\ RuntimeTypes
  BY DEF TypeOK, RoleTypes
<1>a. Rest(q, p) \in Nets /\ m \in Messages
  BY <1>0, RestFrames DEF Receive
<1>b. m.clk \in Clocks /\ m.next \in Clocks /\ m.id \in Nat
  BY <1>a DEF Messages
<1>c. ASSUME Consume(q, p) PROVE net' \in Nets
  BY <1>a, <1>c DEF Consume
<1>d. ASSUME NEW r \in Messages, Reply(q, p, r) PROVE net' \in Nets
  BY <1>a, <1>d, SentFrame DEF Reply
<1>1. CASE Consume(q, p) /\ UNCHANGED <<roleVars, ending, closed, callVars, prepared, up, used>>
  <2>1. RoleTypes' /\ CallTypes' /\ RuntimeTypes'
    BY <1>0, <1>1 DEF RoleTypes, CallTypes, RuntimeTypes, roleVars, callVars
  <2> QED BY <1>1, <1>c, <2>1 DEF TypeOK
<1>2. CASE OnAnnounce(q, p, m)
  <2>1. RoleTypes'
    BY <1>0, <1>2, <1>b DEF OnAnnounce, HostChanged, RoleTypes
  <2>2. RuntimeTypes'
    BY <1>0, <1>2 DEF OnAnnounce, RuntimeTypes
  <2>3. CallTypes' /\ Consume(q, p)
    BY <1>0, <1>2 DEF OnAnnounce, CallTypes, callVars
  <2> QED BY <1>c, <2>1, <2>2, <2>3 DEF TypeOK
<1>3. CASE OnPrepare(q, p, m)
  <2>1. TransferFrame("ready", clock[p], m.id, m.next) \in Messages
    BY <1>0, <1>b, FrameTypes DEF MsgTypes
  <2>2. net' \in Nets
    BY <1>3, <1>c, <1>d, <2>1 DEF OnPrepare
  <2>3. RuntimeTypes'
    BY <1>0, <1>3, <1>b DEF OnPrepare, RuntimeTypes, Entries
  <2>4. RoleTypes' /\ CallTypes'
    BY <1>0, <1>3 DEF OnPrepare, RoleTypes, CallTypes, roleVars, callVars
  <2> QED BY <2>2, <2>3, <2>4 DEF TypeOK
<1>4. CASE OnCommit(q, p, m)
  <2>1. TransferFrame("ack", clock[p], m.id, m.next) \in Messages
    BY <1>0, <1>b, FrameTypes DEF MsgTypes
  <2>2. net' \in Nets
    BY <1>4, <1>c, <1>d, <2>1 DEF OnCommit
  <2>3. RoleTypes' /\ CallTypes' /\ RuntimeTypes'
    BY <1>0, <1>4 DEF OnCommit, RoleTypes, CallTypes, RuntimeTypes, roleVars, callVars
  <2> QED BY <2>2, <2>3 DEF TypeOK
<1>5. CASE OnTransferReply(q, p, m)
  <2> DEFINE Fits == /\ RoleTypes' /\ transfer' \in [Peers -> [Slots -> Transfers]]
                     /\ used' \in [Counters -> Nat]
  <2>0. used \in [Counters -> Nat]
    BY <1>0 DEF RuntimeTypes
  <2>1. Fits
    <3>1. CASE UNCHANGED <<roleVars, transfer, used>>
      BY <1>0, <2>0, <3>1 DEF RoleTypes, CallTypes, roleVars
    <3>2. ASSUME NEW s \in Slots, transfer' = [transfer EXCEPT ![p][s].phase = "flush"],
                 UNCHANGED <<roleVars, used>>
          PROVE  Fits
      <4>1. transfer[p][s] \in Transfers
        BY <1>0 DEF CallTypes
      <4> QED BY <1>0, <2>0, <3>2, <4>1 DEF RoleTypes, CallTypes, Transfers, roleVars
    <3>3. ASSUME NEW s \in Slots, TransferCommitted(p, s) PROVE Fits
      BY <1>0, <2>0, <3>3, CommittedTypes
    <3> QED BY <1>5, <3>1, <3>2, <3>3 DEF OnTransferReply
  <2>2. CallTypes'
    BY <1>0, <1>5, <2>1 DEF OnTransferReply, CallTypes
  <2>3. RuntimeTypes' /\ Consume(q, p)
    BY <1>0, <1>5, <2>1 DEF OnTransferReply, RuntimeTypes
  <2> QED BY <1>c, <2>1, <2>2, <2>3 DEF TypeOK
<1>6. CASE OnFinalize(q, p, m)
  <2>1. RoleTypes'
    BY <1>0, <1>6, <1>b DEF OnFinalize, HostChanged, RoleTypes
  <2>2. RuntimeTypes'
    BY <1>0, <1>6 DEF OnFinalize, RuntimeTypes
  <2>3. CallTypes' /\ Consume(q, p)
    BY <1>0, <1>6 DEF OnFinalize, CallTypes, callVars
  <2> QED BY <1>c, <2>1, <2>2, <2>3 DEF TypeOK
<1>7. CASE OnStorageNews(q, p, m)
  <2>1. RoleTypes'
    BY <1>0, <1>7 DEF OnStorageNews, StorageReady, IsHost, RoleTypes, RuntimeTypes
  <2>2. CallTypes' /\ RuntimeTypes' /\ Consume(q, p)
    BY <1>0, <1>7 DEF OnStorageNews, CallTypes, RuntimeTypes, callVars
  <2> QED BY <1>c, <2>1, <2>2 DEF TypeOK
<1>8. CASE OnDirectory(q, p, m)
  <2>0. <<>> \in Seq(Messages)
    BY EmptyElems
  <2>a. ASSUME net' = [net EXCEPT ![q][p] = <<>>, ![p][q] = <<>>] PROVE net' \in Nets
    BY <1>0, <2>0, <2>a DEF Nets
  <2>1. net' \in Nets
    BY <1>8, <1>c, <2>a DEF OnDirectory
  <2>2. RoleTypes' /\ CallTypes' /\ RuntimeTypes'
    BY <1>0, <1>8 DEF OnDirectory, RoleTypes, CallTypes, RuntimeTypes, roleVars, callVars
  <2> QED BY <2>1, <2>2 DEF TypeOK
<1>9. CASE OnEnding(q, p, m)
  <2>1. [Frame("endingAck", clock[p]) EXCEPT !.id = m.id] \in Messages
    BY <1>0, <1>b, EndingAckType
  <2>2. net' \in Nets
    BY <1>9, <1>c, <1>d, <2>1 DEF OnEnding
  <2>3. RuntimeTypes'
    BY <1>0, <1>9 DEF OnEnding, RuntimeTypes
  <2>4. RoleTypes' /\ CallTypes'
    BY <1>0, <1>9 DEF OnEnding, RoleTypes, CallTypes, roleVars, callVars
  <2> QED BY <2>2, <2>3, <2>4 DEF TypeOK
<1>10. CASE OnEndingAck(q, p, m)
  <2>a. endCall[p] \in EndCalls /\ endCall[p].waitingFor \ {q} \in SUBSET Peers
    BY <1>0 DEF CallTypes, EndCalls
  <2>b. \A e \in EndCalls : [endCall EXCEPT ![p] = e] \in [Peers -> EndCalls]
    BY <1>0 DEF CallTypes
  <2> DEFINE rest == endCall[p].waitingFor \ {q}
             call == [endCall[p] EXCEPT !.waitingFor = rest,
                                        !.phase = IF rest = {} THEN "save" ELSE @]
  <2>c. call \in EndCalls
    BY <2>a DEF EndCalls
  <2>d. endCall' = endCall \/ endCall' = [endCall EXCEPT ![p] = call]
    BY <1>0, <1>10 DEF OnEndingAck, CallTypes
  <2>1. CallTypes'
    BY <1>0, <1>10, <2>b, <2>c, <2>d DEF OnEndingAck, CallTypes
  <2>2. RoleTypes' /\ RuntimeTypes' /\ Consume(q, p)
    BY <1>0, <1>10 DEF OnEndingAck, RoleTypes, RuntimeTypes, roleVars
  <2> QED BY <1>c, <2>1, <2>2 DEF TypeOK
<1>11. CASE OnEndingCancelled(q, p, m)
  <2>1. RuntimeTypes'
    BY <1>0, <1>11 DEF OnEndingCancelled, RuntimeTypes
  <2>2. RoleTypes' /\ CallTypes' /\ Consume(q, p)
    BY <1>0, <1>11 DEF OnEndingCancelled, RoleTypes, CallTypes, roleVars, callVars
  <2> QED BY <1>c, <2>1, <2>2 DEF TypeOK
<1>12. CASE OnEnded(q, p, m)
  <2>1. CASE q = clock[p].host
    BY <1>0, <1>12, <2>1, DisposeTypes DEF OnEnded, RuntimeTypes
  <2>2. CASE q # clock[p].host
    BY <1>1, <1>12, <2>2 DEF OnEnded
  <2> QED BY <2>1, <2>2
<1> QED BY <1>1, <1>2, <1>3, <1>4, <1>5, <1>6, <1>7, <1>8, <1>9, <1>10, <1>11, <1>12 DEF Receive

\* Routes, heartbeats and departures.
LEMMA RouteTypes ==
  ASSUME TypeOK, NEW p \in Peers, RouteNext(p)
  PROVE  TypeOK'
<1>0. net \in Nets /\ clock \in [Peers -> Clocks] /\ RoleTypes /\ CallTypes /\ RuntimeTypes
      /\ waiting \in [Peers -> BOOLEAN]
  BY DEF TypeOK, RoleTypes
<1>1. ASSUME NEW q \in Peers, Receive(q, p) PROVE TypeOK'
  BY <1>1, ReceiveTypes
<1>2. ASSUME NEW q \in Peers, Heartbeat(p, q) PROVE TypeOK'
  <2>1. [Frame("heartbeat", clock[p]) EXCEPT !.ready = ~waiting[p]] \in Messages
    BY <1>0, FrameTypes DEF MsgTypes
  <2>2. net' \in Nets
    BY <1>0, <1>2, <2>1, SentFrame DEF Heartbeat
  <2>3. RoleTypes' /\ CallTypes' /\ RuntimeTypes'
    BY <1>0, <1>2 DEF Heartbeat, RoleTypes, CallTypes, RuntimeTypes, roleVars, callVars
  <2> QED BY <2>2, <2>3 DEF TypeOK
<1>3. ASSUME NEW q \in Peers, LinkDown(p, q) PROVE TypeOK'
  <2>1. net' \in Nets
    BY <1>0, <1>3, EmptyElems DEF LinkDown, Nets
  <2>2. RuntimeTypes'
    BY <1>0, <1>3 DEF LinkDown, RuntimeTypes, Counters, Spend
  <2>3. RoleTypes' /\ CallTypes'
    BY <1>0, <1>3 DEF LinkDown, RoleTypes, CallTypes, roleVars, callVars
  <2> QED BY <2>1, <2>2, <2>3 DEF TypeOK
<1>4. ASSUME NEW q \in Peers, LinkUp(p, q) PROVE TypeOK'
  <2>1. Frame("directory", clock[p]) \in Messages /\ Frame("directory", clock[q]) \in Messages
    BY <1>0, FrameTypes DEF MsgTypes
  <2>a. /\ <<>> \in Seq(Messages) /\ <<Frame("directory", clock[p])>> \in Seq(Messages)
        /\ <<Frame("directory", clock[q])>> \in Seq(Messages)
    BY <2>1, EmptyElems
  <2>2. net' \in Nets
    BY <1>0, <1>4, <2>a DEF LinkUp, Nets
  <2>3. RuntimeTypes'
    BY <1>0, <1>4 DEF LinkUp, RuntimeTypes
  <2>4. RoleTypes' /\ CallTypes'
    BY <1>0, <1>4 DEF LinkUp, RoleTypes, CallTypes, roleVars, callVars
  <2> QED BY <2>2, <2>3, <2>4 DEF TypeOK
<1>5. CASE HostLost(p)
  BY <1>0, <1>5, DisposeTypes DEF HostLost, RuntimeTypes
<1>6. CASE Leave(p)
  BY <1>0, <1>6, DisposeTypes DEF Leave, RuntimeTypes, Counters, Spend
<1>7. ASSUME NEW q \in Peers, RelayReorders(p, q) \/ RelayLoses(p, q) PROVE TypeOK'
  <2>1. ASSUME RelayReorders(p, q) PROVE net' \in Nets
    <3>1. PICK i \in 2..Len(net[p][q]) : net' = [net EXCEPT ![p][q] = Overtaken(@, i)]
      BY <2>1 DEF RelayReorders
    <3>2. Overtaken(net[p][q], i) \in Seq(Messages)
      BY <1>0, OvertakenElems DEF Nets
    <3> QED BY <1>0, <3>1, <3>2 DEF Nets
  <2>2. ASSUME RelayLoses(p, q) PROVE net' \in Nets
    BY <1>0, <2>2, RestFrames DEF RelayLoses, Consume
  <2>3. net' \in Nets
    BY <1>7, <1>0, <2>1, <2>2
  <2>4. RuntimeTypes'
    BY <1>0, <1>7 DEF RelayReorders, RelayLoses, RuntimeTypes, Counters, Spend
  <2>5. RoleTypes' /\ CallTypes'
    BY <1>0, <1>7 DEF RelayReorders, RelayLoses, RoleTypes, CallTypes, roleVars, callVars
  <2> QED BY <2>3, <2>4, <2>5 DEF TypeOK
<1> QED BY <1>1, <1>2, <1>3, <1>4, <1>5, <1>6, <1>7 DEF RouteNext

\* Every variable keeps its type, for every set of peers and every bound.
THEOREM TypeCorrect == Spec => []TypeOK
<1>1. Init => TypeOK
  BY InitTypes
<1>2. TypeOK /\ [Next]_vars => TypeOK'
  <2> SUFFICES ASSUME TypeOK, [Next]_vars PROVE TypeOK'
    OBVIOUS
  <2>1. CASE Next
    BY <2>1, TransferTypes, FolderTypes, EndTypes, RouteTypes DEF Next
  <2>2. CASE UNCHANGED vars
    BY <2>2 DEF vars, roleVars, callVars, TypeOK, RoleTypes, CallTypes, RuntimeTypes
  <2> QED BY <2>1, <2>2
<1> QED BY <1>1, <1>2, PTL DEF Spec

-----------------------------------------------------------------------------
(* One host, one writer, one line of succession, and a session that goes on *)
(* only under a host with a folder.  Each action is first reduced to what it *)
(* does to the clocks, to the calls and to the frames; the invariant then    *)
(* follows from these three.                                                 *)

\* A runtime adopts the clock that follows its own in the line.
Adopts(p, c) ==
  /\ Known(c) /\ c \in Clocks /\ c.epoch = clock[p].epoch + 1
  /\ clock' = [clock EXCEPT ![p] = c] /\ lineage' = lineage

\* The host of its own clock names a successor.
HandsOver(p, c) ==
  /\ clock[p].host = p /\ c \in Clocks /\ c.host # p /\ c.epoch = clock[p].epoch + 1
  /\ clock' = [clock EXCEPT ![p] = c] /\ lineage' = Append(lineage, c.host)

ClocksFollow ==
  \/ UNCHANGED <<clock, lineage>>
  \/ \E p \in Peers, c \in Clocks : Adopts(p, c) \/ HandsOver(p, c)

\* A call keeps its next clock and publishes a settled one, or is a new call of
\* the host of its own clock.
CallsFollow ==
  \A p \in Peers, s \in Slots :
    LET t == transfer[p][s]
        u == transfer'[p][s]
    IN u.phase # "idle" =>
         \/ /\ t.phase # "idle" /\ u.next = t.next
            /\ u.phase = "publish" => t.phase = "publish" \/ Settled(t.next)'
         \/ /\ u.phase = "prepare" /\ clock' = clock
            /\ u.next.epoch = clock[p].epoch + 1 /\ clock[p].host = p /\ u.next.host # p

\* What a runtime may put on the wire.
MaySend(q, p, m) ==
  m.clk = clock[q] /\ (m.type = "finalize" => m.next.host = p /\ Settled(m.next))

FramesFollow ==
  \A q, p \in Peers : \A m \in Elems(net'[q][p]) :
    m \in Elems(net[q][p]) \/ (m \in Messages /\ MaySend(q, p, m))

-----------------------------------------------------------------------------
(* The three facts together preserve the invariant.                        *)

\* The host of its own clock is the last of the line.
LEMMA HostIsLast ==
  ASSUME TypeOK, AuthorityInv, NEW p \in Peers, clock[p].host = p
  PROVE  clock[p].epoch + 1 = Len(lineage)
<1> DEFINE e == clock[p].epoch + 1
<1>1. clock[p] \in Clocks /\ lineage \in Seq(Peers)
  BY DEF TypeOK, RoleTypes
<1>2. e \in Nat /\ e \in 1..Len(lineage) /\ lineage[e] = p
  BY <1>1 DEF AuthorityInv, KnownClocks, Known, Clocks
<1>3. ~(e \in 1..(Len(lineage) - 1))
  BY <1>1, <1>2 DEF AuthorityInv, HostsMovedOn, Clocks
<1> QED BY <1>1, <1>2, <1>3

\* Clocks only grow, a clock that is of the line stays of it, and a settled one
\* stays settled.
LEMMA LineGrows ==
  ASSUME TypeOK, TypeOK', AuthorityInv, ClocksFollow
  PROVE  /\ Len(lineage') > 0
         /\ \A p \in Peers : clock'[p].epoch >= clock[p].epoch
         /\ \A p \in Peers : clock'[p].epoch = clock[p].epoch => clock'[p] = clock[p]
         /\ \A c \in Clocks : Known(c) => Known(c)'
         /\ \A c \in Clocks : Settled(c) => Settled(c)'
         /\ KnownClocks' /\ HostsMovedOn'
<1>1. clock \in [Peers -> Clocks] /\ lineage \in Seq(Peers) /\ Len(lineage) > 0
      /\ clock' \in [Peers -> Clocks] /\ lineage' \in Seq(Peers)
  BY DEF TypeOK, RoleTypes, AuthorityInv
<1>2. \A c \in Clocks : c.epoch \in Nat /\ c.host \in Peers
  BY DEF Clocks
<1>3. \A p \in Peers : clock[p].epoch \in Nat /\ clock'[p].epoch \in Nat
  BY <1>1, <1>2
<1>4. \A p \in Peers : Known(clock[p])
  BY DEF AuthorityInv, KnownClocks
<1>5. \A e \in 1..(Len(lineage) - 1) : clock[lineage[e]].epoch >= e
  BY DEF AuthorityInv, HostsMovedOn
<1>7. ASSUME NEW p \in Peers, NEW c \in Clocks, Adopts(p, c)
      PROVE  /\ Len(lineage') > 0
             /\ \A q \in Peers : clock'[q].epoch >= clock[q].epoch
             /\ \A q \in Peers : clock'[q].epoch = clock[q].epoch => clock'[q] = clock[q]
             /\ \A d \in Clocks : Known(d) => Known(d)'
             /\ \A q \in Peers : Known(clock[q])'
             /\ \A e \in 1..(Len(lineage') - 1) : clock'[lineage'[e]].epoch >= e
  <2>1. lineage' = lineage /\ clock' = [clock EXCEPT ![p] = c] /\ c.epoch = clock[p].epoch + 1
        /\ Known(c)
    BY <1>7 DEF Adopts
  <2>2. \A q \in Peers : clock'[q] = IF q = p THEN c ELSE clock[q]
    BY <1>1, <2>1
  <2>3. \A q \in Peers : clock'[q].epoch >= clock[q].epoch
    BY <1>3, <2>1, <2>2
  <2>4. \A q \in Peers : clock'[q].epoch = clock[q].epoch => clock'[q] = clock[q]
    BY <1>3, <2>1, <2>2
  <2>5. \A d : Known(d) => Known(d)'
    BY <2>1 DEF Known
  <2>6. \A q \in Peers : Known(clock[q])'
    BY <1>4, <2>1, <2>2 DEF Known
  <2>7. \A e \in 1..(Len(lineage) - 1) : lineage[e] \in Peers
    BY <1>1
  <2>8. \A e \in 1..(Len(lineage') - 1) : clock'[lineage'[e]].epoch >= e
    BY <1>1, <1>3, <1>5, <2>1, <2>3, <2>7
  <2> QED BY <1>1, <2>1, <2>3, <2>4, <2>5, <2>6, <2>8
<1>8. ASSUME NEW p \in Peers, NEW c \in Clocks, HandsOver(p, c)
      PROVE  /\ Len(lineage') > 0
             /\ \A q \in Peers : clock'[q].epoch >= clock[q].epoch
             /\ \A q \in Peers : clock'[q].epoch = clock[q].epoch => clock'[q] = clock[q]
             /\ \A d \in Clocks : Known(d) => Known(d)'
             /\ \A q \in Peers : Known(clock[q])'
             /\ \A e \in 1..(Len(lineage') - 1) : clock'[lineage'[e]].epoch >= e
  <2>1. /\ lineage' = Append(lineage, c.host) /\ clock' = [clock EXCEPT ![p] = c]
        /\ c.epoch = clock[p].epoch + 1 /\ clock[p].host = p /\ c.host \in Peers
    BY <1>2, <1>8 DEF HandsOver
  <2>2. \A q \in Peers : clock'[q] = IF q = p THEN c ELSE clock[q]
    BY <1>1, <2>1
  <2>3. \A q \in Peers : clock'[q].epoch >= clock[q].epoch
    BY <1>3, <2>1, <2>2
  <2>4. \A q \in Peers : clock'[q].epoch = clock[q].epoch => clock'[q] = clock[q]
    BY <1>3, <2>1, <2>2
  <2>5. /\ Len(lineage') = Len(lineage) + 1
        /\ \A e \in 1..Len(lineage) : lineage'[e] = lineage[e]
        /\ lineage'[Len(lineage) + 1] = c.host
    BY <1>1, <2>1
  <2>6. Len(lineage) = clock[p].epoch + 1
    BY <2>1, HostIsLast
  <2>7. \A d \in Clocks : Known(d) => Known(d)'
    BY <1>1, <1>2, <2>5 DEF Known
  <2>8. Known(c)'
    BY <1>1, <1>2, <1>3, <2>1, <2>5, <2>6 DEF Known
  <2>9. \A q \in Peers : Known(clock[q])'
    <3> SUFFICES ASSUME NEW q \in Peers PROVE Known(clock[q])'
      OBVIOUS
    <3>1. CASE q = p
      BY <2>2, <2>8, <3>1 DEF Known
    <3>2. CASE q # p
      <4>1. Known(clock[q]) /\ clock[q] \in Clocks /\ clock'[q] = clock[q]
        BY <1>1, <1>4, <2>2, <3>2
      <4> QED BY <1>1, <1>2, <2>5, <4>1 DEF Known
    <3> QED BY <3>1, <3>2
  <2>10. \A e \in 1..(Len(lineage') - 1) : clock'[lineage'[e]].epoch >= e
    <3> SUFFICES ASSUME NEW e \in 1..(Len(lineage') - 1)
                 PROVE  clock'[lineage'[e]].epoch >= e
      OBVIOUS
    <3>1. e \in 1..Len(lineage) /\ lineage'[e] = lineage[e] /\ lineage[e] \in Peers
      BY <1>1, <2>5
    <3>2. CASE e = Len(lineage)
      <4>1. lineage[e] = p
        BY <1>4, <2>1, <2>6, <3>2 DEF Known
      <4> QED BY <1>3, <2>1, <2>2, <2>6, <3>1, <3>2, <4>1
    <3>3. CASE e \in 1..(Len(lineage) - 1)
      BY <1>3, <1>5, <2>3, <3>1, <3>3
    <3> QED BY <1>1, <3>1, <3>2, <3>3
  <2> QED BY <1>1, <2>3, <2>4, <2>5, <2>7, <2>9, <2>10
<1>9. /\ Len(lineage') > 0
      /\ \A q \in Peers : clock'[q].epoch >= clock[q].epoch
      /\ \A q \in Peers : clock'[q].epoch = clock[q].epoch => clock'[q] = clock[q]
      /\ \A d \in Clocks : Known(d) => Known(d)'
      /\ \A q \in Peers : Known(clock[q])'
      /\ \A e \in 1..(Len(lineage') - 1) : clock'[lineage'[e]].epoch >= e
  <2>1. CASE UNCHANGED <<clock, lineage>>
    BY <1>1, <1>3, <1>4, <1>5, <2>1 DEF Known
  <2> QED BY <1>7, <1>8, <2>1 DEF ClocksFollow
<1>10. \A c \in Clocks : Settled(c) => Settled(c)'
  <2> SUFFICES ASSUME NEW c \in Clocks, Settled(c) PROVE Settled(c)'
    OBVIOUS
  <2>1. CASE Known(c)
    BY <1>9, <2>1 DEF Settled
  <2>2. CASE clock[c.host].epoch >= c.epoch
    BY <1>2, <1>3, <1>9, <2>2 DEF Settled
  <2> QED BY <2>1, <2>2 DEF Settled
<1> QED BY <1>9, <1>10 DEF KnownClocks, HostsMovedOn

\* A step that does to clocks, calls and frames what it may keeps the invariant.
LEMMA FollowingKeepsAuthority ==
  ASSUME TypeOK, TypeOK', AuthorityInv, ClocksFollow, CallsFollow, FramesFollow
  PROVE  AuthorityInv'
<1>1. /\ Len(lineage') > 0 /\ KnownClocks' /\ HostsMovedOn'
      /\ \A p \in Peers : clock'[p].epoch >= clock[p].epoch
      /\ \A p \in Peers : clock'[p].epoch = clock[p].epoch => clock'[p] = clock[p]
      /\ \A c \in Clocks : (Known(c) => Known(c)') /\ (Settled(c) => Settled(c)')
  BY LineGrows
<1>2. /\ clock \in [Peers -> Clocks] /\ clock' \in [Peers -> Clocks] /\ net \in Nets
      /\ transfer \in [Peers -> [Slots -> Transfers]] /\ transfer' \in [Peers -> [Slots -> Transfers]]
  BY DEF TypeOK, RoleTypes, CallTypes
<1>3. \A p \in Peers : clock[p].epoch \in Nat /\ clock'[p].epoch \in Nat
  BY <1>2 DEF Clocks
<1>4. KnownFrames'
  <2> SUFFICES ASSUME NEW q \in Peers, NEW p \in Peers, NEW m \in Elems(net'[q][p])
               PROVE  /\ Known(m.clk)' /\ m.clk.epoch <= clock'[q].epoch
                      /\ m.type = "finalize" => m.next.host = p /\ Settled(m.next)'
    BY DEF KnownFrames
  <2>1. CASE m \in Elems(net[q][p])
    <3>1. net[q][p] \in Seq(Messages)
      BY <1>2 DEF Nets
    <3>2. m \in Messages
      BY <2>1, <3>1 DEF Elems
    <3>3. /\ Known(m.clk) /\ m.clk.epoch <= clock[q].epoch
          /\ m.type = "finalize" => m.next.host = p /\ Settled(m.next)
      BY <2>1 DEF AuthorityInv, KnownFrames
    <3>4. m.clk \in Clocks /\ m.next \in Clocks /\ m.clk.epoch \in Nat
      BY <3>2 DEF Messages, Clocks
    <3> QED BY <1>1, <1>3, <3>3, <3>4
  <2>2. CASE m \in Messages /\ MaySend(q, p, m)
    <3>1. m.clk = clock[q] /\ (m.type = "finalize" => m.next.host = p /\ Settled(m.next))
      BY <2>2 DEF MaySend
    <3>2. m.clk \in Clocks /\ m.next \in Clocks
      BY <2>2 DEF Messages
    <3>3. Known(m.clk)
      BY <3>1 DEF AuthorityInv, KnownClocks
    <3> QED BY <1>1, <1>3, <3>1, <3>2, <3>3
  <2> QED BY <2>1, <2>2 DEF FramesFollow
<1>5. TransfersBehind'
  <2> SUFFICES ASSUME NEW p \in Peers, NEW s \in Slots, transfer'[p][s].phase # "idle"
               PROVE  LET u == transfer'[p][s] IN
                      /\ u.next.epoch <= clock'[p].epoch + 1
                      /\ u.next.epoch = clock'[p].epoch + 1 => clock'[p].host = p
                      /\ u.next.host # p
                      /\ u.phase = "publish" => Settled(transfer[p][s].next)'
    BY DEF TransfersBehind
  <2> DEFINE t == transfer[p][s]
             u == transfer'[p][s]
  <2>1. t.next \in Clocks /\ u.next \in Clocks /\ t.next.epoch \in Nat /\ u.next.epoch \in Nat
    BY <1>2 DEF Transfers, Clocks
  <2>2. CASE /\ t.phase # "idle" /\ u.next = t.next
             /\ u.phase = "publish" => t.phase = "publish" \/ Settled(t.next)'
    <3>1. /\ t.next.epoch <= clock[p].epoch + 1
          /\ t.next.epoch = clock[p].epoch + 1 => clock[p].host = p
          /\ t.next.host # p
          /\ t.phase = "publish" => Settled(t.next)
      BY <2>2 DEF AuthorityInv, TransfersBehind
    <3>2. clock'[p].epoch >= clock[p].epoch
          /\ (clock'[p].epoch = clock[p].epoch => clock'[p] = clock[p])
      BY <1>1
    <3>3. u.next.epoch <= clock'[p].epoch + 1
      BY <1>3, <2>1, <2>2, <3>1, <3>2
    <3>4. u.next.epoch = clock'[p].epoch + 1 => clock'[p].host = p
      BY <1>3, <2>1, <2>2, <3>1, <3>2
    <3>5. u.phase = "publish" => Settled(t.next)'
      <4>1. \A c \in Clocks : c = u.next => (Settled(c)' <=> Settled(t.next)')
        BY DEF Settled, Known
      <4> QED BY <1>1, <2>1, <2>2, <3>1, <4>1
    <3> QED BY <2>2, <3>1, <3>3, <3>4, <3>5
  <2>3. CASE /\ u.phase = "prepare" /\ clock' = clock
             /\ u.next.epoch = clock[p].epoch + 1 /\ clock[p].host = p /\ u.next.host # p
    BY <1>3, <2>3
  <2> QED BY <2>2, <2>3 DEF CallsFollow
<1> QED BY <1>1, <1>4, <1>5 DEF AuthorityInv

-----------------------------------------------------------------------------
(* What each group of actions does to clocks, calls and frames.            *)

\* Sending from p what p may send does to the frames what a step may.
LEMMA SentFollows ==
  ASSUME NEW n \in Nets, NEW p \in Peers, NEW q \in Peers, NEW m \in Messages, MaySend(p, q, m),
         net' = Sent(n, p, q, m),
         \A a, b \in Peers : \A x \in Elems(n[a][b]) :
           x \in Elems(net[a][b]) \/ (x \in Messages /\ MaySend(a, b, x))
  PROVE  FramesFollow
<1>1. \A a, b \in Peers : \A x \in Elems(net'[a][b]) :
        (a = p /\ b = q /\ x = m) \/ x \in Elems(n[a][b])
  BY SentFrame
<1> QED BY <1>1 DEF FramesFollow

LEMMA BroadcastFollows ==
  ASSUME net \in Nets, NEW p \in Peers, NEW m \in Messages, m.clk = clock[p],
         m.type # "finalize"
  PROVE  /\ Broadcast(net, p, m) \in Nets
         /\ \A a, b \in Peers : \A x \in Elems(Broadcast(net, p, m)[a][b]) :
              x \in Elems(net[a][b]) \/ (x \in Messages /\ MaySend(a, b, x))
<1>1. \A a \in Peers : MaySend(p, a, m)
  BY DEF MaySend
<1>2. /\ Broadcast(net, p, m) \in Nets
      /\ \A a, b \in Peers : \A x \in Elems(Broadcast(net, p, m)[a][b]) :
           x \in Elems(net[a][b]) \/ (a = p /\ x = m)
  BY BroadcastFrame
<1> QED BY <1>1, <1>2

LEMMA TransferFollows ==
  ASSUME TypeOK, AuthorityInv, NEW p \in Peers, TransferNext(p)
  PROVE  ClocksFollow /\ CallsFollow /\ FramesFollow
<1>0. /\ net \in Nets /\ clock \in [Peers -> Clocks] /\ clock[p] \in Clocks
      /\ transfer \in [Peers -> [Slots -> Transfers]]
      /\ used \in [Counters -> Nat]
  BY DEF TypeOK, RoleTypes, CallTypes, RuntimeTypes
<1>a. \A s \in Slots : /\ transfer[p][s].id \in Nat /\ transfer[p][s].next \in Clocks
                       /\ transfer[p][s].next.host \in Peers
  BY <1>0 DEF Transfers, Clocks
<1>b. \A a, b \in Peers : \A x \in Elems(net[a][b]) :
           x \in Elems(net[a][b]) \/ (x \in Messages /\ MaySend(a, b, x))
  OBVIOUS
<1>c. UNCHANGED <<clock, lineage>> => ClocksFollow
  BY DEF ClocksFollow
<1>d. UNCHANGED net => FramesFollow
  BY DEF FramesFollow
<1>e. ASSUME NEW s \in Slots, transfer' = [transfer EXCEPT ![p][s] = IdleTransfer] PROVE CallsFollow
  BY <1>0, <1>e DEF CallsFollow, IdleTransfer, Settled, Known
<1>1. CASE PreparedExpires(p)
  BY <1>1, <1>c, <1>d DEF PreparedExpires, roleVars, callVars, CallsFollow, Settled, Known
<1>2. ASSUME NEW s \in Slots, NEW q \in Peers, TransferStart(p, s, q)
      PROVE  ClocksFollow /\ CallsFollow /\ FramesFollow
  <2> DEFINE id == used.transfers + 1
             next == [epoch |-> clock[p].epoch + 1, host |-> q]
             m == TransferFrame("prepare", clock[p], id, next)
  <2>1. id \in Nat /\ next \in Clocks
    BY <1>0 DEF Counters, Clocks
  <2>a. m \in Messages
    BY <1>0, <2>1, FrameTypes DEF MsgTypes
  <2>2. m \in Messages /\ m.clk = clock[p] /\ m.type = "prepare"
    BY <2>a DEF TransferFrame, Frame
  <2>3. FramesFollow
    BY <1>0, <1>2, <1>b, <2>2, SentFollows DEF TransferStart, MaySend
  <2>4. CallsFollow
    BY <1>0, <1>2 DEF TransferStart, CallsFollow, IsHost, Linked, roleVars, Settled, Known
  <2> QED BY <1>2, <1>c, <2>3, <2>4 DEF TransferStart, roleVars
<1>3. ASSUME NEW s \in Slots, TransferFlushed(p, s)
      PROVE  ClocksFollow /\ CallsFollow /\ FramesFollow
  <2> DEFINE t == transfer[p][s]
             m == TransferFrame("commit", clock[p], t.id, t.next)
  <2>a. m \in Messages
    BY <1>0, <1>a, FrameTypes DEF MsgTypes
  <2>2. m \in Messages /\ m.clk = clock[p] /\ m.type = "commit"
    BY <2>a DEF TransferFrame, Frame
  <2>3. FramesFollow
    BY <1>0, <1>3, <1>a, <1>b, <2>2, SentFollows DEF TransferFlushed, MaySend
  <2>4. CallsFollow
    BY <1>0, <1>3 DEF TransferFlushed, CallsFollow, Settled, Known
  <2> QED BY <1>3, <1>c, <2>3, <2>4 DEF TransferFlushed, roleVars
<1>4. ASSUME NEW s \in Slots, TransferFails(p, s) \/ TransferPublishFails(p, s)
      PROVE  ClocksFollow /\ CallsFollow /\ FramesFollow
  BY <1>4, <1>c, <1>d, <1>e DEF TransferFails, TransferPublishFails, roleVars
<1>5. ASSUME NEW s \in Slots, TransferPublish(p, s)
      PROVE  ClocksFollow /\ CallsFollow /\ FramesFollow
  <2> DEFINE t == transfer[p][s]
             a == Frame("announce", clock[p])
             m == TransferFrame("finalize", clock[p], t.id, t.next)
             n == Broadcast(net, p, a)
  <2>a. m \in Messages /\ a \in Messages
    BY <1>0, <1>a, FrameTypes DEF MsgTypes
  <2>1. /\ m \in Messages /\ m.clk = clock[p] /\ m.next = t.next
        /\ a \in Messages /\ a.clk = clock[p] /\ a.type = "announce"
    BY <2>a DEF TransferFrame, Frame
  <2>2. Settled(t.next)
    BY <1>5 DEF AuthorityInv, TransfersBehind, TransferPublish
  <2>3. MaySend(p, t.next.host, m)
    BY <2>1, <2>2 DEF MaySend
  <2>4. FramesFollow
    <3>1. /\ n \in Nets
          /\ \A b, c \in Peers : \A x \in Elems(n[b][c]) :
               x \in Elems(net[b][c]) \/ (x \in Messages /\ MaySend(b, c, x))
      BY <1>0, <2>1, BroadcastFollows
    <3>2. net' = Sent(n, p, t.next.host, m)
      BY <1>5 DEF TransferPublish
    <3> HIDE DEF a, m, n
    <3> QED BY <1>a, <2>1, <2>3, <3>1, <3>2, SentFollows
  <2> QED BY <1>5, <1>c, <1>e, <2>4 DEF TransferPublish
<1> QED BY <1>1, <1>2, <1>3, <1>4, <1>5 DEF TransferNext

\* Actions that touch neither clocks nor calls, or only put calls to rest.
LEMMA FolderFollows ==
  ASSUME TypeOK, NEW p \in Peers, FolderNext(p)
  PROVE  ClocksFollow /\ CallsFollow /\ FramesFollow
<1>0. net \in Nets /\ clock[p] \in Clocks
  BY DEF TypeOK, RoleTypes
<1>1. UNCHANGED <<clock, lineage, transfer>>
  BY DEF FolderNext, FolderStart, FolderValidated, FolderVerified, FolderMaterialized,
         FolderPersisted, FolderPublish, FolderFails, roleVars
<1>2. ClocksFollow /\ CallsFollow
  BY <1>1 DEF ClocksFollow, CallsFollow, Settled, Known
<1>3. CASE FolderPublish(p)
  <2>1. LET m == Frame("storageReady", clock[p]) IN
        m \in Messages /\ m.clk = clock[p] /\ m.type = "storageReady"
    BY <1>0, FrameTypes DEF MsgTypes
  <2> QED BY <1>0, <1>2, <1>3, <2>1, BroadcastFollows DEF FolderPublish, FramesFollow
<1>4. CASE ~FolderPublish(p)
  <2>1. net' = net
    BY <1>4 DEF FolderNext, FolderStart, FolderValidated, FolderVerified, FolderMaterialized,
                FolderPersisted, FolderFails
  <2> QED BY <1>2, <2>1 DEF FramesFollow
<1> QED BY <1>3, <1>4

\* A disposed runtime drops its calls and its routes.
LEMMA DisposeFollows ==
  ASSUME TypeOK, NEW p \in Peers, Dispose(p), UNCHANGED <<clock, lineage>>
  PROVE  ClocksFollow /\ CallsFollow /\ FramesFollow
<1>1. net \in Nets /\ transfer \in [Peers -> [Slots -> Transfers]]
  BY DEF TypeOK, CallTypes
<1>2. FramesFollow
  BY <1>1, GoneFrames DEF Dispose, FramesFollow
<1>3. CallsFollow
  BY <1>1 DEF Dispose, CallsFollow, IdleTransfer, Settled, Known
<1> QED BY <1>2, <1>3 DEF ClocksFollow

LEMMA EndFollows ==
  ASSUME TypeOK, NEW p \in Peers, EndNext(p)
  PROVE  ClocksFollow /\ CallsFollow /\ FramesFollow
<1>0. net \in Nets /\ clock[p] \in Clocks
      /\ used \in [Counters -> Nat]
  BY DEF TypeOK, RoleTypes, RuntimeTypes
<1>a. ASSUME NEW m \in Messages, m.clk = clock[p], m.type # "finalize", net' = Broadcast(net, p, m)
      PROVE  FramesFollow
  BY <1>0, <1>a, BroadcastFollows DEF FramesFollow
<1>b. UNCHANGED <<clock, lineage, transfer>> => ClocksFollow /\ CallsFollow
  BY DEF ClocksFollow, CallsFollow, Settled, Known
<1>1. CASE EndStart(p)
  <2> DEFINE id == used.ends + 1
             m == [Frame("ending", clock[p]) EXCEPT !.id = id]
  <2>1. id \in Nat
    BY <1>0 DEF Counters
  <2>2. m \in Messages
    BY <1>0, <2>1, FrameTypes DEF MsgTypes
  <2>3. m.clk = clock[p] /\ m.type = "ending"
    BY DEF Frame
  <2> QED BY <1>1, <1>a, <1>b, <2>2, <2>3 DEF EndStart, roleVars
<1>2. CASE FenceExpires(p)
  BY <1>2, <1>b DEF FenceExpires, roleVars, FramesFollow
<1>3. CASE EndSaves(p)
  <2>1. Frame("ended", clock[p]) \in Messages
    BY <1>0, FrameTypes DEF MsgTypes
  <2>2. Frame("ended", clock[p]).clk = clock[p] /\ Frame("ended", clock[p]).type = "ended"
    BY DEF Frame
  <2> QED BY <1>3, <1>a, <1>b, <2>1, <2>2 DEF EndSaves, roleVars
<1>4. CASE EndFails(p)
  <2>1. Frame("endingCancelled", clock[p]) \in Messages
    BY <1>0, FrameTypes DEF MsgTypes
  <2>2. /\ Frame("endingCancelled", clock[p]).clk = clock[p]
        /\ Frame("endingCancelled", clock[p]).type = "endingCancelled"
    BY DEF Frame
  <2> QED BY <1>4, <1>a, <1>b, <2>1, <2>2 DEF EndFails, roleVars
<1>5. CASE EndCloses(p)
  BY <1>5, DisposeFollows DEF EndCloses
<1> QED BY <1>1, <1>2, <1>3, <1>4, <1>5 DEF EndNext

\* The acknowledgement of a commit either names the successor or, when the host
\* has already moved on, comes from a target that has outgrown the offer.
LEMMA ReplyFollows ==
  ASSUME TypeOK, TypeOK', AuthorityInv, NEW p \in Peers, NEW q \in Peers, NEW m \in Elems(net[q][p]),
         m \in Messages, ~Older(m.clk, clock[p]), OnTransferReply(q, p, m)
  PROVE  ClocksFollow /\ CallsFollow
<1>0. /\ clock \in [Peers -> Clocks] /\ clock[p] \in Clocks /\ clock[p].epoch \in Nat
      /\ clock[q].epoch \in Nat /\ m.clk.epoch \in Nat
      /\ transfer \in [Peers -> [Slots -> Transfers]]
  BY DEF TypeOK, RoleTypes, CallTypes, Clocks, Messages
<1>1. CASE UNCHANGED <<roleVars, transfer>>
  BY <1>1 DEF roleVars, ClocksFollow, CallsFollow, Settled, Known
<1>2. ASSUME NEW s \in Slots, transfer[p][s].phase = "prepare",
             transfer' = [transfer EXCEPT ![p][s].phase = "flush"], UNCHANGED roleVars
      PROVE  ClocksFollow /\ CallsFollow
  BY <1>0, <1>2 DEF roleVars, ClocksFollow, CallsFollow, Transfers, Settled, Known
<1>3. ASSUME NEW s \in Slots, Awaiting(p, s, q, m), transfer[p][s].phase = "commit",
             TransferCommitted(p, s)
      PROVE  ClocksFollow /\ CallsFollow
  <2> DEFINE t == transfer[p][s]
  <2>1. /\ t.next \in Clocks /\ t.next.epoch \in Nat /\ t.next.host \in Peers /\ t.next.host = q
        /\ t \in Transfers
    BY <1>0, <1>3 DEF Awaiting, Transfers, Clocks
  <2>2. /\ t.next.epoch <= clock[p].epoch + 1
        /\ t.next.epoch = clock[p].epoch + 1 => clock[p].host = p
        /\ t.next.host # p
    BY <1>3 DEF AuthorityInv, TransfersBehind
  <2>3. CASE Accepts(p, t.next, p)
    <3>1. /\ clock' = [clock EXCEPT ![p] = t.next] /\ lineage' = Append(lineage, t.next.host)
          /\ transfer' = [transfer EXCEPT ![p][s].phase = "publish"]
      BY <1>3, <2>3 DEF TransferCommitted, HostChanged
    <3>2. HandsOver(p, t.next)
      BY <2>1, <2>2, <2>3, <3>1 DEF HandsOver, Accepts
    <3>3. ClocksFollow
      BY <2>1, <3>2 DEF ClocksFollow
    <3>4. \A c \in Clocks : c = t.next => Settled(c)'
      <4>1. KnownClocks' /\ \A c \in Clocks : Known(c) => Known(c)'
        BY <3>3, LineGrows
      <4>2. clock'[p] = t.next
        BY <1>0, <3>1
      <4> QED BY <4>1, <4>2 DEF KnownClocks, Settled, Known
    <3>5. \A r \in Peers, z \in Slots : r # p \/ z # s => transfer'[r][z] = transfer[r][z]
      BY <1>0, <3>1
    <3>6. transfer'[p][s].next = t.next /\ t.phase # "idle"
      BY <1>0, <1>3, <2>1, <3>1 DEF Transfers
    <3>7. Settled(transfer[p][s].next)'
      BY <2>1, <3>4, <3>6 DEF Settled, Known
    <3>8. CallsFollow
      <4> SUFFICES ASSUME NEW r \in Peers, NEW z \in Slots, transfer'[r][z].phase # "idle"
                   PROVE  /\ transfer[r][z].phase # "idle"
                          /\ transfer'[r][z].next = transfer[r][z].next
                          /\ transfer'[r][z].phase = "publish" =>
                               transfer[r][z].phase = "publish" \/ Settled(transfer[r][z].next)'
        BY DEF CallsFollow
      <4>1. CASE r = p /\ z = s
        BY <3>6, <3>7, <4>1
      <4>2. CASE r # p \/ z # s
        BY <3>5, <4>2
      <4> QED BY <4>1, <4>2
    <3> QED BY <3>3, <3>8
  <2>4. CASE ~Accepts(p, t.next, p)
    <3>1. UNCHANGED <<clock, lineage>>
      BY <1>3, <2>4 DEF TransferCommitted
    <3>2. t.next.epoch <= clock[p].epoch
      BY <1>0, <2>1, <2>2, <2>4 DEF Accepts, Older
    <3>3. clock[p].epoch <= m.clk.epoch
      BY <1>0 DEF Older
    <3>4. m.clk.epoch <= clock[q].epoch
      BY DEF AuthorityInv, KnownFrames
    <3>5. Settled(t.next)
      BY <1>0, <2>1, <3>2, <3>3, <3>4 DEF Settled
    <3>6. /\ \A r \in Peers, z \in Slots : r # p \/ z # s => transfer'[r][z] = transfer[r][z]
          /\ transfer'[p][s].next = t.next /\ t.phase # "idle"
      BY <1>0, <1>3, <2>1, <2>4 DEF TransferCommitted, Transfers
    <3>7. Settled(transfer[p][s].next)'
      BY <3>1, <3>5, <3>6 DEF Settled, Known
    <3>8. CallsFollow
      <4> SUFFICES ASSUME NEW r \in Peers, NEW z \in Slots, transfer'[r][z].phase # "idle"
                   PROVE  /\ transfer[r][z].phase # "idle"
                          /\ transfer'[r][z].next = transfer[r][z].next
                          /\ transfer'[r][z].phase = "publish" =>
                               transfer[r][z].phase = "publish" \/ Settled(transfer[r][z].next)'
        BY DEF CallsFollow
      <4>1. CASE r = p /\ z = s
        BY <3>6, <3>7, <4>1
      <4>2. CASE r # p \/ z # s
        BY <3>6, <4>2
      <4> QED BY <4>1, <4>2
    <3> QED BY <3>1, <3>8 DEF ClocksFollow
  <2> QED BY <2>3, <2>4
<1> QED BY <1>1, <1>2, <1>3 DEF OnTransferReply

\* Only an announcement and a finalize move the clock of their receiver, and
\* both carry a clock of the line.
LEMMA ReceiveFollows ==
  ASSUME TypeOK, TypeOK', AuthorityInv, NEW p \in Peers, NEW q \in Peers, Receive(q, p)
  PROVE  ClocksFollow /\ CallsFollow /\ FramesFollow
<1> DEFINE m == Head(net[q][p])
<1>0. /\ net \in Nets /\ clock \in [Peers -> Clocks] /\ clock[p] \in Clocks
      /\ clock[p].epoch \in Nat
  BY DEF TypeOK, RoleTypes, Clocks
<1>a. /\ Rest(q, p) \in Nets /\ m \in Messages /\ m \in Elems(net[q][p])
      /\ \A a, b \in Peers : Elems(Rest(q, p)[a][b]) \subseteq Elems(net[a][b])
  BY <1>0, RestFrames DEF Receive
<1>b. /\ m.clk \in Clocks /\ m.next \in Clocks /\ m.id \in Nat
      /\ m.clk.epoch \in Nat /\ m.next.epoch \in Nat
  BY <1>a DEF Messages, Clocks
<1>c. Consume(q, p) => FramesFollow
  BY <1>a DEF Consume, FramesFollow
<1>d. ASSUME NEW r \in Messages, r.clk = clock[p], r.type # "finalize", Reply(q, p, r)
      PROVE  FramesFollow
  <2>1. net' = Sent(Rest(q, p), p, q, r) /\ MaySend(p, q, r)
    BY <1>d DEF Reply, MaySend
  <2> QED BY <1>a, <2>1, SentFollows
<1>e. UNCHANGED <<clock, lineage, transfer>> => ClocksFollow /\ CallsFollow
  BY DEF ClocksFollow, CallsFollow, Settled, Known
<1>f. UNCHANGED transfer => CallsFollow
  BY DEF CallsFollow, Settled, Known
<1>1. CASE Consume(q, p) /\ UNCHANGED <<roleVars, ending, closed, callVars, prepared, up, used>>
  BY <1>1, <1>c, <1>e DEF roleVars, callVars
<1>2. CASE OnAnnounce(q, p, m)
  <2>1. CASE q = clock[p].host /\ Accepts(p, m.clk, q)
    <3>1. Known(m.clk)
      BY <1>a DEF AuthorityInv, KnownFrames
    <3>2. Adopts(p, m.clk)
      BY <1>2, <1>b, <2>1, <3>1 DEF OnAnnounce, HostChanged, Accepts, Adopts
    <3> QED BY <1>2, <1>b, <1>c, <1>f, <3>2 DEF OnAnnounce, callVars, ClocksFollow
  <2>2. CASE ~(q = clock[p].host /\ Accepts(p, m.clk, q))
    BY <1>2, <1>c, <1>e, <2>2 DEF OnAnnounce, callVars
  <2> QED BY <2>1, <2>2
<1>3. CASE OnPrepare(q, p, m)
  <2> DEFINE r == TransferFrame("ready", clock[p], m.id, m.next)
  <2>1. r \in Messages
    BY <1>0, <1>b, FrameTypes DEF MsgTypes
  <2>2. r.clk = clock[p] /\ r.type = "ready"
    BY DEF TransferFrame, Frame
  <2>3. FramesFollow
    BY <1>3, <1>c, <1>d, <2>1, <2>2 DEF OnPrepare
  <2> QED BY <1>3, <1>e, <2>3 DEF OnPrepare, roleVars, callVars
<1>4. CASE OnCommit(q, p, m)
  <2> DEFINE r == TransferFrame("ack", clock[p], m.id, m.next)
  <2>1. r \in Messages
    BY <1>0, <1>b, FrameTypes DEF MsgTypes
  <2>2. r.clk = clock[p] /\ r.type = "ack"
    BY DEF TransferFrame, Frame
  <2>3. FramesFollow
    BY <1>4, <1>c, <1>d, <2>1, <2>2 DEF OnCommit
  <2> QED BY <1>4, <1>e, <2>3 DEF OnCommit, roleVars, callVars
<1>5. CASE OnTransferReply(q, p, m) /\ ~Older(m.clk, clock[p])
  <2>1. ClocksFollow /\ CallsFollow
    BY <1>5, <1>a, ReplyFollows
  <2> QED BY <1>5, <1>c, <2>1 DEF OnTransferReply
<1>6. CASE OnFinalize(q, p, m)
  <2>1. CASE [id |-> m.id, from |-> q, next |-> m.next] \in prepared[p] /\ Accepts(p, m.next, q)
    <3>1. m.next.host = p /\ Settled(m.next)
      BY <1>6, <1>a DEF AuthorityInv, KnownFrames, OnFinalize
    <3>2. Known(m.next)
      <4>1. m.next.epoch > clock[p].epoch
        BY <1>0, <1>b, <2>1 DEF Accepts
      <4>2. ~(clock[m.next.host].epoch >= m.next.epoch)
        BY <1>0, <1>b, <3>1, <4>1
      <4> QED BY <3>1, <4>2 DEF Settled
    <3>3. Adopts(p, m.next)
      BY <1>6, <1>b, <2>1, <3>2 DEF OnFinalize, HostChanged, Accepts, Adopts
    <3> QED BY <1>6, <1>b, <1>c, <1>f, <3>3 DEF OnFinalize, callVars, ClocksFollow
  <2>2. CASE ~([id |-> m.id, from |-> q, next |-> m.next] \in prepared[p] /\ Accepts(p, m.next, q))
    BY <1>6, <1>c, <1>e, <2>2 DEF OnFinalize, callVars
  <2> QED BY <2>1, <2>2
<1>7. CASE OnStorageNews(q, p, m)
  BY <1>7, <1>c, <1>e DEF OnStorageNews, callVars
<1>8. CASE OnDirectory(q, p, m)
  <2>1. <<>> \in Seq(Messages) /\ Elems(<<>>) = {}
    BY EmptyElems
  <2>2. ASSUME net' = [net EXCEPT ![q][p] = <<>>, ![p][q] = <<>>] PROVE FramesFollow
    <3>1. \A a, b \in Peers : net'[a][b] = net[a][b] \/ net'[a][b] = <<>>
      BY <1>0, <2>2 DEF Nets
    <3> QED BY <2>1, <3>1 DEF FramesFollow
  <2> QED BY <1>8, <1>c, <1>e, <2>2 DEF OnDirectory, roleVars, callVars
<1>9. CASE OnEnding(q, p, m)
  <2> DEFINE r == [Frame("endingAck", clock[p]) EXCEPT !.id = m.id]
  <2>1. r \in Messages
    BY <1>0, <1>b, EndingAckType
  <2>2. r.clk = clock[p] /\ r.type = "endingAck"
    BY DEF Frame
  <2>3. FramesFollow
    BY <1>9, <1>c, <1>d, <2>1, <2>2 DEF OnEnding
  <2> QED BY <1>9, <1>e, <2>3 DEF OnEnding, roleVars, callVars
<1>10. CASE OnEndingAck(q, p, m)
  BY <1>10, <1>c, <1>e DEF OnEndingAck, roleVars
<1>11. CASE OnEndingCancelled(q, p, m)
  BY <1>11, <1>c, <1>e DEF OnEndingCancelled, roleVars, callVars
<1>12. CASE OnEnded(q, p, m)
  <2>1. CASE q = clock[p].host
    BY <1>12, <2>1, DisposeFollows DEF OnEnded
  <2>2. CASE q # clock[p].host
    BY <1>1, <1>12, <2>2 DEF OnEnded
  <2> QED BY <2>1, <2>2
<1>13. \/ Consume(q, p) /\ UNCHANGED <<roleVars, ending, closed, callVars, prepared, up, used>>
       \/ OnAnnounce(q, p, m) \/ OnPrepare(q, p, m) \/ OnCommit(q, p, m)
       \/ (OnTransferReply(q, p, m) /\ ~Older(m.clk, clock[p]))
       \/ OnFinalize(q, p, m) \/ OnStorageNews(q, p, m)
       \/ OnDirectory(q, p, m) \/ OnEnding(q, p, m) \/ OnEndingAck(q, p, m)
       \/ OnEndingCancelled(q, p, m) \/ OnEnded(q, p, m)
  BY DEF Receive, OnTransferReply, Agnostic
<1> QED BY <1>1, <1>2, <1>3, <1>4, <1>5, <1>6, <1>7, <1>8, <1>9, <1>10, <1>11, <1>12, <1>13

LEMMA RouteFollows ==
  ASSUME TypeOK, TypeOK', AuthorityInv, NEW p \in Peers, RouteNext(p)
  PROVE  ClocksFollow /\ CallsFollow /\ FramesFollow
<1>0. net \in Nets /\ clock \in [Peers -> Clocks] /\ waiting \in [Peers -> BOOLEAN]
  BY DEF TypeOK, RoleTypes
<1>a. UNCHANGED <<clock, lineage, transfer>> => ClocksFollow /\ CallsFollow
  BY DEF ClocksFollow, CallsFollow, Settled, Known
<1>b. <<>> \in Seq(Messages) /\ Elems(<<>>) = {}
  BY EmptyElems
<1>1. ASSUME NEW q \in Peers, Receive(q, p) PROVE ClocksFollow /\ CallsFollow /\ FramesFollow
  BY <1>1, ReceiveFollows
<1>2. ASSUME NEW q \in Peers, Heartbeat(p, q) PROVE ClocksFollow /\ CallsFollow /\ FramesFollow
  <2> DEFINE m == [Frame("heartbeat", clock[p]) EXCEPT !.ready = ~waiting[p]]
  <2>1. m \in Messages
    BY <1>0, FrameTypes DEF MsgTypes
  <2>2. m.clk = clock[p] /\ m.type = "heartbeat"
    BY DEF Frame
  <2>3. MaySend(p, q, m) /\ net' = Sent(net, p, q, m)
    BY <1>2, <2>2 DEF MaySend, Heartbeat
  <2>4. FramesFollow
    BY <1>0, <2>1, <2>3, SentFollows
  <2> QED BY <1>2, <1>a, <2>4 DEF Heartbeat, roleVars, callVars
<1>3. ASSUME NEW q \in Peers, LinkDown(p, q) PROVE ClocksFollow /\ CallsFollow /\ FramesFollow
  <2>1. net' = [net EXCEPT ![p][q] = <<>>, ![q][p] = <<>>]
    BY <1>3 DEF LinkDown
  <2>2. FramesFollow
    BY <1>0, <1>b, <2>1 DEF FramesFollow, Nets
  <2> QED BY <1>3, <1>a, <2>2 DEF LinkDown, roleVars, callVars
<1>4. ASSUME NEW q \in Peers, LinkUp(p, q) PROVE ClocksFollow /\ CallsFollow /\ FramesFollow
  <2> DEFINE D(r) == Frame("directory", clock[r])
  <2>1. \A r \in Peers : D(r) \in Messages
    BY <1>0, FrameTypes DEF MsgTypes
  <2>2. \A r, z \in Peers : MaySend(r, z, D(r))
    BY DEF MaySend, Frame
  <2>3. \A r \in Peers : Elems(<<D(r)>>) = {D(r)}
    BY DEF Elems
  <2>4. p # q /\ net' = [net EXCEPT ![p][q] = IF IsHost(p) THEN <<D(p)>> ELSE <<>>,
                                    ![q][p] = IF IsHost(q) THEN <<D(q)>> ELSE <<>>]
    BY <1>4 DEF LinkUp
  <2> HIDE DEF D
  <2>5. \A a, b \in Peers : net'[a][b] = net[a][b] \/ net'[a][b] = <<D(a)>> \/ net'[a][b] = <<>>
    BY <1>0, <2>4 DEF Nets
  <2>6. FramesFollow
    BY <1>b, <2>1, <2>2, <2>3, <2>5 DEF FramesFollow
  <2> QED BY <1>4, <1>a, <2>6 DEF LinkUp, roleVars, callVars
<1>5. CASE HostLost(p)
  BY <1>5, DisposeFollows DEF HostLost
<1>6. CASE Leave(p)
  BY <1>6, DisposeFollows DEF Leave
<1>7. ASSUME NEW q \in Peers, RelayReorders(p, q) PROVE ClocksFollow /\ CallsFollow /\ FramesFollow
  <2>1. PICK i \in 2..Len(net[p][q]) : net' = [net EXCEPT ![p][q] = Overtaken(@, i)]
    BY <1>7 DEF RelayReorders
  <2>2. Elems(Overtaken(net[p][q], i)) \subseteq Elems(net[p][q])
    BY <1>0, OvertakenElems DEF Nets
  <2>3. FramesFollow
    BY <1>0, <2>1, <2>2 DEF FramesFollow, Nets
  <2> QED BY <1>7, <1>a, <2>3 DEF RelayReorders, roleVars, callVars
<1>8. ASSUME NEW q \in Peers, RelayLoses(p, q) PROVE ClocksFollow /\ CallsFollow /\ FramesFollow
  <2>1. FramesFollow
    BY <1>0, <1>8, RestFrames DEF RelayLoses, Consume, FramesFollow
  <2> QED BY <1>8, <1>a, <2>1 DEF RelayLoses, roleVars, callVars
<1> QED BY <1>1, <1>2, <1>3, <1>4, <1>5, <1>6, <1>7, <1>8 DEF RouteNext

-----------------------------------------------------------------------------
(* The theorems.                                                           *)

LEMMA InitAuthority == Init => AuthorityInv
<1> SUFFICES ASSUME Init PROVE AuthorityInv
  OBVIOUS
<1>1. /\ lineage = <<Host0>> /\ clock = [p \in Peers |-> [epoch |-> 0, host |-> Host0]]
      /\ net = [p \in Peers |-> [q \in Peers |-> <<>>]]
      /\ transfer = [p \in Peers |-> [s \in Slots |-> IdleTransfer]]
  BY DEF Init
<1>2. KnownClocks
  BY <1>1 DEF KnownClocks, Known
<1>3. KnownFrames
  BY <1>1 DEF KnownFrames, Elems
<1>4. HostsMovedOn
  BY <1>1 DEF HostsMovedOn
<1>5. TransfersBehind
  BY <1>1 DEF TransfersBehind, IdleTransfer
<1> QED BY <1>1, <1>2, <1>3, <1>4, <1>5 DEF AuthorityInv

LEMMA StepFollows ==
  ASSUME TypeOK, TypeOK', AuthorityInv, [Next]_vars
  PROVE  ClocksFollow /\ CallsFollow /\ FramesFollow
<1>1. CASE Next
  BY <1>1, TransferFollows, FolderFollows, EndFollows, RouteFollows DEF Next
<1>2. CASE UNCHANGED vars
  BY <1>2 DEF vars, roleVars, callVars, ClocksFollow, CallsFollow, FramesFollow, Settled, Known
<1> QED BY <1>1, <1>2

\* The clocks in the runtimes and in the frames belong to one line of
\* succession, whose members but the last know that they have handed over.
THEOREM AuthorityInductive == Spec => []AuthorityInv
<1>1. TypeOK /\ TypeOK' /\ AuthorityInv /\ [Next]_vars => AuthorityInv'
  BY StepFollows, FollowingKeepsAuthority
<1> QED BY <1>1, InitAuthority, TypeCorrect, PTL DEF Spec

\* Two runtimes never believe at the same time that they are the Session Host,
\* with any number of transferHost calls under way and any loss of routes.
THEOREM OneHost == Spec => []AtMostOneHost
<1>1. TypeOK /\ AuthorityInv => AtMostOneHost
  <2> SUFFICES ASSUME TypeOK, AuthorityInv, NEW p \in Peers, NEW q \in Peers,
                      clock[p].host = p, clock[q].host = q
               PROVE  p = q
    BY DEF AtMostOneHost, IsHost
  <2>1. clock[p].epoch + 1 = Len(lineage) /\ clock[q].epoch + 1 = Len(lineage)
    BY HostIsLast
  <2>2. clock[p].host = lineage[Len(lineage)] /\ clock[q].host = lineage[Len(lineage)]
    BY <2>1 DEF AuthorityInv, KnownClocks, Known
  <2> QED BY <2>2
<1> QED BY <1>1, TypeCorrect, AuthorityInductive, PTL

\* A folder is the host's, and a storage root is an open runtime's with a folder.
LEMMA FolderStep ==
  ASSUME TypeOK, FolderInv, NEW p \in Peers,
         TransferNext(p) \/ FolderNext(p) \/ EndNext(p) \/ RouteNext(p)
  PROVE  FolderInv'
<1>0. /\ clock \in [Peers -> Clocks] /\ folder \in [Peers -> BOOLEAN] /\ root \in [Peers -> BOOLEAN]
      /\ closed \in [Peers -> BOOLEAN] /\ waiting \in [Peers -> BOOLEAN]
      /\ \A q \in Peers : (folder[q] => clock[q].host = q) /\ (root[q] => ~closed[q] /\ folder[q])
  BY DEF TypeOK, RoleTypes, RuntimeTypes, FolderInv
<1>a. UNCHANGED <<clock, folder, root, closed>> => FolderInv'
  BY <1>0 DEF FolderInv
<1>b. \A q \in Peers, c \in Clocks : HostChanged(q, c) /\ UNCHANGED closed => FolderInv'
  BY <1>0 DEF FolderInv, HostChanged
<1>c. \A q \in Peers : Dispose(q) /\ UNCHANGED <<clock, folder>> => FolderInv'
  BY <1>0 DEF FolderInv, Dispose
<1>d. \A q \in Peers : StorageReady(q) /\ ~closed[q] /\ UNCHANGED <<clock, folder, closed>>
        => FolderInv'
  BY <1>0 DEF FolderInv, StorageReady
<1>1. CASE TransferNext(p)
  <2>1. ASSUME NEW s \in Slots, TransferPublish(p, s) PROVE FolderInv'
    BY <1>0, <2>1 DEF TransferPublish, FolderInv
  <2>2. CASE UNCHANGED <<clock, folder, root, closed>>
    BY <1>a, <2>2
  <2> QED BY <1>1, <2>1, <2>2 DEF TransferNext, PreparedExpires, TransferStart, TransferFlushed,
            TransferFails, TransferPublishFails, roleVars
<1>2. CASE FolderNext(p)
  <2>1. CASE FolderPersisted(p)
    BY <1>d, <2>1 DEF FolderPersisted, HasAuthority, OwnsFolder
  <2>2. CASE FolderValidated(p) \/ FolderVerified(p)
    BY <1>0, <2>2 DEF FolderValidated, FolderVerified, FolderInv, HasAuthority, OwnsFolder, IsHost
  <2>3. CASE FolderFails(p)
    <3>1. CASE OwnsFolder(p)
      <4>1. /\ folder' = [folder EXCEPT ![p] = change[p].prev]
            /\ root' = [root EXCEPT ![p] = change[p].prev /\ ~waiting[p]]
            /\ UNCHANGED <<clock, closed>> /\ clock[p].host = p /\ ~closed[p]
        BY <2>3, <3>1 DEF FolderFails, OwnsFolder, IsHost
      <4> QED BY <1>0, <4>1 DEF FolderInv
    <3>2. CASE ~OwnsFolder(p)
      BY <1>0, <2>3, <3>2 DEF FolderFails, FolderInv
    <3> QED BY <3>1, <3>2
  <2>4. CASE FolderStart(p) \/ FolderMaterialized(p) \/ FolderPublish(p)
    BY <1>a, <2>4 DEF FolderStart, FolderMaterialized, FolderPublish, roleVars
  <2> QED BY <1>2, <2>1, <2>2, <2>3, <2>4 DEF FolderNext
<1>3. CASE EndNext(p)
  <2>1. CASE EndCloses(p)
    BY <1>c, <2>1 DEF EndCloses
  <2> QED BY <1>3, <1>a, <2>1 DEF EndNext, EndStart, FenceExpires, EndSaves, EndFails, roleVars
<1>4. ASSUME NEW q \in Peers, Receive(q, p) PROVE FolderInv'
  <2> DEFINE m == Head(net[q][p])
  <2>0. m \in Messages /\ m.clk \in Clocks /\ m.next \in Clocks /\ ~closed[p]
    BY <1>4, RestFrames DEF TypeOK, Receive, Messages
  <2>1. CASE OnAnnounce(q, p, m)
    BY <1>a, <1>b, <2>0, <2>1 DEF OnAnnounce
  <2>2. CASE OnFinalize(q, p, m)
    BY <1>a, <1>b, <2>0, <2>2 DEF OnFinalize
  <2>3. CASE OnStorageNews(q, p, m)
    <3>1. CASE StorageReady(p) /\ UNCHANGED <<clock, folder, closed>>
      BY <1>d, <2>0, <3>1
    <3>2. CASE UNCHANGED <<clock, folder, root, closed>>
      BY <1>a, <3>2
    <3> QED BY <2>3, <3>1, <3>2 DEF OnStorageNews
  <2>4. CASE OnEnded(q, p, m)
    BY <1>a, <1>c, <2>4 DEF OnEnded, roleVars
  <2>5. CASE OnTransferReply(q, p, m)
    <3>1. ASSUME NEW s \in Slots, TransferCommitted(p, s), UNCHANGED closed PROVE FolderInv'
      <4>1. transfer[p][s].next \in Clocks
        BY DEF TypeOK, CallTypes, Transfers
      <4>2. CASE Accepts(p, transfer[p][s].next, p)
        BY <1>b, <3>1, <4>1, <4>2 DEF TransferCommitted
      <4>3. CASE ~Accepts(p, transfer[p][s].next, p)
        <5>1. /\ UNCHANGED <<clock, closed>> /\ root' = [root EXCEPT ![p] = FALSE]
              /\ folder' = [folder EXCEPT ![p] = @ /\ IsHost(p)]
          BY <3>1, <4>3 DEF TransferCommitted
        <5> QED BY <1>0, <5>1 DEF FolderInv, IsHost
      <4> QED BY <4>2, <4>3
    <3> QED BY <1>a, <2>5, <3>1 DEF OnTransferReply, roleVars
  <2>6. CASE UNCHANGED <<clock, folder, root, closed>>
    BY <1>a, <2>6
  <2> QED BY <1>4, <2>1, <2>2, <2>3, <2>4, <2>5, <2>6
          DEF Receive, OnPrepare, OnCommit, OnDirectory, OnEnding, OnEndingAck,
              OnEndingCancelled, roleVars
<1>5. CASE RouteNext(p)
  <2>1. CASE HostLost(p) \/ Leave(p)
    BY <1>c, <2>1 DEF HostLost, Leave
  <2> QED BY <1>4, <1>5, <1>a, <2>1 DEF RouteNext, Heartbeat, LinkDown, LinkUp, RelayReorders,
                                      RelayLoses, roleVars
<1> QED BY <1>1, <1>2, <1>3, <1>5

\* The folder a runtime remembers and the root it writes through follow its role.
THEOREM FolderInductive == Spec => []FolderInv
<1>1. Init => FolderInv
  <2> SUFFICES ASSUME Init, NEW p \in Peers
               PROVE  (folder[p] => clock[p].host = p) /\ (root[p] => ~closed[p] /\ folder[p])
    BY DEF FolderInv
  <2>1. PICK ready \in BOOLEAN : /\ folder = [r \in Peers |-> ready /\ r = Host0]
                                 /\ root = [r \in Peers |-> ready /\ r = Host0]
    BY DEF Init
  <2>2. clock[p].host = Host0 /\ ~closed[p]
    BY DEF Init
  <2>3. folder[p] = (ready /\ p = Host0) /\ root[p] = (ready /\ p = Host0)
    BY <2>1
  <2> QED BY <2>2, <2>3
<1>2. TypeOK /\ FolderInv /\ [Next]_vars => FolderInv'
  <2> SUFFICES ASSUME TypeOK, FolderInv, [Next]_vars PROVE FolderInv'
    OBVIOUS
  <2>1. CASE Next
    BY <2>1, FolderStep DEF Next
  <2>2. CASE UNCHANGED vars
    BY <2>2 DEF vars, roleVars, FolderInv
  <2> QED BY <2>1, <2>2
<1> QED BY <1>1, <1>2, TypeCorrect, PTL DEF Spec

\* At most one runtime flushes to a shared folder, and it is the Session Host.
THEOREM OneWriter == Spec => []NoDualWriter
<1>1. AtMostOneHost /\ FolderInv => NoDualWriter
  BY DEF AtMostOneHost, FolderInv, NoDualWriter, IsHost
<1> QED BY <1>1, OneHost, FolderInductive, PTL

\* The clocks implement the line of succession of HostAuthority: a committed
\* transfer hands over, an announcement or a finalize is learnt, and nothing else
\* moves a clock.
THEOREM LineOfSuccession == Spec => ImplementsHostAuthority
<1>1. Init => Authority!Init
  BY DEF Init, Authority!Init
<1>2. TypeOK /\ TypeOK' /\ AuthorityInv /\ [Next]_vars => [Authority!Next]_(Authority!vars)
  <2> SUFFICES ASSUME TypeOK, TypeOK', AuthorityInv, [Next]_vars
               PROVE  [Authority!Next]_(Authority!vars)
    OBVIOUS
  <2>1. ClocksFollow
    BY StepFollows
  <2>2. /\ clock \in [Peers -> Clocks] /\ lineage \in Seq(Peers)
        /\ \A c \in Clocks : c.epoch \in Nat /\ c.host \in Peers
                             /\ c = [epoch |-> c.epoch, host |-> c.host]
    BY DEF TypeOK, RoleTypes, Clocks
  <2>3. CASE UNCHANGED <<clock, lineage>>
    BY <2>3 DEF Authority!vars
  <2>4. ASSUME NEW p \in Peers, NEW c \in Clocks, Adopts(p, c) PROVE Authority!Learn(p)
    <3>1. /\ c.epoch = clock[p].epoch + 1 /\ c.epoch + 1 \in 1..Len(lineage)
          /\ c.host = lineage[c.epoch + 1] /\ UNCHANGED lineage
          /\ clock' = [clock EXCEPT ![p] = c]
      BY <2>4 DEF Adopts, Known
    <3>2. c.epoch + 1 = clock[p].epoch + 2 /\ clock[p].epoch \in Nat
      BY <2>2, <3>1
    <3>3. c = [epoch |-> clock[p].epoch + 1, host |-> lineage[clock[p].epoch + 2]]
      BY <2>2, <3>1, <3>2
    <3>4. clock[p].epoch + 2 \in DOMAIN lineage
      BY <2>2, <3>1, <3>2
    <3> QED BY <3>1, <3>3, <3>4 DEF Authority!Learn, Authority!Successor
  <2>5. ASSUME NEW p \in Peers, NEW c \in Clocks, HandsOver(p, c)
        PROVE  Authority!HandOver(p, c.host)
    <3>1. /\ clock[p].host = p /\ c.host # p /\ c.epoch = clock[p].epoch + 1
          /\ clock' = [clock EXCEPT ![p] = c] /\ lineage' = Append(lineage, c.host)
      BY <2>5 DEF HandsOver
    <3>2. clock[p].epoch + 1 = Len(lineage)
      BY <3>1, HostIsLast
    <3> QED BY <2>2, <3>1, <3>2 DEF Authority!HandOver, Authority!Successor
  <2> QED BY <2>1, <2>2, <2>3, <2>4, <2>5 DEF ClocksFollow, Authority!Next
<1> QED BY <1>1, <1>2, TypeCorrect, AuthorityInductive, PTL DEF Spec, ImplementsHostAuthority, Authority!Spec

-----------------------------------------------------------------------------
(* A resumed session has a host with a folder, and a transfer that is not  *)
(* committed takes nothing from the host: for every set of peers, any      *)
(* number of overlapping calls and every bound.  Each action is reduced to *)
(* what it does to pauses and to the frames that end them, and the         *)
(* conditions on one runtime are shown for the runtime that acts.          *)

\* What may be put on the wire from q to p.
MayTell(q, p, m) ==
  /\ q # p /\ m \in Messages
  /\ Tells(m) => /\ m.clk = clock[q] /\ clock[q].host = q /\ ~waiting[q]
                 /\ UNCHANGED <<clock, waiting>>

FramesTell ==
  \A q, p \in Peers : \A m \in Elems(net'[q][p]) : m \in Elems(net[q][p]) \/ MayTell(q, p, m)

\* A runtime pauses again only under a new clock or another's word, and resumes as
\* the host or on the word of a host that is ready.
PausesAt(p) ==
  /\ closed[p] => closed'[p]
  /\ waiting'[p] /\ ~waiting[p] /\ clock'[p] = clock[p] => clock[p].host # p
  /\ ~waiting'[p] =>
       /\ clock'[p] = clock[p]
       /\ waiting[p] /\ clock[p].epoch > 0 => clock[p].host = p \/ Ready(clock[p])

PausesFollow == \A p \in Peers : PausesAt(p)

\* What a step keeps of the conditions on each runtime.
HoldsFollow == \A p \in Peers : Holds(p)'

Following == PausesFollow /\ FramesTell /\ HoldsFollow

-----------------------------------------------------------------------------
(* Pauses and frames.                                                      *)

\* Readiness is for good: a clock whose host was ready stays so.
LEMMA ReadyStays ==
  ASSUME TypeOK, TypeOK', AuthorityInv, ClocksFollow, PausesFollow,
         NEW c \in Clocks, Ready(c)
  PROVE  Ready(c)'
<1> DEFINE h == c.host
<1>1. /\ h \in Peers /\ c.epoch \in Nat /\ clock[h].epoch \in Nat /\ clock'[h].epoch \in Nat
      /\ waiting[h] \in BOOLEAN /\ waiting'[h] \in BOOLEAN
  BY DEF TypeOK, RoleTypes, Clocks
<1>2. /\ clock'[h].epoch >= clock[h].epoch
      /\ clock'[h].epoch = clock[h].epoch => clock'[h] = clock[h]
  BY <1>1, LineGrows
<1>3. CASE closed[h]
  BY <1>1, <1>3 DEF PausesFollow, PausesAt, Ready
<1>4. CASE clock[h].epoch > c.epoch
  BY <1>1, <1>2, <1>4 DEF Ready
<1>5. CASE clock[h] = c /\ ~waiting[h]
  <2>1. CASE clock'[h] = clock[h]
    BY <1>1, <1>5, <2>1 DEF PausesFollow, PausesAt, Ready
  <2>2. CASE clock'[h] # clock[h]
    BY <1>1, <1>2, <1>5, <2>2 DEF Ready
  <2> QED BY <2>1, <2>2
<1> QED BY <1>3, <1>4, <1>5 DEF Ready

LEMMA FollowingKeepsReady ==
  ASSUME TypeOK, TypeOK', AuthorityInv, ClocksFollow, PausesFollow, FramesTell,
         NoEcho, ReadyIsTrue
  PROVE  NoEcho' /\ ReadyIsTrue'
<1>0. /\ clock \in [Peers -> Clocks] /\ clock' \in [Peers -> Clocks]
      /\ waiting \in [Peers -> BOOLEAN] /\ waiting' \in [Peers -> BOOLEAN]
      /\ net \in Nets /\ net' \in Nets
  BY DEF TypeOK, RoleTypes
<1>1. NoEcho'
  <2> SUFFICES ASSUME NEW p \in Peers PROVE net'[p][p] = <<>>
    BY DEF NoEcho
  <2>1. Elems(net[p][p]) = {}
    BY DEF NoEcho, Elems
  <2>2. Elems(net'[p][p]) = {}
    BY <2>1 DEF FramesTell, MayTell
  <2>3. net'[p][p] \in Seq(Messages)
    BY <1>0 DEF Nets
  <2>4. \A i \in 1..Len(net'[p][p]) : net'[p][p][i] \in Elems(net'[p][p])
    BY DEF Elems
  <2>5. Len(net'[p][p]) \in Nat /\ ~(1 \in 1..Len(net'[p][p]))
    BY <2>2, <2>3, <2>4
  <2> QED BY <2>3, <2>5
<1>2. ASSUME NEW p \in Peers, clock'[p].epoch > 0, ~waiting'[p] PROVE Ready(clock[p])'
  <2>1. clock'[p] = clock[p] /\ clock[p] \in Clocks
    BY <1>0, <1>2 DEF PausesFollow, PausesAt
  <2>2. CASE clock[p].host = p
    BY <1>2, <2>1, <2>2 DEF Ready
  <2>3. CASE Ready(clock[p])
    <3>1. \A c \in Clocks : Ready(c) => Ready(c)'
      BY ReadyStays
    <3>2. Ready(clock'[p])
      BY <2>1, <2>3
    <3> QED BY <2>1, <3>1, <3>2 DEF Ready
  <2> QED BY <1>2, <2>1, <2>2, <2>3 DEF PausesFollow, PausesAt, ReadyIsTrue
<1>3. ASSUME NEW q \in Peers, NEW p \in Peers, NEW m \in Elems(net'[q][p]), Tells(m)
      PROVE  m.clk.host = q /\ (m.clk.epoch > 0 => Ready(m.clk)')
  <2>1. CASE m \in Elems(net[q][p])
    <3>1. net[q][p] \in Seq(Messages)
      BY <1>0 DEF Nets
    <3>2. m \in Messages /\ m.clk \in Clocks
      <4>1. m \in Messages
        BY <2>1, <3>1 DEF Elems
      <4> QED BY <4>1 DEF Messages
    <3>3. m.clk.host = q /\ (m.clk.epoch > 0 => Ready(m.clk))
      BY <1>3, <2>1 DEF ReadyIsTrue
    <3> QED BY <3>2, <3>3, ReadyStays
  <2>2. CASE MayTell(q, p, m)
    BY <1>3, <2>2 DEF MayTell, Ready
  <2> QED BY <2>1, <2>2 DEF FramesTell
<1> QED BY <1>1, <1>2, <1>3 DEF ReadyIsTrue

\* Frames of other kinds may be sent by anybody.
LEMMA SilentFrame ==
  ASSUME NEW q \in Peers, NEW p \in Peers, q # p, NEW m \in Messages,
         m.type \notin {"storageReady", "heartbeat"}
  PROVE  MayTell(q, p, m)
BY DEF MayTell, Tells

LEMMA SentTells ==
  ASSUME NEW n \in Nets, NEW p \in Peers, NEW q \in Peers, NEW m \in Messages,
         p # q => MayTell(p, q, m),
         net' = Sent(n, p, q, m),
         \A a, b \in Peers : \A x \in Elems(n[a][b]) :
           x \in Elems(net[a][b]) \/ MayTell(a, b, x)
  PROVE  FramesTell
<1>1. CASE Linked(p, q)
  <2>1. \A a, b \in Peers : \A x \in Elems(net'[a][b]) :
          (a = p /\ b = q /\ x = m) \/ x \in Elems(n[a][b])
    BY SentFrame
  <2> QED BY <1>1, <2>1 DEF FramesTell, Linked
<1>2. CASE ~Linked(p, q)
  <2>1. net' = n
    BY <1>2 DEF Sent, Nets
  <2> QED BY <2>1 DEF FramesTell
<1> QED BY <1>1, <1>2

LEMMA BroadcastTells ==
  ASSUME net \in Nets, NEW p \in Peers, NEW m \in Messages,
         \A q \in Peers : p # q => MayTell(p, q, m)
  PROVE  /\ Broadcast(net, p, m) \in Nets
         /\ \A a, b \in Peers : \A x \in Elems(Broadcast(net, p, m)[a][b]) :
              x \in Elems(net[a][b]) \/ MayTell(a, b, x)
<1>1. Broadcast(net, p, m) \in Nets
  BY BroadcastFrame
<1>2. ASSUME NEW a \in Peers, NEW b \in Peers, NEW x \in Elems(Broadcast(net, p, m)[a][b])
      PROVE  x \in Elems(net[a][b]) \/ MayTell(a, b, x)
  <2>0. \A c, d \in Peers : \A y \in Elems(Broadcast(net, p, m)[c][d]) :
          y \in Elems(net[c][d]) \/ (c = p /\ y = m)
    BY BroadcastFrame
  <2>1. x \in Elems(net[a][b]) \/ (a = p /\ x = m)
    BY <1>2, <2>0
  <2>2. CASE a = p /\ Linked(p, b)
    BY <2>1, <2>2 DEF Linked
  <2>3. CASE ~(a = p /\ Linked(p, b))
    <3>1. Broadcast(net, p, m)[a][b] = net[a][b]
      BY <2>3 DEF Broadcast, Nets
    <3> QED BY <1>2, <3>1
  <2> QED BY <2>2, <2>3
<1> QED BY <1>1, <1>2

-----------------------------------------------------------------------------
(* The conditions on one runtime.                                          *)

RuntimeStays(r) ==
  UNCHANGED <<clock[r], waiting[r], folder[r], root[r], ending[r], closed[r],
              transfer[r], change[r]>>

\* A step of p is felt by no other runtime but through the routes.
OthersStay(p) ==
  /\ \A r \in Peers : r # p => RuntimeStays(r)
  /\ used'.strays = 0 => used.strays = 0

LEMMA StaysHolds ==
  ASSUME NEW r \in Peers, Holds(r), RuntimeStays(r), used'.strays = 0 => used.strays = 0
  PROVE  Holds(r)' /\ PausesAt(r)
<1>1. ChangeHolds(r)'
  BY DEF RuntimeStays, Holds, ChangeHolds
<1>2. CallsHold(r)'
  BY DEF RuntimeStays, Holds, CallsHold
<1>3. HostHasStorage(r)'
  BY DEF RuntimeStays, Holds, HostHasStorage, IsHost
<1>4. PausesAt(r)
  BY DEF RuntimeStays, PausesAt
<1> QED BY <1>1, <1>2, <1>3, <1>4 DEF Holds

LEMMA OneActs ==
  ASSUME NEW p \in Peers, \A r \in Peers : Holds(r), OthersStay(p), Holds(p)', PausesAt(p)
  PROVE  PausesFollow /\ HoldsFollow
<1>1. ASSUME NEW r \in Peers, r # p PROVE Holds(r)' /\ PausesAt(r)
  BY <1>1, StaysHolds DEF OthersStay
<1> QED BY <1>1 DEF PausesFollow, HoldsFollow

\* Steps that only send, lose or take frames, or touch routes and entries.
LEMMA NobodyActs ==
  ASSUME \A r \in Peers : Holds(r), used'.strays = used.strays,
         UNCHANGED <<clock, waiting, folder, root, ending, closed, transfer, change>>
  PROVE  PausesFollow /\ HoldsFollow
<1>1. \A r \in Peers : RuntimeStays(r)
  BY DEF RuntimeStays
<1> QED BY <1>1, StaysHolds DEF PausesFollow, HoldsFollow

\* A runtime that goes drops its calls.
LEMMA DisposeActs ==
  ASSUME TypeOK, NEW p \in Peers, \A r \in Peers : Holds(r), Dispose(p),
         UNCHANGED <<clock, waiting, folder, ending>>, used'.strays = used.strays
  PROVE  PausesFollow /\ FramesTell /\ HoldsFollow
<1>0. /\ net \in Nets /\ closed \in [Peers -> BOOLEAN] /\ root \in [Peers -> BOOLEAN]
      /\ transfer \in [Peers -> [Slots -> Transfers]] /\ change \in [Peers -> Changes]
  BY DEF TypeOK, RoleTypes, CallTypes, RuntimeTypes
<1>1. OthersStay(p)
  BY <1>0 DEF Dispose, OthersStay, RuntimeStays
<1>2. /\ closed'[p] /\ change'[p].phase = "idle"
      /\ \A s \in Slots : transfer'[p][s].phase = "idle" /\ transfer'[p][s].after = "paused"
  BY <1>0 DEF Dispose, IdleChange, IdleTransfer
<1>3. Holds(p)'
  BY <1>2 DEF Holds, ChangeHolds, CallsHold, HostHasStorage, IsHost
<1>4. PausesAt(p)
  BY <1>2 DEF PausesAt
<1>5. FramesTell
  BY <1>0, GoneFrames DEF Dispose, FramesTell
<1> QED BY <1>1, <1>3, <1>4, <1>5, OneActs

-----------------------------------------------------------------------------
(* The actions.                                                            *)

LEMMA TransferActs ==
  ASSUME TypeOK, StorageInv, NEW p \in Peers, TransferNext(p)
  PROVE  PausesFollow /\ FramesTell /\ HoldsFollow
<1>0. /\ net \in Nets /\ clock \in [Peers -> Clocks] /\ clock[p] \in Clocks
      /\ transfer \in [Peers -> [Slots -> Transfers]]
      /\ used \in [Counters -> Nat] /\ root \in [Peers -> BOOLEAN]
      /\ \A r \in Peers : Holds(r)
  BY DEF TypeOK, RoleTypes, CallTypes, RuntimeTypes, StorageInv
<1>a. \A s \in Slots : /\ transfer[p][s].id \in Nat /\ transfer[p][s].next \in Clocks
                       /\ transfer[p][s].next.host \in Peers
  BY <1>0 DEF Transfers, Clocks
<1>b. \A a, b \in Peers : \A x \in Elems(net[a][b]) :
        x \in Elems(net[a][b]) \/ MayTell(a, b, x)
  OBVIOUS
<1>c. UNCHANGED net => FramesTell
  BY DEF FramesTell
<1>d. ASSUME NEW s \in Slots, NEW t, transfer' = [transfer EXCEPT ![p][s] = t],
             t.phase = "idle" \/ ~closed[p],
             used.strays = 0 => t.after = "paused",
             UNCHANGED <<clock, waiting, folder, root, ending, closed, change>>,
             used'.strays = used.strays
      PROVE  PausesFollow /\ HoldsFollow
  <2>1. /\ \A r \in Peers : r # p => transfer'[r] = transfer[r]
        /\ \A z \in Slots : transfer'[p][z] = IF z = s THEN t ELSE transfer[p][z]
    BY <1>0, <1>d
  <2>2. OthersStay(p)
    BY <1>d, <2>1 DEF OthersStay, RuntimeStays
  <2>3. PausesAt(p)
    BY <1>d DEF PausesAt
  <2>4. Holds(p)
    BY <1>0
  <2>5. ChangeHolds(p)' /\ HostHasStorage(p)'
    BY <1>d, <2>4 DEF Holds, ChangeHolds, HostHasStorage, IsHost
  <2>6. CallsHold(p)'
    BY <1>d, <2>1, <2>4 DEF Holds, CallsHold
  <2> QED BY <1>0, <2>2, <2>3, <2>5, <2>6, OneActs DEF Holds
<1>1. CASE PreparedExpires(p)
  BY <1>0, <1>1, <1>c, NobodyActs DEF PreparedExpires, roleVars, callVars
<1>2. ASSUME NEW s \in Slots, NEW q \in Peers, TransferStart(p, s, q)
      PROVE  PausesFollow /\ FramesTell /\ HoldsFollow
  <2> DEFINE id == used.transfers + 1
             next == [epoch |-> clock[p].epoch + 1, host |-> q]
             m == TransferFrame("prepare", clock[p], id, next)
             t == [phase |-> "prepare", id |-> id, next |-> next, after |-> "paused"]
  <2>1. id \in Nat /\ next \in Clocks
    BY <1>0 DEF Counters, Clocks
  <2>2. m \in Messages
    BY <1>0, <2>1, FrameTypes DEF MsgTypes
  <2>3. m.type = "prepare"
    BY DEF TransferFrame, Frame
  <2>4. net' = Sent(net, p, q, m)
    BY <1>2 DEF TransferStart
  <2>5. FramesTell
    BY <1>0, <1>b, <2>2, <2>3, <2>4, SentTells, SilentFrame
  <2>6. used'.strays = used.strays
    BY <1>0, <1>2 DEF TransferStart, Spend, Counters
  <2>7. PausesFollow /\ HoldsFollow
    BY <1>2, <1>d, <2>6 DEF TransferStart, roleVars, IsHost
  <2> QED BY <2>5, <2>7
<1>3. ASSUME NEW s \in Slots, TransferFlushed(p, s)
      PROVE  PausesFollow /\ FramesTell /\ HoldsFollow
  <2> DEFINE t == transfer[p][s]
             m == TransferFrame("commit", clock[p], t.id, t.next)
             u == [t EXCEPT !.phase = "commit"]
  <2>1. m \in Messages
    BY <1>0, <1>a, FrameTypes DEF MsgTypes
  <2>2. m.type = "commit"
    BY DEF TransferFrame, Frame
  <2>3. net' = Sent(net, p, t.next.host, m)
    BY <1>3 DEF TransferFlushed
  <2>4. FramesTell
    BY <1>0, <1>a, <1>b, <2>1, <2>2, <2>3, SentTells, SilentFrame
  <2>5. transfer' = [transfer EXCEPT ![p][s] = u]
    BY <1>0, <1>3 DEF TransferFlushed
  <2>6. u.after = t.after
    BY <1>0 DEF Transfers
  <2>7. used.strays = 0 => u.after = "paused"
    BY <1>0, <2>6 DEF Holds, CallsHold
  <2>8. PausesFollow /\ HoldsFollow
    BY <1>3, <1>d, <2>5, <2>7 DEF TransferFlushed, roleVars
  <2> QED BY <2>4, <2>8
<1>4. ASSUME NEW s \in Slots, TransferFails(p, s) \/ TransferPublishFails(p, s)
      PROVE  PausesFollow /\ FramesTell /\ HoldsFollow
  <2>1. PausesFollow /\ HoldsFollow
    BY <1>4, <1>d DEF TransferFails, TransferPublishFails, roleVars, IdleTransfer
  <2> QED BY <1>4, <1>c, <2>1 DEF TransferFails, TransferPublishFails
<1>5. ASSUME NEW s \in Slots, TransferPublish(p, s)
      PROVE  PausesFollow /\ FramesTell /\ HoldsFollow
  <2> DEFINE t == transfer[p][s]
             a == Frame("announce", clock[p])
             m == TransferFrame("finalize", clock[p], t.id, t.next)
             n == Broadcast(net, p, a)
  <2>1. a \in Messages /\ m \in Messages
    BY <1>0, <1>a, FrameTypes DEF MsgTypes
  <2>2. a.type = "announce" /\ m.type = "finalize"
    BY DEF TransferFrame, Frame
  <2>3. net' = Sent(n, p, t.next.host, m)
    BY <1>5 DEF TransferPublish
  <2>4. /\ n \in Nets
        /\ \A x, b \in Peers : \A z \in Elems(n[x][b]) : z \in Elems(net[x][b]) \/ MayTell(x, b, z)
    BY <1>0, <2>1, <2>2, BroadcastTells, SilentFrame
  <2>5. p # t.next.host => MayTell(p, t.next.host, m)
    BY <1>a, <2>1, <2>2, SilentFrame
  <2> HIDE DEF n, m, a
  <2>6. FramesTell
    BY <1>a, <2>1, <2>3, <2>4, <2>5, SentTells
  <2>7. /\ UNCHANGED <<clock, waiting, folder, ending, closed, change, used>>
        /\ transfer' = [transfer EXCEPT ![p][s] = IdleTransfer]
        /\ root' = [root EXCEPT ![p] = IF t.after = "paused" THEN @ ELSE t.after = "host" /\ folder[p]]
        /\ ~closed[p]
    BY <1>5 DEF TransferPublish
  <2>8. OthersStay(p)
    BY <1>0, <2>7 DEF OthersStay, RuntimeStays
  <2>9. Holds(p)
    BY <1>0
  <2>10. ChangeHolds(p)'
    BY <2>7, <2>9 DEF Holds, ChangeHolds
  <2>11. CallsHold(p)'
    BY <1>0, <2>7, <2>9 DEF Holds, CallsHold, IdleTransfer
  <2>12. HostHasStorage(p)'
    <3>1. used.strays = 0 => root'[p] = root[p]
      BY <1>0, <2>7, <2>9 DEF Holds, CallsHold
    <3> QED BY <2>7, <2>9, <3>1 DEF Holds, HostHasStorage, IsHost
  <2>13. PausesAt(p)
    BY <2>7 DEF PausesAt
  <2> QED BY <1>0, <2>6, <2>8, <2>10, <2>11, <2>12, <2>13, OneActs DEF Holds
<1> QED BY <1>1, <1>2, <1>3, <1>4, <1>5 DEF TransferNext

\* setBackingFolder: what a stretch relies on is what the earlier ones left.
LEMMA FolderActs ==
  ASSUME TypeOK, StorageInv, NEW p \in Peers, FolderNext(p)
  PROVE  PausesFollow /\ FramesTell /\ HoldsFollow
<1> DEFINE c == change[p]
<1>0. /\ net \in Nets /\ clock \in [Peers -> Clocks] /\ clock[p] \in Clocks /\ c \in Changes
      /\ change \in [Peers -> Changes] /\ used \in [Counters -> Nat]
      /\ root \in [Peers -> BOOLEAN] /\ folder \in [Peers -> BOOLEAN]
      /\ waiting \in [Peers -> BOOLEAN] /\ ending \in [Peers -> BOOLEAN]
      /\ \A r \in Peers : Holds(r)
  BY DEF TypeOK, RoleTypes, CallTypes, RuntimeTypes, StorageInv
<1>a. ChangeHolds(p) /\ CallsHold(p) /\ HostHasStorage(p) /\ clock[p].epoch \in Nat
  BY <1>0 DEF Holds, Clocks
<1>b. UNCHANGED net => FramesTell
  BY DEF FramesTell
<1>1. CASE FolderStart(p)
  <2>1. /\ IsHost(p) /\ ~ending[p] /\ used'.strays = used.strays
        /\ change' = [change EXCEPT ![p] = [phase |-> "validate", at |-> clock[p], prev |-> folder[p]]]
        /\ UNCHANGED <<clock, waiting, folder, root, ending, closed, transfer, net>>
    BY <1>0, <1>1 DEF FolderStart, Spend, Counters, roleVars
  <2>2. OthersStay(p)
    BY <1>0, <2>1 DEF OthersStay, RuntimeStays
  <2>3. change'[p] = [phase |-> "validate", at |-> clock[p], prev |-> folder[p]]
    BY <1>0, <2>1
  <2>4. ChangeHolds(p)'
    BY <1>a, <2>1, <2>3 DEF ChangeHolds, IsHost
  <2>5. CallsHold(p)'
    BY <1>a, <2>1, <2>3 DEF CallsHold, IsHost
  <2>6. HostHasStorage(p)'
    BY <1>a, <2>1, <2>3 DEF HostHasStorage, IsHost
  <2>7. PausesAt(p)
    BY <2>1 DEF PausesAt
  <2> QED BY <1>0, <1>b, <2>1, <2>2, <2>4, <2>5, <2>6, <2>7, OneActs DEF Holds
<1>2. CASE FolderValidated(p) \/ FolderVerified(p) \/ FolderMaterialized(p)
  <2>1. /\ HasAuthority(p) /\ c.phase \in {"validate", "verify", "materialize"}
        /\ UNCHANGED <<clock, waiting, ending, closed, transfer, net, used>>
        /\ \/ c.phase = "validate" /\ ChangePhase(p, "verify") /\ UNCHANGED <<root, folder>>
           \/ /\ ChangePhase(p, "materialize") \/ ChangePhase(p, "persist")
              /\ root' = [root EXCEPT ![p] = TRUE] /\ folder' = [folder EXCEPT ![p] = TRUE]
           \/ /\ c.phase = "materialize" /\ ChangePhase(p, "persist") /\ UNCHANGED <<root, folder>>
    BY <1>2 DEF FolderValidated, FolderVerified, FolderMaterialized, roleVars
  <2>2. PICK phase \in {"verify", "materialize", "persist"} : ChangePhase(p, phase)
    BY <2>1
  <2>3. change' = [change EXCEPT ![p] = [c EXCEPT !.phase = phase]]
    BY <2>2 DEF ChangePhase
  <2>4. /\ change'[p] = [c EXCEPT !.phase = phase]
        /\ change'[p].phase = phase /\ change'[p].at = c.at /\ change'[p].prev = c.prev
    BY <1>0, <2>3 DEF Changes
  <2>5. OthersStay(p)
    BY <1>0, <2>1, <2>3 DEF OthersStay, RuntimeStays
  <2>6. /\ phase \in {"materialize", "persist"} => folder'[p]
        /\ folder[p] => folder'[p]
        /\ root[p] => root'[p]
    <3>1. \A x \in {"verify", "materialize", "persist"} : ChangePhase(p, x) => change'[p].phase = x
      BY <1>0 DEF ChangePhase, Changes
    <3>2. CASE ChangePhase(p, "verify") /\ UNCHANGED <<root, folder>>
      BY <2>4, <3>1, <3>2
    <3>3. CASE root' = [root EXCEPT ![p] = TRUE] /\ folder' = [folder EXCEPT ![p] = TRUE]
      BY <1>0, <3>3
    <3>4. CASE c.phase = "materialize" /\ UNCHANGED <<root, folder>>
      BY <1>a, <2>1, <3>4 DEF ChangeHolds, HasAuthority, OwnsFolder
    <3> QED BY <2>1, <3>2, <3>3, <3>4
  <2>7. ChangeHolds(p)'
    BY <1>a, <2>1, <2>4, <2>6 DEF ChangeHolds, HasAuthority
  <2>8. CallsHold(p)'
    BY <1>a, <2>1 DEF CallsHold, HasAuthority, OwnsFolder
  <2>9. HostHasStorage(p)'
    BY <1>a, <2>1, <2>4, <2>6 DEF HostHasStorage, IsHost
  <2>10. PausesAt(p)
    BY <2>1 DEF PausesAt
  <2> QED BY <1>0, <1>b, <2>1, <2>5, <2>7, <2>8, <2>9, <2>10, OneActs DEF Holds
<1>3. CASE FolderPersisted(p)
  <2>1. /\ HasAuthority(p) /\ c.phase = "persist" /\ StorageReady(p)
        /\ change' = [change EXCEPT ![p] = [c EXCEPT !.phase = "publish"]]
        /\ UNCHANGED <<clock, folder, ending, closed, transfer, net, used>>
    BY <1>3 DEF FolderPersisted, ChangePhase
  <2>2. IsHost(p) /\ ~closed[p] /\ clock[p] = c.at /\ ~ending[p] /\ folder[p]
    BY <1>a, <2>1 DEF HasAuthority, OwnsFolder, ChangeHolds
  <2>3. change'[p].phase = "publish" /\ change'[p].at = c.at
    BY <1>0, <2>1 DEF Changes
  <2>4. /\ waiting[p] => /\ waiting' = [waiting EXCEPT ![p] = FALSE]
                         /\ root' = [root EXCEPT ![p] = TRUE]
        /\ ~waiting[p] => UNCHANGED <<waiting, root>>
    BY <2>1, <2>2 DEF StorageReady
  <2>5. OthersStay(p)
    BY <1>0, <2>1, <2>4 DEF OthersStay, RuntimeStays
  <2>6. ~waiting'[p]
    BY <1>0, <2>4
  <2>7. ChangeHolds(p)'
    BY <1>a, <2>1, <2>2, <2>3, <2>6 DEF ChangeHolds
  <2>8. CallsHold(p)'
    BY <1>a, <2>1, <2>2 DEF CallsHold
  <2>9. HostHasStorage(p)'
    BY <1>0, <1>a, <2>1, <2>2, <2>3, <2>4 DEF HostHasStorage, IsHost
  <2>10. PausesAt(p)
    BY <2>1, <2>2, <2>6 DEF PausesAt, IsHost
  <2> QED BY <1>0, <1>b, <2>1, <2>5, <2>7, <2>8, <2>9, <2>10, OneActs DEF Holds
<1>4. CASE FolderPublish(p)
  <2> DEFINE m == Frame("storageReady", clock[p])
  <2>1. /\ HasAuthority(p) /\ c.phase = "publish" /\ net' = Broadcast(net, p, m)
        /\ change' = [change EXCEPT ![p] = IdleChange]
        /\ UNCHANGED <<clock, waiting, folder, root, ending, closed, transfer, used>>
    BY <1>4 DEF FolderPublish, roleVars
  <2>2. clock[p].host = p /\ ~waiting[p]
    BY <1>a, <2>1 DEF HasAuthority, OwnsFolder, IsHost, ChangeHolds
  <2>3. m \in Messages /\ m.clk = clock[p]
    BY <1>0, FrameTypes DEF MsgTypes
  <2>4. \A q \in Peers : p # q => MayTell(p, q, m)
    BY <2>1, <2>2, <2>3 DEF MayTell
  <2>5. FramesTell
    BY <1>0, <2>1, <2>3, <2>4, BroadcastTells DEF FramesTell
  <2>6. OthersStay(p)
    BY <1>0, <2>1 DEF OthersStay, RuntimeStays
  <2>7. change'[p].phase = "idle"
    BY <1>0, <2>1 DEF IdleChange
  <2>8. Holds(p)'
    BY <1>a, <2>1, <2>7 DEF Holds, ChangeHolds, CallsHold, HostHasStorage, IsHost
  <2>9. PausesAt(p)
    BY <2>1 DEF PausesAt
  <2> QED BY <1>0, <2>5, <2>6, <2>8, <2>9, OneActs
<1>5. CASE FolderFails(p)
  <2>1. /\ ~closed[p] /\ c.phase # "idle" /\ (c.phase = "publish" => ~HasAuthority(p))
        /\ change' = [change EXCEPT ![p] = IdleChange]
        /\ UNCHANGED <<clock, waiting, ending, closed, transfer, net, used>>
        /\ IF OwnsFolder(p)
           THEN /\ folder' = [folder EXCEPT ![p] = c.prev]
                /\ root' = [root EXCEPT ![p] = c.prev /\ ~waiting[p]]
           ELSE root' = [root EXCEPT ![p] = FALSE] /\ UNCHANGED folder
    BY <1>5 DEF FolderFails
  <2>2. OthersStay(p)
    BY <1>0, <2>1 DEF OthersStay, RuntimeStays
  <2>3. change'[p].phase = "idle"
    BY <1>0, <2>1 DEF IdleChange
  <2>4. ChangeHolds(p)' /\ CallsHold(p)'
    BY <1>a, <2>1, <2>3 DEF ChangeHolds, CallsHold
  <2>5. HostHasStorage(p)'
    <3>1. SUFFICES ASSUME used.strays = 0, IsHost(p), ~waiting[p] PROVE folder'[p] /\ root'[p]
      BY <2>1, <2>3 DEF HostHasStorage, IsHost
    <3>2. c.at = clock[p] /\ (c.phase # "publish" => c.prev)
      BY <1>a, <2>1, <3>1 DEF HostHasStorage
    <3>3. OwnsFolder(p) /\ ~ending[p]
      BY <1>a, <2>1, <3>1, <3>2 DEF OwnsFolder, ChangeHolds
    <3>4. c.prev
      BY <2>1, <3>2, <3>3 DEF HasAuthority
    <3> QED BY <1>0, <2>1, <3>1, <3>3, <3>4
  <2>6. PausesAt(p)
    BY <2>1 DEF PausesAt
  <2> QED BY <1>0, <1>b, <2>1, <2>2, <2>4, <2>5, <2>6, OneActs DEF Holds
<1> QED BY <1>1, <1>2, <1>3, <1>4, <1>5 DEF FolderNext

\* endSession raises the fence only where no folder is being changed.
LEMMA EndActs ==
  ASSUME TypeOK, StorageInv, NEW p \in Peers, EndNext(p)
  PROVE  PausesFollow /\ FramesTell /\ HoldsFollow
<1>0. /\ net \in Nets /\ clock[p] \in Clocks /\ used \in [Counters -> Nat]
      /\ ending \in [Peers -> BOOLEAN] /\ \A r \in Peers : Holds(r)
  BY DEF TypeOK, RoleTypes, RuntimeTypes, StorageInv
<1>a. ChangeHolds(p) /\ CallsHold(p) /\ HostHasStorage(p)
  BY <1>0 DEF Holds
<1>b. ASSUME NEW b \in BOOLEAN, ending' = [ending EXCEPT ![p] = b],
             b => change[p].phase = "idle",
             UNCHANGED <<clock, waiting, folder, root, closed, transfer, change>>,
             used'.strays = used.strays
      PROVE  PausesFollow /\ HoldsFollow
  <2>1. OthersStay(p)
    BY <1>0, <1>b DEF OthersStay, RuntimeStays
  <2>2. Holds(p)'
    BY <1>0, <1>a, <1>b DEF Holds, ChangeHolds, CallsHold, HostHasStorage, IsHost
  <2>3. PausesAt(p)
    BY <1>b DEF PausesAt
  <2> QED BY <1>0, <2>1, <2>2, <2>3, OneActs
<1>c. ASSUME NEW m \in Messages, m.type \notin {"storageReady", "heartbeat"},
             net' = Broadcast(net, p, m)
      PROVE  FramesTell
  <2>1. \A q \in Peers : p # q => MayTell(p, q, m)
    BY <1>c, SilentFrame
  <2> QED BY <1>0, <1>c, <2>1, BroadcastTells DEF FramesTell
<1>1. CASE EndStart(p)
  <2> DEFINE id == used.ends + 1
             m == [Frame("ending", clock[p]) EXCEPT !.id = id]
  <2>1. id \in Nat
    BY <1>0 DEF Counters
  <2>2. m \in Messages
    BY <1>0, <2>1, FrameTypes DEF MsgTypes
  <2>3. m.type = "ending"
    BY DEF Frame
  <2>4. net' = Broadcast(net, p, m)
    BY <1>1 DEF EndStart
  <2> HIDE DEF m
  <2>5. FramesTell
    BY <1>c, <2>2, <2>3, <2>4
  <2>6. used'.strays = used.strays
    BY <1>0, <1>1 DEF EndStart, Spend, Counters
  <2>7. PausesFollow /\ HoldsFollow
    BY <1>1, <1>b, <2>6 DEF EndStart, roleVars
  <2> QED BY <2>5, <2>7
<1>2. CASE FenceExpires(p)
  BY <1>0, <1>2, NobodyActs DEF FenceExpires, roleVars, FramesTell
<1>3. CASE EndSaves(p)
  <2>1. Frame("ended", clock[p]) \in Messages /\ Frame("ended", clock[p]).type = "ended"
    BY <1>0, FrameTypes, ZenonT(60) DEF MsgTypes
  <2>2. FramesTell
    BY <1>3, <1>c, <2>1 DEF EndSaves
  <2> QED BY <1>0, <1>3, <2>2, NobodyActs DEF EndSaves, roleVars
<1>4. CASE EndFails(p)
  <2>1. /\ Frame("endingCancelled", clock[p]) \in Messages
        /\ Frame("endingCancelled", clock[p]).type = "endingCancelled"
    BY <1>0, FrameTypes, ZenonT(60) DEF MsgTypes
  <2>2. FramesTell
    BY <1>4, <1>c, <2>1 DEF EndFails
  <2>3. PausesFollow /\ HoldsFollow
    BY <1>4, <1>b DEF EndFails, roleVars
  <2> QED BY <2>2, <2>3
<1>5. CASE EndCloses(p)
  BY <1>0, <1>5, DisposeActs DEF EndCloses
<1> QED BY <1>1, <1>2, <1>3, <1>4, <1>5 DEF EndNext

\* A commit that is acknowledged, in order or astray.
LEMMA CommittedActs ==
  ASSUME TypeOK, AuthorityInv, StorageInv, NEW p \in Peers, NEW s \in Slots,
         transfer[p][s].phase = "commit", TransferCommitted(p, s), ~closed[p],
         UNCHANGED <<ending, closed, change>>
  PROVE  PausesFollow /\ HoldsFollow
<1> DEFINE t == transfer[p][s]
<1>0. /\ clock \in [Peers -> Clocks] /\ transfer \in [Peers -> [Slots -> Transfers]]
      /\ used \in [Counters -> Nat] /\ t \in Transfers /\ change[p] \in Changes
      /\ root \in [Peers -> BOOLEAN] /\ folder \in [Peers -> BOOLEAN]
      /\ waiting \in [Peers -> BOOLEAN] /\ \A r \in Peers : Holds(r)
  BY DEF TypeOK, RoleTypes, CallTypes, RuntimeTypes, StorageInv
<1>b. /\ t.next \in Clocks /\ clock[p].epoch \in Nat /\ t.next.epoch \in Nat
      /\ change[p].at.epoch \in Nat
  BY <1>0 DEF Transfers, Changes, Clocks
<1>a. ChangeHolds(p) /\ CallsHold(p) /\ HostHasStorage(p)
  BY <1>0 DEF Holds
<1>1. CASE Accepts(p, t.next, p)
  <2>1. /\ clock' = [clock EXCEPT ![p] = t.next] /\ root' = [root EXCEPT ![p] = FALSE]
        /\ folder' = [folder EXCEPT ![p] = FALSE] /\ waiting' = [waiting EXCEPT ![p] = TRUE]
        /\ transfer' = [transfer EXCEPT ![p][s].phase = "publish"]
        /\ used' = used /\ t.next.epoch = clock[p].epoch + 1
    BY <1>1 DEF TransferCommitted, HostChanged, Accepts
  <2>2. OthersStay(p)
    BY <1>0, <2>1 DEF OthersStay, RuntimeStays
  <2>3. clock'[p] = t.next /\ waiting'[p]
    BY <1>0, <2>1
  <2>4. ChangeHolds(p)'
    BY <1>0, <1>a, <1>b, <2>1, <2>3 DEF ChangeHolds
  <2>5. \A z \in Slots : transfer'[p][z].after = transfer[p][z].after
    BY <1>0, <2>1 DEF Transfers
  <2>6. CallsHold(p)'
    BY <1>a, <2>1, <2>5 DEF CallsHold
  <2>7. HostHasStorage(p)'
    BY <2>3 DEF HostHasStorage
  <2>8. PausesAt(p)
    BY <1>0, <1>b, <2>1, <2>3 DEF PausesAt
  <2> QED BY <1>0, <2>2, <2>4, <2>6, <2>7, <2>8, OneActs DEF Holds
<1>2. CASE ~Accepts(p, t.next, p)
  <2>1. /\ root' = [root EXCEPT ![p] = FALSE] /\ folder' = [folder EXCEPT ![p] = @ /\ IsHost(p)]
        /\ UNCHANGED <<clock, waiting>> /\ Spend("strays")
    BY <1>2 DEF TransferCommitted
  <2>2. \E t1 : transfer' = [transfer EXCEPT ![p][s] = t1]
    <3> DEFINE after == IF waiting[p] THEN "paused" ELSE IF IsHost(p) THEN "host" ELSE "guest"
    <3>1. transfer' = [transfer EXCEPT ![p][s] =
                         [transfer[p][s] EXCEPT !.phase = "publish", !.after = after]]
      <4>1. transfer \in [Peers -> [Slots -> Transfers]]
        BY <1>0
      <4> QED BY <1>2, <4>1 DEF TransferCommitted
    <3> QED BY <3>1
  <2>3. used'.strays > 0
    BY <1>0, <2>1 DEF Spend, Counters
  <2>4. OthersStay(p)
    BY <1>0, <2>1, <2>2, <2>3 DEF OthersStay, RuntimeStays
  <2>5. ChangeHolds(p)'
    BY <1>0, <1>a, <2>1 DEF ChangeHolds, IsHost
  <2>6. CallsHold(p)' /\ HostHasStorage(p)'
    BY <2>3 DEF CallsHold, HostHasStorage
  <2>7. PausesAt(p)
    BY <2>1 DEF PausesAt
  <2> QED BY <1>0, <2>4, <2>5, <2>6, <2>7, OneActs DEF Holds
<1> QED BY <1>1, <1>2

\* A runtime that learns of a new host pauses, and gives its folder up.
LEMMA ChangedActs ==
  ASSUME TypeOK, StorageInv, NEW p \in Peers, NEW c \in Clocks, HostChanged(p, c),
         c.epoch = clock[p].epoch + 1, ~closed[p],
         UNCHANGED <<ending, closed, transfer, change, used>>
  PROVE  PausesFollow /\ HoldsFollow
<1>0. /\ clock \in [Peers -> Clocks] /\ clock[p].epoch \in Nat /\ c.epoch \in Nat
      /\ waiting \in [Peers -> BOOLEAN] /\ \A r \in Peers : Holds(r)
  BY DEF TypeOK, RoleTypes, StorageInv, Clocks
<1>b. change[p].at.epoch \in Nat
  BY DEF TypeOK, CallTypes, Changes, Clocks
<1>a. ChangeHolds(p) /\ CallsHold(p)
  BY <1>0 DEF Holds
<1>1. clock'[p] = c /\ waiting'[p] /\ c # clock[p]
  BY <1>0 DEF HostChanged, TypeOK, RoleTypes
<1>2. OthersStay(p)
  BY DEF OthersStay, RuntimeStays, HostChanged
<1>3. ChangeHolds(p)'
  BY <1>0, <1>a, <1>b, <1>1 DEF ChangeHolds, HostChanged
<1>4. CallsHold(p)'
  BY <1>a DEF CallsHold
<1>5. HostHasStorage(p)' /\ PausesAt(p)
  BY <1>1 DEF HostHasStorage, PausesAt
<1> QED BY <1>0, <1>2, <1>3, <1>4, <1>5, OneActs DEF Holds

\* onMessage.
LEMMA ReceiveActs ==
  ASSUME TypeOK, AuthorityInv, StorageInv, NEW p \in Peers, NEW q \in Peers, Receive(q, p)
  PROVE  PausesFollow /\ FramesTell /\ HoldsFollow
<1> DEFINE m == Head(net[q][p])
           Acts == PausesFollow /\ FramesTell /\ HoldsFollow
<1>0. /\ net \in Nets /\ clock \in [Peers -> Clocks] /\ ~closed[p] /\ net[q][p] # <<>>
      /\ waiting \in [Peers -> BOOLEAN] /\ root \in [Peers -> BOOLEAN]
      /\ ending \in [Peers -> BOOLEAN] /\ clock[p] \in Clocks
      /\ \A r \in Peers : Holds(r)
  BY DEF TypeOK, RoleTypes, RuntimeTypes, StorageInv, Receive
<1>a. q # p
  BY <1>0 DEF StorageInv, NoEcho
<1>b. /\ Rest(q, p) \in Nets /\ m \in Messages /\ m \in Elems(net[q][p])
      /\ \A a, b \in Peers : Elems(Rest(q, p)[a][b]) \subseteq Elems(net[a][b])
  BY <1>0, RestFrames
<1>c. m.clk \in Clocks /\ m.next \in Clocks /\ m.id \in Nat
  BY <1>b DEF Messages
<1>d. Consume(q, p) => FramesTell
  BY <1>b DEF Consume, FramesTell
<1>e. ASSUME NEW x \in Messages, x.type \notin {"storageReady", "heartbeat"}, Reply(q, p, x)
      PROVE  FramesTell
  <2>1. MayTell(p, q, x)
    BY <1>a, <1>e, SilentFrame
  <2> QED BY <1>b, <1>e, <2>1, SentTells DEF Reply
<1>f. UNCHANGED <<roleVars, ending, closed, transfer, change, used>> => PausesFollow /\ HoldsFollow
  BY <1>0, NobodyActs DEF roleVars
<1>1. CASE Consume(q, p) /\ UNCHANGED <<roleVars, ending, closed, callVars, prepared, up, used>>
  BY <1>1, <1>d, <1>f DEF callVars
<1>2. CASE OnAnnounce(q, p, m)
  <2>1. UNCHANGED <<ending, closed, transfer, change, used, lineage>> /\ Consume(q, p)
    BY <1>2 DEF OnAnnounce, callVars
  <2>2. CASE UNCHANGED <<clock, waiting, folder, root>>
    BY <1>d, <1>f, <2>1, <2>2 DEF roleVars
  <2>3. CASE Accepts(p, m.clk, q) /\ HostChanged(p, m.clk)
    BY <1>0, <1>c, <1>d, <2>1, <2>3, ChangedActs DEF Accepts
  <2> QED BY <1>2, <2>2, <2>3 DEF OnAnnounce
<1>3. CASE OnPrepare(q, p, m)
  <2> DEFINE x == TransferFrame("ready", clock[p], m.id, m.next)
  <2>0. x.type = "ready"
    BY DEF TransferFrame, Frame
  <2>1. x \in Messages /\ x.type = "ready"
    BY <1>0, <1>c, <2>0, FrameTypes DEF MsgTypes
  <2>2. FramesTell
    BY <1>3, <1>d, <1>e, <2>1 DEF OnPrepare
  <2> QED BY <1>3, <1>f, <2>2 DEF OnPrepare, callVars
<1>4. CASE OnCommit(q, p, m)
  <2> DEFINE x == TransferFrame("ack", clock[p], m.id, m.next)
  <2>0. x.type = "ack"
    BY DEF TransferFrame, Frame
  <2>1. x \in Messages /\ x.type = "ack"
    BY <1>0, <1>c, <2>0, FrameTypes DEF MsgTypes
  <2>2. FramesTell
    BY <1>4, <1>d, <1>e, <2>1 DEF OnCommit
  <2> QED BY <1>4, <1>f, <2>2 DEF OnCommit, callVars
<1>5. CASE OnTransferReply(q, p, m)
  <2>1. UNCHANGED <<ending, closed, change>> /\ Consume(q, p)
    BY <1>5 DEF OnTransferReply
  <2>2. CASE UNCHANGED <<roleVars, transfer, used>>
    BY <1>d, <1>f, <2>1, <2>2
  <2>3. ASSUME NEW s \in Slots, transfer[p][s].phase = "commit", TransferCommitted(p, s) PROVE Acts
    BY <1>0, <1>d, <2>1, <2>3, CommittedActs
  <2>4. ASSUME NEW s \in Slots, transfer' = [transfer EXCEPT ![p][s].phase = "flush"],
               UNCHANGED <<roleVars, used>>
        PROVE  Acts
    <3>1. transfer \in [Peers -> [Slots -> Transfers]]
      BY DEF TypeOK, CallTypes
    <3>2. \A z \in Slots : transfer'[p][z].after = transfer[p][z].after
      BY <2>4, <3>1 DEF Transfers
    <3>3. OthersStay(p)
      BY <2>1, <2>4, <3>1 DEF OthersStay, RuntimeStays, roleVars
    <3>4. Holds(p)
      BY <1>0
    <3>5. ChangeHolds(p)' /\ HostHasStorage(p)'
      BY <2>1, <2>4, <3>4 DEF Holds, ChangeHolds, HostHasStorage, IsHost, roleVars
    <3>6. CallsHold(p)'
      BY <1>0, <2>1, <2>4, <3>2, <3>4 DEF Holds, CallsHold
    <3>7. PausesAt(p)
      BY <2>1, <2>4 DEF PausesAt, roleVars
    <3> QED BY <1>0, <1>d, <2>1, <3>3, <3>5, <3>6, <3>7, OneActs DEF Holds
  <2> QED BY <1>5, <2>2, <2>3, <2>4 DEF OnTransferReply
<1>6. CASE OnFinalize(q, p, m)
  <2>1. UNCHANGED <<ending, closed, transfer, change, used, lineage>> /\ Consume(q, p)
    BY <1>6 DEF OnFinalize, callVars
  <2>2. CASE UNCHANGED <<clock, waiting, folder, root>>
    BY <1>d, <1>f, <2>1, <2>2 DEF roleVars
  <2>3. CASE Accepts(p, m.next, q) /\ HostChanged(p, m.next)
    BY <1>0, <1>c, <1>d, <2>1, <2>3, ChangedActs DEF Accepts
  <2> QED BY <1>6, <2>2, <2>3 DEF OnFinalize
<1>7. CASE OnStorageNews(q, p, m)
  <2>1. /\ UNCHANGED <<clock, folder, lineage, ending, closed, transfer, change, used>>
        /\ Consume(q, p)
    BY <1>7 DEF OnStorageNews, callVars
  <2>2. CASE UNCHANGED <<waiting, root>>
    BY <1>d, <1>f, <2>1, <2>2 DEF roleVars
  <2>3. CASE ~UNCHANGED <<waiting, root>>
    <3>1. /\ q = clock[p].host /\ m.clk = clock[p]
          /\ \/ Tells(m) /\ StorageReady(p)
             \/ waiting' = [waiting EXCEPT ![p] = TRUE] /\ UNCHANGED root
      BY <1>7, <2>3 DEF OnStorageNews, Tells
    <3>2. clock[p].host # p /\ ~IsHost(p)
      BY <1>a, <3>1 DEF IsHost
    <3>3. OthersStay(p)
      BY <1>0, <2>1, <3>1 DEF OthersStay, RuntimeStays, StorageReady
    <3>4. ChangeHolds(p) /\ CallsHold(p)
      BY <1>0 DEF Holds
    <3>5. ChangeHolds(p)'
      BY <2>1, <3>2, <3>4 DEF ChangeHolds
    <3>6. CallsHold(p)' /\ HostHasStorage(p)'
      BY <2>1, <3>2, <3>4 DEF CallsHold, HostHasStorage, IsHost
    <3>7. ~waiting'[p] => (clock[p].epoch > 0 => Ready(clock[p]))
      <4>1. Tells(m) => (clock[p].epoch > 0 => Ready(clock[p]))
        BY <1>b, <3>1 DEF StorageInv, ReadyIsTrue
      <4> QED BY <1>0, <3>1, <4>1
    <3>8. PausesAt(p)
      BY <2>1, <3>2, <3>7 DEF PausesAt
    <3> QED BY <1>0, <1>d, <2>1, <3>3, <3>5, <3>6, <3>8, OneActs DEF Holds
  <2> QED BY <2>2, <2>3
<1>8. CASE OnDirectory(q, p, m)
  <2>1. \/ Consume(q, p)
        \/ net' = [net EXCEPT ![q][p] = <<>>, ![p][q] = <<>>]
    BY <1>8 DEF OnDirectory
  <2>2. ASSUME net' = [net EXCEPT ![q][p] = <<>>, ![p][q] = <<>>] PROVE FramesTell
    <3>1. \A a, b \in Peers : net'[a][b] = net[a][b] \/ net'[a][b] = <<>>
      BY <1>0, <2>2 DEF Nets
    <3> QED BY <3>1, EmptyElems DEF FramesTell
  <2> QED BY <1>8, <1>d, <1>f, <2>1, <2>2 DEF OnDirectory, callVars
<1>9. CASE OnEnding(q, p, m)
  <2> DEFINE x == [Frame("endingAck", clock[p]) EXCEPT !.id = m.id]
  <2>1. x \in Messages /\ x.type = "endingAck"
    BY <1>0, <1>c, EndingAckType
  <2>2. FramesTell
    BY <1>9, <1>d, <1>e, <2>1 DEF OnEnding
  <2>3. UNCHANGED <<clock, waiting, folder, root, lineage, closed, transfer, change, used>>
    BY <1>9 DEF OnEnding, roleVars, callVars
  <2>4. CASE UNCHANGED ending
    BY <1>f, <2>2, <2>3, <2>4 DEF roleVars
  <2>5. CASE q = clock[p].host /\ ending' = [ending EXCEPT ![p] = TRUE]
    <3>1. OthersStay(p)
      BY <1>0, <2>3, <2>5 DEF OthersStay, RuntimeStays
    <3>2. ChangeHolds(p) /\ CallsHold(p) /\ HostHasStorage(p)
      BY <1>0 DEF Holds
    <3>3. ChangeHolds(p)' /\ CallsHold(p)' /\ HostHasStorage(p)'
      BY <1>a, <2>3, <2>5, <3>2 DEF ChangeHolds, CallsHold, HostHasStorage, IsHost
    <3>4. PausesAt(p)
      BY <2>3 DEF PausesAt
    <3> QED BY <1>0, <2>2, <3>1, <3>3, <3>4, OneActs DEF Holds
  <2> QED BY <1>9, <2>4, <2>5 DEF OnEnding
<1>10. CASE OnEndingAck(q, p, m)
  BY <1>10, <1>d, <1>f DEF OnEndingAck
<1>11. CASE OnEndingCancelled(q, p, m)
  <2>1. /\ UNCHANGED <<clock, waiting, folder, root, lineage, closed, transfer, change, used>>
        /\ Consume(q, p)
        /\ ending' = ending \/ ending' = [ending EXCEPT ![p] = FALSE]
    BY <1>0, <1>11 DEF OnEndingCancelled, roleVars, callVars
  <2>2. OthersStay(p)
    BY <1>0, <2>1 DEF OthersStay, RuntimeStays
  <2>3. ChangeHolds(p) /\ CallsHold(p) /\ HostHasStorage(p)
    BY <1>0 DEF Holds
  <2>4. ChangeHolds(p)' /\ CallsHold(p)' /\ HostHasStorage(p)'
    BY <1>0, <2>1, <2>3 DEF ChangeHolds, CallsHold, HostHasStorage, IsHost
  <2>5. PausesAt(p)
    BY <2>1 DEF PausesAt
  <2> QED BY <1>0, <1>d, <2>1, <2>2, <2>4, <2>5, OneActs DEF Holds
<1>12. CASE OnEnded(q, p, m)
  <2>1. CASE q = clock[p].host
    BY <1>0, <1>12, <2>1, DisposeActs DEF OnEnded
  <2>2. CASE q # clock[p].host
    BY <1>1, <1>12, <2>2 DEF OnEnded
  <2> QED BY <2>1, <2>2
<1> QED BY <1>1, <1>2, <1>3, <1>4, <1>5, <1>6, <1>7, <1>8, <1>9, <1>10, <1>11, <1>12 DEF Receive

\* Heartbeats, routes and the end of a runtime.
LEMMA RouteActs ==
  ASSUME TypeOK, AuthorityInv, StorageInv, NEW p \in Peers, RouteNext(p)
  PROVE  PausesFollow /\ FramesTell /\ HoldsFollow
<1> DEFINE Acts == PausesFollow /\ FramesTell /\ HoldsFollow
<1>0. /\ net \in Nets /\ clock \in [Peers -> Clocks] /\ waiting \in [Peers -> BOOLEAN]
      /\ used \in [Counters -> Nat] /\ \A r \in Peers : Holds(r)
  BY DEF TypeOK, RoleTypes, RuntimeTypes, StorageInv
<1>a. UNCHANGED <<roleVars, ending, closed, transfer, change>> /\ used'.strays = used.strays
        => PausesFollow /\ HoldsFollow
  BY <1>0, NobodyActs DEF roleVars
<1>b. \A what \in {"losses", "faults", "leaves"} : Spend(what) => used'.strays = used.strays
  BY <1>0 DEF Spend, Counters
<1>c. <<>> \in Seq(Messages) /\ Elems(<<>>) = {}
  BY EmptyElems
<1>1. ASSUME NEW q \in Peers, Receive(q, p) PROVE Acts
  BY <1>1, ReceiveActs
<1>2. ASSUME NEW q \in Peers, Heartbeat(p, q) PROVE Acts
  <2> DEFINE m == [Frame("heartbeat", clock[p]) EXCEPT !.ready = ~waiting[p]]
  <2>1. m \in Messages
    BY <1>0, FrameTypes DEF MsgTypes
  <2>2. m.clk = clock[p] /\ m.type = "heartbeat" /\ (m.ready <=> ~waiting[p])
    BY DEF Frame
  <2>3. p # q => MayTell(p, q, m)
    BY <1>2, <2>1, <2>2 DEF Heartbeat, MayTell, Tells, IsHost, roleVars
  <2>4. net' = Sent(net, p, q, m)
    BY <1>2 DEF Heartbeat
  <2> HIDE DEF m
  <2>5. FramesTell
    BY <1>0, <2>1, <2>3, <2>4, SentTells
  <2> QED BY <1>2, <1>a, <2>5 DEF Heartbeat, callVars
<1>3. ASSUME NEW q \in Peers, LinkDown(p, q) PROVE Acts
  <2>1. net' = [net EXCEPT ![p][q] = <<>>, ![q][p] = <<>>]
    BY <1>3 DEF LinkDown
  <2>2. FramesTell
    BY <1>0, <1>c, <2>1 DEF FramesTell, Nets
  <2> QED BY <1>3, <1>a, <1>b, <2>2 DEF LinkDown, callVars
<1>4. ASSUME NEW q \in Peers, LinkUp(p, q) PROVE Acts
  <2> DEFINE D(r) == Frame("directory", clock[r])
  <2>1. \A r \in Peers : D(r) \in Messages
    BY <1>0, FrameTypes DEF MsgTypes
  <2>2. \A r, z \in Peers : r # z => MayTell(r, z, D(r))
    BY <2>1 DEF MayTell, Tells, Frame
  <2>3. \A r \in Peers : Elems(<<D(r)>>) = {D(r)}
    BY DEF Elems
  <2>4. p # q /\ net' = [net EXCEPT ![p][q] = IF IsHost(p) THEN <<D(p)>> ELSE <<>>,
                                    ![q][p] = IF IsHost(q) THEN <<D(q)>> ELSE <<>>]
    BY <1>4 DEF LinkUp
  <2> HIDE DEF D
  <2>5. \A a, b \in Peers : \/ net'[a][b] = net[a][b] \/ net'[a][b] = <<>>
                            \/ a # b /\ net'[a][b] = <<D(a)>>
    BY <1>0, <2>4 DEF Nets
  <2>6. FramesTell
    BY <1>c, <2>2, <2>3, <2>5 DEF FramesTell
  <2> QED BY <1>4, <1>a, <2>6 DEF LinkUp, callVars
<1>5. CASE HostLost(p)
  BY <1>0, <1>5, DisposeActs DEF HostLost
<1>6. CASE Leave(p)
  BY <1>0, <1>6, <1>b, DisposeActs DEF Leave
<1>7. ASSUME NEW q \in Peers, RelayReorders(p, q) PROVE Acts
  <2>1. PICK i \in 2..Len(net[p][q]) : net' = [net EXCEPT ![p][q] = Overtaken(@, i)]
    BY <1>7 DEF RelayReorders
  <2>2. Elems(Overtaken(net[p][q], i)) \subseteq Elems(net[p][q])
    BY <1>0, OvertakenElems DEF Nets
  <2>3. FramesTell
    BY <1>0, <2>1, <2>2 DEF FramesTell, Nets
  <2> QED BY <1>7, <1>a, <1>b, <2>3 DEF RelayReorders, callVars
<1>8. ASSUME NEW q \in Peers, RelayLoses(p, q) PROVE Acts
  <2>1. FramesTell
    BY <1>0, <1>8, RestFrames DEF RelayLoses, Consume, FramesTell
  <2> QED BY <1>8, <1>a, <1>b, <2>1 DEF RelayLoses, callVars
<1> QED BY <1>1, <1>2, <1>3, <1>4, <1>5, <1>6, <1>7, <1>8 DEF RouteNext

-----------------------------------------------------------------------------
(* The theorems.                                                           *)

LEMMA InitStorage == Init => StorageInv
<1> SUFFICES ASSUME Init PROVE StorageInv
  OBVIOUS
<1>0. /\ clock = [p \in Peers |-> [epoch |-> 0, host |-> Host0]]
      /\ net = [p \in Peers |-> [q \in Peers |-> <<>>]]
      /\ transfer = [p \in Peers |-> [s \in Slots |-> IdleTransfer]]
      /\ change = [p \in Peers |-> IdleChange]
  BY DEF Init
<1>1. NoEcho
  BY <1>0 DEF NoEcho
<1>2. ReadyIsTrue
  BY <1>0 DEF ReadyIsTrue, Elems
<1>3. ASSUME NEW p \in Peers PROVE Holds(p)
  <2>1. change[p].phase = "idle" /\ \A s \in Slots : transfer[p][s] = IdleTransfer
    BY <1>0 DEF IdleChange
  <2>2. ChangeHolds(p) /\ CallsHold(p)
    BY <2>1 DEF ChangeHolds, CallsHold, IdleTransfer
  <2>3. PICK ready \in BOOLEAN : /\ waiting = [r \in Peers |-> r = Host0 /\ ~ready]
                                 /\ folder = [r \in Peers |-> ready /\ r = Host0]
                                 /\ root = [r \in Peers |-> ready /\ r = Host0]
    BY DEF Init
  <2>4. IsHost(p) => p = Host0
    BY <1>0 DEF IsHost
  <2>5. HostHasStorage(p)
    BY <2>1, <2>3, <2>4 DEF HostHasStorage
  <2> QED BY <2>2, <2>5 DEF Holds
<1> QED BY <1>1, <1>2, <1>3 DEF StorageInv

\* Every pause that has ended, and every frame that ends one, stems from a host that
\* had bound a folder; an unpaused host flushes to it.
THEOREM StorageInductive == Spec => []StorageInv
<1>1. TypeOK /\ TypeOK' /\ AuthorityInv /\ StorageInv /\ [Next]_vars => StorageInv'
  <2> SUFFICES ASSUME TypeOK, TypeOK', AuthorityInv, StorageInv, [Next]_vars PROVE StorageInv'
    OBVIOUS
  <2>1. PausesFollow /\ FramesTell /\ HoldsFollow
    <3>1. CASE Next
      BY <3>1, TransferActs, FolderActs, EndActs, RouteActs DEF Next
    <3>2. CASE UNCHANGED vars
      BY <3>2, NobodyActs DEF vars, roleVars, callVars, FramesTell, StorageInv
    <3> QED BY <3>1, <3>2
  <2>2. ClocksFollow
    BY StepFollows
  <2> QED BY <2>1, <2>2, FollowingKeepsReady DEF StorageInv, HoldsFollow
<1> QED BY <1>1, InitStorage, TypeCorrect, AuthorityInductive, PTL DEF Spec

\* A participant works on only under a host that has bound a folder.
THEOREM ResumedUnderReadyHost == Spec => []ResumedMeansHostReady
<1>1. StorageInv => ResumedMeansHostReady
  BY DEF StorageInv, ReadyIsTrue, Ready, ResumedMeansHostReady
<1> QED BY <1>1, StorageInductive, PTL

\* A transfer that is prepared, flushed or awaiting its commit leaves its host in
\* charge of the session and of the folder.
THEOREM UncommittedKeepsHost == Spec => []UncommittedTransferKeepsHost
<1>1. TypeOK /\ AuthorityInv /\ StorageInv => UncommittedTransferKeepsHost
  <2> SUFFICES ASSUME TypeOK, AuthorityInv, StorageInv, NEW p \in Peers, NEW s \in Slots,
                      transfer[p][s].phase \in {"prepare", "flush", "commit"},
                      transfer[p][s].next.epoch = clock[p].epoch + 1
               PROVE  IsHost(p) /\ (~waiting[p] => root[p] \/ used.strays > 0)
    BY DEF UncommittedTransferKeepsHost
  <2>1. clock[p].host = p
    BY DEF AuthorityInv, TransfersBehind
  <2>2. CallsHold(p) /\ HostHasStorage(p)
    BY DEF StorageInv, Holds
  <2>3. IsHost(p)
    BY <2>1, <2>2 DEF CallsHold, IsHost
  <2>4. used.strays \in Nat
    BY DEF TypeOK, RuntimeTypes, Counters
  <2> QED BY <2>2, <2>3, <2>4 DEF HostHasStorage
<1> QED BY <1>1, TypeCorrect, AuthorityInductive, StorageInductive, PTL
=============================================================================
