------------------------------ MODULE MeshRoutes ------------------------------
(***************************************************************************)
(* The routes one participant keeps to the others (src/runtime/mesh.ts):   *)
(* handshakes through two signalling families, the emergency relay, the    *)
(* make-before-break upgrade from the relay to a direct candidate, the     *)
(* retirement of dead routes, and the recovery lease that keeps a          *)
(* participant "there" while a replacement route is looked for.            *)
(*                                                                         *)
(* The rest of the world is what the rooms and the network do: a path of a *)
(* transport works, is half open (still listed, nothing gets through) or   *)
(* is gone, and the room's leave callback may come late or never.          *)
(***************************************************************************)
EXTENDS Naturals, FiniteSets

CONSTANTS
  Peers,          \* the other participants
  Primary,        \* transport ids of the Nostr room
  Secondary,      \* transport ids of the MQTT room
  Candidates,     \* transport ids of the route-upgrade room
  PingLimit,      \* ROUTE_PING_FAILURE_LIMIT
  RequiredPings,  \* ROUTE_UPGRADE_REQUIRED_PINGS
  MaxConns,       \* bound: connection objects made for one participant
  MaxAttempts     \* bound: route-upgrade attempts for one participant

None       == "none"
Relay      == "relay"
Direct     == Primary \cup Secondary
Transports == Direct \cup {Relay} \cup Candidates

VARIABLES
  pending,     \* pendingHandshakes: [on: transport, attempt: upgradeGeneration]
  conn,        \* connections, by transport; made = 0 is no connection
  made,        \* connection objects made so far: their identity
  active,      \* identityToTransport
  recovering,  \* recoveringPeers
  told,        \* what the session was last told by an event of the mesh
  upgrade,     \* routeUpgrades
  attempts,    \* attempts started so far: the identity of an attempt
  roomOpen,    \* upgradeRoom is joined
  answers,     \* verification pings and probe answers on their way
  path,        \* the network: "up", "half" (open, dead) or "gone"
  stopped

vars == <<pending, conn, made, active, recovering, told, upgrade, attempts,
          roomOpen, answers, path, stopped>>
links == <<pending, conn, made, active, recovering, told, path>>

NoConn    == [made |-> 0, age |-> "stale", fails |-> 0]
NoUpgrade == [n |-> 0, incumbent |-> 0, cand |-> None, probed |-> FALSE, pings |-> 0]

Exists(p, t) == conn[p][t].made # 0
HasRoute(p)  == active[p] # None /\ Exists(p, active[p])
Known(p)     == made[p] > 0      \* in the directory

IsIncumbentCurrent(p) ==
  /\ active[p] = Relay
  /\ Exists(p, Relay)
  /\ conn[p][Relay].made = upgrade[p].incumbent

Verifying(p) == upgrade[p].n # 0 /\ upgrade[p].cand # None

(* MQTT was admitted first, moments ago, and Nostr comes second.            *)
PrefersInitial(p, old, new) ==
  old \in Secondary /\ new \in Primary /\ conn[p][old].age = "young"

(* The incumbent of a participant who completed another handshake.          *)
IsFresh(p, t) == Exists(p, t) /\ conn[p][t].age # "stale"
Keeps(p, old, new) == IsFresh(p, old) /\ ~PrefersInitial(p, old, new)

(***************************************************************************)
(* Pieces of state change shared by the handlers.  A handler touches one   *)
(* participant; L is the part of the state of that participant it edits.   *)
(***************************************************************************)
View(p) == [pend |-> pending[p], conn |-> conn[p], active |-> active[p],
            rec |-> recovering[p], told |-> told[p], path |-> path[p],
            made |-> made[p]]

Become(p, L) ==
  /\ pending'    = [pending EXCEPT ![p] = L.pend]
  /\ conn'       = [conn EXCEPT ![p] = L.conn]
  /\ made'       = [made EXCEPT ![p] = L.made]
  /\ active'     = [active EXCEPT ![p] = L.active]
  /\ recovering' = [recovering EXCEPT ![p] = L.rec]
  /\ told'       = [told EXCEPT ![p] = L.told]
  /\ path'       = [path EXCEPT ![p] = L.path]

(* Only a room can close a peer; the relay stays as it is.                  *)
Close(L, t)     == IF t = Relay THEN L ELSE [L EXCEPT !.path[t] = "gone"]
Forget(L, t)    == [L EXCEPT !.pend = {h \in @ : h.on # t}]
Admit(L, t, n)  == [Forget(L, t) EXCEPT !.pend = @ \cup {[on |-> t, attempt |-> n]}]
Drop(L, t)      == [L EXCEPT !.conn[t] = NoConn]

(* A route is dropped for another of the same participant: nobody is told.  *)
RetireIdentityRoute(L, t) ==
  LET D == Drop(Forget(Close(L, t), t), t)
  IN [D EXCEPT !.active = IF L.conn[t].made # 0 /\ @ = t THEN None ELSE @]

BeginRecovery(L) ==
  IF L.rec \/ (L.active # None /\ L.conn[L.active].made # 0) THEN L
  ELSE [L EXCEPT !.rec = TRUE, !.told = "recovering"]

(* Mutant: a route that ended is dropped and nothing more.                  *)
RouteEndsSilently(L, t, departed) == RetireIdentityRoute(L, t)

(* A route ended: an active one starts the lease, a departure ends it all.  *)
RouteEnds(L, t, departed) ==
  LET D == RetireIdentityRoute(L, t)
  IN CASE L.conn[t].made = 0 \/ L.active # t -> D
       [] departed                           -> [D EXCEPT !.told = "absent"]
       [] OTHER                              -> BeginRecovery(D)

NewConn(L, t) == [L EXCEPT !.made = @ + 1,
                           !.conn[t] = [made |-> L.made + 1, age |-> "young", fails |-> 0]]

Connect(L, t) == [NewConn(Forget(L, t), t) EXCEPT
                    !.active = t, !.rec = FALSE, !.told = "connected"]

(* assertPeerCanJoin: keep the incumbent, retire it, or leave both.         *)
IsDuplicate(p, t) ==
  LET a == active[p] IN
  a \notin {None, t} /\ t \notin Candidates /\ path[p][a] # "gone" /\ Keeps(p, a, t)

AfterAssert(p, t, L) ==
  LET a == active[p] IN
  IF a \notin {None, t} /\ t \notin Candidates /\ (path[p][a] = "gone" \/ ~IsFresh(p, a))
  THEN RetireIdentityRoute(L, a) ELSE L

(* onPeerJoin: the other family won in the meantime, or it is retired.      *)
Join(L, p, t) ==
  IF L.active \notin {None, t} /\ Keeps(p, L.active, t) THEN Close(Forget(L, t), t)
  ELSE Connect(IF L.active \in {None, t} THEN L ELSE RetireIdentityRoute(L, L.active), t)

(* finishUpgrade: the attempt is over; the room is left when nothing uses it. *)
FinishUpgrade(p, L, newActive) ==
  LET inUse == \/ \E q \in Peers \ {p} : upgrade[q].n # 0 \/ active[q] \in Candidates
               \/ newActive \in Candidates
      emptied(ways) == [t \in Transports |->
                          IF ~inUse /\ t \in Candidates THEN "gone" ELSE ways[t]]
  IN /\ upgrade' = [upgrade EXCEPT ![p] = NoUpgrade]
     /\ roomOpen' = inUse
     /\ Become(p, [L EXCEPT !.path = emptied(@)])

DiscardCandidate(p, L) ==
  IF upgrade[p].cand = None THEN L ELSE Close(Drop(L, upgrade[p].cand), upgrade[p].cand)

-----------------------------------------------------------------------------
Init ==
  /\ pending = [p \in Peers |-> {}]
  /\ conn = [p \in Peers |-> [t \in Transports |-> NoConn]]
  /\ made = [p \in Peers |-> 0]
  /\ active = [p \in Peers |-> None]
  /\ recovering = [p \in Peers |-> FALSE]
  /\ told = [p \in Peers |-> "absent"]
  /\ upgrade = [p \in Peers |-> NoUpgrade]
  /\ attempts = [p \in Peers |-> 0]
  /\ roomOpen = FALSE
  /\ answers = {}
  /\ path = [p \in Peers |-> [t \in Transports |-> "gone"]]
  /\ stopped = FALSE

MayConnect(p) == made[p] + Cardinality(pending[p]) < MaxConns

(* runPeerHandshake in a discovery room: identity proved, not yet admitted. *)
Handshake(p, t) ==
  /\ t \in Direct /\ path[p][t] = "gone" /\ MayConnect(p)
  /\ ~IsDuplicate(p, t)
  /\ LET L == [AfterAssert(p, t, View(p)) EXCEPT !.path[t] = "up"]
     IN Become(p, Admit(L, t, 0))
  /\ UNCHANGED <<upgrade, attempts, roomOpen, answers, stopped>>

(* The same, refused after the old route was dropped: the name is taken.    *)
HandshakeRefused(p, t) ==
  /\ t \in Direct /\ path[p][t] = "gone"
  /\ ~IsDuplicate(p, t)
  /\ Become(p, AfterAssert(p, t, View(p)))
  /\ UNCHANGED <<upgrade, attempts, roomOpen, answers, stopped>>

(* runPeerHandshake in the upgrade room: only for the attempt in progress.  *)
CandidateHandshake(p, t) ==
  /\ t \in Candidates /\ roomOpen /\ path[p][t] = "gone" /\ MayConnect(p)
  /\ upgrade[p].n # 0 /\ IsIncumbentCurrent(p)
  /\ Become(p, Admit([View(p) EXCEPT !.path[t] = "up"], t, upgrade[p].n))
  /\ UNCHANGED <<upgrade, attempts, roomOpen, answers, stopped>>

(* onPeerJoin of a discovery room. *)
PeerJoins(p, t) ==
  /\ ~stopped /\ t \in Direct /\ path[p][t] # "gone"
  /\ \E h \in pending[p] : h.on = t
  /\ Become(p, Join(Forget(View(p), t), p, t))
  /\ UNCHANGED <<upgrade, attempts, roomOpen, answers, stopped>>

(* advanceRelayHandshake, last step: admitted and joined at once.           *)
RelayAdmitted(p) ==
  /\ ~stopped /\ path[p][Relay] = "up" /\ MayConnect(p)
  /\ ~IsDuplicate(p, Relay)
  /\ Become(p, Join(AfterAssert(p, Relay, View(p)), p, Relay))
  /\ UNCHANGED <<upgrade, attempts, roomOpen, answers, stopped>>

(* onUpgradeCandidateJoin *)
CandidateJoins(p, t) ==
  /\ ~stopped /\ t \in Candidates /\ path[p][t] # "gone"
  /\ \E h \in pending[p] :
       /\ h.on = t
       /\ LET L == Forget(View(p), t) IN
          \/ /\ h.attempt # upgrade[p].n
             /\ Become(p, Close(L, t))
             /\ UNCHANGED <<upgrade, roomOpen>>
          \/ /\ h.attempt = upgrade[p].n /\ ~IsIncumbentCurrent(p)
             /\ FinishUpgrade(p, Close(L, t), active[p])
          \/ /\ h.attempt = upgrade[p].n /\ IsIncumbentCurrent(p)
             /\ Become(p, NewConn(L, t))
             /\ upgrade' = [upgrade EXCEPT ![p].cand = t, ![p].probed = FALSE, ![p].pings = 0]
             /\ UNCHANGED roomOpen
  /\ UNCHANGED <<attempts, answers, stopped>>

(* A room reports that a participant left: onPeerLeave.                     *)
PeerLeaves(p, t) ==
  /\ t \in Direct /\ path[p][t] # "up"
  /\ Exists(p, t) \/ \E h \in pending[p] : h.on = t
  /\ Become(p, RouteEnds(View(p), t, FALSE))
  /\ UNCHANGED <<upgrade, attempts, roomOpen, answers, stopped>>

(* onUpgradeCandidateLeave *)
CandidateLeaves(p, t) ==
  /\ t \in Candidates /\ path[p][t] # "up" /\ Exists(p, t)
  /\ \/ /\ active[p] = t
        /\ Become(p, RouteEnds(View(p), t, FALSE))
        /\ UNCHANGED <<upgrade, roomOpen>>
     \/ /\ active[p] # t /\ upgrade[p].cand = t
        /\ FinishUpgrade(p, Drop(View(p), t), active[p])
     \/ /\ active[p] # t /\ upgrade[p].cand # t
        /\ Become(p, Drop(View(p), t))
        /\ UNCHANGED <<upgrade, roomOpen>>
  /\ UNCHANGED <<attempts, answers, stopped>>

(* peerLeaving arrived: every route of the participant ends.                *)
PeerDeparts(p) ==
  /\ \E t \in Transports : Exists(p, t) /\ path[p][t] = "up"
  /\ LET gone == {t \in Transports : Exists(p, t)}
         L == View(p)
     IN Become(p, [L EXCEPT
          !.pend = {h \in @ : h.on \notin gone},
          !.conn = [t \in Transports |-> NoConn],
          !.path = [t \in Transports |-> IF t \in gone \ {Relay} THEN "gone" ELSE @[t]],
          !.active = IF @ \in gone THEN None ELSE @,
          !.told = IF L.active \in gone THEN "absent" ELSE @])
  /\ UNCHANGED <<upgrade, attempts, roomOpen, answers, stopped>>

(* The timer of the recovery lease. *)
RecoveryDeadline(p) ==
  /\ recovering[p]
  /\ recovering' = [recovering EXCEPT ![p] = FALSE]
  /\ told' = [told EXCEPT ![p] = IF HasRoute(p) THEN @ ELSE "absent"]
  /\ UNCHANGED <<pending, conn, made, active, upgrade, attempts, roomOpen, answers, path, stopped>>

(* waitForRoute: a caller needs a participant the directory remembers.      *)
WaitForRoute(p) ==
  /\ ~stopped /\ Known(p) /\ ~HasRoute(p) /\ ~recovering[p]
  /\ Become(p, BeginRecovery(View(p)))
  /\ UNCHANGED <<upgrade, attempts, roomOpen, answers, stopped>>

(* cleanupSeenIds and onJoinError: an admission that was never completed.   *)
AdmissionAbandoned(p, t) ==
  /\ \E h \in pending[p] : h.on = t
  /\ Become(p, Close(Forget(View(p), t), t))
  /\ UNCHANGED <<upgrade, attempts, roomOpen, answers, stopped>>

(* pingTick: an answer, and a failure; the third in a row and three silent  *)
(* seconds retire the route (late).                                         *)
PingAnswered(p, t) ==
  /\ Exists(p, t) /\ path[p][t] = "up"
  /\ conn' = [conn EXCEPT ![p][t].fails = 0,
                          ![p][t].age = IF @ = "young" THEN @ ELSE "fresh"]
  /\ UNCHANGED <<pending, made, active, recovering, told, path, upgrade, attempts, roomOpen, answers, stopped>>

PingFails(p, t, late) ==
  /\ Exists(p, t)
  /\ LET fails == conn[p][t].fails + 1 IN
     IF fails >= PingLimit /\ late
     THEN Become(p, RouteEnds(View(p), t, FALSE))
     ELSE /\ conn' = [conn EXCEPT ![p][t].fails = IF fails > PingLimit THEN @ ELSE fails]
          /\ UNCHANGED <<pending, made, active, recovering, told, path>>
  /\ UNCHANGED <<upgrade, attempts, roomOpen, answers, stopped>>

(* Twenty seconds pass, with traffic or (only on a dead path) without; the  *)
(* age is asked of the active route only.                                   *)
Ages(p, t) ==
  /\ Exists(p, t) /\ active[p] = t
  /\ \/ conn[p][t].age = "young" /\ conn' = [conn EXCEPT ![p][t].age = "fresh"]
     \/ conn[p][t].age # "stale" /\ path[p][t] # "up" /\ conn' = [conn EXCEPT ![p][t].age = "stale"]
  /\ UNCHANGED <<pending, made, active, recovering, told, path, upgrade, attempts, roomOpen, answers, stopped>>

(* tryImproveRoute, and handleUpgradeRequest on the other side.             *)
StartUpgrade(p) ==
  /\ ~stopped /\ upgrade[p].n = 0 /\ active[p] = Relay /\ Exists(p, Relay)
  /\ attempts[p] < MaxAttempts
  /\ attempts' = [attempts EXCEPT ![p] = @ + 1]
  /\ upgrade' = [upgrade EXCEPT ![p] = [NoUpgrade EXCEPT !.n = attempts[p] + 1,
                                                         !.incumbent = conn[p][Relay].made]]
  /\ roomOpen' = TRUE
  /\ UNCHANGED <<links, answers, stopped>>

(* The deadline of an attempt, and cancelRouteUpgrade.                      *)
UpgradeEnds(p) ==
  /\ upgrade[p].n # 0
  /\ FinishUpgrade(p, DiscardCandidate(p, View(p)), active[p])
  /\ UNCHANGED <<attempts, answers, stopped>>

(* The other side answers the probe that the join of a candidate sent.      *)
ProbeAnswered(p) ==
  /\ Verifying(p) /\ Exists(p, upgrade[p].cand) /\ path[p][upgrade[p].cand] = "up"
  /\ answers' = answers \cup {[kind |-> "probe", peer |-> p, on |-> upgrade[p].cand,
                               made |-> conn[p][upgrade[p].cand].made, attempt |-> 0]}
  /\ UNCHANGED <<links, upgrade, attempts, roomOpen, stopped>>

(* An answer arrives on the connection its question was sent on.            *)
StillOpen(a) == conn[a.peer][a.on].made = a.made

(* handleAction of routeProbeAck *)
AcceptProbe(a) ==
  LET p == a.peer IN
  /\ a.kind = "probe" /\ StillOpen(a)
  /\ answers' = answers \ {a}
  /\ upgrade' = IF Verifying(p) /\ upgrade[p].cand = a.on /\ IsIncumbentCurrent(p)
                THEN [upgrade EXCEPT ![p].probed = TRUE] ELSE upgrade
  /\ UNCHANGED <<links, attempts, roomOpen, stopped>>

(* verifyCandidateTick: the incumbent changed, or another ping is sent.     *)
VerifyTick(p) ==
  /\ upgrade[p].n # 0
  /\ \/ /\ upgrade[p].cand # None /\ ~IsIncumbentCurrent(p)
        /\ FinishUpgrade(p, DiscardCandidate(p, View(p)), active[p])
        /\ UNCHANGED answers
     \/ /\ Verifying(p) /\ IsIncumbentCurrent(p)
        /\ answers' = answers \cup {[kind |-> "ping", peer |-> p, on |-> upgrade[p].cand,
                                     made |-> conn[p][upgrade[p].cand].made,
                                     attempt |-> upgrade[p].n]}
        /\ UNCHANGED <<links, upgrade, roomOpen>>
  /\ UNCHANGED <<attempts, stopped>>

IsCurrentCandidate(a) ==
  LET p == a.peer IN
  /\ upgrade[p].n = a.attempt /\ upgrade[p].cand = a.on
  /\ IsIncumbentCurrent(p) /\ Exists(p, a.on)

(* shouldMigrateRoute decides by latency: either answer.                    *)
Promote(p) ==
  LET key == upgrade[p].cand
      L == View(p)
  IN \/ FinishUpgrade(p, [Drop(L, Relay) EXCEPT !.active = key], key)
     \/ FinishUpgrade(p, DiscardCandidate(p, L), active[p])

(* The ping of a tick settles: early, counted, the last one, or failed.     *)
PingSettles(a, ok, early) ==
  LET p == a.peer IN
  /\ a.kind = "ping" /\ (ok => StillOpen(a))
  /\ answers' = answers \ {a}
  /\ CASE ~IsCurrentCandidate(a) -> UNCHANGED <<links, upgrade, roomOpen>>
       [] IsCurrentCandidate(a) /\ ~ok ->
            FinishUpgrade(p, DiscardCandidate(p, View(p)), active[p])
       [] IsCurrentCandidate(a) /\ ok /\ (early \/ ~upgrade[p].probed) ->
            UNCHANGED <<links, upgrade, roomOpen>>
       [] IsCurrentCandidate(a) /\ ok /\ ~early /\ upgrade[p].probed ->
            IF upgrade[p].pings + 1 >= RequiredPings THEN Promote(p)
            ELSE /\ upgrade' = [upgrade EXCEPT ![p].pings = @ + 1]
                 /\ UNCHANGED <<links, roomOpen>>
  /\ UNCHANGED <<attempts, stopped>>

(* stop: every local map is cleared before anything is awaited.             *)
Stop ==
  /\ ~stopped
  /\ stopped' = TRUE /\ roomOpen' = FALSE
  /\ pending' = [p \in Peers |-> {}]
  /\ conn' = [p \in Peers |-> [t \in Transports |-> NoConn]]
  /\ active' = [p \in Peers |-> None]
  /\ recovering' = [p \in Peers |-> FALSE]
  /\ upgrade' = [p \in Peers |-> NoUpgrade]
  /\ path' = [p \in Peers |-> [t \in Transports |-> "gone"]]
  /\ UNCHANGED <<made, told, attempts, answers>>

(* The network: a path dies silently, comes back, is closed from afar.      *)
PathChanges(p, t) ==
  /\ \E next \in {"up", "half", "gone"} :
       /\ next # path[p][t]
       /\ path[p][t] = "gone" => t = Relay /\ next = "up" /\ ~stopped
       /\ path' = [path EXCEPT ![p][t] = next]
  /\ UNCHANGED <<pending, conn, made, active, recovering, told, upgrade, attempts, roomOpen, answers, stopped>>

PeerStep(p) ==
  \/ \E t \in Transports :
       \/ Handshake(p, t) \/ HandshakeRefused(p, t) \/ CandidateHandshake(p, t)
       \/ PeerJoins(p, t) \/ CandidateJoins(p, t)
       \/ PeerLeaves(p, t) \/ CandidateLeaves(p, t) \/ AdmissionAbandoned(p, t)
       \/ PingAnswered(p, t) \/ Ages(p, t) \/ PathChanges(p, t)
       \/ \E late \in BOOLEAN : PingFails(p, t, late)
  \/ RelayAdmitted(p) \/ PeerDeparts(p) \/ RecoveryDeadline(p) \/ WaitForRoute(p)
  \/ StartUpgrade(p) \/ UpgradeEnds(p) \/ ProbeAnswered(p) \/ VerifyTick(p)

Next ==
  \/ \E p \in Peers : PeerStep(p)
  \/ \E a \in answers : \/ AcceptProbe(a)
                        \/ \E ok, early \in BOOLEAN : PingSettles(a, ok, early)
  \/ Stop

Spec == Init /\ [][Next]_vars

(* The timers of this process: the lease, and the pings of a dead route     *)
(* (what the network answers is not promised).                              *)
DeadRoute(p) == active[p] # None /\ path[p][active[p]] # "up"
RetireDead(p) == DeadRoute(p) /\ PingFails(p, active[p], TRUE)

FairSpec == Spec /\ \A p \in Peers : WF_vars(RecoveryDeadline(p)) /\ WF_vars(RetireDead(p))

-----------------------------------------------------------------------------
TypeOK ==
  /\ pending \in [Peers -> SUBSET [on : Transports, attempt : 0 .. MaxAttempts]]
  /\ conn \in [Peers -> [Transports -> [made : 0 .. MaxConns,
                                        age : {"young", "fresh", "stale"},
                                        fails : 0 .. PingLimit]]]
  /\ made \in [Peers -> 0 .. MaxConns]
  /\ active \in [Peers -> Transports \cup {None}]
  /\ recovering \in [Peers -> BOOLEAN]
  /\ told \in [Peers -> {"absent", "connected", "recovering"}]
  /\ upgrade \in [Peers -> [n : 0 .. MaxAttempts, incumbent : 0 .. MaxConns,
                            cand : Candidates \cup {None}, probed : BOOLEAN,
                            pings : 0 .. RequiredPings]]
  /\ attempts \in [Peers -> 0 .. MaxAttempts]
  /\ roomOpen \in BOOLEAN /\ stopped \in BOOLEAN
  /\ path \in [Peers -> [Transports -> {"up", "half", "gone"}]]

(* A participant who has a route has a connection behind it, is not being   *)
(* recovered, and was last announced as connected: the coordinator never    *)
(* takes a reachable host for lost (mesh.ts:2591, 2656, 2753).              *)
RoutedPeerIsConnected ==
  \A p \in Peers : active[p] # None =>
    /\ Exists(p, active[p])
    /\ ~recovering[p] /\ told[p] = "connected"

(* The lease and its announcement go together: the session is told that a   *)
(* participant recovers exactly while the lease that will end it runs.      *)
RecoveringIsAnnounced ==
  ~stopped => \A p \in Peers : recovering[p] <=> told[p] = "recovering"

(* Two families may discover the same participant at once and the relay may *)
(* come third: only one of their routes is ever kept (mesh.ts:2607, 2519).  *)
OneRoutePerPeer ==
  \A p \in Peers : \A t \in Direct \cup {Relay} : Exists(p, t) => active[p] = t

(* A direct route won by an upgrade lives inside the upgrade room, which is *)
(* not left while it carries one, whatever other attempts end (mesh.ts:1941). *)
PromotedRouteHasItsRoom ==
  (\E p \in Peers : active[p] \in Candidates \/ upgrade[p].n # 0) => roomOpen

(* Make before break: an upgrade moves a participant from the very relay    *)
(* connection it started on to a candidate that answered the probe and the  *)
(* required pings, and an attempt that fails changes nothing else.          *)
UpgradeIsMakeBeforeBreak ==
  \A p \in Peers :
       /\ active'[p] \in Candidates \ {active[p]} =>
            /\ IsIncumbentCurrent(p) /\ active'[p] = upgrade[p].cand
            /\ upgrade[p].probed /\ upgrade[p].pings + 1 >= RequiredPings
            /\ conn'[p][active'[p]].made # 0
       /\ upgrade[p].n # 0 /\ upgrade'[p].n = 0 /\ ~stopped' /\ active[p] = Relay =>
            active'[p] \in {Relay, upgrade[p].cand}

(* What counts for a candidate was measured on that candidate: an answer    *)
(* that comes late, for the candidate before it, counts for nothing.        *)
VerificationIsOfTheCandidate ==
  \A p \in Peers :
       (upgrade'[p].pings > upgrade[p].pings \/ (upgrade'[p].probed /\ ~upgrade[p].probed)) =>
         \E a \in answers \ answers' :
            a.peer = p /\ a.on = upgrade[p].cand /\ StillOpen(a)

(* A route is never taken away in silence: it is replaced, the lease starts, *)
(* the participant said goodbye, or another handshake of theirs was proved.  *)
RouteLossIsNoticed ==
  \A p \in Peers : active[p] # None /\ active'[p] = None =>
       \/ stopped' \/ recovering'[p] \/ told'[p] = "absent"
       \/ \E t \in Direct : Handshake(p, t) \/ HandshakeRefused(p, t)

(* After stop nothing reconnects and nothing more is announced.             *)
StopIsFinal ==
  stopped => told' = told /\ active' = active /\ conn' = conn /\ upgrade' = upgrade

=============================================================================
