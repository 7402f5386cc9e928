----------------------------- MODULE MCProgress ------------------------------
(***************************************************************************)
(* What must eventually happen, on small instances.  Every behaviour is    *)
(* about one part, chosen at the start, as in MCPeers.                     *)
(***************************************************************************)
EXTENDS Integers, Sequences, FiniteSets, Bags

CONSTANTS
  Parts,  \* the parts a run is about
  Unused  \* a variable that is not in use

VARIABLES part,
  conn, made, active, recovering, told, upgrade, attempts, roomOpen, answers, path,
  neg, route, tries, nonces, faults,
  queue, connected, joins, queues, frames, given, arrived,
  edit, file, replica, acl, root, readers, requests, replies, events, state, journal,
  archive, troubles, kept, acked, written, issued, restored,
  calls, client, cleaning, bridge, stdin, stdout, table, kern, iopub, shell, workers,
  pids, bound, finished, hit, trouble,
  hosts, term, policy, linked, shells, cmds, printed, struck,
  line, probe, ready, retry, outbox, signing, wire, stale, posted, announced, tried,
  carried, partial, merged, seen, got, heard, mute, deaf, aged, harmed,
  by, native, end, hello, broken, expired, current,
  pending, stopped, net, timers, sent, proved, retired, stop, asked, known, left

-----------------------------------------------------------------------------
(* Both signalling families and the relay; a transport comes back.          *)
F == INSTANCE MeshRoutes WITH
  Peers <- {"p"}, Primary <- {"n1"}, Secondary <- {"m1"}, Candidates <- {},
  PingLimit <- 2, RequiredPings <- 2, MaxConns <- 4, MaxAttempts <- 0

H == INSTANCE RelayHandshake WITH
  MaxTries <- 2, MaxFaults <- 1, MaxNonces <- 6

Q == INSTANCE OutboundQueues WITH
  Transports <- {"x", "y"}, MaxQueued <- 2, MaxTotal <- 3, MaxFrames <- 4, MaxJoins <- 2

(* One editor of a persistent session and any two troubles in a row.        *)
T == INSTANCE PersistentText WITH
  Member <- {"m"}, MaxEdits <- 2, MaxTroubles <- 2

(* An execution, a failure, an interrupt and a restart.                     *)
K == INSTANCE KernelBridge WITH
  Requests <- {1}, Sequential <- FALSE, MaxPending <- 2, MaxFaults <- 1, MaxStops <- 0,
  MaxInterrupts <- 1, MaxRestarts <- 1

(* Output, a reset, and another start of the host; frames keep their order. *)
S == INSTANCE SharedTerminal WITH
  Peers <- {"h", "g"}, Founder <- "h", Commands <- [a |-> "h"], Retain <- 1,
  Ordered <- TRUE, MaxOutput <- 2, MaxResets <- 1, MaxRestarts <- 1, MaxCuts <- 0,
  MaxChanges <- 0, MaxStops <- 0, MaxCopies <- 0, MaxExits <- 0, MaxRevokes <- 0

(* A broker that fails, or stops delivering.                                *)
B == INSTANCE FrameRelays WITH
  Kind <- [m |-> "mqtt"], Pieces <- <<1>>, MaxOutbox <- 4, MaxPartial <- 2,
  MaxFaults <- 2, MaxMutes <- 1, MaxLate <- 0, MaxExpiries <- 0, MaxCopies <- 0,
  MaxMoves <- 0, MaxStops <- 0
(* A Nostr relay.                                                           *)
N == INSTANCE FrameRelays WITH
  Kind <- [n |-> "nostr"], Pieces <- <<1>>, MaxOutbox <- 4, MaxPartial <- 2,
  MaxFaults <- 2, MaxMutes <- 1, MaxLate <- 0, MaxExpiries <- 0, MaxCopies <- 0,
  MaxMoves <- 0, MaxStops <- 0
(* The relay of a server.                                                   *)
V == INSTANCE FrameRelays WITH
  Kind <- [v |-> "vps"], Pieces <- <<1>>, MaxOutbox <- 4, MaxPartial <- 2,
  MaxFaults <- 2, MaxMutes <- 1, MaxLate <- 0, MaxExpiries <- 0, MaxCopies <- 0,
  MaxMoves <- 1, MaxStops <- 0

(* Both dial, and lose each other.                                          *)
I == INSTANCE IrohStreams WITH
  Low <- "a", High <- "b", Slots <- {1, 2}, MaxBreaks <- 1, MaxTimeouts <- 0,
  MaxStops <- 0

-----------------------------------------------------------------------------
routesVars == <<conn, made, active, recovering, told, upgrade, attempts, roomOpen,
  answers, path>>
handshakeVars == <<neg, route, tries, nonces, faults>>
queuesVars == <<queue, connected, joins, queues, frames, given, arrived>>
textVars == <<edit, file, replica, acl, root, readers, requests, replies, events, state,
  journal, archive, troubles, kept, acked, written, issued, restored>>
kernelVars == <<calls, client, cleaning, bridge, stdin, stdout, table, kern, iopub,
  shell, workers, pids, bound, finished, hit, trouble>>
terminalVars == <<hosts, term, policy, linked, shells, cmds, printed, struck>>
relayVars == <<line, probe, ready, retry, outbox, signing, wire, stale, posted,
  announced, tried, carried, partial, merged, seen, got, heard, mute, deaf, aged,
  harmed>>
streamVars == <<by, native, end, hello, broken, expired, current>>
vars == <<part, routesVars, handshakeVars, queuesVars, textVars, kernelVars,
  terminalVars, relayVars, streamVars, pending, stopped, net, timers, sent, proved,
  retired, stop, asked, known, left>>

RoutesParts == {"families"}
HandshakeParts == {"handshake"}
QueuesParts == {"queues"}
KernelParts == {"kernel"}
TerminalParts == {"terminal"}
RelayParts == {"broker", "nostr", "server"}
StreamParts == {"streams"}

NoRoutes ==
  /\ conn = Unused /\ made = Unused /\ active = Unused /\ recovering = Unused /\ told = Unused
  /\ upgrade = Unused /\ attempts = Unused /\ roomOpen = Unused /\ answers = Unused
  /\ path = Unused
NoHandshake ==
  /\ neg = Unused /\ route = Unused /\ tries = Unused /\ nonces = Unused /\ faults = Unused
NoQueues ==
  /\ queue = Unused /\ connected = Unused /\ joins = Unused /\ queues = Unused /\ frames = Unused
  /\ given = Unused /\ arrived = Unused
NoText ==
  /\ edit = Unused /\ file = Unused /\ replica = Unused /\ acl = Unused /\ root = Unused
  /\ readers = Unused /\ requests = Unused /\ replies = Unused /\ events = Unused /\ state = Unused
  /\ journal = Unused /\ archive = Unused /\ troubles = Unused /\ kept = Unused /\ acked = Unused
  /\ written = Unused /\ issued = Unused /\ restored = Unused
NoKernel ==
  /\ calls = Unused /\ client = Unused /\ cleaning = Unused /\ bridge = Unused /\ stdin = Unused
  /\ stdout = Unused /\ table = Unused /\ kern = Unused /\ iopub = Unused /\ shell = Unused
  /\ workers = Unused /\ pids = Unused /\ bound = Unused /\ finished = Unused /\ hit = Unused
  /\ trouble = Unused
NoTerminal ==
  /\ hosts = Unused /\ term = Unused /\ policy = Unused /\ linked = Unused /\ shells = Unused
  /\ cmds = Unused /\ printed = Unused /\ struck = Unused
NoRelay ==
  /\ line = Unused /\ probe = Unused /\ ready = Unused /\ retry = Unused /\ outbox = Unused
  /\ signing = Unused /\ wire = Unused /\ stale = Unused /\ posted = Unused /\ announced = Unused
  /\ tried = Unused /\ carried = Unused /\ partial = Unused /\ merged = Unused /\ seen = Unused
  /\ got = Unused /\ heard = Unused /\ mute = Unused /\ deaf = Unused /\ aged = Unused
  /\ harmed = Unused
NoStream ==
  /\ by = Unused /\ native = Unused /\ end = Unused /\ hello = Unused /\ broken = Unused
  /\ expired = Unused /\ current = Unused

RoutesOnly == UNCHANGED <<part, handshakeVars, queuesVars, textVars, kernelVars,
  terminalVars, relayVars, streamVars, net, timers, sent, proved, retired, stop, asked,
  known, left>>
HandshakeOnly == UNCHANGED <<part, routesVars, queuesVars, textVars, kernelVars,
  terminalVars, relayVars, streamVars, pending, stopped, retired, stop, asked, known,
  left>>
QueuesOnly == UNCHANGED <<part, routesVars, handshakeVars, textVars, kernelVars,
  terminalVars, relayVars, streamVars, pending, stopped, net, timers, sent, proved,
  stop, asked, known, left>>
TextOnly == UNCHANGED <<part, routesVars, handshakeVars, queuesVars, kernelVars,
  terminalVars, relayVars, streamVars, pending, stopped, net, timers, sent, proved,
  retired, stop, asked, known, left>>
KernelOnly == UNCHANGED <<part, routesVars, handshakeVars, queuesVars, textVars,
  terminalVars, relayVars, streamVars, pending, stopped, net, proved, known, left>>
TerminalOnly == UNCHANGED <<part, routesVars, handshakeVars, queuesVars, textVars,
  kernelVars, relayVars, streamVars, pending, stopped, timers, sent, proved, retired,
  asked>>
RelayOnly == UNCHANGED <<part, routesVars, handshakeVars, queuesVars, textVars,
  kernelVars, terminalVars, streamVars, pending, net, timers, sent, retired, stop>>
StreamOnly == UNCHANGED <<part, routesVars, handshakeVars, queuesVars, textVars,
  kernelVars, terminalVars, relayVars, net, timers, sent, proved, retired, stop, asked,
  known>>

Init ==
  /\ part \in Parts
  /\ IF part = "families" THEN F!Init ELSE NoRoutes
  /\ IF part = "handshake" THEN H!Init ELSE NoHandshake
  /\ IF part = "queues" THEN Q!Init ELSE NoQueues
  /\ IF part = "text" THEN T!Init ELSE NoText
  /\ IF part = "kernel" THEN K!Init ELSE NoKernel
  /\ IF part = "terminal" THEN S!Init ELSE NoTerminal
  /\ CASE part = "broker" -> B!Init
       [] part = "nostr" -> N!Init
       [] part = "server" -> V!Init
       [] OTHER -> NoRelay
  /\ IF part = "streams" THEN I!Init ELSE NoStream
  /\ part \notin HandshakeParts \cup KernelParts => timers = Unused /\ sent = Unused
  /\ part \notin HandshakeParts \cup RelayParts => proved = Unused
  /\ part \notin HandshakeParts \cup TerminalParts => net = Unused
  /\ part \notin KernelParts \cup RelayParts => asked = Unused
  /\ part \notin KernelParts \cup TerminalParts => stop = Unused
  /\ part \notin QueuesParts \cup KernelParts => retired = Unused
  /\ part \notin RoutesParts \cup RelayParts \cup StreamParts => stopped = Unused
  /\ part \notin RoutesParts \cup StreamParts => pending = Unused
  /\ part \notin TerminalParts \cup RelayParts => known = Unused
  /\ part \notin TerminalParts \cup RelayParts \cup StreamParts => left = Unused

FStep == part = "families" /\ F!Next /\ RoutesOnly
HStep == part = "handshake" /\ H!Next /\ HandshakeOnly
QStep == part = "queues" /\ Q!Next /\ QueuesOnly
TStep == part = "text" /\ T!Next /\ TextOnly
KStep == part = "kernel" /\ K!Next /\ KernelOnly
SStep == part = "terminal" /\ S!Next /\ TerminalOnly
BStep == part = "broker" /\ B!Next /\ RelayOnly
NStep == part = "nostr" /\ N!Next /\ RelayOnly
VStep == part = "server" /\ V!Next /\ RelayOnly
IStep == part = "streams" /\ I!Next /\ StreamOnly

Next ==
  \/ FStep
  \/ HStep
  \/ QStep
  \/ TStep
  \/ KStep
  \/ SStep
  \/ BStep \/ NStep \/ VStep
  \/ IStep

Spec == Init /\ [][Next]_vars

Family(A)   == part = "families" /\ A /\ RoutesOnly
Exchange(A) == part = "handshake" /\ A /\ HandshakeOnly
Sends(A)    == part = "queues" /\ A /\ QueuesOnly
Writes(A)   == part = "text" /\ A /\ TextOnly
Runs(A)     == part = "kernel" /\ A /\ KernelOnly
Shows(A)    == part = "terminal" /\ A /\ TerminalOnly
Broker(A)   == part = "broker" /\ A /\ RelayOnly
Nostr(A)    == part = "nostr" /\ A /\ RelayOnly
Server(A)   == part = "server" /\ A /\ RelayOnly
Streams(A)  == part = "streams" /\ A /\ StreamOnly

(* The timers of this process fire, the relay delivers what it does not     *)
(* lose, and a send that was started settles.  The timer of a second and    *)
(* the answers of calls keep an open document going, the queue of the       *)
(* server is worked off, and a document that was closed is opened again.    *)
SessionFairness ==
  /\ WF_vars(Family(F!RecoveryDeadline("p"))) /\ WF_vars(Family(F!RetireDead("p")))
  /\ WF_vars(Exchange(\E m \in BagToSet(net) : H!Deliver(m)))
  /\ \A x \in H!Side : WF_vars(Exchange(H!Sweep(x))) /\ WF_vars(Exchange(H!Expire(x)))
  /\ WF_vars(Sends(\E q \in Q!Sending, ok \in BOOLEAN : Q!Settles(q, ok)))
  /\ WF_vars(Writes(T!Editor("m"))) /\ WF_vars(Writes(T!Serve))

(* Threads, pipes and timers of the processes around a kernel go on, and    *)
(* its code ends.                                                           *)
KernelFairness ==
  /\ WF_vars(Runs(K!CleanupEnds)) /\ WF_vars(Runs(K!StopShutsDown))
  /\ WF_vars(Runs(K!StopTerminates)) /\ WF_vars(Runs(K!StopEnds))
  /\ \A b \in 1 .. 2 :
       /\ WF_vars(Runs(K!ClientReads(b))) /\ WF_vars(Runs(K!BridgeWorks(b)))
       /\ WF_vars(Runs(K!CodeRuns(b))) /\ WF_vars(Runs(K!ReadIopub(b))) /\ WF_vars(Runs(K!ReadShell(b)))
       /\ WF_vars(Runs(K!MonitorKernel(b))) /\ WF_vars(Runs(K!Exits(b))) /\ WF_vars(Runs(K!OrphanExits(b)))

(* Routes come back, frames arrive, and the timers of the terminal fire.    *)
TerminalFairness ==
  /\ WF_vars(Shows(S!Reconnect))
  /\ \A p \in {"h", "g"} :
       /\ WF_vars(Shows(S!Delivers(p))) /\ WF_vars(Shows(S!AskAgain(p)))
       /\ WF_vars(Shows(S!ASecondPasses(p))) /\ WF_vars(Shows(S!Flush(p))) /\ WF_vars(Shows(S!FollowHost(p)))

(* Connections that are asked for are made or given up, probes and frames   *)
(* are delivered, the retries of the relays and of Iroh come.               *)
PathsFairness ==
  /\ WF_vars(Broker(B!PublishSigned) \/ Nostr(N!PublishSigned))
  /\ WF_vars(Broker(B!Noticed) \/ Nostr(N!Noticed) \/ Server(V!Noticed))
  /\ WF_vars(Broker(B!Connect("m")) \/ Nostr(N!RelayOpens("n")) \/ Server(V!ServerOpens("v")))
  /\ WF_vars(Broker(B!Subscribed("m")) \/ Nostr(N!Signed("n")) \/ Server(V!TurnedAway("v")))
  /\ WF_vars(\/ Broker(B!Resubscribe("m")) \/ Nostr(N!RedialRelays("n"))
             \/ Server(V!RedialServer("v")))
  /\ WF_vars(Broker(B!BrokerLate("m")) \/ Nostr(N!RelayLate("n")) \/ Server(V!ServerLate("v")))
  /\ WF_vars(\/ Broker(B!BrokerProven("m")) \/ Nostr(N!RelayProven("n"))
             \/ Server(V!ServerProven("v")))
  /\ WF_vars(\/ Broker(B!PieceFromBroker("m")) \/ Nostr(N!PieceFromRelay("n"))
             \/ Server(V!FrameFromServer("v")))
  /\ WF_vars(Broker(B!OldEcho("m")) \/ Nostr(N!OldEcho("n")) \/ Server(V!OldEcho("v")))
  /\ WF_vars(Broker(B!Listens("m")) \/ Nostr(N!Listens("n")) \/ Server(V!Listens("v")))
  /\ WF_vars(\/ Broker(B!AnnouncementArrives("m")) \/ Nostr(N!AnnouncementArrives("n"))
             \/ Server(V!AnnouncementArrives("v")))
  /\ WF_vars(Broker(B!Swallowed("m")) \/ Nostr(N!Swallowed("n")) \/ Server(V!Swallowed("v")))
  /\ SF_vars(Broker(B!Recheck("m")) \/ Nostr(N!RecheckRelay("n")) \/ Server(V!Recheck("v")))
  /\ \A p \in {"a", "b"} : WF_vars(Streams(I!Dial(p)))
  /\ \A c \in {1, 2} : WF_vars(Streams(I!Connects(c))) /\ WF_vars(Streams(I!Ends(c)))
  /\ \A p \in {"a", "b"}, c \in {1, 2} :
       /\ WF_vars(Streams(I!Greets(p, c))) /\ WF_vars(Streams(I!Establish(p, c)))
       /\ WF_vars(Streams(c \in broken[p] /\ I!GreetingFails(p, c)))
       /\ WF_vars(Streams(I!ReadingEnds(p, c))) /\ WF_vars(Streams(I!Notices(p, c)))

FairSpec == Spec /\ SessionFairness /\ KernelFairness /\ TerminalFairness /\ PathsFairness

-----------------------------------------------------------------------------
(* A dead route is given up and its lease ends, every edit of a persistent  *)
(* text leaves the journal, an execution of the kernel is answered.         *)
Waits(n) ==
  CASE part = "families" -> recovering["p"] \/ F!DeadRoute("p")
    [] part = "text"     -> n \in T!Pending("m")
    [] part = "kernel"   -> calls[1] \notin K!Settled \cup {"new"}
    [] OTHER             -> FALSE

(* Both sides of a relay handshake admit each other, what a queue holds     *)
(* goes out, every terminal shows what the host printed, exactly the relays *)
(* that deliver are in use, two participants have one stream between them.  *)
Settled ==
  CASE part = "handshake" -> route["a"] # 0 /\ route["b"] # 0
    [] part = "queues"    -> retired = {}
    [] part = "terminal"  -> S!CaughtUp
    [] part = "broker"    -> B!LivePathsAreReady
    [] part = "nostr"     -> N!LivePathsAreReady
    [] part = "server"    -> V!LivePathsAreReady
    [] part = "streams"   -> I!Connected
    [] OTHER              -> TRUE

(* What waits does not wait for ever, and what breaks settles; the journal  *)
(* and the replica of a text recover from a second trouble before the first *)
(* is over.                                                                 *)
EverythingSettles ==
  /\ \A n \in 1 .. 2 : Waits(n) ~> ~Waits(n)
  /\ <>[]Settled
  /\ [](part = "text" => T!RecoversFromTrouble)
=============================================================================
