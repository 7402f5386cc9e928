------------------------------- MODULE MCPeers -------------------------------
(***************************************************************************)
(* What the participants of a session do among themselves, on small        *)
(* instances: routes, the relay handshake, send queues, files, binary      *)
(* files, the barrier before a run, a notebook, and the project as one who  *)
(* joins gets it.  Every behaviour is about one part, chosen at the start:  *)
(* the parts share no step, so their states add up and do not multiply.     *)
(* Parts use variables of the same name where their modules do; a variable  *)
(* a part has no use for is Unused.                                         *)
(***************************************************************************)
EXTENDS Naturals, Sequences, FiniteSets, BarrierParameters, SnapshotParameters

CONSTANTS
  Parts,  \* the parts a run is about
  Unused  \* a variable that is not in use

VARIABLES part,
  pending, conn, made, active, recovering, told, upgrade, attempts, roomOpen,
  answers, path, stopped,
  neg, route, tries, nonces, timers, sent, proved, faults,
  queue, retired, connected, joins, queues, frames, given, arrived,
  local, up, ops, cuts, want, bound,
  docs, disordered, req, exec, used, seen, changed,
  layout, cellOf, rep, count, cleared,
  project, isHost, sending, job, remembered, requests, answered, down, link,
  join, peer, completed, disk, gens, spent, taken,
  net

-----------------------------------------------------------------------------
(* Two direct candidates of one attempt over the relay.                     *)
U == INSTANCE MeshRoutes WITH
       Peers <- {"p"}, Primary <- {}, Secondary <- {}, Candidates <- {"u1", "u2"},
       PingLimit <- 1, RequiredPings <- 2, MaxConns <- 3, MaxAttempts <- 1
(* Both signalling families and the relay; a transport comes back.          *)
F == INSTANCE MeshRoutes WITH
       Peers <- {"p"}, Primary <- {"n1", "n2"}, Secondary <- {"m1"}, Candidates <- {},
       PingLimit <- 2, RequiredPings <- 2, MaxConns <- 4, MaxAttempts <- 0
H == INSTANCE RelayHandshake WITH MaxTries <- 2, MaxFaults <- 1, MaxNonces <- 8
Q == INSTANCE OutboundQueues WITH
       Transports <- {"x", "y"}, MaxQueued <- 2, MaxTotal <- 3, MaxFrames <- 4, MaxJoins <- 2

Flat == {<<"x">>, <<"y">>, <<"z">>}
Tree == {<<"d">>, <<"d", "f">>, <<"e">>, <<"e", "f">>}
AllOps == {"create", "edit", "delete", "rename"}
(* Two participants create, edit, delete and rename at once.                *)
Together == INSTANCE FileStates WITH
  Peers <- {1, 2}, Actors <- {1, 2}, Paths <- Flat, Dirs <- {}, Initial <- {<<"x">>},
  Ops <- AllOps, MaxOps <- 3, MaxCuts <- 0
(* They edit and delete while their route breaks and comes back.            *)
Apart == INSTANCE FileStates WITH
  Peers <- {1, 2}, Actors <- {1, 2}, Paths <- Flat, Dirs <- {}, Initial <- {<<"x">>},
  Ops <- {"edit", "delete"}, MaxOps <- 3, MaxCuts <- 2
(* One participant reorganises a folder.                                    *)
Folder == INSTANCE FileStates WITH
  Peers <- {1, 2}, Actors <- {1}, Paths <- Tree, Dirs <- {<<"d">>, <<"e">>},
  Initial <- {<<"d">>, <<"d", "f">>}, Ops <- AllOps, MaxOps <- 3, MaxCuts <- 0
(* One participant renames a file back and forth.                           *)
Back == INSTANCE FileStates WITH
  Peers <- {1, 2}, Actors <- {1}, Paths <- Flat, Dirs <- {}, Initial <- {<<"x">>},
  Ops <- {"rename"}, MaxOps <- 3, MaxCuts <- 0

(* Both save; a route breaks, a runtime starts again.                       *)
Saves == INSTANCE BinaryFiles WITH
  Peers <- {1, 2}, Writers <- {1, 2}, MaxWrites <- 2, MaxJobs <- 1, MaxStreams <- 6,
  MaxCuts <- 1, MaxStops <- 1, MaxDrops <- 0, Calm <- TRUE
(* The file changes while it is sent, and a full inbox refuses a frame.     *)
Rough == INSTANCE BinaryFiles WITH
  Peers <- {1, 2}, Writers <- {1}, MaxWrites <- 2, MaxJobs <- 1, MaxStreams <- 3,
  MaxCuts <- 0, MaxStops <- 0, MaxDrops <- 1, Calm <- FALSE
(* A route breaks while the file is sent.                                   *)
Broken == INSTANCE BinaryFiles WITH
  Peers <- {1, 2}, Writers <- {1}, MaxWrites <- 1, MaxJobs <- 1, MaxStreams <- 6,
  MaxCuts <- 1, MaxStops <- 0, MaxDrops <- 0, Calm <- FALSE

(* Both edit while frames are sent again; the route holds.                  *)
Barrier == INSTANCE ExecutionBarrier WITH MaxRetries <- 2, MaxFaults <- 0
(* One edit and one fault.                                                  *)
Disturbed == INSTANCE ExecutionBarrier WITH MaxChanges <- 1, MaxRetries <- 2, MaxFaults <- 1

(* Two participants move cells and type.                                    *)
Moves == INSTANCE NotebookDocument WITH
  Cells <- {"a", "b", "c"}, Start <- <<"a", "b", "c">>, Ops <- {"move", "type"}, MaxOps <- 3,
  MaxCuts <- 0, MaxTicks <- 0, Grace <- 3, Collectors <- {1}
(* They add and delete as well, and lose each other.                        *)
Edits == INSTANCE NotebookDocument WITH
  Cells <- {"a", "b", "c", "d"}, Start <- <<"a", "b", "c">>,
  Ops <- {"move", "delete", "add", "type"}, MaxOps <- 2,
  MaxCuts <- 1, MaxTicks <- 0, Grace <- 3, Collectors <- {1}
(* Deleted cells are collected while others move them.                      *)
Garbage == INSTANCE NotebookDocument WITH
  Cells <- {"a", "b"}, Start <- <<"a", "b">>, Ops <- {"move", "delete"}, MaxOps <- 2,
  MaxCuts <- 1, MaxTicks <- 4, Grace <- 3, Collectors <- {1}

(* A document and a binary file; one of them changes while they are sent, a  *)
(* frame is lost, the route breaks.  The folder has something else under    *)
(* every name: what is there at the start decides nothing.                  *)
Joining == INSTANCE ProjectSnapshots WITH
  MaxFileRetries <- 1, MaxTransfers <- 4, CheckpointFrames <- 4, Window <- 3, MaxLost <- 1, MaxCuts <- 1,
  active <- sending, queue <- requests, up <- answered, used <- spent

-----------------------------------------------------------------------------
routesVars    == <<pending, conn, made, active, recovering, told, upgrade, attempts,
                   roomOpen, answers, path, stopped>>
handshakeVars == <<neg, route, tries, nonces, timers, sent, proved, faults>>
queuesVars    == <<queue, retired, connected, joins, queues, frames, given, arrived>>
filesVars     == <<ops, cuts, want>>
barrierVars   == <<docs, disordered, req, exec, used, seen, changed>>
notebookVars  == <<layout, cellOf, rep, count, cleared>>
snapshotVars  == <<project, isHost, sending, job, remembered, requests, answered, down, link,
                   join, peer, completed, disk, gens, spent, taken>>
vars == <<part, routesVars, handshakeVars, queuesVars, filesVars, barrierVars, notebookVars,
          snapshotVars, local, up, bound, net>>

NoRoutes ==
  /\ pending = Unused /\ conn = Unused /\ made = Unused /\ active = Unused /\ recovering = Unused
  /\ told = Unused /\ upgrade = Unused /\ attempts = Unused /\ roomOpen = Unused /\ answers = Unused
  /\ path = Unused /\ stopped = Unused
NoHandshake ==
  /\ neg = Unused /\ route = Unused /\ tries = Unused /\ nonces = Unused /\ timers = Unused
  /\ sent = Unused /\ proved = Unused /\ faults = Unused
NoQueues ==
  /\ queue = Unused /\ retired = Unused /\ connected = Unused /\ joins = Unused /\ queues = Unused
  /\ frames = Unused /\ given = Unused /\ arrived = Unused
NoFiles == ops = Unused /\ cuts = Unused /\ want = Unused
NoBarrier ==
  /\ docs = Unused /\ disordered = Unused /\ req = Unused /\ exec = Unused /\ used = Unused
  /\ seen = Unused /\ changed = Unused
NoNotebook == layout = Unused /\ cellOf = Unused /\ rep = Unused /\ count = Unused /\ cleared = Unused
NoSnapshot ==
  /\ project = Unused /\ isHost = Unused /\ sending = Unused /\ job = Unused /\ remembered = Unused
  /\ requests = Unused /\ answered = Unused /\ down = Unused /\ link = Unused /\ join = Unused
  /\ peer = Unused /\ completed = Unused /\ disk = Unused /\ gens = Unused /\ spent = Unused
  /\ taken = Unused

Routes    == UNCHANGED <<part, handshakeVars, queuesVars, filesVars, barrierVars, notebookVars,
                         snapshotVars, local, up, bound, net>>
Handshake == UNCHANGED <<part, routesVars, queuesVars, filesVars, barrierVars, notebookVars,
                         snapshotVars, local, up, bound>>
Queues    == UNCHANGED <<part, routesVars, handshakeVars, filesVars, barrierVars, notebookVars,
                         snapshotVars, local, up, bound, net>>
Lifecycle == UNCHANGED <<part, routesVars, handshakeVars, queuesVars, barrierVars, notebookVars,
                         snapshotVars, bound>>
Binaries  == UNCHANGED <<part, routesVars, handshakeVars, queuesVars, filesVars, barrierVars,
                         notebookVars, snapshotVars>>
Check     == UNCHANGED <<part, routesVars, handshakeVars, queuesVars, filesVars, notebookVars,
                         snapshotVars, local, up, bound>>
Notebook  == UNCHANGED <<part, routesVars, handshakeVars, queuesVars, filesVars, barrierVars,
                         snapshotVars, local, bound>>
Snapshot  == UNCHANGED <<part, routesVars, handshakeVars, queuesVars, filesVars, barrierVars,
                         notebookVars, local, up, bound, net>>

RoutesParts    == {"upgrade", "families"}
FilesParts     == {"together", "apart", "folder", "back"}
BinariesParts  == {"saves", "rough", "broken"}
NotebookParts  == {"moves", "edits", "garbage"}

Init ==
  /\ part \in Parts
  /\ CASE part = "upgrade" -> U!Init [] part = "families" -> F!Init [] OTHER -> NoRoutes
  /\ IF part = "handshake" THEN H!Init ELSE NoHandshake
  /\ IF part = "queues" THEN Q!Init ELSE NoQueues
  /\ CASE part = "together" -> Together!Init
       [] part = "apart"    -> Apart!Init
       [] part = "folder"   -> Folder!Init
       [] part = "back"     -> Back!Init
       [] OTHER             -> NoFiles
  /\ CASE part = "saves"  -> Saves!Init
       [] part = "rough"  -> Rough!Init
       [] part = "broken" -> Broken!Init
       [] OTHER           -> bound = Unused
  /\ CASE part = "barrier"   -> Barrier!Init
       [] part = "disturbed" -> Disturbed!Init
       [] OTHER              -> NoBarrier
  /\ CASE part = "moves"   -> Moves!Init
       [] part = "edits"   -> Edits!Init
       [] part = "garbage" -> Garbage!Init
       [] OTHER            -> NoNotebook
  /\ IF part = "snapshot" THEN Joining!Init /\ disk = [f \in Files |-> Joining!Whole(0)] ELSE NoSnapshot
  /\ part \notin FilesParts \cup BinariesParts => local = Unused
  /\ part \notin FilesParts \cup BinariesParts \cup NotebookParts => up = Unused
  /\ part \in RoutesParts \cup {"queues", "snapshot"} => net = Unused

UpgradeStep   == part = "upgrade" /\ U!Next /\ Routes
FamiliesStep  == part = "families" /\ F!Next /\ Routes
HandshakeStep == part = "handshake" /\ H!Next /\ Handshake
QueuesStep    == part = "queues" /\ Q!Next /\ Queues
TogetherStep  == part = "together" /\ Together!Next /\ Lifecycle
ApartStep     == part = "apart" /\ Apart!Next /\ Lifecycle
FolderStep    == part = "folder" /\ Folder!Next /\ Lifecycle
BackStep      == part = "back" /\ Back!Next /\ Lifecycle
SavesStep     == part = "saves" /\ Saves!Next /\ Binaries
RoughStep     == part = "rough" /\ Rough!Next /\ Binaries
BrokenStep    == part = "broken" /\ Broken!Next /\ Binaries
(* bound: a behaviour ends with the request of the barrier.                 *)
Asked         == req.st \notin {"done", "failed"}
BarrierStep   == part = "barrier" /\ Asked /\ Barrier!Next /\ Check
DisturbedStep == part = "disturbed" /\ Asked /\ Disturbed!Next /\ Check
MovesStep     == part = "moves" /\ Moves!Next /\ Notebook
EditsStep     == part = "edits" /\ Edits!Next /\ Notebook
GarbageStep   == part = "garbage" /\ Garbage!Next /\ Notebook
SnapshotStep  == part = "snapshot" /\ Joining!Next /\ Snapshot

Next ==
  \/ UpgradeStep \/ FamiliesStep \/ HandshakeStep \/ QueuesStep
  \/ TogetherStep \/ ApartStep \/ FolderStep \/ BackStep
  \/ SavesStep \/ RoughStep \/ BrokenStep
  \/ BarrierStep \/ DisturbedStep
  \/ MovesStep \/ EditsStep \/ GarbageStep
  \/ SnapshotStep

Spec == Init /\ [][Next]_vars

-----------------------------------------------------------------------------
(* The routes, the lease and what the session was told agree; a route is    *)
(* never taken away in silence, an upgrade makes before it breaks on answers *)
(* of its own candidate, and nothing comes back after stop (MeshRoutes).    *)
RoutesAgree ==
  /\ [](part = "families" =>
         F!RoutedPeerIsConnected /\ F!RecoveringIsAnnounced /\ F!OneRoutePerPeer)
  /\ [](part = "upgrade" =>
         /\ U!RoutedPeerIsConnected /\ U!RecoveringIsAnnounced /\ U!OneRoutePerPeer
         /\ U!PromotedRouteHasItsRoom)
  /\ [][/\ part = "upgrade" => /\ U!UpgradeIsMakeBeforeBreak /\ U!VerificationIsOfTheCandidate
                               /\ U!RouteLossIsNoticed /\ U!StopIsFinal
        /\ part = "families" => F!RouteLossIsNoticed /\ F!StopIsFinal]_vars

(* The relay handshake admits only what was proved about this very attempt, *)
(* within a bounded exchange that always has its timer (RelayHandshake).    *)
AdmittedIsProved ==
  /\ [](part = "handshake" => H!ExchangeIsBounded /\ H!NegotiationsExpire)
  /\ [][part = "handshake" => H!AdmittedIsProved]_vars

(* Frames of a connected peer are neither lost nor reordered within the     *)
(* limits of memory, and the late failure of an earlier send does them no   *)
(* harm (OutboundQueues).                                                   *)
FramesAreKept ==
  /\ [](part = "queues" => Q!NothingLostWhileConnected /\ Q!ClassesStayInOrder /\ Q!MemoryIsBounded)
  /\ [][part = "queues" => Q!LateFailureIsHarmless]_vars

(* When everything is delivered the participants hold the same: the states  *)
(* of files, their texts, binary files, the cells of a notebook.  One who   *)
(* joined has the project as the host had it (ProjectSnapshots).            *)
ContentAgrees ==
  /\ part = "together" => Together!FilesAgree
  /\ part = "apart"    => Apart!FilesAgree /\ Apart!TextsAgree
  /\ part = "saves"    => Saves!BinariesAgree
  /\ part = "moves"    => Moves!ReplicasAgree
  /\ part = "edits"    => Edits!ReplicasAgree
  /\ part = "garbage"  => Garbage!ReplicasAgree
  /\ part = "folder"   => Folder!OneUserDecides
  /\ part = "snapshot" => Joining!SnapshotInv

(* What one user alone does to the files is what everybody gets, renaming   *)
(* one back and forth as well.                                              *)
OneUserDecides == part = "back" => Back!OneUserDecides

(* A state of a file that was superseded does not come back.                *)
NoOldStateReturns == [][part = "apart" => Apart!NoOldStateReturns]_vars

(* Whatever breaks, is lost or is done at the same time, no work is lost: a *)
(* binary file is replaced as a whole (BinaryFiles), cells and their text   *)
(* survive changes of the order, a cell that is shown is not collected      *)
(* (NotebookDocument), and what one who joins has got is never half a file  *)
(* (ProjectSnapshots).                                                      *)
WorkSurvives ==
  /\ part = "saves"   => Saves!WholeFiles
  /\ part = "rough"   => Rough!WholeFiles
  /\ part = "broken"  => Broken!WholeFiles
  /\ part = "moves"   => Moves!CellsSurvive /\ Moves!TextSurvives /\ Moves!NothingHollow
  /\ part = "edits"   => Edits!CellsSurvive /\ Edits!TextSurvives /\ Edits!NothingHollow
  /\ part = "garbage" => Garbage!CellsSurvive /\ Garbage!NothingHollow
  /\ part = "snapshot" => Joining!FilesAreWhole

(* A run starts only when the executor had exactly a project the request    *)
(* was committed to, and is refused only when something changed, broke or   *)
(* was sent again meanwhile (ExecutionBarrier, with the exceptions it names: *)
(* sending loops of an earlier attempt, session.ts:5714-5732).               *)
BarrierIsExact ==
  /\ part = "barrier"   => Barrier!BarrierIsExact /\ Barrier!BarrierInv
  /\ part = "disturbed" => Disturbed!BarrierIsExact /\ Disturbed!BarrierInv
=============================================================================
