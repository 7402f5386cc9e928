----------------------------- MODULE MCServices ------------------------------
(***************************************************************************)
(* What a session runs on, on small instances: jobs on a server, the       *)
(* bridge to a kernel, the installation of a server, the public relays and *)
(* streams between participants, and the limits of runs for guests.  Every *)
(* behaviour is about one part, as in MCPeers.                             *)
(***************************************************************************)
EXTENDS Integers, Sequences, FiniteSets

CONSTANTS
  Parts,  \* the parts a run is about
  Unused  \* a variable that is not in use

VARIABLES part,
  disk, index, ledger, receipt, stopTold, agent, files, proc, starts,
  sent, client, cleaning, stop, bridge, stdin, stdout, table, timers, kern, iopub,
  shell, workers, pids, finished, hit, trouble, retired,
  dirs, server, units, running, enabled, busy,
  kept, data, mounted, listed, image, sources, exports, held, torn, issued,
  line, probe, ready, retry, outbox, signing, wire, stale, posted, announced, tried,
  carried, partial, known, merged, seen, got, heard, mute, deaf, aged, harmed, proved,
  by, native, end, hello, broken, pending, expired, current,
  phase, accepted, next, buffered, deferred, receipts, owner, events, completed, cell,
  gate, cancelled, target, handing, toHost, toGuest, used, launches, evicted,
  ops, up, calls, bound, asked, record, op, before, outcome, fails, kills, stopped, left

-----------------------------------------------------------------------------
(* Runner, supervisor, broker or agent killed while the session is stopped. *)
Killed == INSTANCE ComputeJobs WITH
  Jobs <- {"j"}, Installs <- {"i"}, Stops <- {"session"}, Chunk <- 1, MaxOut <- 1,
  MaxTimeouts <- 0, MaxCrashes <- 1, MaxKills <- 1, MaxFails <- 0, Torn <- FALSE
(* Two jobs, a stop of the session, and a write that fails.                 *)
TwoJobs == INSTANCE ComputeJobs WITH
  Jobs <- {"j", "k"}, Installs <- {"i"}, Stops <- {"session"}, Chunk <- 1, MaxOut <- 0,
  MaxTimeouts <- 0, MaxCrashes <- 0, MaxKills <- 0, MaxFails <- 1, Torn <- FALSE
(* The installation of the agent was copied; one job is stopped.            *)
Copied == INSTANCE ComputeJobs WITH
  Jobs <- {"j"}, Installs <- {"i", "h"}, Stops <- {"j"}, Chunk <- 1, MaxOut <- 0,
  MaxTimeouts <- 0, MaxCrashes <- 1, MaxKills <- 0, MaxFails <- 0, Torn <- FALSE
(* Requests time out, the broker ends, a write fails.                       *)
Impatient == INSTANCE ComputeJobs WITH
  Jobs <- {"j"}, Installs <- {"i"}, Stops <- {"session"}, Chunk <- 1, MaxOut <- 0,
  MaxTimeouts <- 1, MaxCrashes <- 1, MaxKills <- 0, MaxFails <- 1, Torn <- FALSE
(* A write that failed may have replaced the file.                          *)
TornSave == INSTANCE ComputeJobs WITH
  Jobs <- {"j"}, Installs <- {"i"}, Stops <- {"j"}, Chunk <- 1, MaxOut <- 0,
  MaxTimeouts <- 0, MaxCrashes <- 0, MaxKills <- 1, MaxFails <- 1, Torn <- TRUE

(* A failure, a restart and a confirmed stop around one execution.          *)
Stopped == INSTANCE KernelBridge WITH
  Requests <- {1}, Sequential <- FALSE, MaxPending <- 2, MaxFaults <- 1, MaxStops <- 1,
  MaxInterrupts <- 0, MaxRestarts <- 1
(* Two executions at a limit of one, and a confirmed stop.                  *)
Full == INSTANCE KernelBridge WITH
  Requests <- {1, 2}, Sequential <- FALSE, MaxPending <- 1, MaxFaults <- 0,
  MaxStops <- 1, MaxInterrupts <- 0, MaxRestarts <- 0
(* One after the other, interrupted, and a bridge that fails.               *)
Interrupted == INSTANCE KernelBridge WITH
  Requests <- {1, 2}, Sequential <- TRUE, MaxPending <- 2, MaxFaults <- 1,
  MaxStops <- 0, MaxInterrupts <- 1, MaxRestarts <- 0
(* One after the other, with a restart and a failure.                       *)
Restarted == INSTANCE KernelBridge WITH
  Requests <- {1, 2}, Sequential <- TRUE, MaxPending <- 1, MaxFaults <- 1,
  MaxStops <- 0, MaxInterrupts <- 0, MaxRestarts <- 1
(* Two failures.                                                            *)
Failing == INSTANCE KernelBridge WITH
  Requests <- {1, 2}, Sequential <- TRUE, MaxPending <- 2, MaxFaults <- 2,
  MaxStops <- 0, MaxInterrupts <- 0, MaxRestarts <- 0

(* An update of a server that the installer set up.                         *)
Updated == INSTANCE ServerRelease WITH
  Managed <- TRUE, Present <- TRUE, Versions <- {1, 2, 3}, Good <- {1, 3}, MaxOps <- 3,
  MaxFails <- 1, MaxKills <- 1
(* One of a server that it found.                                           *)
Found == INSTANCE ServerRelease WITH
  Managed <- FALSE, Present <- TRUE, Versions <- {1, 2, 3}, Good <- {1, 3}, MaxOps <- 3,
  MaxFails <- 1, MaxKills <- 1
(* The first installation.                                                  *)
First == INSTANCE ServerRelease WITH
  Managed <- TRUE, Present <- FALSE, Versions <- {1, 2, 3}, Good <- {1, 3}, MaxOps <- 3,
  MaxFails <- 1, MaxKills <- 1

(* Uninstallation, export of the sources and recovery of access.            *)
Data == INSTANCE ServerData WITH
  Calm <- TRUE, MaxWork <- 2, MaxOps <- 3, MaxFails <- 1, MaxKills <- 1

(* One MQTT broker: a frame in two pieces and one in one, and a copy.       *)
Mqtt == INSTANCE FrameRelays WITH
  Kind <- [m |-> "mqtt"], Pieces <- <<2, 1>>, MaxFaults <- 2, MaxMutes <- 0,
  MaxLate <- 0, MaxExpiries <- 0, MaxCopies <- 1, MaxMoves <- 0, MaxStops <- 0,
  MaxPartial <- 2, MaxOutbox <- 4
(* One Nostr relay.                                                         *)
Nostr == INSTANCE FrameRelays WITH
  Kind <- [n |-> "nostr"], Pieces <- <<2, 1>>, MaxFaults <- 2, MaxMutes <- 0,
  MaxLate <- 0, MaxExpiries <- 0, MaxCopies <- 0, MaxMoves <- 0, MaxStops <- 0,
  MaxPartial <- 2, MaxOutbox <- 4
(* The relay of a server.                                                   *)
Vps == INSTANCE FrameRelays WITH
  Kind <- [v |-> "vps"], Pieces <- <<1, 1>>, MaxFaults <- 2, MaxMutes <- 0,
  MaxLate <- 0, MaxExpiries <- 0, MaxCopies <- 0, MaxMoves <- 1, MaxStops <- 0,
  MaxPartial <- 2, MaxOutbox <- 4
(* Both public families, and frames that come late.                         *)
Families == INSTANCE FrameRelays WITH
  Kind <- [m |-> "mqtt", n |-> "nostr"], Pieces <- <<1>>, MaxFaults <- 1, MaxMutes <- 0,
  MaxLate <- 2, MaxExpiries <- 0, MaxCopies <- 0, MaxMoves <- 0, MaxStops <- 0,
  MaxPartial <- 2, MaxOutbox <- 4
(* Two Nostr relays.                                                        *)
Relays == INSTANCE FrameRelays WITH
  Kind <- [n |-> "nostr", o |-> "nostr"], Pieces <- <<2>>, MaxFaults <- 1,
  MaxMutes <- 0, MaxLate <- 0, MaxExpiries <- 0, MaxCopies <- 0, MaxMoves <- 0,
  MaxStops <- 0, MaxPartial <- 2, MaxOutbox <- 4
(* Two MQTT brokers.                                                        *)
Brokers == INSTANCE FrameRelays WITH
  Kind <- [m |-> "mqtt", l |-> "mqtt"], Pieces <- <<2>>, MaxFaults <- 1, MaxMutes <- 0,
  MaxLate <- 0, MaxExpiries <- 0, MaxCopies <- 0, MaxMoves <- 0, MaxStops <- 0,
  MaxPartial <- 2, MaxOutbox <- 4
(* The relay of a server beside a broker.                                   *)
Beside == INSTANCE FrameRelays WITH
  Kind <- [m |-> "mqtt", v |-> "vps"], Pieces <- <<1>>, MaxFaults <- 1, MaxMutes <- 0,
  MaxLate <- 1, MaxExpiries <- 0, MaxCopies <- 0, MaxMoves <- 0, MaxStops <- 0,
  MaxPartial <- 2, MaxOutbox <- 4
(* A broker that takes frames and delivers none; parts of a frame expire.   *)
Mute == INSTANCE FrameRelays WITH
  Kind <- [m |-> "mqtt"], Pieces <- <<2, 1>>, MaxFaults <- 1, MaxMutes <- 1,
  MaxLate <- 0, MaxExpiries <- 1, MaxCopies <- 0, MaxMoves <- 0, MaxStops <- 0,
  MaxPartial <- 1, MaxOutbox <- 4
(* A full outbox, late frames, and the end of the session.                  *)
Crowded == INSTANCE FrameRelays WITH
  Kind <- [m |-> "mqtt"], Pieces <- <<2, 1>>, MaxFaults <- 0, MaxMutes <- 0,
  MaxLate <- 2, MaxExpiries <- 1, MaxCopies <- 1, MaxMoves <- 0, MaxStops <- 1,
  MaxPartial <- 1, MaxOutbox <- 2
(* A Nostr relay that delivers nothing, late frames, the end of the session. *)
Silent == INSTANCE FrameRelays WITH
  Kind <- [n |-> "nostr"], Pieces <- <<2, 1>>, MaxFaults <- 1, MaxMutes <- 1,
  MaxLate <- 2, MaxExpiries <- 0, MaxCopies <- 0, MaxMoves <- 0, MaxStops <- 1,
  MaxPartial <- 1, MaxOutbox <- 4

(* Both dial at once; a stream breaks, a dial times out, one stops.         *)
Dials == INSTANCE IrohStreams WITH
  Low <- "a", High <- "b", Slots <- {1, 2}, MaxBreaks <- 1, MaxTimeouts <- 1,
  MaxStops <- 1
(* They lose each other and dial again.                                     *)
Redials == INSTANCE IrohStreams WITH
  Low <- "a", High <- "b", Slots <- {1, 2}, MaxBreaks <- 2, MaxTimeouts <- 2,
  MaxStops <- 0

(* Two runs at a host that admits one and keeps one result.                 *)
Limits == INSTANCE RemoteExecution WITH
  Requests <- {1, 2}, MaxActive <- 1, MaxCompleted <- 1, MaxEvents <- 0, MaxCopies <- 1,
  MaxLosses <- 0, MaxRelayFaults <- 0, MaxStops <- 0, MayMove <- FALSE

-----------------------------------------------------------------------------
computeVars == <<disk, index, ledger, receipt, stopTold, agent, files, proc, starts>>
kernelVars == <<sent, client, cleaning, stop, bridge, stdin, stdout, table, timers,
  kern, iopub, shell, workers, pids, finished, hit, trouble, retired>>
setupVars == <<dirs, server, units, running, enabled, busy>>
dataVars == <<kept, data, mounted, listed, image, sources, exports, held, torn, issued>>
relayVars == <<line, probe, ready, retry, outbox, signing, wire, stale, posted,
  announced, tried, carried, partial, known, merged, seen, got, heard, mute, deaf, aged,
  harmed, proved>>
streamVars == <<by, native, end, hello, broken, pending, expired, current>>
limitVars == <<phase, accepted, next, buffered, deferred, receipts, owner, events,
  completed, cell, gate, cancelled, target, handing, toHost, toGuest, used, launches,
  evicted>>
vars == <<part, computeVars, kernelVars, setupVars, dataVars, relayVars, streamVars,
  limitVars, ops, up, calls, bound, asked, record, op, before, outcome, fails, kills,
  stopped, left>>

ComputeParts == {"killed", "twoJobs", "copied", "impatient", "torn"}
KernelParts == {"stopped", "full", "interrupted", "restarted", "failing"}
SetupParts == {"managed", "found", "first"}
DataParts == {"data"}
RelayParts == {"mqtt", "nostr", "vps", "families", "relays", "brokers", "beside",
  "mute", "crowded", "silent"}
StreamParts == {"dials", "redials"}
LimitParts == {"limits"}

NoCompute ==
  /\ disk = Unused /\ index = Unused /\ ledger = Unused /\ receipt = Unused /\ stopTold = Unused
  /\ agent = Unused /\ files = Unused /\ proc = Unused /\ starts = Unused
NoKernel ==
  /\ sent = Unused /\ client = Unused /\ cleaning = Unused /\ stop = Unused /\ bridge = Unused
  /\ stdin = Unused /\ stdout = Unused /\ table = Unused /\ timers = Unused /\ kern = Unused
  /\ iopub = Unused /\ shell = Unused /\ workers = Unused /\ pids = Unused /\ finished = Unused
  /\ hit = Unused /\ trouble = Unused /\ retired = Unused
NoSetup ==
  /\ dirs = Unused /\ server = Unused /\ units = Unused /\ running = Unused /\ enabled = Unused
  /\ busy = Unused
NoData ==
  /\ kept = Unused /\ data = Unused /\ mounted = Unused /\ listed = Unused /\ image = Unused
  /\ sources = Unused /\ exports = Unused /\ held = Unused /\ torn = Unused /\ issued = Unused
NoRelay ==
  /\ line = Unused /\ probe = Unused /\ ready = Unused /\ retry = Unused /\ outbox = Unused
  /\ signing = Unused /\ wire = Unused /\ stale = Unused /\ posted = Unused /\ announced = Unused
  /\ tried = Unused /\ carried = Unused /\ partial = Unused /\ known = Unused /\ merged = Unused
  /\ seen = Unused /\ got = Unused /\ heard = Unused /\ mute = Unused /\ deaf = Unused
  /\ aged = Unused /\ harmed = Unused /\ proved = Unused
NoStream ==
  /\ by = Unused /\ native = Unused /\ end = Unused /\ hello = Unused /\ broken = Unused
  /\ pending = Unused /\ expired = Unused /\ current = Unused
NoLimit ==
  /\ phase = Unused /\ accepted = Unused /\ next = Unused /\ buffered = Unused /\ deferred = Unused
  /\ receipts = Unused /\ owner = Unused /\ events = Unused /\ completed = Unused /\ cell = Unused
  /\ gate = Unused /\ cancelled = Unused /\ target = Unused /\ handing = Unused /\ toHost = Unused
  /\ toGuest = Unused /\ used = Unused /\ launches = Unused /\ evicted = Unused

ComputeOnly == UNCHANGED <<part, kernelVars, setupVars, dataVars, relayVars, streamVars,
  limitVars, asked, record, op, before, outcome, fails, kills, stopped, left>>
KernelOnly == UNCHANGED <<part, computeVars, setupVars, dataVars, relayVars, streamVars,
  limitVars, ops, up, record, op, before, outcome, fails, kills, stopped, left>>
SetupOnly == UNCHANGED <<part, computeVars, kernelVars, dataVars, relayVars, streamVars,
  limitVars, up, calls, bound, asked, stopped, left>>
DataOnly == UNCHANGED <<part, computeVars, kernelVars, setupVars, relayVars, streamVars,
  limitVars, calls, bound, asked, stopped, left>>
RelayOnly == UNCHANGED <<part, computeVars, kernelVars, setupVars, dataVars, streamVars,
  limitVars, ops, up, calls, bound, record, op, before, outcome, fails, kills>>
StreamOnly == UNCHANGED <<part, computeVars, kernelVars, setupVars, dataVars, relayVars,
  limitVars, ops, up, calls, bound, asked, record, op, before, outcome, fails, kills>>
LimitOnly == UNCHANGED <<part, computeVars, kernelVars, setupVars, dataVars, relayVars,
  streamVars, ops, calls, bound, asked, record, op, before, outcome, fails, kills,
  left>>

Init ==
  /\ part \in Parts
  /\ CASE part = "killed" -> Killed!Init
       [] part = "twoJobs" -> TwoJobs!Init
       [] part = "copied" -> Copied!Init
       [] part = "impatient" -> Impatient!Init
       [] part = "torn" -> TornSave!Init
       [] OTHER -> NoCompute
  /\ CASE part = "stopped" -> Stopped!Init
       [] part = "full" -> Full!Init
       [] part = "interrupted" -> Interrupted!Init
       [] part = "restarted" -> Restarted!Init
       [] part = "failing" -> Failing!Init
       [] OTHER -> NoKernel
  /\ CASE part = "managed" -> Updated!Init
       [] part = "found" -> Found!Init
       [] part = "first" -> First!Init
       [] OTHER -> NoSetup
  /\ IF part = "data" THEN Data!Init ELSE NoData
  /\ CASE part = "mqtt" -> Mqtt!Init
       [] part = "nostr" -> Nostr!Init
       [] part = "vps" -> Vps!Init
       [] part = "families" -> Families!Init
       [] part = "relays" -> Relays!Init
       [] part = "brokers" -> Brokers!Init
       [] part = "beside" -> Beside!Init
       [] part = "mute" -> Mute!Init
       [] part = "crowded" -> Crowded!Init
       [] part = "silent" -> Silent!Init
       [] OTHER -> NoRelay
  /\ CASE part = "dials" -> Dials!Init
       [] part = "redials" -> Redials!Init
       [] OTHER -> NoStream
  /\ IF part = "limits" THEN Limits!Init ELSE NoLimit
  /\ part \notin ComputeParts \cup DataParts \cup LimitParts => up = Unused
  /\ part \notin ComputeParts \cup KernelParts => calls = Unused /\ bound = Unused
  /\ part \notin ComputeParts \cup SetupParts \cup DataParts => ops = Unused
  /\ part \notin KernelParts \cup RelayParts => asked = Unused
  /\ part \notin RelayParts \cup StreamParts => left = Unused
  /\ part \notin RelayParts \cup StreamParts \cup LimitParts => stopped = Unused
  /\ part \notin SetupParts \cup DataParts => record = Unused /\ op = Unused /\ before =
       Unused /\ outcome = Unused /\ fails = Unused /\ kills = Unused

KilledStep == part = "killed" /\ Killed!Next /\ ComputeOnly
TwoJobsStep == part = "twoJobs" /\ TwoJobs!Next /\ ComputeOnly
CopiedStep == part = "copied" /\ Copied!Next /\ ComputeOnly
ImpatientStep == part = "impatient" /\ Impatient!Next /\ ComputeOnly
TornSaveStep == part = "torn" /\ TornSave!Next /\ ComputeOnly
StoppedStep == part = "stopped" /\ Stopped!Next /\ KernelOnly
FullStep == part = "full" /\ Full!Next /\ KernelOnly
InterruptedStep == part = "interrupted" /\ Interrupted!Next /\ KernelOnly
RestartedStep == part = "restarted" /\ Restarted!Next /\ KernelOnly
FailingStep == part = "failing" /\ Failing!Next /\ KernelOnly
UpdatedStep == part = "managed" /\ Updated!Next /\ SetupOnly
FoundStep == part = "found" /\ Found!Next /\ SetupOnly
FirstStep == part = "first" /\ First!Next /\ SetupOnly
DataStep == part = "data" /\ Data!Next /\ DataOnly
MqttStep == part = "mqtt" /\ Mqtt!Next /\ RelayOnly
NostrStep == part = "nostr" /\ Nostr!Next /\ RelayOnly
VpsStep == part = "vps" /\ Vps!Next /\ RelayOnly
FamiliesStep == part = "families" /\ Families!Next /\ RelayOnly
RelaysStep == part = "relays" /\ Relays!Next /\ RelayOnly
BrokersStep == part = "brokers" /\ Brokers!Next /\ RelayOnly
BesideStep == part = "beside" /\ Beside!Next /\ RelayOnly
MuteStep == part = "mute" /\ Mute!Next /\ RelayOnly
CrowdedStep == part = "crowded" /\ Crowded!Next /\ RelayOnly
SilentStep == part = "silent" /\ Silent!Next /\ RelayOnly
DialsStep == part = "dials" /\ Dials!Next /\ StreamOnly
RedialsStep == part = "redials" /\ Redials!Next /\ StreamOnly
LimitsStep == part = "limits" /\ Limits!Next /\ LimitOnly

Next ==
  \/ KilledStep \/ TwoJobsStep \/ CopiedStep \/ ImpatientStep \/ TornSaveStep
  \/ StoppedStep \/ FullStep \/ InterruptedStep \/ RestartedStep \/ FailingStep
  \/ UpdatedStep \/ FoundStep \/ FirstStep
  \/ DataStep
  \/ MqttStep \/ NostrStep \/ VpsStep \/ FamiliesStep \/ RelaysStep \/ BrokersStep
  \/ BesideStep \/ MuteStep \/ CrowdedStep \/ SilentStep
  \/ DialsStep \/ RedialsStep
  \/ LimitsStep

Spec == Init /\ [][Next]_vars

-----------------------------------------------------------------------------
(* A run is what its client was told of it, and nothing of it goes on once  *)
(* it is over.  A job is trained once, and is over only when no process of  *)
(* it lives; what is said of its end is true; a session that was stopped    *)
(* starts none of its jobs again, and none is forgotten (ComputeJobs).      *)
(* Executions of the kernel settle with what became of them and fail for    *)
(* what concerned their own bridge only, an interrupt hits what it was      *)
(* asked for, when executions are submitted one after the other             *)
(* (PerNotebookExecutionQueue; otherwise it may hit the next one,           *)
(* jupyter_kernel_bridge.py:245), and no bridge starts before the failed    *)
(* one is cleaned up (KernelBridge).  What a run kept for its guest fits its limits           *)
(* (RemoteExecution).                                                       *)
RunsAreExact ==
  /\ part = "killed"    => Killed!JobsAreExact
  /\ part = "twoJobs"   => TwoJobs!JobsAreExact
  /\ part = "copied"    => Copied!JobsAreExact
  /\ part = "impatient" => Impatient!JobsAreExact
  /\ part = "torn"      => TornSave!JobsAreExact
  /\ part = "stopped"     => Stopped!ExecutionsAreExact
  /\ part = "full"        => Full!ExecutionsAreExact
  /\ part = "interrupted" => Interrupted!ExecutionsAreExact
  /\ part = "restarted"   => Restarted!ExecutionsAreExact
  /\ part = "failing"     => Failing!ExecutionsAreExact
  /\ part = "limits" => Limits!RememberInv


(* A path is used only after it returned a probe of its present connection, *)
(* nothing waits while there is one, what any family carries arrives, each  *)
(* frame once and in the order of its family (FrameRelays); two             *)
(* participants that both dialed keep the same stream (IrohStreams).        *)
PathsAreSound ==
  /\ part = "mqtt"     => Mqtt!FramesAreSafe
  /\ part = "nostr"    => Nostr!FramesAreSafe
  /\ part = "vps"      => Vps!FramesAreSafe
  /\ part = "families" => Families!FramesAreSafe
  /\ part = "relays"   => Relays!FramesAreSafe
  /\ part = "brokers"  => Brokers!FramesAreSafe
  /\ part = "beside"   => Beside!FramesAreSafe
  /\ part = "mute"     => Mute!FramesAreSafe
  /\ part = "crowded"  => Crowded!FramesAreSafe
  /\ part = "silent"   => Silent!FramesAreSafe
  /\ part = "dials"   => Dials!SameConnection
  /\ part = "redials" => Redials!SameConnection
=============================================================================
