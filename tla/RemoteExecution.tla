---------------------------- MODULE RemoteExecution ----------------------------
(***************************************************************************)
(* Notebook cells a guest runs on the Session Host: the request that is    *)
(* repeated until it is accepted, the owner the host reserves for it while *)
(* the cell text converges, the launch, the numbered events, the result    *)
(* that is repeated until it is acknowledged, and what interferes: lost    *)
(* routes, relays that lose or reorder frames, confirmed stops, changes of *)
(* the compute target and of the host.                                     *)
(* One guest and the host.  Frames of one request keep their order in      *)
(* each direction; nothing relates frames of different requests, so each   *)
(* request has channels of its own.                                        *)
(***************************************************************************)
EXTENDS Integers, Sequences, FiniteSets

CONSTANTS
  Requests,        \* request IDs: one per executeCell call
  MaxActive,       \* MAX_REMOTE_EXECUTIONS_PER_PEER
  MaxCompleted,    \* MAX_COMPLETED_REMOTE_EXECUTIONS and the retained bytes
  MaxEvents,       \* MAX_REPLAYED_EXECUTION_EVENTS and the replayed bytes
  MaxCopies,       \* bound: frames a request has in flight before it is repeated
  MaxLosses,       \* bound: route losses
  MaxRelayFaults,  \* bound: frames a relay reorders or loses
  MaxStops,        \* bound: confirmed stops
  MayMove          \* whether the compute target or the host may change

ASSUME LimitsAssumption ==
  /\ {MaxActive, MaxCompleted} \subseteq Nat \ {0}
  /\ {MaxEvents, MaxCopies, MaxLosses, MaxRelayFaults, MaxStops} \subseteq Nat
  /\ MayMove \in BOOLEAN

VARIABLES
  (* the guest *)
  phase,      \* the executeCell call, and how its promise settled
  accepted,   \* pending.accepted
  next,       \* pending.nextEventSequence: events rendered so far
  buffered,   \* pending.bufferedEvents
  deferred,   \* pending.expectedEventCount with a deferred result, or NoResult
  receipts,   \* completedExecutionReceipts
  (* the host *)
  owner,      \* executionOwners: none, or how far the run has come
  events,     \* events kept for replay by the owner or the retained result
  completed,  \* completedRemoteExecutions
  cell,       \* the canonical cell text against the requested revision
  gate,       \* stoppedNotebookGates holds the notebook
  cancelled,  \* cancelledExecutionIds
  target,     \* the compute target and the host role the requests name
  handing,    \* a transferHost call is between its check and its commit
  (* between them *)
  toHost, toGuest, up, used,
  (* history; no action reads it *)
  launches,   \* how often the cell of a request was launched
  evicted,    \* requests whose retained result was evicted for space
  stopped     \* requests a confirmed stop has named

guestVars == <<phase, accepted, next, buffered, deferred, receipts>>
runVars == <<owner, events, completed, launches, evicted>>
hostVars == <<cell, gate, cancelled, target, handing, stopped>>
vars == <<guestVars, runVars, hostVars, toHost, toGuest, up, used>>

-----------------------------------------------------------------------------
NoResult == -1

Requested == [type |-> "request", n |-> 0]
Acked == [type |-> "ack", n |-> 0]
Accepted == [type |-> "accepted", n |-> 0]
Refusal == [type |-> "refusal", n |-> 0]
Moved == [type |-> "moved", n |-> 0]
Event(n) == [type |-> "event", n |-> n]
Result(n) == [type |-> "result", n |-> n]

\* The events kept for a request, in sequence, and what a delivery sends.
Events(r) == [i \in 1..events[r] |-> Event(i - 1)]
DeliverActive(r) == <<Accepted>> \o Events(r)
DeliverCompleted(r) == Events(r) \o <<Result(events[r])>>

Elems(s) == {s[i] : i \in 1..Len(s)}

Retained(r) == r \in completed
Running(r) == owner[r] \in {"preparing", "running"}
Owners == {r \in Requests : owner[r] # "none"}

\* pendingExecutions holds the request.
Open(r) == phase[r] \in {"sync", "pending"}

\* sendTo throws without a route.
Send(ch, r, frames) == [ch EXCEPT ![r] = IF up THEN @ \o frames ELSE @]
Drop(ch, r) == [ch EXCEPT ![r] = Tail(@)]
Spend(what) == used' = [used EXCEPT ![what] = @ + 1]

Init ==
  /\ phase = [r \in Requests |-> "idle"]
  /\ accepted = [r \in Requests |-> FALSE]
  /\ next = [r \in Requests |-> 0]
  /\ buffered = [r \in Requests |-> {}]
  /\ deferred = [r \in Requests |-> NoResult]
  /\ receipts = {}
  /\ owner = [r \in Requests |-> "none"]
  /\ events = [r \in Requests |-> 0]
  /\ completed = {}
  /\ cell \in [Requests -> {"behind", "match", "ahead"}]
  /\ gate = FALSE
  /\ cancelled = {}
  /\ target = "here"
  /\ handing = FALSE
  /\ toHost = [r \in Requests |-> <<>>]
  /\ toGuest = [r \in Requests |-> <<>>]
  /\ up = TRUE
  /\ used = [losses |-> 0, faults |-> 0, stops |-> 0]
  /\ launches = [r \in Requests |-> 0]
  /\ evicted = {}
  /\ stopped = {}

-----------------------------------------------------------------------------
(* The guest: executeCell and dispatchRemoteExecutionRequest.              *)

\* The promise settles and the pending entry is gone; what was rendered stays.
Settle(r, outcome) ==
  /\ phase' = [phase EXCEPT ![r] = outcome]
  /\ accepted' = [accepted EXCEPT ![r] = FALSE]
  /\ buffered' = [buffered EXCEPT ![r] = {}]
  /\ deferred' = [deferred EXCEPT ![r] = NoResult]

Submit(r) ==
  /\ phase[r] = "idle"
  /\ phase' = [phase EXCEPT ![r] = "sync"]
  /\ UNCHANGED <<accepted, next, buffered, deferred, receipts, runVars, hostVars,
                 toHost, toGuest, up, used>>

\* synchronizeExecutionFiles returns; the acceptance timer starts now.
Synchronized(r) ==
  /\ phase[r] = "sync"
  /\ phase' = [phase EXCEPT ![r] = "pending"]
  /\ UNCHANGED <<accepted, next, buffered, deferred, receipts, runVars, hostVars,
                 toHost, toGuest, up, used>>

\* The file barrier fails, or nothing accepts the request in 45 seconds.
NotAccepted(r) ==
  /\ Open(r) /\ ~accepted[r]
  /\ Settle(r, "failed")
  /\ UNCHANGED <<next, receipts, runVars, hostVars, toHost, toGuest, up, used>>

\* Requests, and the answers to them, that are still on their way.
InFlight(r) ==
  Cardinality({i \in 1..Len(toHost[r]) : toHost[r][i] = Requested})
  + Cardinality({i \in 1..Len(toGuest[r]) : toGuest[r][i] \in {Accepted, Refusal}})

\* Every 1.5 seconds until the request is accepted or settled.
SendRequest(r) ==
  /\ phase[r] = "pending" /\ ~accepted[r] /\ up
  /\ InFlight(r) < MaxCopies
  /\ toHost' = Send(toHost, r, <<Requested>>)
  /\ UNCHANGED <<guestVars, runVars, hostVars, toGuest, up, used>>

\* The host is logically disconnected: cancelExecutorRequests.
PeerDisconnected ==
  /\ ~up
  /\ \E r \in Requests : Open(r) /\ ~accepted[r]
  /\ phase' = [r \in Requests |-> IF Open(r) /\ ~accepted[r] THEN "failed" ELSE phase[r]]
  /\ buffered' = [r \in Requests |-> IF Open(r) /\ ~accepted[r] THEN {} ELSE buffered[r]]
  /\ deferred' = [r \in Requests |-> IF Open(r) /\ ~accepted[r] THEN NoResult ELSE deferred[r]]
  /\ UNCHANGED <<accepted, next, receipts, runVars, hostVars, toHost, toGuest, up, used>>

\* The receipt outlives the result it stands for by the same five minutes.
ReceiptExpires(r) ==
  /\ r \in receipts /\ ~Retained(r)
  /\ receipts' = receipts \ {r}
  /\ UNCHANGED <<phase, accepted, next, buffered, deferred, runVars, hostVars,
                 toHost, toGuest, up, used>>

-----------------------------------------------------------------------------
(* The guest: frames from the host.                                        *)

OnAccepted(r) ==
  /\ Head(toGuest[r]) = Accepted
  /\ accepted' = [accepted EXCEPT ![r] = @ \/ Open(r)]
  /\ toGuest' = Drop(toGuest, r)
  /\ UNCHANGED <<phase, next, buffered, deferred, receipts, runVars, hostVars, toHost, up, used>>

\* resolvePendingRemoteExecution
Resolve(r, outcome) ==
  /\ Settle(r, outcome)
  /\ receipts' = receipts \cup {r}
  /\ toHost' = Send(toHost, r, <<Acked>>)

\* The event in turn is rendered, and with it the buffered ones up to the next
\* gap at k; a result that waited for the last of them resolves the cell.
Renders(r, n) ==
  /\ n = next[r]
  /\ \E k \in (n + 1)..MaxEvents :
       /\ k \notin buffered[r] /\ (n + 1)..(k - 1) \subseteq buffered[r]
       /\ next' = [next EXCEPT ![r] = k]
       /\ \/ deferred[r] = k /\ Resolve(r, "ran")
          \/ /\ deferred[r] # k
             /\ accepted' = [accepted EXCEPT ![r] = TRUE]
             /\ buffered' = [buffered EXCEPT ![r] = @ \ ((n + 1)..k)]
             /\ UNCHANGED <<phase, deferred, receipts, toHost>>

Buffers(r, n) ==
  /\ n > next[r]
  /\ accepted' = [accepted EXCEPT ![r] = TRUE]
  /\ buffered' = [buffered EXCEPT ![r] = @ \cup {n}]
  /\ UNCHANGED <<phase, next, deferred, receipts, toHost>>

OnEvent(r) ==
  LET n == Head(toGuest[r]).n IN
  /\ Head(toGuest[r]).type = "event"
  /\ \/ Open(r) /\ (Renders(r, n) \/ Buffers(r, n))
     \/ /\ Open(r) /\ n < next[r]
        /\ accepted' = [accepted EXCEPT ![r] = TRUE]
        /\ UNCHANGED <<phase, next, buffered, deferred, receipts, toHost>>
     \/ ~Open(r) /\ UNCHANGED <<guestVars, toHost>>
  /\ toGuest' = Drop(toGuest, r)
  /\ UNCHANGED <<runVars, hostVars, up, used>>

\* Mutant: the result resolves the cell whatever was rendered.
ResultAtOnce(r, n, outcome) == Resolve(r, outcome)

\* Mutant: the result is acknowledged when it arrives, events missing or not.
ResultAcknowledged(r, n, outcome) ==
  \/ /\ n > next[r]
     /\ deferred' = [deferred EXCEPT ![r] = n]
     /\ receipts' = receipts \cup {r}
     /\ toHost' = Send(toHost, r, <<Acked>>)
     /\ UNCHANGED <<phase, accepted, buffered>>
  \/ n < next[r] /\ Settle(r, "failed") /\ UNCHANGED <<receipts, toHost>>
  \/ n = next[r] /\ Resolve(r, outcome)

\* executeResult for a pending request: wait for missing events, refuse a count
\* that is too small, or resolve.
ResultFor(r, n, outcome) ==
  \/ /\ n > next[r]
     /\ deferred' = [deferred EXCEPT ![r] = n]
     /\ UNCHANGED <<phase, accepted, buffered, receipts, toHost>>
  \/ n < next[r] /\ Settle(r, "failed") /\ UNCHANGED <<receipts, toHost>>
  \/ n = next[r] /\ Resolve(r, outcome)

OnResult(r) ==
  LET m == Head(toGuest[r]) IN
  /\ m.type \in {"result", "refusal"}
  /\ IF Open(r)
     THEN ResultFor(r, m.n, IF m.type = "result" THEN "ran" ELSE "refused")
     ELSE /\ toHost' = IF r \in receipts THEN Send(toHost, r, <<Acked>>) ELSE toHost
          /\ UNCHANGED <<phase, accepted, buffered, deferred, receipts>>
  /\ toGuest' = Drop(toGuest, r)
  /\ UNCHANGED <<next, runVars, hostVars, up, used>>

\* computeChanged, computeState or the new host's clock: applyComputeTarget and
\* onHostChanged cancel what is pending, accepted or not.
OnMoved(r) ==
  /\ Head(toGuest[r]) = Moved
  /\ IF Open(r) THEN Settle(r, "failed") ELSE UNCHANGED <<phase, accepted, buffered, deferred>>
  /\ toGuest' = Drop(toGuest, r)
  /\ UNCHANGED <<next, receipts, runVars, hostVars, toHost, up, used>>

GuestReceives(r) ==
  toGuest[r] # <<>> /\ (OnAccepted(r) \/ OnEvent(r) \/ OnResult(r) \/ OnMoved(r))

-----------------------------------------------------------------------------
(* The host: handleExecutionRequest up to the launch.                      *)

Here == target = "here"

SetOwner(r, state) == owner' = [owner EXCEPT ![r] = state]
Answer(r, frames) == toGuest' = Send(toGuest, r, frames)

\* A refusal is sent once and not remembered.
Refuse(r) == Answer(r, <<Refusal>>)

\* The reservation is taken and the cell text matches: the owner is accepted.
Admit(r) == SetOwner(r, "preparing") /\ events' = [events EXCEPT ![r] = 0] /\ Answer(r, <<Accepted>>)

\* Mutant: a duplicate of a request under way is admitted again.
ReplaysAgain(r) ==
  \/ Retained(r) /\ Answer(r, <<Accepted>> \o DeliverCompleted(r)) /\ UNCHANGED <<owner, events>>
  \/ ~Retained(r) /\ owner[r] # "none" /\ Admit(r)

\* A duplicate: the retained result or the run under way answers it.
Replays(r) ==
  /\ UNCHANGED <<owner, events>>
  /\ \/ Retained(r) /\ Answer(r, <<Accepted>> \o DeliverCompleted(r))
     \/ ~Retained(r) /\ Running(r) /\ Answer(r, DeliverActive(r))
     \/ ~Retained(r) /\ owner[r] = "waiting" /\ UNCHANGED toGuest

Full == Cardinality(Owners) >= MaxActive

\* A new request: a stop, another target, a full executor or a newer cell refuses
\* it; else it is reserved.  Permissions, malformed requests and environments
\* that cannot be used refuse every copy alike and are left out.
Decides(r) ==
  \/ /\ gate \/ ~Here \/ Full \/ cell[r] = "ahead"
     /\ Refuse(r) /\ UNCHANGED <<owner, events>>
  \/ /\ ~gate /\ Here /\ ~Full
     /\ \/ cell[r] = "match" /\ Admit(r)
        \/ cell[r] = "behind" /\ SetOwner(r, "waiting") /\ UNCHANGED <<events, toGuest>>

OnRequest(r) ==
  /\ toHost[r] # <<>> /\ Head(toHost[r]) = Requested
  /\ IF Retained(r) \/ owner[r] # "none" THEN Replays(r) ELSE Decides(r)
  /\ toHost' = Drop(toHost, r)
  /\ UNCHANGED <<guestVars, completed, launches, evicted, hostVars, up, used>>

\* The wait for the cell ends without a match: the reservation is given up.
GiveUp(r) == SetOwner(r, "none") /\ Refuse(r)

\* The text arrives the request was made against.  A waiting owner is woken in
\* the same turn and looks at the target again.
CellConverges(r) ==
  /\ cell[r] = "behind"
  /\ cell' = [cell EXCEPT ![r] = "match"]
  /\ \/ /\ owner[r] = "waiting" /\ r \notin cancelled
        /\ \/ Here /\ Admit(r)
           \/ ~Here /\ GiveUp(r) /\ UNCHANGED events
     \/ ~(owner[r] = "waiting" /\ r \notin cancelled) /\ UNCHANGED <<owner, events, toGuest>>
  /\ UNCHANGED <<guestVars, completed, launches, evicted, gate, cancelled, target, handing,
                 stopped, toHost, up, used>>

\* Somebody edits the cell.
CellAdvances(r) ==
  /\ cell[r] # "ahead"
  /\ cell' = [cell EXCEPT ![r] = "ahead"]
  /\ \/ owner[r] = "waiting" /\ r \notin cancelled /\ GiveUp(r)
     \/ ~(owner[r] = "waiting" /\ r \notin cancelled) /\ UNCHANGED <<owner, toGuest>>
  /\ UNCHANGED <<guestVars, events, completed, launches, evicted, gate, cancelled, target, handing,
                 stopped, toHost, up, used>>

\* Mutant: the reservation outlives the wait.
WaitTimeoutLeaks(r) ==
  /\ owner[r] = "waiting" /\ r \notin cancelled
  /\ owner' = [owner EXCEPT ![r] = "leaked"] /\ Refuse(r)
  /\ UNCHANGED <<guestVars, events, completed, launches, evicted, hostVars, toHost, up, used>>

\* targetCellConvergenceTimeoutMs
WaitTimeout(r) ==
  /\ owner[r] = "waiting" /\ r \notin cancelled
  /\ GiveUp(r)
  /\ UNCHANGED <<guestVars, events, completed, launches, evicted, hostVars, toHost, up, used>>

-----------------------------------------------------------------------------
(* The host: the run and its result.                                       *)

\* Mutant: the result is delivered, not retained.
RemembersNothing(r, n) ==
  /\ events' = [events EXCEPT ![r] = n]
  /\ UNCHANGED <<completed, evicted>>
  /\ toGuest' = Send(toGuest, r, [i \in 1..n |-> Event(i - 1)] \o <<Result(n)>>)

\* What has to go for one more record: nothing while there is space.  The code
\* takes the oldest first, and more than one when bytes are short.
Evictable(others) ==
  IF Cardinality(others) < MaxCompleted THEN {{}}
  ELSE {gone \in SUBSET others : Cardinality(others \ gone) < MaxCompleted}

\* rememberCompletedRemoteExecution: evict, retain and deliver.
Remember(r, n) ==
  /\ \E gone \in Evictable(completed \ {r}) :
       completed' = (completed \ gone) \cup {r} /\ evicted' = evicted \cup gone
  /\ events' = [events EXCEPT ![r] = n]
  /\ toGuest' = Send(toGuest, r, [i \in 1..n |-> Event(i - 1)] \o <<Result(n)>>)

\* Mutant: a stopped wait is refused like any other and forgotten.
WaitingCancelledForgets(r) ==
  /\ owner[r] = "waiting" /\ r \in cancelled
  /\ GiveUp(r)
  /\ cancelled' = cancelled \ {r}
  /\ UNCHANGED <<guestVars, events, completed, launches, evicted, cell, gate, target, handing,
                 stopped, toHost, up, used>>

\* executionStop reached the wait: the cancellation is the result of the run.
WaitingCancelled(r) ==
  /\ owner[r] = "waiting" /\ r \in cancelled
  /\ SetOwner(r, "none")
  /\ cancelled' = cancelled \ {r}
  /\ Remember(r, 0)
  /\ UNCHANGED <<guestVars, launches, cell, gate, target, handing, stopped, toHost, up, used>>

\* Working copy, storage and repository files are in place and assertAuthority
\* has passed for the last time: kernel.execute.
Launch(r) ==
  /\ owner[r] = "preparing" /\ r \notin cancelled /\ ~gate /\ Here
  /\ SetOwner(r, "running")
  /\ launches' = [launches EXCEPT ![r] = @ + 1]
  /\ UNCHANGED <<guestVars, events, completed, evicted, hostVars, toHost, toGuest, up, used>>

\* The kernel has an event for the request; with the replay queue full it is
\* dropped and the output stays truncated.
Emit(r) ==
  /\ owner[r] = "running" /\ events[r] < MaxEvents
  /\ events' = [events EXCEPT ![r] = @ + 1]
  /\ Answer(r, <<Event(events[r])>>)
  /\ UNCHANGED <<guestVars, owner, completed, launches, evicted, hostVars, toHost, up, used>>

\* The kernel replies or dies, or the preparation fails: authority lost, a stop,
\* a flush or the start of the kernel.
RunEnds(r) ==
  /\ Running(r)
  /\ SetOwner(r, "none")
  /\ cancelled' = cancelled \ {r}
  /\ Remember(r, events[r])
  /\ UNCHANGED <<guestVars, launches, cell, gate, target, handing, stopped, toHost, up, used>>

\* Mutant: the retry timer is armed only when the delivery throws.
RetriesOnFailure(r) == Retained(r) /\ ~up /\ UNCHANGED vars

\* The retry timer of a retained result; it changes nothing that a delivery or an
\* acknowledgement on its way does not, so it is let run when they have arrived.
Redeliver(r) ==
  /\ Retained(r) /\ up
  /\ Acked \notin Elems(toHost[r])
  /\ Result(events[r]) \notin Elems(toGuest[r])
  /\ Answer(r, DeliverCompleted(r))
  /\ UNCHANGED <<guestVars, runVars, hostVars, toHost, up, used>>

Forget(r) == completed' = completed \ {r}

OnAck(r) ==
  /\ toHost[r] # <<>> /\ Head(toHost[r]) = Acked
  /\ Forget(r)
  /\ toHost' = Drop(toHost, r)
  /\ UNCHANGED <<guestVars, owner, events, launches, evicted, hostVars, toGuest, up, used>>

\* Five minutes: longer than an unreachable guest stays in the session, than a
\* reachable one takes to acknowledge, and than a frame travels.
CompletedExpires(r) ==
  /\ Retained(r) /\ ~Open(r) /\ toHost[r] = <<>>
  /\ Forget(r)
  /\ UNCHANGED <<guestVars, owner, events, launches, evicted, hostVars, toHost, toGuest, up, used>>

-----------------------------------------------------------------------------
(* Stops, changes of the target and of the host, routes.                   *)

\* applyIssuedExecutionStop: the gate closes and every run under way is named.
StopConfirmed ==
  /\ ~gate /\ used.stops < MaxStops
  /\ gate' = TRUE
  /\ cancelled' = cancelled \cup Owners
  /\ stopped' = stopped \cup Owners
  /\ Spend("stops")
  /\ UNCHANGED <<guestVars, runVars, cell, target, handing, toHost, toGuest, up>>

\* The named runs are gone, or five seconds are over; stop-session never ends.
StopEnds ==
  /\ gate
  /\ gate' = FALSE
  /\ UNCHANGED <<guestVars, runVars, cell, cancelled, target, handing, stopped,
                 toHost, toGuest, up, used>>

\* computeChanged, or the announcement of the new host, to the guest.
Announce(new) ==
  /\ target' = new
  /\ toGuest' = [r \in Requests |-> IF up THEN Append(toGuest[r], Moved) ELSE toGuest[r]]

\* changeCompute looks for managed work and applies in one turn.
ComputeChanges ==
  /\ MayMove /\ Here /\ Owners = {}
  /\ Announce("changed")
  /\ UNCHANGED <<guestVars, runVars, cell, gate, cancelled, handing, stopped, toHost, up, used>>

\* transferHost looks for managed work before its first await only.
HandoverBegins ==
  /\ MayMove /\ target # "handed" /\ ~handing /\ Owners = {}
  /\ handing' = TRUE
  /\ UNCHANGED <<guestVars, runVars, cell, gate, cancelled, target, stopped,
                 toHost, toGuest, up, used>>

HandoverFails ==
  /\ handing
  /\ handing' = FALSE
  /\ UNCHANGED <<guestVars, runVars, cell, gate, cancelled, target, stopped,
                 toHost, toGuest, up, used>>

\* onHostChanged on the old host stops every kernel: what runs can only end.
HandoverCommits ==
  /\ handing
  /\ handing' = FALSE
  /\ Announce("handed")
  /\ UNCHANGED <<guestVars, runVars, cell, gate, cancelled, stopped, toHost, up, used>>

LinkDown ==
  /\ up /\ used.losses < MaxLosses
  /\ up' = FALSE
  /\ toHost' = [r \in Requests |-> <<>>]
  /\ toGuest' = [r \in Requests |-> <<>>]
  /\ Spend("losses")
  /\ UNCHANGED <<guestVars, runVars, hostVars>>

\* peerConnected on the host: the compute state, then the replay.
LinkUp ==
  /\ ~up
  /\ up' = TRUE
  /\ toGuest' = [r \in Requests |->
       (IF target = "changed" THEN <<Moved>> ELSE <<>>)
       \o (IF Retained(r) THEN DeliverCompleted(r)
           ELSE IF Running(r) THEN DeliverActive(r) ELSE <<>>)]
  /\ UNCHANGED <<guestVars, runVars, hostVars, toHost, used>>

\* A relay delivers the frame at i before those ahead of it, or loses the first.
Overtaken(s, i) ==
  [j \in 1..Len(s) |-> IF j = 1 THEN s[i] ELSE IF j <= i THEN s[j - 1] ELSE s[j]]

RelayReorders(r) ==
  /\ used.faults < MaxRelayFaults
  /\ \/ /\ \E i \in 2..Len(toHost[r]) : toHost' = [toHost EXCEPT ![r] = Overtaken(@, i)]
        /\ UNCHANGED toGuest
     \/ /\ \E i \in 2..Len(toGuest[r]) : toGuest' = [toGuest EXCEPT ![r] = Overtaken(@, i)]
        /\ UNCHANGED toHost
  /\ Spend("faults")
  /\ UNCHANGED <<guestVars, runVars, hostVars, up>>

RelayLoses(r) ==
  /\ used.faults < MaxRelayFaults
  /\ \/ toHost[r] # <<>> /\ toHost' = Drop(toHost, r) /\ UNCHANGED toGuest
     \/ toGuest[r] # <<>> /\ toGuest' = Drop(toGuest, r) /\ UNCHANGED toHost
  /\ Spend("faults")
  /\ UNCHANGED <<guestVars, runVars, hostVars, up>>

GuestNext(r) ==
  \/ Submit(r) \/ Synchronized(r) \/ NotAccepted(r) \/ SendRequest(r)
  \/ ReceiptExpires(r) \/ GuestReceives(r)

RequestNext(r) ==
  \/ OnRequest(r) \/ OnAck(r)
  \/ CellConverges(r) \/ CellAdvances(r) \/ WaitTimeout(r) \/ WaitingCancelled(r)

RunNext(r) ==
  \/ Launch(r) \/ Emit(r) \/ RunEnds(r)
  \/ Redeliver(r) \/ CompletedExpires(r)

SessionNext ==
  \/ StopConfirmed \/ StopEnds
  \/ ComputeChanges \/ HandoverBegins \/ HandoverFails \/ HandoverCommits
  \/ PeerDisconnected \/ LinkDown \/ LinkUp
  \/ \E r \in Requests : RelayReorders(r) \/ RelayLoses(r)

Next ==
  \/ \E r \in Requests : GuestNext(r) \/ RequestNext(r) \/ RunNext(r)
  \/ SessionNext

Spec == Init /\ [][Next]_vars

\* Timers fire, frames are delivered, awaits resume, a lost route comes back, and
\* a kernel that was started replies or dies in the end.
Fairness ==
  /\ WF_vars(LinkUp)
  /\ \A r \in Requests :
       /\ WF_vars(Synchronized(r)) /\ WF_vars(SendRequest(r)) /\ WF_vars(NotAccepted(r))
       /\ WF_vars(GuestReceives(r)) /\ WF_vars(OnRequest(r)) /\ WF_vars(OnAck(r))
       /\ WF_vars(WaitTimeout(r)) /\ WF_vars(WaitingCancelled(r))
       /\ WF_vars(RunEnds(r)) /\ WF_vars(Redeliver(r))

FairSpec == Spec /\ Fairness

-----------------------------------------------------------------------------
Phases == {"idle", "sync", "pending", "ran", "refused", "failed"}
Numbers == 0..(MaxEvents - 1)
HostBound == {Requested, Acked}
GuestBound ==
  {Accepted, Refusal, Moved} \cup {Event(n) : n \in Numbers} \cup {Result(n) : n \in 0..MaxEvents}

GuestTypes ==
  /\ phase \in [Requests -> Phases]
  /\ accepted \in [Requests -> BOOLEAN]
  /\ next \in [Requests -> 0..MaxEvents]
  /\ buffered \in [Requests -> SUBSET Numbers]
  /\ deferred \in [Requests -> {NoResult} \cup 0..MaxEvents]
  /\ receipts \subseteq Requests
RunTypes ==
  /\ owner \in [Requests -> {"none", "waiting", "preparing", "running"}]
  /\ events \in [Requests -> 0..MaxEvents]
  /\ completed \subseteq Requests
  /\ launches \in [Requests -> Nat]
  /\ evicted \subseteq Requests
HostTypes ==
  /\ cell \in [Requests -> {"behind", "match", "ahead"}]
  /\ gate \in BOOLEAN
  /\ cancelled \subseteq Requests
  /\ target \in {"here", "changed", "handed"}
  /\ handing \in BOOLEAN
  /\ stopped \subseteq Requests
ChannelTypes ==
  /\ toHost \in [Requests -> Seq(HostBound)]
  /\ toGuest \in [Requests -> Seq(GuestBound)]
  /\ up \in BOOLEAN
  /\ used \in [{"losses", "faults", "stops"} -> Nat]

\* Every variable of the guest, the host and the channels holds a value of its
\* kind; the sequence numbers stay within the replay queue.
TypeOK == GuestTypes /\ RunTypes /\ HostTypes /\ ChannelTypes

\* What a launched cell produced is kept for as long as the guest waits for it:
\* by the run, by the retained result, or it was evicted for space
\* (peerDisconnected: "must never erase exactly-once replay").
ResultKept ==
  \A r \in Requests :
    Open(r) /\ launches[r] > 0 => owner[r] = "running" \/ Retained(r) \/ r \in evicted

\* A guest that was told of the acceptance waits for a run the host still has.
AcceptedIsOwned ==
  \A r \in Requests :
    Open(r) /\ accepted[r] => Running(r) \/ Retained(r) \/ r \in evicted

\* The host may have lost its only memory of a request while a copy of it is on
\* its way: the result was evicted for space, or a relay held the copy back past
\* the acknowledgement of the result, or lost a frame.
Forgettable(r) == r \in evicted \/ used.faults > 0

\* One request launches its cell once (docs/protocol.md, Notebook execution), as
\* long as the host was not made to forget it.
LaunchedOnce == \A r \in Requests : launches[r] > 1 => Forgettable(r)

\* A cell resolves with its result when every event kept for it was rendered.
\* A copy that runs again after an eviction keeps events of its own.
ResolvesComplete ==
  [][\A r \in Requests :
       phase[r] # "ran" /\ phase'[r] = "ran" => next'[r] = events[r] \/ r \in evicted]_vars

\* A run that a confirmed stop named before its launch is never launched, by no
\* duplicate of its request either, unless the host was made to forget it.
StoppedStaysStopped ==
  [][\A r \in Requests :
       r \in stopped /\ launches[r] = 0 /\ launches'[r] > 0 => Forgettable(r)]_vars

\* Every cell a guest runs settles.
EveryCellSettles == \A r \in Requests : Open(r) ~> ~Open(r)

\* Every reservation at the host is given back.
OwnersAreReleased == \A r \in Requests : owner[r] # "none" ~> owner[r] = "none"

\* A guest that was told its cell did not run is told the truth.
RefusedIsNotRun ==
  [][\A r \in Requests : launches'[r] > launches[r] => phase[r] # "refused"]_vars

-----------------------------------------------------------------------------
(* Why ResultKept and AcceptedIsOwned hold, as an inductive invariant.      *)

\* Before a request is sent there is no trace of it.
NothingYet(r) ==
  phase[r] \in {"idle", "sync"} =>
    /\ ~accepted[r] /\ launches[r] = 0 /\ owner[r] = "none" /\ ~Retained(r)
    /\ toHost[r] = <<>> /\ Elems(toGuest[r]) \subseteq {Moved}

\* Only a settled request has a receipt or an acknowledgement on its way.
AckMeansSettled(r) ==
  Acked \in Elems(toHost[r]) \/ r \in receipts => phase[r] \in {"ran", "refused", "failed"}

\* The host has the run an acceptance or an event told of.
AcceptanceBacked(r) ==
  /\ Open(r)
  /\ accepted[r] \/ \E m \in Elems(toGuest[r]) : m.type \in {"accepted", "event"}
  => Running(r) \/ Retained(r) \/ r \in evicted

LaunchBacked(r) ==
  Open(r) /\ launches[r] > 0 => owner[r] = "running" \/ Retained(r) \/ r \in evicted

KeptFor(r) == NothingYet(r) /\ AckMeansSettled(r) /\ AcceptanceBacked(r) /\ LaunchBacked(r)
KeptInv == \A r \in Requests : KeptFor(r)

(* Why LaunchedOnce and StoppedStaysStopped hold.                           *)

\* Only acknowledgements follow an acknowledgement to the host.
AcksLast(s) == \A i, j \in 1..Len(s) : i < j /\ s[i] = Acked => s[j] = Acked

\* What waits for its launch was neither launched nor, unless the stop is about
\* to end it, named by a confirmed stop.
FreshOwner(r) ==
  owner[r] \in {"waiting", "preparing"} =>
    launches[r] = 0 /\ (r \in stopped => r \in cancelled)

\* The host knows a request that ran or was stopped, or no copy of it will come.
Remembered(r) ==
  launches[r] > 0 \/ r \in stopped =>
    \/ owner[r] # "none" \/ Retained(r)
    \/ phase[r] \in {"ran", "refused", "failed"} /\ Requested \notin Elems(toHost[r])

OnceFor(r) ==
  ~Forgettable(r) => AcksLast(toHost[r]) /\ FreshOwner(r) /\ Remembered(r) /\ launches[r] <= 1
OnceInv == \A r \in Requests : OnceFor(r)

(* Why ResolvesComplete holds.                                              *)

\* A retained result has no run beside it.
OverIsOver(r) == Retained(r) => owner[r] = "none"

\* A result a waiting guest has, or that is on its way to it, is the retained one.
ResultIsRetained(r) ==
  Open(r) /\ r \notin evicted =>
    /\ deferred[r] # NoResult => Retained(r) /\ deferred[r] = events[r]
    /\ \A m \in Elems(toGuest[r]) : m.type = "result" => Retained(r) /\ m.n = events[r]

\* Only an open call waits for the events of its result.
DeferredIsOpen(r) == deferred[r] # NoResult => Open(r)

CompleteFor(r) == OverIsOver(r) /\ ResultIsRetained(r) /\ DeferredIsOpen(r)
CompleteInv == \A r \in Requests : CompleteFor(r)

\* What the host remembers of every request is enough for its guest.
RememberInv == KeptInv /\ OnceInv /\ CompleteInv
=============================================================================
