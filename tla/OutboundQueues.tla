---------------------------- MODULE OutboundQueues ----------------------------
(***************************************************************************)
(* The send side of the mesh (src/runtime/mesh.ts, enqueue and drain): one *)
(* queue object per connected transport, realtime frames before bulk ones, *)
(* one frame in flight, a limit per queue and one over all of them, and    *)
(* queues that were retired while their last send had not settled.         *)
(* Frames all have size one.                                               *)
(***************************************************************************)
EXTENDS Naturals, Sequences, FiniteSets, FiniteSetsExt

CONSTANTS
  Transports,
  MaxQueued,   \* MAX_OUTBOUND_QUEUE, MAX_OUTBOUND_FRAMES
  MaxTotal,    \* MAX_TOTAL_OUTBOUND_QUEUE, MAX_TOTAL_OUTBOUND_FRAMES
  MaxFrames,   \* bound: frames enqueued
  MaxJoins     \* bound: connections made

VARIABLES
  queue,      \* outboundQueues, by transport; id = 0 is no queue
  retired,    \* retiredOutboundQueues: retired with a send still in flight
  connected,  \* connections, by transport: the number of the connection or 0
  joins,      \* connections made so far
  queues,     \* queue objects made so far: their identity
  frames,     \* frames enqueued so far: their number
  given,      \* the frames accepted for the present connection
  arrived     \* the frames the other side got on the present connection

vars == <<queue, retired, connected, joins, queues, frames, given, arrived>>

NoQueue == [id |-> 0, on |-> "none", realtime |-> <<>>, bulk |-> <<>>, flight |-> <<>>]
Classes == {"realtime", "bulk"}

Waiting(q)  == Len(q.realtime) + Len(q.bulk)
Retained(q) == Waiting(q) + Len(q.flight)
Total == MapThenSumSet(LAMBDA t : Retained(queue[t]), Transports) + Cardinality(retired)

Init ==
  /\ queue = [t \in Transports |-> NoQueue]
  /\ retired = {}
  /\ connected = [t \in Transports |-> 0]
  /\ joins = 0 /\ queues = 0 /\ frames = 0
  /\ given = [t \in Transports |-> {}]
  /\ arrived = [t \in Transports |-> <<>>]

(* A peer is admitted on t (see MeshRoutes). *)
Joins(t) ==
  /\ connected[t] = 0 /\ joins < MaxJoins
  /\ joins' = joins + 1
  /\ connected' = [connected EXCEPT ![t] = joins + 1]
  /\ given' = [given EXCEPT ![t] = {}]
  /\ arrived' = [arrived EXCEPT ![t] = <<>>]
  /\ UNCHANGED <<queue, retired, queues, frames>>

(* retireOutboundQueue, and the connection is gone: every way a route ends. *)
RetireOutboundQueue(t) ==
  /\ connected' = [connected EXCEPT ![t] = 0]
  /\ queue' = [queue EXCEPT ![t] = NoQueue]
  /\ retired' = IF queue[t].flight = <<>> THEN retired
                ELSE retired \cup {[queue[t] EXCEPT !.realtime = <<>>, !.bulk = <<>>]}

Leaves(t) ==
  /\ connected[t] # 0
  /\ RetireOutboundQueue(t)
  /\ UNCHANGED <<joins, queues, frames, given, arrived>>

(* Mutant: the frame in flight makes way for the next one.                  *)
TakeNextAnyway(q) ==
  IF q.realtime # <<>> THEN [q EXCEPT !.flight = <<Head(q.realtime)>>, !.realtime = Tail(@)] ELSE q

(* One turn of the loop of drain: the next frame goes out, realtime first.  *)
TakeNext(q) ==
  CASE q.flight # <<>>   -> q
    [] q.flight = <<>> /\ q.realtime # <<>> ->
         [q EXCEPT !.flight = <<Head(q.realtime)>>, !.realtime = Tail(@)]
    [] q.flight = <<>> /\ q.realtime = <<>> /\ q.bulk # <<>> ->
         [q EXCEPT !.flight = <<Head(q.bulk)>>, !.bulk = Tail(@)]
    [] OTHER -> q

(* enqueue: beyond a limit the peer is dropped, never a frame in silence.   *)
Enqueue(t, class) ==
  /\ connected[t] # 0 /\ frames < MaxFrames
  /\ frames' = frames + 1
  /\ LET fresh == queue[t].id = 0
         q == IF fresh THEN [NoQueue EXCEPT !.id = queues + 1, !.on = t] ELSE queue[t]
         f == [n |-> frames + 1, class |-> class]
     IN IF Retained(q) + 1 > MaxQueued \/ Total + 1 > MaxTotal
        THEN /\ RetireOutboundQueue(t)
             /\ UNCHANGED <<queues, given>>
        ELSE /\ queue' = [queue EXCEPT ![t] = TakeNext(
                  IF class = "realtime" THEN [q EXCEPT !.realtime = Append(@, f)]
                                        ELSE [q EXCEPT !.bulk = Append(@, f)])]
             /\ queues' = IF fresh THEN queues + 1 ELSE queues
             /\ given' = [given EXCEPT ![t] = @ \cup {f}]
             /\ UNCHANGED <<retired, connected>>
  /\ UNCHANGED <<joins, arrived>>

(* The queue a send was started for is still the one of its transport.      *)
IsCurrent(q) == queue[q.on].id = q.id

(* A send settles, for the queue of its transport or for a retired one; in  *)
(* the meantime the peer may be back with another queue.                    *)
Settles(q, ok) ==
  LET t == q.on IN
  /\ q.flight # <<>>
  /\ retired' = retired \ {q}
  /\ CASE ~IsCurrent(q)      -> UNCHANGED <<queue, connected, arrived>>
       [] IsCurrent(q) /\ ok ->
            /\ arrived' = [arrived EXCEPT ![t] = @ \o q.flight]
            /\ queue' = [queue EXCEPT ![t] = TakeNext([@ EXCEPT !.flight = <<>>])]
            /\ UNCHANGED connected
       [] OTHER              ->      \* failOutboundQueue, onPeerLeave
            /\ queue' = [queue EXCEPT ![t] = NoQueue]
            /\ connected' = [connected EXCEPT ![t] = 0]
            /\ UNCHANGED arrived
  /\ UNCHANGED <<joins, queues, frames, given>>

Sending == {queue[t] : t \in {u \in Transports : queue[u].id # 0}} \cup retired

Next ==
  \/ \E t \in Transports :
       \/ Joins(t) \/ Leaves(t)
       \/ \E class \in Classes : Enqueue(t, class)
  \/ \E q \in Sending : \E ok \in BOOLEAN : Settles(q, ok)

Spec == Init /\ [][Next]_vars

(* A send that was started settles, one way or the other.                   *)
FairSpec == Spec /\ WF_vars(\E q \in Sending, ok \in BOOLEAN : Settles(q, ok))

-----------------------------------------------------------------------------
(* Neither one slow peer nor all of them together, counting the sends of    *)
(* peers already gone, hold more than the limits (mesh.ts:2829, 2842).      *)
MemoryIsBounded ==
  /\ \A t \in Transports : Retained(queue[t]) <= MaxQueued
  /\ Total <= MaxTotal

(* While a peer stays connected nothing it was given is lost or repeated:   *)
(* it arrived, is in flight or waits.                                       *)
NothingLostWhileConnected ==
  \A t \in Transports : connected[t] # 0 =>
    LET q == queue[t]
        held == arrived[t] \o q.flight \o q.realtime \o q.bulk
    IN /\ {held[i] : i \in DOMAIN held} = given[t]
       /\ Len(held) = Cardinality(given[t])

(* Within a class frames arrive in the order they were enqueued: a barrier  *)
(* commit stays behind the bulk frames it acknowledges, although realtime   *)
(* frames overtake them (mesh.ts:3468).                                     *)
ClassesStayInOrder ==
  \A t \in Transports : \A i, j \in DOMAIN arrived[t] :
    i < j /\ arrived[t][i].class = arrived[t][j].class => arrived[t][i].n < arrived[t][j].n

(* A late failure of a send to a peer that left and came back leaves the    *)
(* new connection alone (mesh.ts:2919).                                     *)
LateFailureIsHarmless ==
  \A q \in retired : q \notin retired' => connected' = connected /\ queue' = queue

=============================================================================
