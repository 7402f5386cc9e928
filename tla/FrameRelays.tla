----------------------------- MODULE FrameRelays -----------------------------
(* The emergency data path from one participant to another: the MQTT brokers
   (runtime/mqttFrameRelay.ts), the Nostr relays (runtime/nostrRelay.ts) and the
   server of the project (runtime/vpsFrameRelay.ts, vps/server.ts), fanned out and
   merged by runtime/redundantFrameRelay.ts, up to the replay check of the mesh.

   A path is a broker, a relay or the server; the paths of one kind are a family.
   The sender uses a path only after its own encrypted probe came back over it.
   Frames that are accepted while a family has no such path wait in its outbox;
   they go out in pieces, are put together again per family, and what several
   paths delivered is handed on once.

   "mute" paths take everything and deliver nothing, "deaf" ones are those the
   receiver is not listening on: what the network does.  Time counts in steps
   longer than the relays remember a frame (120 s); the second one makes every
   frame sent before it older than the mesh accepts (10 min).

   Bounds: MaxFaults closed connections, refusals, early timeouts and the like,
   MaxMutes changes of the mute paths, MaxLate steps of time, MaxExpiries half
   received frames thrown away, MaxCopies repeated MQTT deliveries, MaxMoves
   changes of the server's address, MaxStops stops. *)
EXTENDS Integers, FiniteSets, SequencesExt

CONSTANTS Kind,        \* [path -> "mqtt", "nostr" or "vps"]
          Pieces,      \* Pieces[f]: the pieces frame f is cut into
          MaxOutbox,   \* pieces the outbox of a family holds
          MaxPartial,  \* frames a family puts together at a time
          MaxFaults, MaxMutes, MaxLate, MaxExpiries, MaxCopies, MaxMoves, MaxStops

VARIABLES line,       \* [path -> "off", "dialing" or "up"]
          asked,      \* paths whose subscription or signed probe is awaited
          probe,      \* [path -> the nonce whose return is awaited, or None]
          ready,      \* the paths in use
          retry,      \* paths whose retry or reconnect timer runs
          outbox,     \* [family -> pieces waiting for a path]
          signing,    \* the publish tail: Nostr payloads waiting to be signed
          wire,       \* [path -> what is under way on its connection]
          stale,      \* the server still holds the sender's lost connection
          posted,     \* the server keeps the sender's announcement
          announced, stopped,
          tried,      \* frames handed to send
          carried,    \* the frames each family accepted
          partial,    \* [family -> [frame -> pieces received]]
          known,      \* [family -> frames recently put together]
          merged,     \* frames recently handed on by the redundant relay
          seen,       \* envelopes the mesh remembers
          got,        \* frames the mesh was given, in order
          heard,      \* the receiver was told of the sender
          mute, deaf, \* what the network does
          aged,       \* [frame -> steps of time since it was sent]
          harmed,     \* frames the network took from a family
          proved,     \* paths whose present connection returned a probe
          left        \* what is left of each bound

paths == <<line, asked, probe, ready, retry, stale, posted, proved>>
queues == <<outbox, signing, wire>>
receiver == <<partial, known, merged, seen, got, heard>>
sender == <<announced, stopped, tried, carried>>
world == <<mute, deaf, aged, harmed, left>>
vars == <<paths, queues, receiver, sender, world>>

None == 0
Paths == DOMAIN Kind
Families == Range(Kind)
Frames == DOMAIN Pieces
Of(k) == {p \in Paths : Kind[p] = k}
ReadyOf(k) == ready \cap Of(k)
Stored == Families \ {"vps"}   \* the families with an outbox

Spend(b) == left[b] > 0 /\ left' = [left EXCEPT ![b] = @ - 1]
Harm(fs) == harmed' = harmed \union fs
\* What a family loses with some of its items.
Cost(k, items) == {<<k, m.f>> : m \in {i \in Range(items) : i.t = "data"}}

Item(t, f, c) == [t |-> t, f |-> f, c |-> c, now |-> TRUE]
Cut(f) == [c \in 1 .. Pieces[f] |-> Item("data", f, c)]
Whole(f) == <<Item("data", f, 1)>>
Announcement == <<Item("announce", 0, 0)>>
Post(w, ps, items) == [p \in Paths |-> IF p \in ps THEN w[p] \o items ELSE w[p]]

Init ==
    /\ line = [p \in Paths |-> IF Kind[p] = "mqtt" THEN "off" ELSE "dialing"]
    /\ asked = {} /\ ready = {} /\ retry = {} /\ proved = {}
    /\ probe = [p \in Paths |-> None]
    /\ outbox = [k \in Stored |-> <<>>] /\ signing = <<>>
    /\ wire = [p \in Paths |-> <<>>]
    /\ stale = FALSE /\ posted = FALSE
    /\ announced = FALSE /\ stopped = FALSE /\ tried = 0 /\ carried = {}
    /\ partial = [k \in Stored |-> [f \in Frames |-> {}]]
    /\ known = [k \in Stored |-> {}]
    /\ merged = {} /\ seen = {} /\ got = <<>> /\ heard = FALSE
    /\ mute = {} /\ deaf = {} /\ aged = [f \in Frames |-> 0]
    /\ harmed = {}
    /\ left = [faults |-> MaxFaults, mutes |-> MaxMutes, late |-> MaxLate,
               expiries |-> MaxExpiries, copies |-> MaxCopies, moves |-> MaxMoves, stops |-> MaxStops]

-----------------------------------------------------------------------------
(* The paths: connection, subscription, probe. *)

\* A nonce no probe on the path has.
Fresh(p) == CHOOSE n \in 1 .. (Len(wire[p]) + 2) :
              /\ n # probe[p]
              /\ \A m \in Range(wire[p]) : m.t = "probe" => m.c # n

(* dropClientReadiness, and what rejectSocket and a closed socket forget. *)
Unready(p) ==
    /\ ready' = ready \ {p}
    /\ probe' = [probe EXCEPT ![p] = None]
    /\ proved' = proved \ {p}

\* beginReadinessProbe: nothing while a probe is awaited.
BeginProbe(p) ==
    IF probe[p] # None THEN UNCHANGED <<probe, wire>>
    ELSE /\ probe' = [probe EXCEPT ![p] = Fresh(p)]
         /\ wire' = [wire EXCEPT ![p] = Append(@, Item("probe", 0, Fresh(p)))]

(* MQTT.js connects by itself and subscribes anew. *)
Connect(p) ==
    /\ Kind[p] = "mqtt" /\ line[p] = "off"
    /\ line' = [line EXCEPT ![p] = "up"]
    /\ asked' = asked \union {p}
    /\ retry' = retry \ {p}
    /\ UNCHANGED <<probe, ready, stale, posted, proved, queues, receiver, sender, world>>

(* The subscription was granted. *)
Subscribed(p) ==
    /\ Kind[p] = "mqtt" /\ p \in asked
    /\ asked' = asked \ {p}
    /\ BeginProbe(p)
    /\ UNCHANGED <<line, ready, retry, stale, posted, proved, outbox, signing, receiver, sender, world>>

(* The subscription, or a publication, was refused: the client stays connected
   and subscribes again in 5 s. *)
Refused(p) ==
    /\ Kind[p] = "mqtt" /\ line[p] = "up" /\ Spend("faults")
    /\ \/ p \in asked /\ asked' = asked \ {p} /\ UNCHANGED <<wire, harmed>>
       \/ /\ wire[p] # <<>> /\ wire' = [wire EXCEPT ![p] = Tail(@)]
          /\ Harm(Cost("mqtt", <<Head(wire[p])>>)) /\ UNCHANGED asked
    /\ Unready(p)
    /\ retry' = retry \union {p}
    /\ UNCHANGED <<line, stale, posted, outbox, signing, receiver, sender, mute, deaf, aged>>

Resubscribe(p) ==
    /\ Kind[p] = "mqtt" /\ p \in retry
    /\ retry' = retry \ {p}
    /\ asked' = asked \union {p}
    /\ UNCHANGED <<line, probe, ready, stale, posted, proved, queues, receiver, sender, world>>

(* The connection to a broker closes.  MQTT.js keeps what was not acknowledged
   and sends it again on the next one. *)
BrokerCloses(p) ==
    /\ Kind[p] = "mqtt" /\ line[p] = "up" /\ Spend("faults")
    /\ line' = [line EXCEPT ![p] = "off"]
    /\ asked' = asked \ {p}
    /\ Unready(p)
    /\ retry' = retry \ {p}
    /\ wire' = [wire EXCEPT ![p] = [i \in DOMAIN @ |-> [@[i] EXCEPT !.now = FALSE]]]
    /\ UNCHANGED <<stale, posted, outbox, signing, receiver, sender, mute, deaf, aged, harmed>>

(* A Nostr socket is open: it subscribes and has its probe signed. *)
RelayOpens(p) ==
    /\ Kind[p] = "nostr" /\ line[p] = "dialing"
    /\ line' = [line EXCEPT ![p] = "up"]
    /\ asked' = asked \union {p}
    /\ UNCHANGED <<probe, ready, retry, stale, posted, proved, queues, receiver, sender, world>>

(* The probe is signed, and sent as the socket is still the current one. *)
Signed(p) ==
    /\ Kind[p] = "nostr" /\ p \in asked
    /\ asked' = asked \ {p}
    /\ probe' = [probe EXCEPT ![p] = Fresh(p)]
    /\ wire' = [wire EXCEPT ![p] = Append(@, Item("probe", 0, Fresh(p)))]
    /\ UNCHANGED <<line, ready, retry, stale, posted, proved, outbox, signing, receiver, sender, world>>

\* A socket is given up; what was under way on it is lost, a timer dials anew.
Dropped(p) ==
    /\ line' = [line EXCEPT ![p] = "off"]
    /\ asked' = asked \ {p}
    /\ Unready(p)
    /\ retry' = retry \union {p}
    /\ wire' = [wire EXCEPT ![p] = <<>>]
    /\ Harm(Cost(Kind[p], wire[p]))

(* A Nostr socket closes, or its dial fails. *)
RelayCloses(p) ==
    /\ Kind[p] = "nostr" /\ line[p] # "off" /\ Spend("faults")
    /\ Dropped(p)
    /\ UNCHANGED <<stale, posted, outbox, signing, receiver, sender, mute, deaf, aged>>

(* CLOSED, or OK false for an event: the socket is replaced (rejectSocket). *)
Rejected(p) ==
    /\ Kind[p] = "nostr" /\ line[p] = "up" /\ Spend("faults")
    /\ Dropped(p)
    /\ UNCHANGED <<stale, posted, outbox, signing, receiver, sender, mute, deaf, aged>>

(* The reconnect timer of a socket: start() dials every Nostr relay without one. *)
RedialRelays(p) ==
    /\ Kind[p] = "nostr" /\ p \in retry
    /\ retry' = retry \ {p}
    /\ line' = [q \in Paths |-> IF Kind[q] = "nostr" /\ line[q] = "off" THEN "dialing" ELSE line[q]]
    /\ UNCHANGED <<asked, probe, ready, stale, posted, proved, queues, receiver, sender, world>>

(* The server takes the connection, unless it still holds one of the sender. *)
ServerOpens(p) ==
    /\ Kind[p] = "vps" /\ line[p] = "dialing" /\ ~stale
    /\ line' = [line EXCEPT ![p] = "up"]
    /\ BeginProbe(p)
    /\ UNCHANGED <<asked, ready, retry, stale, posted, proved, outbox, signing, receiver, sender, world>>

(* The server answers 403 while it holds the old connection. *)
TurnedAway(p) ==
    /\ Kind[p] = "vps" /\ line[p] = "dialing" /\ stale
    /\ Dropped(p)
    /\ UNCHANGED <<stale, posted, outbox, signing, receiver, sender, mute, deaf, aged, left>>

\* The server may not notice that the sender's connection is gone.
Lingers(p) ==
    IF line[p] = "up" THEN stale' \in BOOLEAN /\ posted' = (posted /\ stale')
    ELSE UNCHANGED <<stale, posted>>

(* The connection to the server closes, or its dial fails. *)
ServerCloses(p) ==
    /\ Kind[p] = "vps" /\ line[p] # "off" /\ Spend("faults")
    /\ Dropped(p) /\ Lingers(p)
    /\ UNCHANGED <<outbox, signing, receiver, sender, mute, deaf, aged>>

(* The heartbeat of the server drops a connection that answers no ping. *)
Noticed ==
    /\ stale /\ stale' = FALSE /\ posted' = FALSE
    /\ UNCHANGED <<line, asked, probe, ready, retry, proved, queues, receiver, sender, world>>

RedialServer(p) ==
    /\ Kind[p] = "vps" /\ p \in retry
    /\ retry' = retry \ {p}
    /\ line' = [line EXCEPT ![p] = "dialing"]
    /\ UNCHANGED <<asked, probe, ready, stale, posted, proved, queues, receiver, sender, world>>

(* updateVps: the old relay object is stopped, a new one dials the new server. *)
Move(p) ==
    /\ Kind[p] = "vps" /\ Spend("moves")
    /\ Unready(p)
    /\ line' = [line EXCEPT ![p] = "dialing"]
    /\ retry' = retry \ {p}
    /\ wire' = [wire EXCEPT ![p] = <<>>] /\ Harm(Cost("vps", wire[p]))
    /\ stale' = FALSE /\ posted' = FALSE
    /\ UNCHANGED <<asked, outbox, signing, receiver, sender, mute, deaf, aged>>

(* The probe did not come back in time: a broker is subscribed again, a socket is
   replaced. *)
Late(p) ==
    /\ probe[p] # None
    /\ \/ /\ \A m \in Range(wire[p]) : ~(m.t = "probe" /\ m.c = probe[p])
          /\ UNCHANGED left
       \/ Spend("faults")
BrokerLate(p) ==
    /\ Kind[p] = "mqtt" /\ Late(p)
    /\ Unready(p) /\ retry' = retry \union {p}
    /\ UNCHANGED <<line, asked, stale, posted, queues, receiver, sender, mute, deaf, aged, harmed>>
RelayLate(p) ==
    /\ Kind[p] = "nostr" /\ Late(p) /\ Dropped(p)
    /\ UNCHANGED <<stale, posted, outbox, signing, receiver, sender, mute, deaf, aged>>
ServerLate(p) ==
    /\ Kind[p] = "vps" /\ Late(p) /\ Dropped(p) /\ Lingers(p)
    /\ UNCHANGED <<outbox, signing, receiver, sender, mute, deaf, aged>>

(* A path in use is probed again: housekeeping after 45 s, the server's after 10 s.
   What the last probe had announced has arrived by then. *)
Due(p) ==
    /\ p \in ready /\ probe[p] = None /\ p \notin asked
    /\ \A q \in Of(Kind[p]) : \A m \in Range(wire[q] \o signing) : m.t # "announce"
RecheckRelay(p) ==
    /\ Kind[p] = "nostr" /\ Due(p)
    /\ asked' = asked \union {p}
    /\ UNCHANGED <<line, probe, ready, retry, stale, posted, proved, queues, receiver, sender, world>>
Recheck(p) ==
    /\ Kind[p] # "nostr" /\ Due(p)
    /\ BeginProbe(p)
    /\ UNCHANGED <<line, asked, ready, retry, stale, posted, proved, outbox, signing, receiver, sender, world>>

-----------------------------------------------------------------------------
(* Sending. *)

Full(k, n) == Len(outbox[k]) + n > MaxOutbox
\* The families whose send throws.
Throws(f) == {k \in Families : ReadyOf(k) = {} /\ (k = "vps" \/ Full(k, Pieces[f]))}
(* mutant of Enqueue: everything waits until all paths of the family are ready. *)
EnqueueUnlessAll(k, items) ==
    IF ReadyOf(k) # Of(k) /\ ~Full(k, Len(items)) THEN outbox[k] \o items ELSE outbox[k]
Enqueue(k, items) ==
    IF ReadyOf(k) = {} /\ ~Full(k, Len(items)) THEN outbox[k] \o items ELSE outbox[k]

(* send: to every family; it fails if all of them refuse. *)
Send ==
    LET f == tried + 1  refusing == Throws(f) IN
    /\ f \in Frames
    /\ tried' = f
    /\ carried' = carried \union {<<k, f>> : k \in Families \ refusing}
    /\ outbox' = [k \in Stored |-> Enqueue(k, Cut(f))]
    /\ signing' = IF ReadyOf("nostr") # {} THEN signing \o Cut(f) ELSE signing
    /\ wire' = Post(Post(wire, ReadyOf("mqtt"), Cut(f)), ReadyOf("vps"), Whole(f))
    /\ UNCHANGED <<announced, stopped, paths, receiver, world>>

(* sendAnnounce; the server's path announces when it becomes ready. *)
Announce ==
    /\ ~announced /\ announced' = TRUE
    /\ outbox' = [k \in Stored |-> IF k = "mqtt" THEN Enqueue(k, Announcement) ELSE outbox[k]]
    /\ signing' = IF "nostr" \in Families THEN signing \o Announcement ELSE signing
    /\ wire' = Post(wire, ReadyOf("mqtt") \union ReadyOf("vps"), Announcement)
    /\ UNCHANGED <<stopped, tried, carried, paths, receiver, world>>

(* publish: the next payload is signed and goes to the relays in use then; with
   none it is dropped. *)
NextToSign == 1
PublishSigned ==
    /\ signing # <<>>
    /\ LET i == NextToSign  m == signing[i] IN
       /\ signing' = RemoveAt(signing, i)
       /\ wire' = Post(wire, ReadyOf("nostr"), <<m>>)
       /\ Harm(IF ReadyOf("nostr") = {} THEN Cost("nostr", <<m>>) ELSE {})
    /\ UNCHANGED <<outbox, paths, receiver, sender, mute, deaf, aged, left>>

-----------------------------------------------------------------------------
(* What a path delivers.  The sender's own probe comes back to it, the rest
   reaches the receiver if it listens. *)

Arrives(p, t) == line[p] = "up" /\ wire[p] # <<>> /\ p \notin mute /\ Head(wire[p]).t = t
Answers(p, m) == probe[p] = m.c

\* The path is in use from now on.
Proven(p) ==
    /\ probe' = [probe EXCEPT ![p] = None]
    /\ ready' = ready \union {p}
    /\ proved' = IF Head(wire[p]).now THEN proved \union {p} ELSE proved
Read(p) == [wire EXCEPT ![p] = Tail(@)]
Again == IF announced THEN Announcement ELSE <<>>
Flush(k) == outbox' = [outbox EXCEPT ![k] = <<>>]

(* The echo of the probe.  The sender is announced again on the path, and what
   the family kept back goes out. *)
BrokerProven(p) ==
    /\ Kind[p] = "mqtt" /\ Arrives(p, "probe") /\ Answers(p, Head(wire[p]))
    /\ Proven(p) /\ Flush("mqtt")
    /\ wire' = Post(Post(Read(p), {p}, Again), (ready \union {p}) \cap Of("mqtt"), outbox["mqtt"])
    /\ UNCHANGED <<line, asked, retry, stale, posted, signing, receiver, sender, world>>
RelayProven(p) ==
    /\ Kind[p] = "nostr" /\ Arrives(p, "probe") /\ Answers(p, Head(wire[p]))
    /\ Proven(p) /\ Flush("nostr")
    /\ signing' = signing \o Again \o outbox["nostr"]
    /\ wire' = Read(p)
    /\ UNCHANGED <<line, asked, retry, stale, posted, receiver, sender, world>>
ServerProven(p) ==
    /\ Kind[p] = "vps" /\ Arrives(p, "probe") /\ Answers(p, Head(wire[p]))
    /\ Proven(p)
    /\ wire' = IF p \in ready THEN Read(p) ELSE Post(Read(p), {p}, Announcement)
    /\ UNCHANGED <<line, asked, retry, stale, posted, outbox, signing, receiver, sender, world>>

(* An echo nobody waits for any more is ignored. *)
OldEcho(p) ==
    /\ Arrives(p, "probe") /\ ~Answers(p, Head(wire[p]))
    /\ wire' = Read(p)
    /\ UNCHANGED <<paths, outbox, signing, receiver, sender, world>>

(* An announcement reaches the receiver; the server keeps it for those who come
   later. *)
AnnouncementArrives(p) ==
    /\ Arrives(p, "announce")
    /\ wire' = Read(p)
    /\ heard' = (heard \/ p \notin deaf)
    /\ posted' = (posted \/ Kind[p] = "vps")
    /\ UNCHANGED <<line, asked, probe, ready, retry, stale, proved, outbox, signing,
                   partial, known, merged, seen, got, sender, world>>

\* acceptFrame, and the envelope check of the mesh: too old, or met before.
Accept(f) ==
    /\ merged' = merged \union {f}
    /\ IF f \in merged \/ aged[f] >= 2 \/ f \in seen THEN UNCHANGED <<seen, got>>
       ELSE seen' = seen \union {f} /\ got' = Append(got, f)

\* acceptChunk: a piece of a frame is put to the others, the last one completes it.
Busy(k) == Cardinality({g \in Frames : partial[k][g] # {}})
NoRoom(k, f) == partial[k][f] = {} /\ Busy(k) >= MaxPartial
Assembled(k, f) ==
    /\ partial' = [partial EXCEPT ![k][f] = {}]
    /\ known' = [known EXCEPT ![k] = @ \union {f}]
    /\ Accept(f)
Collect(k, f, c) ==
    CASE f \in known[k] -> UNCHANGED <<partial, known, merged, seen, got, harmed>>
      [] f \notin known[k] /\ NoRoom(k, f) ->
           Harm({<<k, f>>}) /\ UNCHANGED <<partial, known, merged, seen, got>>
      [] OTHER ->
           /\ IF partial[k][f] \union {c} = 1 .. Pieces[f] THEN Assembled(k, f)
              ELSE /\ partial' = [partial EXCEPT ![k][f] = @ \union {c}]
                   /\ UNCHANGED <<known, merged, seen, got>>
           /\ UNCHANGED harmed

(* A piece arrives; a broker may deliver it once more (QoS 1). *)
PieceFromBroker(p) ==
    LET m == Head(wire[p]) IN
    /\ Kind[p] = "mqtt" /\ Arrives(p, "data") /\ p \notin deaf
    /\ \/ wire' = Read(p) /\ UNCHANGED left
       \/ Spend("copies") /\ UNCHANGED wire
    /\ Collect("mqtt", m.f, m.c)
    /\ UNCHANGED <<heard, paths, outbox, signing, sender, mute, deaf, aged>>
PieceFromRelay(p) ==
    LET m == Head(wire[p]) IN
    /\ Kind[p] = "nostr" /\ Arrives(p, "data") /\ p \notin deaf
    /\ wire' = Read(p)
    /\ Collect("nostr", m.f, m.c)
    /\ UNCHANGED <<heard, paths, outbox, signing, sender, mute, deaf, aged, left>>

(* The server forwards a whole frame. *)
FrameFromServer(p) ==
    /\ Kind[p] = "vps" /\ Arrives(p, "data") /\ p \notin deaf
    /\ wire' = Read(p)
    /\ Accept(Head(wire[p]).f)
    /\ UNCHANGED <<partial, known, heard, paths, outbox, signing, sender, mute, deaf, aged, harmed, left>>

(* A mute path swallows what it is given, nobody listens on a deaf one. *)
Swallowed(p) ==
    /\ line[p] = "up" /\ wire[p] # <<>>
    /\ p \in mute \/ (p \in deaf /\ Head(wire[p]).t = "data")
    /\ wire' = Read(p)
    /\ Harm(Cost(Kind[p], <<Head(wire[p])>>))
    /\ UNCHANGED <<paths, outbox, signing, receiver, sender, mute, deaf, aged, left>>

-----------------------------------------------------------------------------
(* The network, the clock and the receiver. *)

TurnsMute(p) ==
    /\ Spend("mutes")
    /\ mute' = IF p \in mute THEN mute \ {p} ELSE mute \union {p}
    /\ UNCHANGED <<paths, queues, receiver, sender, deaf, aged, harmed>>

StopsListening(p) ==
    /\ p \notin deaf /\ Spend("faults") /\ deaf' = deaf \union {p}
    /\ UNCHANGED <<paths, queues, receiver, sender, mute, aged, harmed>>

(* The receiver is back on a path.  The server repeats the announcements it keeps. *)
Listens(p) ==
    /\ p \in deaf /\ deaf' = deaf \ {p}
    /\ heard' = (heard \/ (Kind[p] = "vps" /\ posted))
    /\ UNCHANGED <<paths, queues, partial, known, merged, seen, got, sender, mute, aged, harmed, left>>

(* Pieces received for 30 s without the rest are thrown away (housekeeping). *)
Expires(k) ==
    /\ Spend("expiries") /\ Busy(k) > 0
    /\ Harm({<<k, f>> : f \in {g \in Frames : partial[k][g] # {}}})
    /\ partial' = [partial EXCEPT ![k] = [f \in Frames |-> {}]]
    /\ UNCHANGED <<known, merged, seen, got, heard, paths, queues, sender, mute, deaf, aged>>

\* What the mesh still remembers: an envelope no longer accepted is forgotten.
Remembered(age) == {f \in seen : age[f] < 2}

(* Minutes pass: nothing sent is still under way, the relays forget what they
   met, half received frames are gone. *)
TimePasses ==
    LET age == [f \in Frames |-> IF f <= tried /\ aged[f] < 2 THEN aged[f] + 1 ELSE aged[f]] IN
    /\ Spend("late")
    /\ signing = <<>> /\ \A p \in Paths : line[p] = "up" => wire[p] = <<>>
    /\ aged' = age
    /\ known' = [k \in Stored |-> {}] /\ merged' = {}
    /\ seen' = Remembered(age)
    /\ partial' = [k \in Stored |-> [f \in Frames |-> {}]]
    /\ Harm({<<k, f>> \in Stored \X Frames : partial[k][f] # {}}
            \union {<<k, f>> \in Families \X Frames : age[f] = 2})
    /\ UNCHANGED <<got, heard, paths, queues, sender, mute, deaf>>

(* stop: nothing is kept, and nothing signed later goes out. *)
Stop ==
    /\ Spend("stops") /\ stopped' = TRUE
    /\ line' = [p \in Paths |-> "off"]
    /\ asked' = {} /\ ready' = {} /\ retry' = {} /\ proved' = {}
    /\ probe' = [p \in Paths |-> None]
    /\ outbox' = [k \in Stored |-> <<>>]
    /\ wire' = [p \in Paths |-> <<>>]
    /\ stale' = FALSE /\ posted' = FALSE
    /\ Harm(carried)
    /\ UNCHANGED <<signing, receiver, announced, tried, carried, mute, deaf, aged>>

OnPath(p) ==
    \/ Connect(p) \/ Subscribed(p) \/ Refused(p) \/ Resubscribe(p) \/ BrokerCloses(p)
    \/ RelayOpens(p) \/ Signed(p) \/ RelayCloses(p) \/ Rejected(p) \/ RedialRelays(p)
    \/ ServerOpens(p) \/ TurnedAway(p) \/ ServerCloses(p) \/ RedialServer(p) \/ Move(p)
    \/ BrokerLate(p) \/ RelayLate(p) \/ ServerLate(p) \/ RecheckRelay(p) \/ Recheck(p)
    \/ BrokerProven(p) \/ RelayProven(p) \/ ServerProven(p) \/ OldEcho(p)
    \/ AnnouncementArrives(p) \/ PieceFromBroker(p) \/ PieceFromRelay(p) \/ FrameFromServer(p)
    \/ Swallowed(p) \/ TurnsMute(p) \/ StopsListening(p) \/ Listens(p)

Next ==
    \/ PublishSigned
    \/ ~stopped /\ (\/ \E p \in Paths : OnPath(p)
                    \/ \E k \in Stored : Expires(k)
                    \/ Noticed \/ Send \/ Announce \/ TimePasses \/ Stop)

Spec == Init /\ [][Next]_vars

(* Timers run out, connections are made, what is under way arrives, and the
   receiver listens again. *)
FairSpec ==
    /\ Spec
    /\ WF_vars(PublishSigned) /\ WF_vars(Noticed)
    /\ \A p \in Paths :
         /\ WF_vars(Connect(p)) /\ WF_vars(Subscribed(p)) /\ WF_vars(Resubscribe(p))
         /\ WF_vars(RelayOpens(p)) /\ WF_vars(Signed(p)) /\ WF_vars(RedialRelays(p))
         /\ WF_vars(ServerOpens(p)) /\ WF_vars(TurnedAway(p)) /\ WF_vars(RedialServer(p))
         /\ WF_vars(BrokerLate(p)) /\ WF_vars(RelayLate(p)) /\ WF_vars(ServerLate(p))
         /\ SF_vars(RecheckRelay(p)) /\ SF_vars(Recheck(p)) /\ WF_vars(Listens(p))
         /\ WF_vars(BrokerProven(p)) /\ WF_vars(RelayProven(p)) /\ WF_vars(ServerProven(p))
         /\ WF_vars(OldEcho(p)) /\ WF_vars(AnnouncementArrives(p)) /\ WF_vars(Swallowed(p))
         /\ WF_vars(PieceFromBroker(p)) /\ WF_vars(PieceFromRelay(p)) /\ WF_vars(FrameFromServer(p))

-----------------------------------------------------------------------------
(* A path is used only while its present connection has returned a probe that was
   sent on it, whatever an earlier connection still delivers. *)
ReadyIsProven == \A p \in ready : line[p] = "up" /\ p \in proved

(* What a family holds back for want of a path is not left there once it has one. *)
NothingWaitsBesideAPath == \A k \in Stored : outbox[k] # <<>> => ReadyOf(k) = {}

(* The mesh is given a frame at most once, whatever several paths, repeated
   deliveries and outboxes emptied much later bring. *)
GivenOnce == \A i, j \in DOMAIN got : i # j => got[i] # got[j]

(* Each family by itself carries every frame it accepted to the receiver, unless
   the network took something of it: none is lost while it is queued, signed, cut
   into pieces, or put together from several paths. *)
UnderWay(k) ==
    UNION {Range(wire[p]) : p \in Of(k)}
      \union (IF k = "nostr" THEN Range(signing) ELSE {}) \union (IF k = "vps" THEN {} ELSE Range(outbox[k]))
EitherFamilyCarries ==
    \A k \in Families, f \in Frames :
      /\ <<k, f>> \in carried \ harmed
      /\ \A m \in UnderWay(k) : m.f # f
      => f \in Range(got)

(* On each path the pieces stay in the order in which the frames were sent. *)
SentInOrder ==
    \A p \in Paths : LET d == SelectSeq(wire[p], LAMBDA m : m.t = "data") IN
      \A i, j \in DOMAIN d : i < j =>
        \/ d[i].f < d[j].f
        \/ d[i].f = d[j].f /\ d[i].c < d[j].c

FramesAreSafe ==
    ReadyIsProven /\ NothingWaitsBesideAPath /\ GivenOnce /\ EitherFamilyCarries /\ SentInOrder

(* In the end exactly the paths that deliver are in use: one that lost its
   connection comes back, one that only takes is retired. *)
LivePathsAreReady == \A p \in Paths : stopped \/ (p \in ready <=> p \notin mute)
=============================================================================
