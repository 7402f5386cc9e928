--------------------------- MODULE SharedTerminal ---------------------------
(* The shared command terminal of a session (core/sharedTerminal.ts and its
   wiring in runtime/session.ts): the host owns one shell, every participant
   sees a replica of its output, a participant with the permission sends it
   command lines, and the host stops it with a typed confirmation.

   Output is numbered within a generation (one shell history, a new one after
   every reset) of a stream (one terminal object, a new one after every restart
   of the process).  A replica that sees a gap, a newer generation or another
   stream asks for a snapshot.  Frames arrive late and (unless Ordered) out of
   order, command frames twice; a cut of the routes loses or delays them.

   Bounds: MaxOutput chunks in a generation, MaxResets repository changes,
   MaxRestarts restarts of a host process, MaxCuts lost routes, MaxChanges host
   changes, MaxStops confirmations, MaxCopies repeated command frames, MaxExits
   shells that end by themselves, MaxRevokes changes of the permission. *)
EXTENDS Integers, FiniteSets, SequencesExt

CONSTANTS Peers,       \* the participants
          Founder,       \* the one that hosts at the start
          Commands,    \* [name -> the participant that types it]
          Retain,      \* chunks of history kept
          Ordered,     \* frames between two participants keep their order
          MaxOutput, MaxResets, MaxRestarts, MaxCuts, MaxChanges,
          MaxStops, MaxCopies, MaxExits, MaxRevokes

VARIABLES hosts,     \* the hosts of the session, one per host clock
          known,     \* [Peers -> number of the last host clock adopted]
          term,      \* [Peers -> the terminal object]
          policy,    \* what the policy lets those who do not host do
          linked,    \* the routes between the participants work
          net,       \* [Peers -> frames under way to it, in sending order]
          shells,    \* every shell started: whether it lives, what it was fed
          cmds,      \* [Commands -> what the one who typed it was told]
          stop,      \* the confirmation dialog and the stop it started
          printed,   \* [generation -> chunks flushed so far]
          struck,    \* what each stop ended, and what its dialog was about
          left       \* what is left of each bound

vars == <<hosts, known, term, policy, linked, net, shells, cmds, stop,
          printed, struck, left>>

None == 0
NoStop == [phase |-> "none", by |-> Founder, clock |-> 0, consent |-> <<>>,
           seen |-> {}, shell |-> None]

HostOf(p) == hosts[known[p]]
IsHost(p) == HostOf(p) = p
Others(p) == Peers \ {p}

Retained(h) == IF Len(h) > Retain THEN SubSeq(h, Len(h) - Retain + 1, Len(h)) ELSE h

NewTerminal(p, k) ==
    [stream |-> <<p, k>>, index |-> 0, gen |-> <<p, k, 0>>, seq |-> 0,
     hist |-> <<>>, pending |-> FALSE, child |-> None, queue |-> <<>>,
     cgen |-> 0, adm |-> 0, admitted |-> [c \in {} |-> ""], waits |-> {},
     recent |-> {}, rStream |-> <<>>, rIndex |-> -1, cand |-> <<>>,
     asked |-> FALSE, req |-> None, nextReq |-> 1]

Spend(b) == left[b] > 0 /\ left' = [left EXCEPT ![b] = @ - 1]

\* A frame carries the host clock of its sender.
Frame(p, q, body) == [from |-> p, to |-> q, clock |-> known[p]] @@ body
Empty == [p \in Peers |-> <<>>]
Without(p, i) == [net EXCEPT ![p] = RemoveAt(@, i)]
\* One frame to each of some participants, none while the routes are cut; a repeat
\* of a frame that is still under way is left out.
Put(n, ms) ==
    IF linked THEN [q \in Peers |-> n[q] \o SetToSeq({m \in ms \ Range(n[q]) : m.to = q})]
    ELSE n

(* The 30 ms timer, or a snapshot, flushes the pending text as one chunk. *)
Mine(t) == t.gen = t.stream \o <<t.index>>
Chunk(t) == IF Mine(t) THEN t.seq + 1 ELSE None   \* text that is not of this history
Flushes(t) == t.pending /\ Len(printed[t.gen]) < MaxOutput
Flushed(t) ==
    IF Flushes(t)
      THEN [t EXCEPT !.pending = FALSE, !.seq = @ + 1,
                     !.hist = Retained(Append(@, Chunk(t)))]
      ELSE t
Chunks(p, t) ==
    IF Flushes(t) /\ policy # "none"
      THEN {Frame(p, q, [type |-> "output", gen |-> t.gen, seq |-> t.seq + 1]) :
              q \in Others(p)}
      ELSE {}
Logs(t) == IF Flushes(t) /\ Mine(t)
              THEN printed' = [printed EXCEPT ![t.gen] = Append(@, t.seq + 1)]
              ELSE UNCHANGED printed

\* sendSnapshot, after its flush.
SnapshotFor(p, q, t, r) ==
    IF policy = "none" THEN {}
    ELSE {Frame(p, q, [type |-> "snapshot", gen |-> t.gen, seq |-> t.seq,
                       hist |-> t.hist, req |-> r])}

\* requestSnapshot: a fresh request has a new id, a repeated one keeps its own.
Asking(t, fresh) ==
    IF fresh \/ t.req = None
      THEN [t EXCEPT !.asked = TRUE, !.req = t.nextReq, !.nextReq = @ + 1]
      ELSE [t EXCEPT !.asked = TRUE]
AskOf(p, t) == {Frame(p, HostOf(p), [type |-> "ask", req |-> t.req])}

(* The participants have joined and have the host's first, empty snapshot. *)
Init ==
    /\ hosts = <<Founder>>
    /\ known = [p \in Peers |-> 1]
    /\ term = [p \in Peers |->
                 IF p = Founder THEN NewTerminal(p, 1)
                 ELSE [NewTerminal(p, 1) EXCEPT !.rStream = <<Founder, 1>>, !.rIndex = 0,
                                                !.gen = <<Founder, 1, 0>>]]
    /\ policy = "write"
    /\ linked = TRUE
    /\ net = Empty
    /\ shells = <<>>
    /\ cmds = [c \in DOMAIN Commands |-> "new"]
    /\ stop = NoStop
    /\ printed = [g \in {<<p, 1, 0>> : p \in Peers} |-> <<>>]
    /\ struck = {}
    /\ left = [resets |-> MaxResets, restarts |-> MaxRestarts, cuts |-> MaxCuts,
               changes |-> MaxChanges, stops |-> MaxStops, copies |-> MaxCopies,
               exits |-> MaxExits, revokes |-> MaxRevokes]

-----------------------------------------------------------------------------
(* The replica *)

(* mutant of Adopts: any snapshot brings its stream with it *)
AdoptsAny(t, m) == m.type = "snapshot"

\* Another stream is adopted only with the answer to the current request.
Adopts(t, m) == m.type = "snapshot" /\ m.req # None /\ m.req = t.req

\* The chunk that continues what is shown.
Follows(t, m) == m.gen = t.gen /\ m.seq = t.seq + 1

\* What a frame of the host leaves in the replica t, and whether it asks.
Replica(t, m) ==
    LET stream == <<m.gen[1], m.gen[2]>>
        index == m.gen[3]
        ours == stream = t.rStream
        last == IF ours THEN t.rIndex ELSE -1
        newer == index > last
        answer == m.type = "snapshot" /\ m.req = t.req
        at == [t EXCEPT !.rStream = stream, !.rIndex = index]
        settles == t.cand \in {<<>>, stream} \/ answer
        shown == [at EXCEPT !.gen = m.gen, !.seq = m.seq]
    IN  CASE m.type = "snapshot" /\ m.req # None /\ m.req # t.req -> [t |-> t, asks |-> FALSE]
          [] ~ours /\ ~Adopts(t, m) ->
               IF t.cand # stream \/ ~t.asked
                 THEN [t |-> Asking([t EXCEPT !.cand = stream], TRUE), asks |-> TRUE]
                 ELSE [t |-> t, asks |-> FALSE]
          [] (ours \/ Adopts(t, m)) /\ index < last -> [t |-> t, asks |-> FALSE]
          [] OTHER ->
               CASE newer /\ m.type = "output" ->
                      [t |-> Asking([at EXCEPT !.gen = m.gen, !.seq = 0, !.hist = <<>>], TRUE),
                       asks |-> TRUE]
                 [] ~newer /\ m.gen = t.gen
                      /\ (m.seq < t.seq \/ (m.type = "output" /\ m.seq = t.seq)) ->
                      [t |-> at, asks |-> FALSE]
                 [] m.type = "snapshot" /\ (newer \/ m.seq >= t.seq) ->
                      [t |-> IF settles
                               THEN [shown EXCEPT !.hist = m.hist, !.asked = FALSE,
                                                  !.req = None, !.cand = <<>>]
                               ELSE [shown EXCEPT !.hist = m.hist],
                       asks |-> FALSE]
                 [] ~newer /\ m.type = "output" /\ Follows(t, m) ->
                      [t |-> [shown EXCEPT !.hist = Retained(Append(@, m.seq))], asks |-> FALSE]
                 [] OTHER -> IF t.asked THEN [t |-> at, asks |-> FALSE]
                             ELSE [t |-> Asking(at, FALSE), asks |-> TRUE]

\* A frame is handled only under the clock it was sent with.
Arrives(p, i) ==
    /\ linked
    /\ i \in DOMAIN net[p]
    /\ Ordered => \A j \in 1 .. i - 1 : net[p][j].from # net[p][i].from

Dropped(p, i) ==
    /\ Arrives(p, i)
    /\ LET m == net[p][i] IN
       \/ m.clock # known[p]
       \/ ~IsHost(p) /\ policy = "none"
       \/ m.type \in {"output", "snapshot", "result"} /\ m.from # HostOf(p)
       \/ m.type \in {"output", "snapshot", "ask", "input"}
            /\ IsHost(p) # (m.type \in {"ask", "input"})
       \/ m.type = "input" /\ policy # "write"
    /\ net' = Without(p, i)
    /\ UNCHANGED <<hosts, known, term, policy, linked, shells, cmds, stop, printed,
                   struck, left>>

Handled(p, i, types) ==
    /\ Arrives(p, i)
    /\ LET m == net[p][i] IN
       /\ m.type \in types
       /\ m.clock = known[p]
       /\ m.type \in {"output", "snapshot", "result"} => m.from = HostOf(p)
    /\ ~IsHost(p) => policy # "none"

Watch(p, i) ==
    /\ Handled(p, i, {"output", "snapshot"})
    /\ ~IsHost(p)
    /\ LET r == Replica(term[p], net[p][i]) IN
       /\ term' = [term EXCEPT ![p] = r.t]
       /\ net' = IF r.asks THEN Put(Without(p, i), AskOf(p, r.t)) ELSE Without(p, i)
    /\ UNCHANGED <<hosts, known, policy, linked, shells, cmds, stop, printed, struck, left>>

\* The 2 s timer of a request that has no answer yet.
AskAgain(p) ==
    /\ term[p].asked /\ ~IsHost(p)
    /\ linked
    /\ net' = Put(net, AskOf(p, term[p]))
    /\ UNCHANGED <<hosts, known, term, policy, linked, shells, cmds, stop, printed,
                   struck, left>>

\* The host answers each participant at most once a second.
Answer(p, i) ==
    /\ Handled(p, i, {"ask"}) /\ IsHost(p)
    /\ LET m == net[p][i]  t == term[p]  f == Flushed(t) IN
       IF m.from \in t.recent
         THEN /\ net' = Without(p, i)
              /\ UNCHANGED <<term, printed>>
         ELSE /\ term' = [term EXCEPT ![p] = IF policy = "none"
                                               THEN [t EXCEPT !.recent = @ \union {m.from}]
                                               ELSE [f EXCEPT !.recent = @ \union {m.from}]]
              /\ IF policy = "none" THEN UNCHANGED printed ELSE Logs(t)
              /\ net' = Put(IF policy = "none" THEN Without(p, i)
                            ELSE Put(Without(p, i), Chunks(p, t)),
                            SnapshotFor(p, m.from, f, m.req))
    /\ UNCHANGED <<hosts, known, policy, linked, shells, cmds, stop, struck, left>>

ASecondPasses(p) ==
    /\ term[p].recent # {}
    /\ term' = [term EXCEPT ![p].recent = {}]
    /\ UNCHANGED <<hosts, known, policy, linked, net, shells, cmds, stop, printed,
                   struck, left>>

-----------------------------------------------------------------------------
(* Commands *)

Feeds(n) == n # None /\ shells[n].alive
Running(t) == t.child # None \/ t.queue # <<>>
Gate(p) == stop.by = p /\ stop.phase \in {"gated", "killing"}
Available(p) == ~Gate(p)

Admitted(t, c, remote) ==
    [t EXCEPT !.adm = @ + 1,
              !.queue = Append(@, [cmd |-> c, gen |-> t.gen, cgen |-> t.cgen,
                                   remote |-> remote, phase |-> "prepare"]),
              !.admitted = IF remote THEN (c :> "pending") @@ @ ELSE @]

\* execute: on the host into the queue, elsewhere as a request to the host.
Type(c) ==
    LET p == Commands[c] IN
    /\ cmds[c] = "new"
    /\ \/ /\ IF IsHost(p) THEN ~Available(p) ELSE policy # "write"
          /\ cmds' = [cmds EXCEPT ![c] = "refused"]
          /\ UNCHANGED <<term, net>>
       \/ /\ IsHost(p) /\ Available(p)
          /\ cmds' = [cmds EXCEPT ![c] = "typed"]
          /\ term' = [term EXCEPT ![p] = Admitted(@, c, FALSE)]
          /\ UNCHANGED net
       \/ /\ ~IsHost(p) /\ policy = "write"
          /\ cmds' = [cmds EXCEPT ![c] = "typed"]
          /\ term' = [term EXCEPT ![p].waits = @ \union {c}]
          /\ net' = Put(net, {Frame(p, HostOf(p), [type |-> "input", cmd |-> c])})
    /\ UNCHANGED <<hosts, known, policy, linked, shells, stop, printed, struck, left>>

Result(p, c, ok) == {Frame(p, Commands[c], [type |-> "result", cmd |-> c, ok |-> ok])}

\* The requests the host has taken are remembered with their outcome.
Taken(t) == DOMAIN t.admitted

\* What the arrival of a request is answered with at once.
Replies(p, c) ==
    LET seen == c \in Taken(term[p]) IN
    IF seen /\ term[p].admitted[c] # "pending" THEN Result(p, c, term[p].admitted[c] = "ok")
    ELSE IF ~seen /\ ~Available(p) THEN Result(p, c, FALSE)
    ELSE {}

\* The request reaches the host; a copy of it finds the first one's outcome.
TakeInput(p, i) ==
    /\ Handled(p, i, {"input"}) /\ IsHost(p)
    /\ policy = "write"
    /\ LET t == term[p]  c == net[p][i].cmd
           again == c \in Taken(t) IN
       /\ \/ UNCHANGED left /\ net' = Put(Without(p, i), Replies(p, c))
          \/ Spend("copies") /\ net' = Put(net, Replies(p, c))
       /\ term' = [term EXCEPT ![p] =
                     IF again THEN @
                     ELSE IF Available(p) THEN Admitted(@, c, TRUE)
                     ELSE [@ EXCEPT !.admitted = (c :> "bad") @@ @]]
    /\ UNCHANGED <<hosts, known, policy, linked, shells, cmds, stop, printed, struck>>

\* The head of the queue leaves it with an outcome.
Leaves(p, e, ok, t) ==
    /\ term' = [term EXCEPT ![p] =
                  [t EXCEPT !.queue = Tail(@),
                            !.admitted = IF e.remote
                                           THEN (e.cmd :> IF ok THEN "ok" ELSE "bad") @@ @
                                           ELSE @]]
    /\ IF e.remote
         THEN net' = Put(net, Result(p, e.cmd, ok)) /\ UNCHANGED cmds
         ELSE /\ cmds' = [cmds EXCEPT ![e.cmd] = IF ok THEN "done" ELSE "failed"]
              /\ UNCHANGED net

\* The preparation is over: a command of another generation, of before a stop or
\* without its permission does not start.
StillMay(p, e) ==
    /\ e.remote => policy = "write"
    /\ e.gen = term[p].gen /\ e.cgen = term[p].cgen
    /\ IsHost(p) /\ Available(p)

Launch(p) ==
    /\ term[p].queue # <<>> /\ Head(term[p].queue).phase = "prepare"
    /\ LET t == term[p]  e == Head(t.queue)
           n == IF t.child = None THEN Len(shells) + 1 ELSE t.child
           usable == t.child # None => shells[t.child].alive IN
       \/ /\ StillMay(p, e) /\ usable
          /\ shells' = IF t.child = None
                         THEN Append(shells, [by |-> p, alive |-> TRUE, ran |-> <<e.cmd>>])
                         ELSE [shells EXCEPT ![n].ran = Append(@, e.cmd)]
          /\ term' = [term EXCEPT ![p] =
                        [t EXCEPT !.child = n, !.pending = TRUE,
                                  !.queue = <<[e EXCEPT !.phase = "writing"]>> \o Tail(@)]]
          /\ UNCHANGED <<net, cmds>>
       \/ Leaves(p, e, FALSE, t) /\ UNCHANGED shells   \* refused, or not prepared
    /\ UNCHANGED <<hosts, known, policy, linked, stop, printed, struck, left>>

\* The write to the shell's input has ended; it may fail when the shell is dead.
Written(p) ==
    /\ term[p].queue # <<>> /\ Head(term[p].queue).phase = "writing"
    /\ LET e == Head(term[p].queue)
           n == CHOOSE k \in DOMAIN shells : e.cmd \in Range(shells[k].ran) IN
       \/ Leaves(p, e, TRUE, term[p])
       \/ ~shells[n].alive /\ Leaves(p, e, FALSE, term[p])
    /\ UNCHANGED <<hosts, known, policy, linked, shells, stop, printed, struck, left>>

TakeResult(p, i) ==
    /\ Handled(p, i, {"result"})
    /\ LET m == net[p][i] IN
       /\ term' = [term EXCEPT ![p].waits = @ \ {m.cmd}]
       /\ cmds' = IF m.cmd \in term[p].waits
                    THEN [cmds EXCEPT ![m.cmd] = IF m.ok THEN "done" ELSE "failed"]
                    ELSE cmds
    /\ net' = Without(p, i)
    /\ UNCHANGED <<hosts, known, policy, linked, shells, stop, printed, struck, left>>

\* 15 s without an answer.
GiveUp(p) ==
    /\ \E c \in term[p].waits :
         /\ term' = [term EXCEPT ![p].waits = @ \ {c}]
         /\ cmds' = [cmds EXCEPT ![c] = "unknown"]
    /\ UNCHANGED <<hosts, known, policy, linked, net, shells, stop, printed, struck, left>>

-----------------------------------------------------------------------------
(* The shell, its output and its end *)

\* The commands that were started print something.
Prints(p) ==
    /\ Feeds(term[p].child) /\ ~term[p].pending
    /\ Len(printed[term[p].gen]) < MaxOutput
    /\ term' = [term EXCEPT ![p].pending = TRUE]
    /\ UNCHANGED <<hosts, known, policy, linked, net, shells, cmds, stop, printed,
                   struck, left>>

Flush(p) ==
    /\ Flushes(term[p])
    /\ Logs(term[p])
    /\ term' = [term EXCEPT ![p] = Flushed(@)]
    /\ net' = Put(net, Chunks(p, term[p]))
    /\ UNCHANGED <<hosts, known, policy, linked, shells, cmds, stop, struck, left>>

ShellExits(p) ==
    /\ Feeds(term[p].child)
    /\ Spend("exits")
    /\ shells' = [shells EXCEPT ![term[p].child].alive = FALSE]
    /\ UNCHANGED <<hosts, known, term, policy, linked, net, cmds, stop, printed, struck>>

ShellCloses(p) ==
    /\ term[p].child # None /\ ~shells[term[p].child].alive
    /\ term' = [term EXCEPT ![p].child = None, ![p].pending = TRUE]
    /\ UNCHANGED <<hosts, known, policy, linked, net, shells, cmds, stop, printed,
                   struck, left>>

Killed(n) == IF n = None THEN shells ELSE [shells EXCEPT ![n].alive = FALSE]

(* mutant of ExecutionGeneration: commands admitted since do not change it *)
LooseGeneration(t) == <<t.gen, t.cgen>>

\* executionGeneration: the identity a stop confirmation is bound to.
ExecutionGeneration(t) == <<t.gen, t.cgen, t.adm>>

Fed(n) == IF n = None THEN {} ELSE Range(shells[n].ran)
Queued(t) == {t.queue[i].cmd : i \in {j \in DOMAIN t.queue : t.queue[j].phase = "prepare"}}

\* Ctrl+C: the dialog is bound to what the terminal does now.
AskToStop(p) ==
    /\ IsHost(p) /\ stop.phase = "none" /\ Running(term[p])
    /\ Spend("stops")
    /\ stop' = [phase |-> "asked", by |-> p, clock |-> known[p],
                consent |-> ExecutionGeneration(term[p]),
                seen |-> Fed(term[p].child) \union Queued(term[p]), shell |-> None]
    /\ UNCHANGED <<hosts, known, term, policy, linked, net, shells, cmds, printed, struck>>

\* CONFIRM: admission closes in the same step that validates the dialog.
Confirm ==
    /\ stop.phase = "asked"
    /\ LET p == stop.by  t == term[p] IN
       stop' = IF /\ known[p] = stop.clock
                  /\ Running(t) => ExecutionGeneration(t) = stop.consent
                 THEN [stop EXCEPT !.phase = "gated"]
                 ELSE NoStop
    /\ UNCHANGED <<hosts, known, term, policy, linked, net, shells, cmds, printed,
                   struck, left>>

Dismiss ==
    /\ stop.phase = "asked"
    /\ stop' = NoStop
    /\ UNCHANGED <<hosts, known, term, policy, linked, net, shells, cmds, printed,
                   struck, left>>

\* stopConfirmed up to SIGTERM, then (StopEnds) SIGKILL of the process group.
Strike ==
    /\ stop.phase = "gated"
    /\ LET p == stop.by  t == term[p] IN
       IF IsHost(p) /\ ExecutionGeneration(t) = stop.consent
         THEN /\ term' = [term EXCEPT ![p].cgen = @ + 1, ![p].child = None,
                                      ![p].pending = @ \/ t.child = None]
              /\ struck' = struck \union {[ended |-> Fed(t.child), barred |-> Queued(t),
                                           seen |-> stop.seen]}
              /\ stop' = IF t.child = None THEN NoStop
                         ELSE [stop EXCEPT !.phase = "killing", !.shell = t.child]
         ELSE stop' = NoStop /\ UNCHANGED <<term, struck>>
    /\ UNCHANGED <<hosts, known, policy, linked, net, shells, cmds, printed, left>>

StopEnds ==
    /\ stop.phase = "killing"
    /\ shells' = Killed(stop.shell)
    /\ term' = [term EXCEPT ![stop.by].pending = TRUE]
    /\ stop' = NoStop
    /\ UNCHANGED <<hosts, known, policy, linked, net, cmds, printed, struck, left>>

-----------------------------------------------------------------------------
(* Resets, host changes, restarts and lost routes *)

\* reset: the history ends, waiting requests fail, the shell is killed.
Fresh(t) == [t EXCEPT !.cgen = @ + 1, !.child = None, !.pending = FALSE, !.hist = <<>>,
                      !.seq = 0, !.index = @ + 1, !.gen = t.stream \o <<t.index + 1>>,
                      !.rIndex = -1, !.rStream = <<>>, !.cand = <<>>, !.req = None,
                      !.asked = FALSE, !.recent = {}, !.waits = {}]
Told(t) == [c \in DOMAIN cmds |-> IF c \in t.waits THEN "failed" ELSE cmds[c]]
Begin(g) == printed' = (g :> <<>>) @@ printed

\* The announcement of an empty history: a snapshot nobody asked for.
Announces(p, t) ==
    IF policy = "none" THEN {}
    ELSE {[Frame(p, q, [type |-> "snapshot", gen |-> t.gen, seq |-> 0, hist |-> <<>>,
                        req |-> None]) EXCEPT !.clock = known'[p]] : q \in Others(p)}

\* The host takes another repository: only without a shell and without commands.
ChangeRepository(p) ==
    /\ IsHost(p) /\ ~Running(term[p]) /\ ~Gate(p)
    /\ Spend("resets")
    /\ UNCHANGED known
    /\ LET t == Fresh(term[p]) IN
       /\ term' = [term EXCEPT ![p] = t]
       /\ Begin(t.gen)
       /\ net' = Put(net, Announces(p, t))
    /\ cmds' = Told(term[p])
    /\ UNCHANGED <<hosts, policy, linked, shells, stop, struck>>

\* A participant adopts a new host clock; an open view asks the new host.
Adopt(p, n) ==
    LET t == Fresh(term[p])  q == hosts'[n]
        a == IF q = p THEN t ELSE Asking(t, FALSE) IN
    /\ known' = [known EXCEPT ![p] = n]
    /\ term' = [term EXCEPT ![p] = a]
    /\ shells' = Killed(term[p].child)
    /\ Begin(t.gen)
    /\ net' = Put(net, IF q = p THEN Announces(p, t)
                       ELSE {[from |-> p, to |-> q, clock |-> n, type |-> "ask", req |-> a.req]})
    /\ cmds' = Told(term[p])
    /\ UNCHANGED <<policy, linked, stop, struck>>

BecomeHost(p) ==
    /\ hosts[Len(hosts)] # p
    /\ Spend("changes")
    /\ hosts' = Append(hosts, p)
    /\ Adopt(p, Len(hosts) + 1)

FollowHost(p) ==
    /\ known[p] < Len(hosts)
    /\ hosts' = hosts
    /\ Adopt(p, Len(hosts))
    /\ UNCHANGED left

\* The host's process ends, with its shell, and comes back under the same clock.
RestartHost(p) ==
    /\ IsHost(p) /\ known[p] = Len(hosts)
    /\ Spend("restarts")
    /\ LET t == NewTerminal(p, term[p].stream[2] + 1)
           lost == {term[p].queue[i].cmd : i \in {j \in DOMAIN term[p].queue :
                                                    ~term[p].queue[j].remote}} IN
       /\ term' = [term EXCEPT ![p] = t]
       /\ Begin(t.gen)
       /\ cmds' = [c \in DOMAIN cmds |-> IF c \in lost THEN "unknown" ELSE cmds[c]]
    /\ shells' = [n \in DOMAIN shells |-> IF shells[n].by = p
                                            THEN [shells[n] EXCEPT !.alive = FALSE]
                                            ELSE shells[n]]
    /\ stop' = IF stop.by = p THEN NoStop ELSE stop
    /\ linked' = FALSE
    /\ net' \in {net, Empty}
    /\ UNCHANGED <<hosts, known, policy, struck>>

Cut ==
    /\ linked
    /\ Spend("cuts")
    /\ linked' = FALSE
    /\ net' \in {net, Empty}
    /\ UNCHANGED <<hosts, known, term, policy, shells, cmds, stop, printed, struck>>

\* peerConnected on both sides of every route: the host sends what it shows, the
\* others ask for it.
Everyone == SetToSeq(Peers)

Reconnect ==
    /\ ~linked
    /\ linked' = TRUE
    /\ LET serves == {p \in Peers : IsHost(p) /\ policy # "none"}
           next == [p \in Peers |-> IF p \in serves THEN Flushed(term[p])
                                    ELSE IF IsHost(p) THEN term[p]
                                    ELSE Asking(term[p], TRUE)] IN
       /\ term' = next
       /\ net' = [q \in Peers |->
              net[q] \o FlattenSeq([k \in 1 .. Len(Everyone) |->
                LET p == Everyone[k] IN
                IF p = q THEN <<>>
                ELSE IF p \in serves
                  THEN SetToSeq({m \in Chunks(p, term[p]) : m.to = q})
                       \o SetToSeq(SnapshotFor(p, q, next[p], None))
                  ELSE IF IsHost(p) THEN <<>>
                  ELSE SetToSeq({m \in AskOf(p, next[p]) : m.to = q})])]
       /\ printed' = [g \in DOMAIN printed |->
                        IF \E p \in serves : Flushes(term[p]) /\ term[p].gen = g
                          THEN Append(printed[g], Len(printed[g]) + 1)
                          ELSE printed[g]]
    /\ UNCHANGED <<hosts, known, policy, shells, cmds, stop, struck, left>>

ChangePolicy ==
    /\ Spend("revokes")
    /\ policy' \in {"write", "read", "none"} \ {policy}
    /\ UNCHANGED <<hosts, known, term, linked, net, shells, cmds, stop, printed, struck>>

-----------------------------------------------------------------------------
Delivers(p) == \E i \in DOMAIN net[p] : \/ Dropped(p, i) \/ Watch(p, i) \/ Answer(p, i)
                                       \/ TakeInput(p, i) \/ TakeResult(p, i)

Next ==
    \/ \E p \in Peers :
         \/ \E i \in DOMAIN net[p] : \/ Dropped(p, i) \/ Watch(p, i) \/ Answer(p, i)
                                     \/ TakeInput(p, i) \/ TakeResult(p, i)
         \/ AskAgain(p) \/ ASecondPasses(p) \/ Launch(p) \/ Written(p) \/ GiveUp(p)
         \/ Prints(p) \/ Flush(p) \/ ShellExits(p) \/ ShellCloses(p) \/ AskToStop(p)
         \/ ChangeRepository(p) \/ BecomeHost(p) \/ FollowHost(p) \/ RestartHost(p)
    \/ \E c \in DOMAIN Commands : Type(c)
    \/ Confirm \/ Dismiss \/ Strike \/ StopEnds
    \/ Cut \/ Reconnect \/ ChangePolicy

Spec == Init /\ [][Next]_vars

(* Frames arrive while the routes work, lost routes come back, the timers of the
   terminal run out, and a participant learns who the host is. *)
FairSpec ==
    /\ Spec
    /\ WF_vars(Reconnect)
    /\ \A p \in Peers : /\ WF_vars(Delivers(p)) /\ WF_vars(AskAgain(p)) /\ WF_vars(ASecondPasses(p))
                        /\ WF_vars(Flush(p)) /\ WF_vars(FollowHost(p))

-----------------------------------------------------------------------------
(* A replica shows exactly the (retained) beginning of the history it names, up
   to the number it has counted: no chunk of it is missing, doubled, or of
   another shell, whatever was lost, late or repeated. *)
ShowsWhatWasPrinted ==
    \A p \in Peers : term[p].hist = Retained(SubSeq(printed[term[p].gen], 1, term[p].seq))

(* A replica never returns to an older history of the same host: neither to an
   earlier process of it, nor to a generation before a reset, nor backwards in
   the one it shows. *)
HistoryMovesForward ==
    \A p \in Peers :
      LET a == term[p]  b == term'[p] IN
      (known'[p] = known[p] /\ a.gen[1] # p /\ b.gen[1] = a.gen[1]) =>
        \/ b.gen[2] > a.gen[2]
        \/ b.gen[2] = a.gen[2] /\ b.gen[3] > a.gen[3]
        \/ b.gen = a.gen /\ b.seq >= a.seq

(* A command line is fed to a shell at most once, however often its request is
   delivered, and whoever is told it was accepted has had it fed. *)
Feedings(c) == {<<n, i>> \in (DOMAIN shells) \X (1 .. Cardinality(DOMAIN Commands)) :
                  i <= Len(shells[n].ran) /\ shells[n].ran[i] = c}
FedOnce ==
    \A c \in DOMAIN cmds : /\ Cardinality(Feedings(c)) <= 1
                           /\ cmds[c] = "done" => Feedings(c) # {}

(* A confirmed stop ends exactly what its dialog was about: what it kills or
   bars was there when the dialog opened, and what it bars is never fed to a
   later shell. *)
StopIsExact ==
    \A s \in struck : /\ s.ended \union s.barred \subseteq s.seen
                      /\ \A c \in s.barred : Feedings(c) = {}

(* Once nothing disturbs them any more, every participant that may see the
   terminal ends up showing the host's history. *)
CaughtUp ==
    policy # "none" => \A p \in Peers : LET h == term[hosts[Len(hosts)]] IN
                          term[p].gen = h.gen /\ term[p].hist = h.hist
=============================================================================
