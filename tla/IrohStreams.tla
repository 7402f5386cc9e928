----------------------------- MODULE IrohStreams -----------------------------
(* The QUIC connections between two participants (runtime/irohFrameRelay.ts):
   each of them dials the other every 3 s while it has no connection, both may do
   so at once, and of two that work they keep the one dialed by the participant
   with the smaller id.  A connection that one end closed, or that broke, is known
   to the other end only later.

   At an end a connection goes from "none" over "greeting" (the hello is exchanged)
   to "kept" or "closed".  A slot of the table is used again once both ends are
   done with it.

   Bounds: Slots connections at a time, MaxBreaks failures of the network,
   MaxTimeouts negotiations or dials that take too long, MaxStops participants that
   stop. *)
EXTENDS Naturals, FiniteSets, SequencesExt

CONSTANTS Low, High,     \* the participants, by the order of their ids
          Slots, MaxBreaks, MaxTimeouts, MaxStops

VARIABLES by,       \* [Slots -> the dialer, or Nobody]
          native,   \* [Slots -> "dialing", "open" or "over"]: the QUIC connection
          end,      \* [Slots -> [end -> "none", "greeting", "kept", "closed"]]
          hello,    \* [Slots -> ends whose hello was written]
          broken,   \* slots whose end was noticed, per participant
          pending,  \* participants with a dial under way
          expired,  \* slots whose dialer gave up waiting
          current,  \* [participant -> the slot in `connections`, or Nothing]
          stopped,
          left

vars == <<by, native, end, hello, broken, pending, expired, current, stopped, left>>

Peers == {Low, High}
Other(p) == IF p = Low THEN High ELSE Low
Nobody == "nobody"
Nothing == 0
Spend(b) == left[b] > 0 /\ left' = [left EXCEPT ![b] = @ - 1]

Init ==
    /\ by = [c \in Slots |-> Nobody]
    /\ native = [c \in Slots |-> "over"]
    /\ end = [c \in Slots |-> [p \in Peers |-> "none"]]
    /\ hello = [c \in Slots |-> {}]
    /\ broken = [p \in Peers |-> {}]
    /\ pending = {} /\ expired = {}
    /\ current = [p \in Peers |-> Nothing]
    /\ stopped = {}
    /\ left = [breaks |-> MaxBreaks, timeouts |-> MaxTimeouts, stops |-> MaxStops]

\* closeReason of a connection at one end: it closed it, or was told.
Known(p, c) == end[c][p] = "closed" \/ c \in broken[p]
\* Neither end holds it: the slot is free.
Free(c) == native[c] = "over" /\ \A p \in Peers : end[c][p] \in {"none", "closed"}
Outgoing(p, c) == by[c] = p
(* mutant of Preferred: each end prefers the one it dialed. *)
PreferOwn(p, c) == Outgoing(p, c)
\* Of two connections the one dialed by the smaller id stays.
Preferred(p, c) == Outgoing(p, c) = (p = Low)

\* The attempt of the dialer is over once its greeting is.
Settled(p, c) == pending' = IF Outgoing(p, c) THEN pending \ {p} ELSE pending

\* connection.close at one end: the other learns of it later.
Close(c, p) == end' = [end EXCEPT ![c][p] = "closed"]

(* sendAnnounce, every 3 s: no connection and no dial under way. *)
Dial(p) ==
    \E c \in Slots :
      /\ p \notin stopped /\ current[p] = Nothing /\ p \notin pending
      /\ Free(c) /\ \A d \in Slots : Free(d) => c <= d
      /\ pending' = pending \union {p}
      /\ by' = [by EXCEPT ![c] = p]
      /\ native' = [native EXCEPT ![c] = "dialing"]
      /\ end' = [end EXCEPT ![c] = [q \in Peers |-> "none"]]
      /\ hello' = [hello EXCEPT ![c] = {}]
      /\ broken' = [q \in Peers |-> broken[q] \ {c}]
      /\ expired' = expired \ {c}
      /\ UNCHANGED <<current, stopped, left>>

(* The native dial succeeds at both ends: they start the greeting, or close a
   connection that comes too late or after stop. *)
Connects(c) ==
    LET p == by[c] IN
    /\ native[c] = "dialing"
    /\ native' = [native EXCEPT ![c] = "open"]
    /\ pending' = IF c \in expired \/ p \in stopped THEN pending \ {p} ELSE pending
    /\ end' = [end EXCEPT ![c] = [r \in Peers |->
                 IF r \in stopped \/ (r = p /\ c \in expired) THEN "closed" ELSE "greeting"]]
    /\ UNCHANGED <<by, hello, broken, expired, current, stopped, left>>

(* It fails. *)
DialFails(c) ==
    /\ native[c] = "dialing"
    /\ IF Other(by[c]) \in stopped THEN UNCHANGED left ELSE Spend("timeouts")
    /\ native' = [native EXCEPT ![c] = "over"]
    /\ pending' = pending \ {by[c]}
    /\ UNCHANGED <<by, end, hello, broken, expired, current, stopped>>

(* The dialer stops waiting after 10 s; the native attempt goes on. *)
DialExpires(c) ==
    /\ native[c] = "dialing" /\ c \notin expired /\ Spend("timeouts")
    /\ expired' = expired \union {c}
    /\ UNCHANGED <<by, native, end, hello, broken, pending, current, stopped>>

\* The dialer opens the stream and greets, the other end answers on it.
Greets(p, c) ==
    /\ end[c][p] = "greeting" /\ p \notin hello[c] /\ c \notin broken[p]
    /\ (Outgoing(p, c) \/ Other(p) \in hello[c])
    /\ hello' = [hello EXCEPT ![c] = @ \union {p}]
    /\ UNCHANGED <<by, native, end, broken, pending, expired, current, stopped, left>>

(* establish after the greeting: against a connection that still seems to work
   only the preferred one wins. *)
Wins(p, c) == LET d == current[p] IN d = Nothing \/ Known(p, d) \/ Preferred(p, c)
(* mutant of Establish: the connection that is replaced stays open. *)
EstablishBeside(p, c) ==
    /\ end[c][p] = "greeting" /\ hello[c] = Peers /\ c \notin broken[p]
    /\ IF p \in stopped \/ ~Wins(p, c)
         THEN Close(c, p) /\ UNCHANGED current
         ELSE current' = [current EXCEPT ![p] = c] /\ end' = [end EXCEPT ![c][p] = "kept"]
    /\ Settled(p, c)
    /\ UNCHANGED <<by, native, hello, broken, expired, stopped, left>>

Establish(p, c) ==
    LET d == current[p] IN
    /\ end[c][p] = "greeting" /\ hello[c] = Peers /\ c \notin broken[p]
    /\ IF p \in stopped \/ ~Wins(p, c)
         THEN Close(c, p) /\ UNCHANGED current
         ELSE /\ current' = [current EXCEPT ![p] = c]
              /\ end' = IF d = Nothing \/ Known(p, d) THEN [end EXCEPT ![c][p] = "kept"]
                        ELSE [end EXCEPT ![c][p] = "kept", ![d][p] = "closed"]
    /\ Settled(p, c)
    /\ UNCHANGED <<by, native, hello, broken, expired, stopped, left>>

(* A greeting that fails or takes longer than 10 s closes the connection. *)
GreetingFails(p, c) ==
    /\ end[c][p] = "greeting"
    /\ IF c \in broken[p] THEN UNCHANGED left ELSE Spend("timeouts")
    /\ Close(c, p)
    /\ Settled(p, c)
    /\ UNCHANGED <<by, native, hello, broken, expired, current, stopped>>

(* readFrames ends: the entry goes, unless another connection took its place. *)
ReadingEnds(p, c) ==
    /\ \/ end[c][p] = "kept" /\ c \in broken[p]
       \/ end[c][p] = "closed" /\ current[p] = c
    /\ Close(c, p)
    /\ current' = IF current[p] = c THEN [current EXCEPT ![p] = Nothing] ELSE current
    /\ UNCHANGED <<by, native, hello, broken, pending, expired, stopped, left>>

(* The other end closed it, or the network did: this end is told. *)
Gone(p, c) == native[c] = "over" \/ end[c][Other(p)] = "closed"
Notices(p, c) ==
    /\ native[c] # "dialing" /\ by[c] # Nobody
    /\ end[c][p] \in {"greeting", "kept"} /\ c \notin broken[p] /\ Gone(p, c)
    /\ broken' = [broken EXCEPT ![p] = @ \union {c}]
    /\ UNCHANGED <<by, native, end, hello, pending, expired, current, stopped, left>>

\* Both ends have closed it.
Ends(c) ==
    /\ native[c] = "open" /\ \A p \in Peers : end[c][p] = "closed"
    /\ native' = [native EXCEPT ![c] = "over"]
    /\ UNCHANGED <<by, end, hello, broken, pending, expired, current, stopped, left>>

(* The network breaks a connection; neither end knows yet. *)
Breaks(c) ==
    /\ native[c] = "open" /\ Spend("breaks")
    /\ native' = [native EXCEPT ![c] = "over"]
    /\ UNCHANGED <<by, end, hello, broken, pending, expired, current, stopped>>

(* stop: every connection is closed and forgotten. *)
Stop(p) ==
    /\ p \notin stopped /\ Spend("stops")
    /\ stopped' = stopped \union {p}
    /\ end' = [c \in Slots |-> IF end[c][p] \in {"greeting", "kept"}
                                 THEN [end[c] EXCEPT ![p] = "closed"] ELSE end[c]]
    /\ current' = [current EXCEPT ![p] = Nothing]
    /\ UNCHANGED <<by, native, hello, broken, pending, expired>>

Next ==
    \/ \E p \in Peers : Dial(p) \/ Stop(p)
    \/ \E c \in Slots : Connects(c) \/ DialFails(c) \/ DialExpires(c) \/ Ends(c) \/ Breaks(c)
    \/ \E p \in Peers, c \in Slots :
         \/ Greets(p, c) \/ Establish(p, c) \/ GreetingFails(p, c)
         \/ ReadingEnds(p, c) \/ Notices(p, c)

Spec == Init /\ [][Next]_vars

FairSpec ==
    /\ Spec
    /\ \A p \in Peers : WF_vars(Dial(p))
    /\ \A c \in Slots : WF_vars(Connects(c)) /\ WF_vars(Ends(c))
    /\ \A p \in Peers, c \in Slots :
         /\ WF_vars(Greets(p, c)) /\ WF_vars(Establish(p, c)) /\ WF_vars(c \in broken[p] /\ GreetingFails(p, c))
         /\ WF_vars(ReadingEnds(p, c)) /\ WF_vars(Notices(p, c))

-----------------------------------------------------------------------------
(* When nobody dials or greets and every end knows what became of its
   connections, both participants use the same connection and no other one is
   open: the tie between two dials is decided alike at both ends. *)
Quiet ==
    /\ \A c \in Slots : native[c] # "dialing" /\ \A p \in Peers : end[c][p] # "greeting"
    /\ \A c \in Slots, p \in Peers : end[c][p] = "kept" => ~Gone(p, c)
    /\ \A p \in Peers : current[p] # Nothing => end[current[p]][p] = "kept"
SameConnection ==
    Quiet =>
      /\ current[Low] = current[High]
      /\ \A c \in Slots : native[c] = "open" /\ end[c] # [p \in Peers |-> "closed"] => current[Low] = c

(* Once the network lets them, the two participants are connected for good. *)
Connected == stopped = {} => current[Low] # Nothing /\ current[Low] = current[High]
=============================================================================
