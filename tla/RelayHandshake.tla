---------------------------- MODULE RelayHandshake ----------------------------
(***************************************************************************)
(* The identity handshake two participants run over the emergency relay    *)
(* (src/runtime/mesh.ts, advanceRelayHandshake and its timers).  "a" has   *)
(* the lesser peer id and is the initiator of every transcript.  The relay *)
(* loses, delays and reorders envelopes; a signed envelope is delivered at *)
(* most once (seenRelayEnvelopes), but the same content may be sent twice. *)
(***************************************************************************)
EXTENDS Naturals, Sequences, Bags

CONSTANTS
  MaxTries,      \* attempts before only the sweep retries (6 in the code)
  MaxFaults,     \* bound: envelopes lost, timeouts that fire while envelopes
                 \* are in flight, and routes that one side alone loses
  MaxNonces      \* bound: negotiations one side creates

Side == {"a", "b"}
Other(x) == IF x = "a" THEN "b" ELSE "a"

VARIABLES
  neg,      \* relayNegotiations: nonce 0 is no negotiation
  route,    \* the admitted route: nonce of the other side's handshake, or 0
  tries,    \* relayAttempts
  nonces,   \* nonces generated so far
  net,      \* envelopes in flight
  timers,   \* running negotiation timeouts, oldest first
  sent,     \* envelopes sent for the negotiation in progress
  proved,   \* transcripts each side has signed
  faults    \* faults so far

vars == <<neg, route, tries, nonces, net, timers, sent, proved, faults>>

NoNeg == [nonce |-> 0, remote |-> 0, sentProof |-> FALSE, proof |-> <<>>]

(* handshakeTranscript: the initiator's nonce, then the responder's.        *)
Transcript(x, mine, theirs) == IF x = "a" THEN <<mine, theirs>> ELSE <<theirs, mine>>

Hs(x, n)  == [to |-> Other(x), kind |-> "hs", nonce |-> n, over |-> <<>>]
Pr(x, tr) == [to |-> Other(x), kind |-> "pr", nonce |-> 0, over |-> tr]

Fault == faults < MaxFaults /\ faults' = faults + 1

Without(s, x) == SelectSeq(s, LAMBDA y : y # x)

Init ==
  /\ neg = [x \in Side |-> NoNeg]
  /\ route = [x \in Side |-> 0]
  /\ tries = [x \in Side |-> 0]
  /\ nonces = [x \in Side |-> 0]
  /\ net = EmptyBag
  /\ timers = <<>>
  /\ sent = [x \in Side |-> 0]
  /\ proved = [x \in Side |-> {}]
  /\ faults = 0

(* considerRelayFallback: no route, tries faults, nothing negotiated yet.     *)
MayConsider(x) == route[x] = 0 /\ neg[x].nonce = 0 /\ tries[x] < MaxTries

(* createRelayNegotiation and sendRelayHandshake *)
Start(x) ==
  /\ nonces[x] < MaxNonces
  /\ nonces' = [nonces EXCEPT ![x] = @ + 1]
  /\ neg' = [neg EXCEPT ![x] = [NoNeg EXCEPT !.nonce = nonces[x] + 1]]
  /\ timers' = Append(Without(timers, x), x)
  /\ net' = net (+) SetToBag({Hs(x, nonces[x] + 1)})
  /\ sent' = [sent EXCEPT ![x] = 1]

(* An announcement or a join error asks for the fallback.                   *)
Consider(x) ==
  /\ MayConsider(x)
  /\ Start(x)
  /\ tries' = [tries EXCEPT ![x] = @ + 1]
  /\ UNCHANGED <<route, proved, faults>>

(* Mutant: a spent budget stays spent.                                      *)
SweepWithinBudget(x) == Consider(x)

(* relaySweepTick: a spent budget is renewed, then the same.                *)
Sweep(x) ==
  /\ route[x] = 0 /\ neg[x].nonce = 0
  /\ Start(x)
  /\ tries' = [tries EXCEPT ![x] = IF @ >= MaxTries THEN 1 ELSE @ + 1]
  /\ UNCHANGED <<route, proved, faults>>

(* expireRelayNegotiation: timeouts fire in the order they were armed, and  *)
(* but for a bounded number of times after the relay delivered or lost all. *)
Expire(x) ==
  /\ timers # <<>> /\ Head(timers) = x
  /\ \/ net = EmptyBag /\ UNCHANGED faults
     \/ net # EmptyBag /\ Fault
  /\ IF route[x] = 0 /\ tries[x] < MaxTries
     THEN /\ Start(x)
          /\ tries' = [tries EXCEPT ![x] = @ + 1]
     ELSE /\ neg' = [neg EXCEPT ![x] = NoNeg]
          /\ timers' = Without(timers, x)
          /\ UNCHANGED <<tries, nonces, net, sent>>
  /\ UNCHANGED <<route, proved>>

(* Mutant: any signed proof will do.                                        *)
AnyProof(n, tr) == n.proof # <<>>
Proves(n, tr)   == n.proof = tr

(* A handshake is answered with one's own once.                             *)
Answers(n) == n.remote = 0

(* What the side does with an envelope of its peer, once its negotiation is *)
(* n: it proves as soon as both handshakes are known, and admits the other  *)
(* when a proof over this very pair of nonces is here, replaying its own.   *)
Proceed(x, n, m, hello) ==
  LET tr     == Transcript(x, n.nonce, n.remote)
      proves == n.remote # 0 /\ ~n.sentProof
      admits == n.remote # 0 /\ Proves(n, tr)
      proof  == SetToBag({Pr(x, tr)})
      out    == hello (+) (IF proves THEN proof ELSE EmptyBag)
                      (+) (IF admits THEN proof ELSE EmptyBag)
  IN /\ net' = (net (-) SetToBag({m})) (+) out
     /\ sent' = [sent EXCEPT ![x] = (IF neg[x].nonce = n.nonce THEN @ ELSE 0) + BagCardinality(out)]
     /\ proved' = IF proves THEN [proved EXCEPT ![x] = @ \cup {tr}] ELSE proved
     /\ IF admits
        THEN /\ route' = [route EXCEPT ![x] = n.remote]
             /\ neg' = [neg EXCEPT ![x] = NoNeg]
             /\ tries' = [tries EXCEPT ![x] = 0]
             /\ timers' = Without(timers, x)
        ELSE /\ neg' = [neg EXCEPT ![x] = [n EXCEPT
                          !.sentProof = @ \/ proves,
                          !.proof = IF n.remote # 0 THEN <<>> ELSE @]]
             /\ timers' = IF neg[x].nonce = 0 THEN Append(timers, x) ELSE timers
             /\ UNCHANGED <<route, tries>>

Ignore(m) ==
  /\ net' = net (-) SetToBag({m})
  /\ UNCHANGED <<neg, route, tries, nonces, timers, sent, proved>>

(* A handshake: the one that admitted the present route, or of another      *)
(* attempt than the one whose proof is awaited, is ignored; the first of a  *)
(* negotiation is answered.                                                 *)
ReceiveHs(x, m) ==
  LET n == neg[x] IN
  \/ /\ \/ n.nonce = 0 /\ route[x] = m.nonce
        \/ n.nonce # 0 /\ n.remote \notin {0, m.nonce}
     /\ Ignore(m)
  \/ /\ n.nonce = 0 /\ route[x] # m.nonce /\ nonces[x] < MaxNonces
     /\ nonces' = [nonces EXCEPT ![x] = @ + 1]
     /\ Proceed(x, [NoNeg EXCEPT !.nonce = nonces[x] + 1, !.remote = m.nonce], m,
                SetToBag({Hs(x, nonces[x] + 1)}))
  \/ /\ n.nonce # 0 /\ n.remote \in {0, m.nonce}
     /\ Proceed(x, [n EXCEPT !.remote = m.nonce], m,
                IF Answers(n) THEN SetToBag({Hs(x, n.nonce)}) ELSE EmptyBag)
     /\ UNCHANGED nonces

ReceivePr(x, m) ==
  \/ neg[x].nonce = 0 /\ Ignore(m)
  \/ /\ neg[x].nonce # 0
     /\ Proceed(x, [neg[x] EXCEPT !.proof = m.over], m, EmptyBag)
     /\ UNCHANGED nonces

(* handleRelayData, advanceRelayHandshake *)
Deliver(m) ==
  /\ IF m.kind = "hs" THEN ReceiveHs(m.to, m) ELSE ReceivePr(m.to, m)
  /\ UNCHANGED faults

Lose(m) ==
  /\ Fault
  /\ Ignore(m)

(* One side alone loses its route: the lease begins and tries are renewed.  *)
RouteLost(x) ==
  /\ route[x] # 0 /\ Fault
  /\ route' = [route EXCEPT ![x] = 0]
  /\ IF neg[x].nonce = 0
     THEN /\ Start(x)
          /\ tries' = [tries EXCEPT ![x] = 1]
     ELSE /\ tries' = [tries EXCEPT ![x] = 0]
          /\ UNCHANGED <<neg, nonces, net, timers, sent>>
  /\ UNCHANGED proved

Next ==
  \/ \E x \in Side : Consider(x) \/ Sweep(x) \/ Expire(x) \/ RouteLost(x)
  \/ \E m \in BagToSet(net) : Deliver(m) \/ Lose(m)

Spec == Init /\ [][Next]_vars

(* The relay delivers what it does not lose; the timers fire.               *)
FairSpec ==
  /\ Spec
  /\ WF_vars(\E m \in BagToSet(net) : Deliver(m))
  /\ \A x \in Side : WF_vars(Sweep(x)) /\ WF_vars(Expire(x))

-----------------------------------------------------------------------------
(* A route is admitted only when the other side signed the transcript of    *)
(* exactly the two handshakes this side negotiated: a delayed proof of an   *)
(* earlier attempt never admits anybody (mesh.ts:2192).                     *)
AdmittedIsProved ==
  \A x \in Side : route'[x] \notin {0, route[x]} =>
       \E tr \in proved[Other(x)] : tr = Transcript(x, neg[x].nonce, route'[x])
                                    \/ tr = Transcript(x, nonces'[x], route'[x])

(* However often handshakes are echoed, one negotiation sends at most its   *)
(* handshake, the answer to the first one, the proof and its replay.        *)
ExchangeIsBounded == \A x \in Side : sent[x] <= 4

(* A negotiation always has its timer: a lost envelope cannot block every   *)
(* later attempt (RELAY_NEGOTIATION_TIMEOUT_MS).                            *)
NegotiationsExpire == \A x \in Side : neg[x].nonce # 0 <=> \E i \in DOMAIN timers : timers[i] = x

=============================================================================
