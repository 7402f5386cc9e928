----------------------- MODULE RemoteExecution_proofs -----------------------
(***************************************************************************)
(* What holds of remote execution for every set of requests, every limit   *)
(* of the host, and every fault of the routes and relays: the types, that  *)
(* nothing a guest waits for gets lost except by eviction, and that what   *)
(* the host remembers of a request is enough to launch it once.            *)
(***************************************************************************)
EXTENDS RemoteExecution, TLAPS

\* Concatenation joins the elements, taking the tail adds none.
LEMMA ConcatElems ==
  ASSUME NEW S, NEW s \in Seq(S), NEW t \in Seq(S)
  PROVE  s \o t \in Seq(S) /\ Elems(s \o t) \subseteq Elems(s) \cup Elems(t)
<1>1. s \o t \in Seq(S) /\ Len(s \o t) = Len(s) + Len(t)
  OBVIOUS
<1>2. \A i \in 1..Len(s \o t) :
        (s \o t)[i] = IF i <= Len(s) THEN s[i] ELSE t[i - Len(s)]
  OBVIOUS
<1>3. \A i \in 1..Len(s \o t) : (s \o t)[i] \in Elems(s) \cup Elems(t)
  BY <1>1, <1>2 DEF Elems
<1> QED BY <1>1, <1>3 DEF Elems

LEMMA TailElems ==
  ASSUME NEW S, NEW s \in Seq(S), s # <<>>
  PROVE  Tail(s) \in Seq(S) /\ Elems(Tail(s)) \subseteq Elems(s)
         /\ Head(s) \in S /\ Head(s) \in Elems(s)
BY DEF Elems

LEMMA EmptyElems == ASSUME NEW S PROVE <<>> \in Seq(S) /\ Elems(<<>>) = {}
BY DEF Elems

LEMMA OneElem == ASSUME NEW S, NEW m \in S PROVE <<m>> \in Seq(S) /\ Elems(<<m>>) = {m}
BY DEF Elems

\* Overtaking moves an element of a channel, and neither adds nor loses one.
LEMMA OvertakenElems ==
  ASSUME NEW S, NEW s \in Seq(S), NEW i \in 2..Len(s)
  PROVE  Overtaken(s, i) \in Seq(S) /\ Elems(Overtaken(s, i)) \subseteq Elems(s)
<1> DEFINE o == [j \in 1..Len(s) |-> IF j = 1 THEN s[i] ELSE IF j <= i THEN s[j - 1] ELSE s[j]]
<1>1. \A j \in 1..Len(s) : o[j] \in S /\ o[j] \in Elems(s)
  BY DEF Elems
<1>2. o \in Seq(S) /\ Len(o) = Len(s)
  BY <1>1
<1> QED BY <1>1, <1>2 DEF Overtaken, Elems

\* Frames sent for one request join its channel only, and only with a route.
LEMMA SendElems ==
  ASSUME NEW S, NEW ch \in [Requests -> Seq(S)], NEW r \in Requests, NEW t \in Seq(S)
  PROVE  /\ Send(ch, r, t) \in [Requests -> Seq(S)]
         /\ \A q \in Requests : q # r => Send(ch, r, t)[q] = ch[q]
         /\ Elems(Send(ch, r, t)[r]) \subseteq Elems(ch[r]) \cup Elems(t)
<1>1. ch[r] \o t \in Seq(S) /\ Elems(ch[r] \o t) \subseteq Elems(ch[r]) \cup Elems(t)
  BY ConcatElems
<1> QED BY <1>1 DEF Send

LEMMA DropElems ==
  ASSUME NEW S, NEW ch \in [Requests -> Seq(S)], NEW r \in Requests, ch[r] # <<>>
  PROVE  /\ Drop(ch, r) \in [Requests -> Seq(S)]
         /\ \A q \in Requests : q # r => Drop(ch, r)[q] = ch[q]
         /\ Elems(Drop(ch, r)[r]) \subseteq Elems(ch[r])
         /\ Head(ch[r]) \in S /\ Head(ch[r]) \in Elems(ch[r])
<1>1. /\ Tail(ch[r]) \in Seq(S) /\ Elems(Tail(ch[r])) \subseteq Elems(ch[r])
      /\ Head(ch[r]) \in S /\ Head(ch[r]) \in Elems(ch[r])
  BY TailElems
<1> QED BY <1>1 DEF Drop

-----------------------------------------------------------------------------
(* Frames.                                                                 *)

LEMMA FrameTypes ==
  /\ Requested \in HostBound /\ Acked \in HostBound
  /\ Accepted \in GuestBound /\ Refusal \in GuestBound /\ Moved \in GuestBound
BY DEF HostBound, GuestBound

\* What is kept for replay is a numbered sequence of events.
LEMMA ReplayTypes ==
  ASSUME NEW n \in 0..MaxEvents
  PROVE  LET s == [i \in 1..n |-> Event(i - 1)] IN
         /\ s \in Seq(GuestBound) /\ \A m \in Elems(s) : m.type = "event"
         /\ s \o <<Result(n)>> \in Seq(GuestBound)
         /\ \A m \in Elems(s \o <<Result(n)>>) : m.type \in {"event", "result"}
<1> DEFINE s == [i \in 1..n |-> Event(i - 1)]
<1>1. n \in Nat /\ MaxEvents \in Nat
  BY LimitsAssumption
<1>2. \A i \in 1..n : Event(i - 1) \in GuestBound
  BY <1>1 DEF GuestBound, Numbers
<1>3. s \in Seq(GuestBound) /\ Len(s) = n
  BY <1>1, <1>2
<1>4. \A m \in Elems(s) : m.type = "event"
  BY <1>3 DEF Elems, Event
<1>5. Result(n) \in GuestBound /\ Result(n).type = "result"
  BY DEF GuestBound, Result
<1>6. <<Result(n)>> \in Seq(GuestBound) /\ Elems(<<Result(n)>>) = {Result(n)}
  BY <1>5, OneElem
<1>7. s \o <<Result(n)>> \in Seq(GuestBound)
      /\ Elems(s \o <<Result(n)>>) \subseteq Elems(s) \cup {Result(n)}
  <2> HIDE DEF s
  <2> QED BY <1>3, <1>6, ConcatElems
<1> QED BY <1>3, <1>4, <1>5, <1>7

LEMMA DeliveryTypes ==
  ASSUME NEW r \in Requests, events \in [Requests -> 0..MaxEvents]
  PROVE  /\ DeliverActive(r) \in Seq(GuestBound)
         /\ DeliverCompleted(r) \in Seq(GuestBound)
         /\ <<Accepted>> \o DeliverCompleted(r) \in Seq(GuestBound)
<1>1. Events(r) \in Seq(GuestBound) /\ DeliverCompleted(r) \in Seq(GuestBound)
  BY ReplayTypes DEF Events, DeliverCompleted
<1>2. <<Accepted>> \in Seq(GuestBound)
  BY FrameTypes, OneElem
<1> QED BY <1>1, <1>2, ConcatElems DEF DeliverActive

LEMMA InitTypes == Init => TypeOK
<1> SUFFICES ASSUME Init PROVE TypeOK
  OBVIOUS
<1>1. GuestTypes
  BY LimitsAssumption DEF Init, GuestTypes, Phases
<1>2. RunTypes
  BY LimitsAssumption DEF Init, RunTypes
<1>3. HostTypes
  BY DEF Init, HostTypes
<1>4. ChannelTypes
  BY EmptyElems DEF Init, ChannelTypes
<1> QED BY <1>1, <1>2, <1>3, <1>4 DEF TypeOK

\* Settling an executeCell call keeps the types of the guest.
LEMMA SettleTypes ==
  ASSUME GuestTypes, NEW r \in Requests, NEW outcome \in Phases, Settle(r, outcome),
         next' \in [Requests -> 0..MaxEvents], receipts' \subseteq Requests
  PROVE  GuestTypes'
BY DEF Settle, GuestTypes

LEMMA ResolveTypes ==
  ASSUME GuestTypes, ChannelTypes, NEW r \in Requests, NEW outcome \in Phases,
         Resolve(r, outcome), next' \in [Requests -> 0..MaxEvents]
  PROVE  GuestTypes' /\ toHost' \in [Requests -> Seq(HostBound)]
<1>1. <<Acked>> \in Seq(HostBound)
  BY FrameTypes, OneElem
<1>2. toHost' \in [Requests -> Seq(HostBound)]
  BY <1>1, SendElems DEF Resolve, ChannelTypes
<1>3. receipts' \subseteq Requests
  BY DEF Resolve, GuestTypes
<1> QED BY <1>2, <1>3, SettleTypes DEF Resolve

\* What the guest does by itself keeps every type.
LEMMA GuestTypesKept ==
  ASSUME TypeOK, NEW r \in Requests,
         Submit(r) \/ Synchronized(r) \/ NotAccepted(r) \/ SendRequest(r) \/ ReceiptExpires(r)
  PROVE  TypeOK'
<1>0. GuestTypes /\ RunTypes /\ HostTypes /\ ChannelTypes
  BY DEF TypeOK
<1>1. RunTypes' /\ HostTypes'
  BY <1>0 DEF Submit, Synchronized, NotAccepted, SendRequest, ReceiptExpires, runVars, hostVars,
              RunTypes, HostTypes
<1>2. GuestTypes'
  <2>1. CASE NotAccepted(r)
    BY <1>0, <2>1, SettleTypes DEF NotAccepted, GuestTypes, Phases
  <2>2. CASE ~NotAccepted(r)
    BY <1>0, <2>2 DEF Submit, Synchronized, SendRequest, ReceiptExpires, guestVars, GuestTypes, Phases
  <2> QED BY <2>1, <2>2
<1>3. ChannelTypes'
  <2>1. CASE SendRequest(r)
    <3>1. <<Requested>> \in Seq(HostBound)
      BY FrameTypes, OneElem
    <3>2. toHost' \in [Requests -> Seq(HostBound)]
      BY <1>0, <2>1, <3>1, SendElems DEF SendRequest, ChannelTypes
    <3> QED BY <1>0, <2>1, <3>2 DEF SendRequest, ChannelTypes
  <2>2. CASE ~SendRequest(r)
    BY <1>0, <2>2 DEF Submit, Synchronized, NotAccepted, ReceiptExpires, ChannelTypes
  <2> QED BY <2>1, <2>2
<1> QED BY <1>1, <1>2, <1>3 DEF TypeOK

\* Every frame the guest receives keeps every type.
LEMMA GuestReceivesTypes ==
  ASSUME TypeOK, NEW r \in Requests, GuestReceives(r)
  PROVE  TypeOK'
<1>0. GuestTypes /\ RunTypes /\ HostTypes /\ ChannelTypes
  BY DEF TypeOK
<1>1. toGuest[r] # <<>> /\ toGuest \in [Requests -> Seq(GuestBound)]
  BY <1>0 DEF GuestReceives, ChannelTypes
<1>2. Drop(toGuest, r) \in [Requests -> Seq(GuestBound)] /\ Head(toGuest[r]) \in GuestBound
  BY <1>1, DropElems
<1>3. RunTypes' /\ HostTypes' /\ up' \in BOOLEAN /\ used' = used
      /\ toGuest' \in [Requests -> Seq(GuestBound)]
  BY <1>0, <1>2 DEF GuestReceives, OnAccepted, OnEvent, OnResult, OnMoved, runVars, hostVars,
              RunTypes, HostTypes, ChannelTypes
<1>4. SUFFICES GuestTypes' /\ toHost' \in [Requests -> Seq(HostBound)]
  BY <1>0, <1>3 DEF TypeOK, ChannelTypes
<1>5. CASE OnAccepted(r)
  BY <1>0, <1>5 DEF OnAccepted, GuestTypes, ChannelTypes
<1>6. CASE OnEvent(r)
  <2> DEFINE n == Head(toGuest[r]).n
  <2>1. n \in Numbers
    BY <1>2, <1>6 DEF OnEvent, GuestBound, Accepted, Refusal, Moved, Event, Result
  <2>2. CASE Renders(r, n)
    <3>1. PICK k \in (n + 1)..MaxEvents :
            /\ next' = [next EXCEPT ![r] = k]
            /\ \/ Resolve(r, "ran")
               \/ /\ accepted' = [accepted EXCEPT ![r] = TRUE]
                  /\ buffered' = [buffered EXCEPT ![r] = @ \ ((n + 1)..k)]
                  /\ UNCHANGED <<phase, deferred, receipts, toHost>>
      BY <2>2 DEF Renders
    <3>2. next' \in [Requests -> 0..MaxEvents]
      BY <1>0, <2>1, <3>1, LimitsAssumption DEF GuestTypes, Numbers
    <3>3. CASE Resolve(r, "ran")
      BY <1>0, <3>2, <3>3, ResolveTypes DEF Phases
    <3>4. CASE ~Resolve(r, "ran")
      BY <1>0, <3>1, <3>2, <3>4 DEF GuestTypes, ChannelTypes
    <3> QED BY <3>3, <3>4
  <2>3. CASE Buffers(r, n)
    BY <1>0, <2>1, <2>3 DEF Buffers, GuestTypes, ChannelTypes
  <2>4. CASE accepted' = [accepted EXCEPT ![r] = TRUE]
               /\ UNCHANGED <<phase, next, buffered, deferred, receipts, toHost>>
    BY <1>0, <2>4 DEF GuestTypes, ChannelTypes
  <2>5. CASE UNCHANGED <<guestVars, toHost>>
    BY <1>0, <2>5 DEF guestVars, GuestTypes, ChannelTypes
  <2> QED BY <1>6, <2>2, <2>3, <2>4, <2>5 DEF OnEvent
<1>7. CASE OnResult(r)
  <2> DEFINE m == Head(toGuest[r])
             outcome == IF m.type = "result" THEN "ran" ELSE "refused"
  <2>1. m.n \in 0..MaxEvents
    BY <1>2, <1>7, LimitsAssumption DEF OnResult, GuestBound, Accepted, Refusal, Moved, Event, Result, Numbers
  <2>2. outcome \in Phases /\ next' = next
    BY <1>7 DEF Phases, OnResult
  <2>3. CASE Open(r)
    <3>1. ResultFor(r, m.n, outcome)
      BY <1>7, <2>3 DEF OnResult
    <3> HIDE DEF m, outcome
    <3>2. CASE Resolve(r, outcome)
      BY <1>0, <2>2, <3>2, ResolveTypes DEF GuestTypes
    <3>3. CASE Settle(r, "failed") /\ UNCHANGED <<receipts, toHost>>
      BY <1>0, <2>2, <3>3, SettleTypes DEF GuestTypes, ChannelTypes, Phases
    <3>4. CASE deferred' = [deferred EXCEPT ![r] = m.n] /\ UNCHANGED <<phase, accepted, buffered, receipts, toHost>>
      BY <1>0, <2>1, <2>2, <3>4 DEF GuestTypes, ChannelTypes
    <3> QED BY <3>1, <3>2, <3>3, <3>4 DEF ResultFor
  <2>4. CASE ~Open(r)
    <3>1. <<Acked>> \in Seq(HostBound)
      BY FrameTypes, OneElem
    <3>2. Send(toHost, r, <<Acked>>) \in [Requests -> Seq(HostBound)]
      BY <1>0, <3>1, SendElems DEF ChannelTypes
    <3>3. toHost' \in [Requests -> Seq(HostBound)]
      BY <1>0, <1>7, <2>4, <3>2 DEF OnResult, ChannelTypes
    <3> QED BY <1>0, <1>7, <2>4, <3>3 DEF OnResult, GuestTypes
  <2> QED BY <2>3, <2>4
<1>8. CASE OnMoved(r)
  <2>1. next' = next /\ receipts' = receipts /\ toHost' = toHost
    BY <1>8 DEF OnMoved
  <2>2. CASE Open(r)
    BY <1>0, <1>8, <2>1, <2>2, SettleTypes DEF OnMoved, GuestTypes, ChannelTypes, Phases
  <2>3. CASE ~Open(r)
    BY <1>0, <1>8, <2>1, <2>3 DEF OnMoved, GuestTypes, ChannelTypes
  <2> QED BY <2>2, <2>3
<1> QED BY <1>5, <1>6, <1>7, <1>8 DEF GuestReceives

\* Answering keeps the channel to the guest well-typed.
LEMMA AnswerTypes ==
  ASSUME ChannelTypes, NEW r \in Requests, NEW t \in Seq(GuestBound), Answer(r, t)
  PROVE  toGuest' \in [Requests -> Seq(GuestBound)]
BY SendElems DEF Answer, ChannelTypes

LEMMA ShortAnswers ==
  <<Accepted>> \in Seq(GuestBound) /\ <<Refusal>> \in Seq(GuestBound) /\ <<Moved>> \in Seq(GuestBound)
BY FrameTypes, OneElem

LEMMA AdmitTypes ==
  ASSUME RunTypes, ChannelTypes, NEW r \in Requests, Admit(r)
  PROVE  /\ owner' \in [Requests -> {"none", "waiting", "preparing", "running"}]
         /\ events' \in [Requests -> 0..MaxEvents]
         /\ toGuest' \in [Requests -> Seq(GuestBound)]
<1>1. toGuest' \in [Requests -> Seq(GuestBound)]
  BY AnswerTypes, ShortAnswers DEF Admit
<1>2. 0 \in 0..MaxEvents
  BY LimitsAssumption
<1> QED BY <1>1, <1>2 DEF Admit, SetOwner, RunTypes

LEMMA GiveUpTypes ==
  ASSUME RunTypes, ChannelTypes, NEW r \in Requests, GiveUp(r)
  PROVE  /\ owner' \in [Requests -> {"none", "waiting", "preparing", "running"}]
         /\ toGuest' \in [Requests -> Seq(GuestBound)]
<1>1. toGuest' \in [Requests -> Seq(GuestBound)]
  BY AnswerTypes, ShortAnswers DEF GiveUp, Refuse
<1> QED BY <1>1 DEF GiveUp, SetOwner, RunTypes

LEMMA RememberTypes ==
  ASSUME RunTypes, ChannelTypes, NEW r \in Requests, NEW n \in 0..MaxEvents, Remember(r, n)
  PROVE  /\ completed' \subseteq Requests /\ evicted' \subseteq Requests
         /\ events' \in [Requests -> 0..MaxEvents]
         /\ toGuest' \in [Requests -> Seq(GuestBound)]
<1>1. toGuest' \in [Requests -> Seq(GuestBound)]
  BY ReplayTypes, SendElems DEF Remember, ChannelTypes
<1>2. PICK gone \in Evictable(completed \ {r}) :
        completed' = (completed \ gone) \cup {r} /\ evicted' = evicted \cup gone
  BY DEF Remember
<1>3. gone \subseteq completed
  BY DEF Evictable
<1> QED BY <1>1, <1>2, <1>3 DEF Remember, RunTypes

\* What the host decides about a request keeps every type.
LEMMA RequestTypesKept ==
  ASSUME TypeOK, NEW r \in Requests, RequestNext(r)
  PROVE  TypeOK'
<1>0. GuestTypes /\ RunTypes /\ HostTypes /\ ChannelTypes
  BY DEF TypeOK
<1>1. GuestTypes'
  BY <1>0 DEF RequestNext, OnRequest, OnAck, CellConverges, CellAdvances, WaitTimeout,
              WaitingCancelled, guestVars, GuestTypes
<1>2. SUFFICES RunTypes' /\ HostTypes' /\ ChannelTypes'
  BY <1>1 DEF TypeOK
<1>3. CASE OnRequest(r)
  <2>1. Drop(toHost, r) \in [Requests -> Seq(HostBound)]
    BY <1>0, <1>3, DropElems DEF OnRequest, ChannelTypes
  <2>2. CASE Replays(r)
    <3>1. DeliverActive(r) \in Seq(GuestBound) /\ <<Accepted>> \o DeliverCompleted(r) \in Seq(GuestBound)
      BY <1>0, DeliveryTypes DEF RunTypes
    <3>2. toGuest' \in [Requests -> Seq(GuestBound)]
      BY <1>0, <2>2, <3>1, AnswerTypes DEF Replays, ChannelTypes
    <3> QED BY <1>0, <1>3, <2>1, <2>2, <3>2
            DEF OnRequest, Replays, hostVars, RunTypes, HostTypes, ChannelTypes
  <2>3. CASE Decides(r)
    <3>1. /\ owner' \in [Requests -> {"none", "waiting", "preparing", "running"}]
          /\ events' \in [Requests -> 0..MaxEvents]
          /\ toGuest' \in [Requests -> Seq(GuestBound)]
      <4>1. CASE Refuse(r) /\ UNCHANGED <<owner, events>>
        BY <1>0, <4>1, AnswerTypes, ShortAnswers DEF Refuse, RunTypes
      <4>2. CASE Admit(r)
        BY <1>0, <4>2, AdmitTypes
      <4>3. CASE SetOwner(r, "waiting") /\ UNCHANGED <<events, toGuest>>
        BY <1>0, <4>3 DEF SetOwner, RunTypes, ChannelTypes
      <4> QED BY <2>3, <4>1, <4>2, <4>3 DEF Decides
    <3> QED BY <1>0, <1>3, <2>1, <3>1 DEF OnRequest, hostVars, RunTypes, HostTypes, ChannelTypes
  <2> QED BY <1>3, <2>2, <2>3 DEF OnRequest
<1>4. CASE OnAck(r)
  <2>1. Drop(toHost, r) \in [Requests -> Seq(HostBound)]
    BY <1>0, <1>4, DropElems DEF OnAck, ChannelTypes
  <2> QED BY <1>0, <1>4, <2>1 DEF OnAck, Forget, hostVars, RunTypes, HostTypes, ChannelTypes
<1>5. CASE CellConverges(r)
  <2>1. /\ owner' \in [Requests -> {"none", "waiting", "preparing", "running"}]
        /\ events' \in [Requests -> 0..MaxEvents]
        /\ toGuest' \in [Requests -> Seq(GuestBound)]
    <3>1. CASE Admit(r)
      BY <1>0, <3>1, AdmitTypes
    <3>2. CASE GiveUp(r) /\ UNCHANGED events
      BY <1>0, <3>2, GiveUpTypes DEF RunTypes
    <3>3. CASE UNCHANGED <<owner, events, toGuest>>
      BY <1>0, <3>3 DEF RunTypes, ChannelTypes
    <3> QED BY <1>5, <3>1, <3>2, <3>3 DEF CellConverges
  <2> QED BY <1>0, <1>5, <2>1 DEF CellConverges, RunTypes, HostTypes, ChannelTypes
<1>6. CASE CellAdvances(r) \/ WaitTimeout(r)
  <2>1. /\ owner' \in [Requests -> {"none", "waiting", "preparing", "running"}]
        /\ toGuest' \in [Requests -> Seq(GuestBound)]
    <3>1. CASE GiveUp(r)
      BY <1>0, <3>1, GiveUpTypes
    <3>2. CASE UNCHANGED <<owner, toGuest>>
      BY <1>0, <3>2 DEF RunTypes, ChannelTypes
    <3> QED BY <1>6, <3>1, <3>2 DEF CellAdvances, WaitTimeout
  <2> QED BY <1>0, <1>6, <2>1 DEF CellAdvances, WaitTimeout, hostVars, RunTypes, HostTypes, ChannelTypes
<1>7. CASE WaitingCancelled(r)
  <2>1. 0 \in 0..MaxEvents
    BY LimitsAssumption
  <2>2. /\ completed' \subseteq Requests /\ evicted' \subseteq Requests
        /\ events' \in [Requests -> 0..MaxEvents]
        /\ toGuest' \in [Requests -> Seq(GuestBound)]
    BY <1>0, <1>7, <2>1, RememberTypes DEF WaitingCancelled
  <2> QED BY <1>0, <1>7, <2>2 DEF WaitingCancelled, SetOwner, RunTypes, HostTypes, ChannelTypes
<1> QED BY <1>3, <1>4, <1>5, <1>6, <1>7 DEF RequestNext

\* The run and the delivery of its result keep every type.
LEMMA RunTypesKept ==
  ASSUME TypeOK, NEW r \in Requests, RunNext(r)
  PROVE  TypeOK'
<1>0. GuestTypes /\ RunTypes /\ HostTypes /\ ChannelTypes
  BY DEF TypeOK
<1>1. GuestTypes'
  BY <1>0 DEF RunNext, Launch, Emit, RunEnds, Redeliver, CompletedExpires, guestVars, GuestTypes
<1>2. SUFFICES RunTypes' /\ HostTypes' /\ ChannelTypes'
  BY <1>1 DEF TypeOK
<1>3. CASE Launch(r)
  BY <1>0, <1>3 DEF Launch, SetOwner, hostVars, RunTypes, HostTypes, ChannelTypes
<1>4. CASE Emit(r)
  <2>1. events[r] \in Numbers /\ events[r] + 1 \in 0..MaxEvents
    BY <1>0, <1>4, LimitsAssumption DEF Emit, RunTypes, Numbers
  <2>2. <<Event(events[r])>> \in Seq(GuestBound)
    BY <2>1, OneElem DEF GuestBound
  <2>3. toGuest' \in [Requests -> Seq(GuestBound)]
    BY <1>0, <1>4, <2>2, AnswerTypes DEF Emit
  <2> QED BY <1>0, <1>4, <2>1, <2>3 DEF Emit, hostVars, RunTypes, HostTypes, ChannelTypes
<1>5. CASE RunEnds(r)
  <2>1. /\ completed' \subseteq Requests /\ evicted' \subseteq Requests
        /\ events' \in [Requests -> 0..MaxEvents]
        /\ toGuest' \in [Requests -> Seq(GuestBound)]
    BY <1>0, <1>5, RememberTypes DEF RunEnds, RunTypes
  <2> QED BY <1>0, <1>5, <2>1 DEF RunEnds, SetOwner, RunTypes, HostTypes, ChannelTypes
<1>6. CASE Redeliver(r)
  <2>1. DeliverCompleted(r) \in Seq(GuestBound)
    BY <1>0, DeliveryTypes DEF RunTypes
  <2>2. toGuest' \in [Requests -> Seq(GuestBound)]
    BY <1>0, <1>6, <2>1, AnswerTypes DEF Redeliver
  <2> QED BY <1>0, <1>6, <2>2 DEF Redeliver, runVars, hostVars, RunTypes, HostTypes, ChannelTypes
<1>7. CASE CompletedExpires(r)
  BY <1>0, <1>7 DEF CompletedExpires, Forget, hostVars, RunTypes, HostTypes, ChannelTypes
<1> QED BY <1>3, <1>4, <1>5, <1>6, <1>7 DEF RunNext

LEMMA SpendTypes ==
  ASSUME ChannelTypes, NEW what \in {"losses", "faults", "stops"}, Spend(what)
  PROVE  used' \in [{"losses", "faults", "stops"} -> Nat]
BY DEF Spend, ChannelTypes

\* Stops, moves of the target and what happens to the routes keep every type.
LEMMA SessionTypesKept ==
  ASSUME TypeOK, SessionNext
  PROVE  TypeOK'
<1>0. GuestTypes /\ RunTypes /\ HostTypes /\ ChannelTypes
  BY DEF TypeOK
<1>1. CASE StopConfirmed \/ StopEnds
  <2>1. used' \in [{"losses", "faults", "stops"} -> Nat]
    BY <1>0, <1>1 DEF StopConfirmed, StopEnds, Spend, ChannelTypes
  <2> QED BY <1>0, <1>1, <2>1 DEF StopConfirmed, StopEnds, Owners, guestVars, runVars,
                                  GuestTypes, RunTypes, HostTypes, ChannelTypes, TypeOK
<1>2. CASE ComputeChanges \/ HandoverCommits
  <2>1. \A r \in Requests : Append(toGuest[r], Moved) \in Seq(GuestBound)
    BY <1>0, FrameTypes DEF ChannelTypes
  <2>2. toGuest' \in [Requests -> Seq(GuestBound)] /\ target' \in {"here", "changed", "handed"}
    BY <1>0, <1>2, <2>1 DEF ComputeChanges, HandoverCommits, Announce, ChannelTypes
  <2> QED BY <1>0, <1>2, <2>2 DEF ComputeChanges, HandoverCommits, guestVars, runVars,
                                  GuestTypes, RunTypes, HostTypes, ChannelTypes, TypeOK
<1>3. CASE HandoverBegins \/ HandoverFails
  BY <1>0, <1>3 DEF HandoverBegins, HandoverFails, guestVars, runVars,
                    GuestTypes, RunTypes, HostTypes, ChannelTypes, TypeOK
<1>4. CASE PeerDisconnected
  <2>1. GuestTypes'
    BY <1>0, <1>4 DEF PeerDisconnected, GuestTypes, Phases
  <2> QED BY <1>0, <1>4, <2>1 DEF PeerDisconnected, runVars, hostVars,
                                  RunTypes, HostTypes, ChannelTypes, TypeOK
<1>5. CASE LinkDown
  <2>1. <<>> \in Seq(HostBound) /\ <<>> \in Seq(GuestBound)
    BY EmptyElems
  <2>2. used' \in [{"losses", "faults", "stops"} -> Nat]
    BY <1>0, <1>5, SpendTypes DEF LinkDown
  <2>3. ChannelTypes'
    BY <1>0, <1>5, <2>1, <2>2 DEF LinkDown, ChannelTypes
  <2> QED BY <1>0, <1>5, <2>3 DEF LinkDown, guestVars, runVars, hostVars,
                                  GuestTypes, RunTypes, HostTypes, TypeOK
<1>6. CASE LinkUp
  <2>1. \A r \in Requests : DeliverActive(r) \in Seq(GuestBound) /\ DeliverCompleted(r) \in Seq(GuestBound)
    BY <1>0, DeliveryTypes DEF RunTypes
  <2>2. \A r \in Requests : toGuest'[r] \in Seq(GuestBound)
    <3> SUFFICES ASSUME NEW r \in Requests PROVE toGuest'[r] \in Seq(GuestBound)
      OBVIOUS
    <3> DEFINE a == IF target = "changed" THEN <<Moved>> ELSE <<>>
               b == IF Retained(r) THEN DeliverCompleted(r)
                    ELSE IF Running(r) THEN DeliverActive(r) ELSE <<>>
    <3>1. a \in Seq(GuestBound) /\ b \in Seq(GuestBound)
      BY <2>1, ShortAnswers, EmptyElems
    <3>2. toGuest'[r] = a \o b
      BY <1>6 DEF LinkUp
    <3> HIDE DEF a, b
    <3> QED BY <3>1, <3>2, ConcatElems
  <2>3. ChannelTypes'
    BY <1>0, <1>6, <2>2 DEF LinkUp, ChannelTypes
  <2> QED BY <1>0, <1>6, <2>3 DEF LinkUp, guestVars, runVars, hostVars,
                                  GuestTypes, RunTypes, HostTypes, TypeOK
<1>7. ASSUME NEW r \in Requests, RelayReorders(r) \/ RelayLoses(r) PROVE TypeOK'
  <2>0. used' \in [{"losses", "faults", "stops"} -> Nat]
    BY <1>0, <1>7, SpendTypes DEF RelayReorders, RelayLoses
  <2>1. toHost' \in [Requests -> Seq(HostBound)] /\ toGuest' \in [Requests -> Seq(GuestBound)]
    <3>1. CASE RelayReorders(r)
      <4>1. /\ \A i \in 2..Len(toHost[r]) : Overtaken(toHost[r], i) \in Seq(HostBound)
            /\ \A i \in 2..Len(toGuest[r]) : Overtaken(toGuest[r], i) \in Seq(GuestBound)
        BY <1>0, OvertakenElems DEF ChannelTypes
      <4> QED BY <1>0, <3>1, <4>1 DEF RelayReorders, ChannelTypes
    <3>2. CASE RelayLoses(r)
      <4>1. /\ toHost[r] # <<>> => Drop(toHost, r) \in [Requests -> Seq(HostBound)]
            /\ toGuest[r] # <<>> => Drop(toGuest, r) \in [Requests -> Seq(GuestBound)]
        BY <1>0, DropElems DEF ChannelTypes
      <4> QED BY <1>0, <3>2, <4>1 DEF RelayLoses, ChannelTypes
    <3> QED BY <1>7, <3>1, <3>2
  <2> QED BY <1>0, <1>7, <2>0, <2>1 DEF RelayReorders, RelayLoses, guestVars, runVars, hostVars,
                                  GuestTypes, RunTypes, HostTypes, ChannelTypes, TypeOK
<1> QED BY <1>1, <1>2, <1>3, <1>4, <1>5, <1>6, <1>7 DEF SessionNext

LEMMA NextTypes == TypeOK /\ [Next]_vars => TypeOK'
<1> SUFFICES ASSUME TypeOK, [Next]_vars PROVE TypeOK'
  OBVIOUS
<1>1. CASE Next
  BY <1>1, GuestTypesKept, GuestReceivesTypes, RequestTypesKept, RunTypesKept, SessionTypesKept
     DEF Next, GuestNext
<1>2. CASE UNCHANGED vars
  BY <1>2 DEF vars, guestVars, runVars, hostVars, TypeOK, GuestTypes, RunTypes, HostTypes, ChannelTypes
<1> QED BY <1>1, <1>2

\* The guest, the host and the channels keep their types, whatever is lost,
\* reordered, stopped or moved.
THEOREM TypeCorrect == Spec => []TypeOK
BY InitTypes, NextTypes, PTL DEF Spec

-----------------------------------------------------------------------------
(* KeptInv is inductive.                                                   *)

Settled == {"ran", "refused", "failed"}
Before == {"idle", "sync"}

\* The run of a request, its retained result, or the eviction of the result.
Backed(q) == Running(q) \/ Retained(q) \/ q \in evicted
Tells == {"accepted", "event"}

LEMMA FramesTell ==
  /\ Accepted.type \in Tells /\ Refusal.type \notin Tells /\ Moved.type \notin Tells
  /\ \A n : Event(n).type \in Tells /\ Result(n).type \notin Tells
  /\ Requested # Acked
BY DEF Accepted, Refusal, Moved, Event, Result, Tells, Requested, Acked

\* For a request that is settled there is nothing to keep.
LEMMA SettledIsKept ==
  ASSUME NEW q \in Requests, phase'[q] \in Settled
  PROVE  KeptFor(q)'
BY DEF KeptFor, NothingYet, AckMeansSettled, AcceptanceBacked, LaunchBacked, Open, Settled

\* A step that neither tells the guest anything new nor takes anything back from
\* the host keeps a request, be it that the result is evicted.
LEMMA UndisturbedIsKept ==
  ASSUME NEW q \in Requests, KeptFor(q),
         phase'[q] = phase[q], accepted'[q] = accepted[q],
         launches'[q] = launches[q], owner'[q] = owner[q],
         Elems(toHost'[q]) \subseteq Elems(toHost[q]), toHost[q] = <<>> => toHost'[q] = <<>>,
         Elems(toGuest'[q]) \subseteq Elems(toGuest[q]) \cup {Moved},
         q \in receipts' => q \in receipts,
         q \in completed' => q \in completed,
         q \in completed => q \in completed' \/ q \in evicted',
         q \in evicted => q \in evicted'
  PROVE  KeptFor(q)'
<1>1. NothingYet(q)' /\ AckMeansSettled(q)' /\ LaunchBacked(q)'
  BY DEF KeptFor, NothingYet, AckMeansSettled, LaunchBacked, Open, Retained
<1>2. AcceptanceBacked(q)'
  BY FramesTell DEF KeptFor, AcceptanceBacked, Open, Retained, Running, Tells
<1> QED BY <1>1, <1>2 DEF KeptFor

\* The guest learns of a run the host has.
LEMMA InformedIsKept ==
  ASSUME NEW q \in Requests, KeptFor(q), phase'[q] = phase[q], phase[q] \notin Before,
         Open(q) => Backed(q),
         UNCHANGED <<receipts, runVars>>, Elems(toHost'[q]) \subseteq Elems(toHost[q])
  PROVE  KeptFor(q)'
BY DEF KeptFor, NothingYet, AckMeansSettled, AcceptanceBacked, LaunchBacked, Open, Retained,
       Running, Backed, runVars, Before

\* The host tells only of what it has, and what backs the request stays.
LEMMA ServedIsKept ==
  ASSUME NEW q \in Requests, KeptFor(q), UNCHANGED <<phase, accepted, receipts>>,
         phase[q] \notin Before, Elems(toHost'[q]) \subseteq Elems(toHost[q]),
         Backed(q) => Backed(q)',
         \A m \in Elems(toGuest'[q]) :
           m \in Elems(toGuest[q]) \/ m.type \notin Tells \/ Backed(q)',
         launches'[q] > 0 => launches[q] > 0 \/ owner'[q] = "running",
         owner[q] = "running" => owner'[q] = "running" \/ q \in completed',
         q \in completed \cup evicted => q \in completed' \cup evicted'
  PROVE  KeptFor(q)'
<1>1. NothingYet(q)' /\ AckMeansSettled(q)' /\ LaunchBacked(q)'
  BY DEF KeptFor, NothingYet, AckMeansSettled, LaunchBacked, Open, Retained, Before
<1>2. AcceptanceBacked(q)'
  BY DEF KeptFor, AcceptanceBacked, Open, Backed, Tells
<1> QED BY <1>1, <1>2 DEF KeptFor

\* A frame on its way to the host, or one that tells of a run, or an owner means
\* that the request was sent.
LEMMA WasSent ==
  ASSUME NEW q \in Requests, KeptFor(q),
         \/ toHost[q] # <<>> \/ owner[q] # "none" \/ Retained(q)
         \/ \E m \in Elems(toGuest[q]) : m # Moved
  PROVE  phase[q] \notin Before
BY DEF KeptFor, NothingYet, Before

LEMMA InitKept == Init => KeptInv
<1> SUFFICES ASSUME Init, NEW q \in Requests PROVE KeptFor(q)
  BY DEF KeptInv
<1>1. Elems(<<>>) = {}
  BY DEF Elems
<1> QED BY <1>1 DEF Init, KeptFor, NothingYet, AckMeansSettled, AcceptanceBacked, LaunchBacked,
                    Open, Retained

\* The channels of the requests an action is not about stay as they are.
LEMMA OtherChannels ==
  ASSUME ChannelTypes, NEW r \in Requests, NEW q \in Requests, q # r
  PROVE  /\ \A t : Send(toHost, r, t)[q] = toHost[q] /\ Send(toGuest, r, t)[q] = toGuest[q]
         /\ Drop(toHost, r)[q] = toHost[q] /\ Drop(toGuest, r)[q] = toGuest[q]
BY DEF Send, Drop, ChannelTypes

\* A settled call leaves the other requests alone.
LEMMA SettledElsewhere ==
  ASSUME GuestTypes, NEW r \in Requests, NEW q \in Requests, NEW outcome, Settle(r, outcome)
  PROVE  /\ phase'[r] = outcome
         /\ q # r => phase'[q] = phase[q] /\ accepted'[q] = accepted[q]
BY DEF Settle, GuestTypes

\* The guest's own steps: a request is submitted, sent, given up or forgotten.
LEMMA GuestKept ==
  ASSUME TypeOK, KeptInv, NEW r \in Requests, NEW q \in Requests,
         Submit(r) \/ Synchronized(r) \/ NotAccepted(r) \/ SendRequest(r) \/ ReceiptExpires(r)
  PROVE  KeptFor(q)'
<1>0. GuestTypes /\ RunTypes /\ ChannelTypes /\ KeptFor(q)
  BY DEF TypeOK, KeptInv
<1>1. UNCHANGED <<runVars, toGuest>>
  BY DEF Submit, Synchronized, NotAccepted, SendRequest, ReceiptExpires
<1>2. CASE q # r \/ ReceiptExpires(r)
  <2>1. phase'[q] = phase[q] /\ accepted'[q] = accepted[q] /\ toHost'[q] = toHost[q]
        /\ (q \in receipts' => q \in receipts)
    <3>1. CASE SendRequest(r)
      BY <1>0, <1>2, <3>1, OtherChannels
         DEF SendRequest, ReceiptExpires, guestVars
    <3>2. CASE ~SendRequest(r)
      BY <1>0, <1>2, <3>2, SettledElsewhere
         DEF Submit, Synchronized, NotAccepted, ReceiptExpires, GuestTypes
    <3> QED BY <3>1, <3>2
  <2> QED BY <1>0, <1>1, <2>1, UndisturbedIsKept DEF runVars
<1>3. CASE q = r /\ Submit(r)
  BY <1>0, <1>1, <1>3, FramesTell
     DEF Submit, GuestTypes, KeptFor, NothingYet, AckMeansSettled, AcceptanceBacked, LaunchBacked,
         Open, Retained, runVars, Tells
<1>4. CASE q = r /\ Synchronized(r)
  BY <1>0, <1>1, <1>4, FramesTell
     DEF Synchronized, GuestTypes, KeptFor, NothingYet, AckMeansSettled, AcceptanceBacked,
         LaunchBacked, Open, Retained, runVars, Tells
<1>5. CASE q = r /\ NotAccepted(r)
  BY <1>0, <1>5, SettledElsewhere, SettledIsKept DEF NotAccepted, Settled
<1>6. CASE q = r /\ SendRequest(r)
  <2>1. <<Requested>> \in Seq(HostBound) /\ Elems(<<Requested>>) = {Requested}
    BY FrameTypes, OneElem
  <2>2. Elems(toHost'[q]) \subseteq Elems(toHost[q]) \cup {Requested}
    BY <1>0, <1>6, <2>1, SendElems DEF SendRequest, ChannelTypes
  <2> QED BY <1>0, <1>1, <1>6, <2>2, FramesTell
          DEF SendRequest, guestVars, runVars, KeptFor, NothingYet, AckMeansSettled,
              AcceptanceBacked, LaunchBacked, Open, Retained, Running
<1> QED BY <1>2, <1>3, <1>4, <1>5, <1>6

\* The frames a guest receives, for the request they are about.
LEMMA ReceivedKept ==
  ASSUME TypeOK, KeptInv, NEW r \in Requests, GuestReceives(r)
  PROVE  KeptFor(r)'
<1>0. GuestTypes /\ RunTypes /\ ChannelTypes /\ KeptFor(r) /\ toGuest[r] # <<>>
  BY DEF TypeOK, KeptInv, GuestReceives
<1> DEFINE m == Head(toGuest[r])
<1>1. m \in Elems(toGuest[r]) /\ Elems(Drop(toGuest, r)[r]) \subseteq Elems(toGuest[r])
  BY <1>0, DropElems DEF ChannelTypes
<1>2. UNCHANGED runVars /\ toGuest' = Drop(toGuest, r)
  BY DEF GuestReceives, OnAccepted, OnEvent, OnResult, OnMoved
<1> HIDE DEF m
<1>3. m # Moved => phase[r] \notin Before
  BY <1>0, <1>1, WasSent
<1>4. m.type \in Tells => (Open(r) => Backed(r))
  BY <1>0, <1>1 DEF KeptFor, AcceptanceBacked, Backed, Tells
<1>5. CASE OnAccepted(r)
  <2>1. m.type \in Tells /\ m # Moved
    BY <1>5, FramesTell DEF OnAccepted, m
  <2>2. phase' = phase /\ receipts' = receipts /\ toHost' = toHost
    BY <1>5 DEF OnAccepted
  <2> QED BY <1>0, <1>2, <1>3, <1>4, <2>1, <2>2, InformedIsKept
<1>6. CASE OnEvent(r)
  <2>1. m.type \in Tells /\ m # Moved
    BY <1>6, FramesTell DEF OnEvent, m, Tells
  <2>2. CASE \E outcome \in {"ran"} : Resolve(r, outcome)
    BY <1>0, <2>2, SettledElsewhere, SettledIsKept DEF Resolve, Settled
  <2>3. CASE phase' = phase /\ receipts' = receipts /\ toHost' = toHost
    BY <1>0, <1>2, <1>3, <1>4, <2>1, <2>3, InformedIsKept
  <2> QED BY <1>6, <2>2, <2>3 DEF OnEvent, Renders, Buffers, guestVars
<1>7. CASE OnResult(r)
  <2>1. m # Moved
    BY <1>7 DEF OnResult, m, Moved
  <2>2. CASE ~Open(r)
    <3>1. phase' = phase /\ phase[r] \in Settled
      BY <1>0, <1>3, <1>7, <2>1, <2>2 DEF OnResult, Open, GuestTypes, Phases, Before, Settled
    <3> QED BY <3>1, SettledIsKept
  <2>3. CASE Open(r)
    <3>1. PICK n, outcome : outcome \in {"ran", "refused"} /\ ResultFor(r, n, outcome)
      BY <1>7, <2>3 DEF OnResult
    <3>2. CASE Resolve(r, outcome) \/ Settle(r, "failed")
      BY <1>0, <3>1, <3>2, SettledElsewhere, SettledIsKept DEF Resolve, Settled
    <3>3. CASE UNCHANGED <<phase, accepted, receipts, toHost>>
      BY <1>0, <1>1, <1>2, <3>3, UndisturbedIsKept DEF runVars
    <3> QED BY <3>1, <3>2, <3>3 DEF ResultFor
  <2> QED BY <2>2, <2>3
<1>8. CASE OnMoved(r)
  <2>1. CASE Open(r)
    BY <1>0, <1>8, <2>1, SettledElsewhere, SettledIsKept DEF OnMoved, Settled
  <2>2. CASE ~Open(r)
    <3>1. UNCHANGED <<phase, accepted, receipts, toHost>>
      BY <1>8, <2>2 DEF OnMoved
    <3> QED BY <1>0, <1>1, <1>2, <3>1, UndisturbedIsKept DEF runVars
  <2> QED BY <2>1, <2>2
<1> QED BY <1>5, <1>6, <1>7, <1>8 DEF GuestReceives

\* ... and for the others.
LEMMA ReceivedKeptElsewhere ==
  ASSUME TypeOK, KeptInv, NEW r \in Requests, NEW q \in Requests, q # r, GuestReceives(r)
  PROVE  KeptFor(q)'
<1>0. GuestTypes /\ RunTypes /\ ChannelTypes /\ KeptFor(q) /\ toGuest[r] # <<>>
  BY DEF TypeOK, KeptInv, GuestReceives
<1>1. UNCHANGED runVars /\ toGuest'[q] = toGuest[q]
  BY <1>0, OtherChannels DEF GuestReceives, OnAccepted, OnEvent, OnResult, OnMoved
<1>2. toHost'[q] = toHost[q] /\ (q \in receipts' => q \in receipts)
  BY <1>0, OtherChannels
     DEF GuestReceives, OnAccepted, OnEvent, Renders, Buffers, OnResult, ResultFor, Resolve, OnMoved,
         guestVars
<1>3. phase'[q] = phase[q] /\ accepted'[q] = accepted[q]
  <2>1. CASE OnAccepted(r)
    BY <1>0, <2>1 DEF OnAccepted, GuestTypes
  <2>2. CASE \E outcome : Settle(r, outcome)
    BY <1>0, <2>2, SettledElsewhere
  <2>3. CASE ~OnAccepted(r) /\ ~\E outcome : Settle(r, outcome)
    BY <1>0, <2>3
       DEF GuestReceives, OnEvent, Renders, Buffers, OnResult, ResultFor, Resolve, OnMoved,
           guestVars, GuestTypes
  <2> QED BY <2>1, <2>2, <2>3
<1> QED BY <1>0, <1>1, <1>2, <1>3, UndisturbedIsKept DEF runVars

\* Retaining a result evicts others for space, and remembers that it did.
LEMMA RememberKeeps ==
  ASSUME RunTypes, ChannelTypes, NEW r \in Requests, NEW n \in 0..MaxEvents, Remember(r, n)
  PROVE  /\ r \in completed'
         /\ \A q \in Requests : q # r =>
              /\ toGuest'[q] = toGuest[q]
              /\ q \in completed' => q \in completed
              /\ q \in completed => q \in completed' \/ q \in evicted'
              /\ q \in evicted => q \in evicted'
<1>1. PICK gone \in Evictable(completed \ {r}) :
        completed' = (completed \ gone) \cup {r} /\ evicted' = evicted \cup gone
  BY DEF Remember
<1>2. \A q \in Requests : q # r => toGuest'[q] = toGuest[q]
  BY OtherChannels DEF Remember
<1> QED BY <1>1, <1>2

\* An answer adds its frames to the channel of the request.
LEMMA AnswerElems ==
  ASSUME ChannelTypes, NEW r \in Requests, NEW t \in Seq(GuestBound), Answer(r, t)
  PROVE  Elems(toGuest'[r]) \subseteq Elems(toGuest[r]) \cup Elems(t)
BY SendElems DEF Answer, ChannelTypes

\* A request admitted is backed by its new owner, one that is refused or waits
\* loses nothing it had.
LEMMA AdmittedIsKept ==
  ASSUME TypeOK, KeptInv, NEW r \in Requests, phase[r] \notin Before,
         ~Running(r), UNCHANGED <<phase, accepted, receipts, launches, completed, evicted>>,
         Elems(toHost'[r]) \subseteq Elems(toHost[r]),
         \/ Admit(r) \/ GiveUp(r)
         \/ Refuse(r) /\ UNCHANGED owner
         \/ SetOwner(r, "waiting") /\ UNCHANGED toGuest
  PROVE  KeptFor(r)'
<1>0. GuestTypes /\ RunTypes /\ ChannelTypes /\ KeptFor(r)
  BY DEF TypeOK, KeptInv
<1>1. Backed(r) => Backed(r)'
  BY DEF Backed, Retained
<1>2. owner[r] # "running"
  BY DEF Running
<1>3. CASE Admit(r)
  <2>1. Backed(r)'
    BY <1>0, <1>3 DEF Admit, SetOwner, Backed, Running, RunTypes
  <2> QED BY <1>0, <1>1, <1>2, <2>1, ServedIsKept
<1>4. CASE Refuse(r)
  <2>1. Elems(toGuest'[r]) \subseteq Elems(toGuest[r]) \cup {Refusal}
    <3>1. Elems(<<Refusal>>) = {Refusal}
      BY FrameTypes, OneElem
    <3> QED BY <1>0, <1>4, <3>1, ShortAnswers, AnswerElems DEF Refuse
  <2> QED BY <1>0, <1>1, <1>2, <2>1, FramesTell, ServedIsKept
<1>5. CASE SetOwner(r, "waiting") /\ UNCHANGED toGuest
  BY <1>0, <1>1, <1>2, <1>5, ServedIsKept
<1> QED BY <1>3, <1>4, <1>5 DEF GiveUp

\* A run that ends leaves its result.
LEMMA RememberedIsKept ==
  ASSUME TypeOK, KeptInv, NEW r \in Requests, phase[r] \notin Before, NEW n \in 0..MaxEvents,
         Remember(r, n), UNCHANGED <<phase, accepted, receipts, launches, toHost>>
  PROVE  KeptFor(r)'
<1>0. GuestTypes /\ RunTypes /\ ChannelTypes /\ KeptFor(r)
  BY DEF TypeOK, KeptInv
<1>1. r \in completed'
  BY <1>0, RememberKeeps
<1> QED BY <1>0, <1>1
        DEF KeptFor, NothingYet, AckMeansSettled, AcceptanceBacked, LaunchBacked, Open, Retained, Before

\* What the host decides about a request keeps that request.
LEMMA RequestKept ==
  ASSUME TypeOK, KeptInv, NEW r \in Requests, RequestNext(r)
  PROVE  KeptFor(r)'
<1>0. GuestTypes /\ RunTypes /\ ChannelTypes /\ KeptFor(r)
  BY DEF TypeOK, KeptInv
<1>1. UNCHANGED <<phase, accepted, receipts, launches>>
  BY DEF RequestNext, OnRequest, OnAck, CellConverges, CellAdvances, WaitTimeout, WaitingCancelled,
         guestVars
<1>2. CASE OnRequest(r)
  <2>1. phase[r] \notin Before /\ Elems(toHost'[r]) \subseteq Elems(toHost[r])
    BY <1>0, <1>2, WasSent, DropElems DEF OnRequest, ChannelTypes
  <2>2. UNCHANGED <<completed, evicted>>
    BY <1>2 DEF OnRequest
  <2>3. CASE Replays(r)
    <3>1. CASE UNCHANGED toGuest
      BY <1>0, <1>1, <2>1, <2>2, <2>3, <3>1, ServedIsKept DEF Replays, Backed, Running, Retained
    <3>2. CASE Retained(r) \/ Running(r)
      <4>1. Backed(r)'
        BY <2>2, <2>3, <3>2 DEF Replays, Backed, Running, Retained
      <4> QED BY <1>0, <1>1, <2>1, <2>2, <2>3, <4>1, ServedIsKept DEF Replays
    <3> QED BY <2>3, <3>1, <3>2 DEF Replays
  <2>4. CASE ~Retained(r) /\ owner[r] = "none" /\ Decides(r)
    <3>1. ~Running(r)
      BY <2>4 DEF Running
    <3> QED BY <1>0, <1>1, <2>1, <2>2, <2>4, <3>1, AdmittedIsKept DEF Decides
  <2> QED BY <1>2, <2>3, <2>4 DEF OnRequest
<1>3. CASE OnAck(r)
  <2>1. Acked \in Elems(toHost[r])
    BY <1>0, <1>3, DropElems DEF OnAck, ChannelTypes
  <2> QED BY <1>0, <1>1, <2>1, SettledIsKept DEF KeptFor, AckMeansSettled, Settled
<1>4. CASE CellConverges(r) \/ CellAdvances(r) \/ WaitTimeout(r)
  <2>1. UNCHANGED <<completed, evicted, toHost>>
    BY <1>4 DEF CellConverges, CellAdvances, WaitTimeout
  <2>2. CASE owner[r] = "waiting" /\ (Admit(r) \/ GiveUp(r))
    <3>1. phase[r] \notin Before /\ ~Running(r)
      BY <1>0, <2>2, WasSent DEF Running
    <3> QED BY <1>0, <1>1, <2>1, <2>2, <3>1, AdmittedIsKept
  <2>3. CASE UNCHANGED <<owner, toGuest>>
    BY <1>0, <1>1, <2>1, <2>3, UndisturbedIsKept
  <2> QED BY <1>4, <2>2, <2>3 DEF CellConverges, CellAdvances, WaitTimeout
<1>5. CASE WaitingCancelled(r)
  <2>1. 0 \in 0..MaxEvents
    BY LimitsAssumption
  <2>2. phase[r] \notin Before /\ toHost' = toHost
    BY <1>0, <1>5, WasSent DEF WaitingCancelled
  <2> QED BY <1>1, <1>5, <2>1, <2>2, RememberedIsKept DEF WaitingCancelled
<1> QED BY <1>2, <1>3, <1>4, <1>5 DEF RequestNext

\* The run and its result keep the request.
LEMMA RunKept ==
  ASSUME TypeOK, KeptInv, NEW r \in Requests, RunNext(r)
  PROVE  KeptFor(r)'
<1>0. GuestTypes /\ RunTypes /\ ChannelTypes /\ KeptFor(r)
  BY DEF TypeOK, KeptInv
<1>1. UNCHANGED <<phase, accepted, receipts, toHost>>
  BY DEF RunNext, Launch, Emit, RunEnds, Redeliver, CompletedExpires, guestVars
<1>2. ~CompletedExpires(r) => phase[r] \notin Before
  <2>1. ~CompletedExpires(r) => owner[r] # "none" \/ Retained(r)
    BY DEF RunNext, Launch, Emit, RunEnds, Redeliver, Running
  <2> QED BY <1>0, <2>1, WasSent
<1>3. CASE Launch(r)
  <2>1. Backed(r) /\ Backed(r)' /\ owner'[r] = "running"
    BY <1>0, <1>3 DEF Launch, SetOwner, Backed, Running, RunTypes
  <2>2. UNCHANGED <<completed, evicted, toGuest>> /\ ~CompletedExpires(r)
    BY <1>0, <1>3, <2>1 DEF Launch, CompletedExpires
  <2> QED BY <1>0, <1>1, <1>2, <2>1, <2>2, ServedIsKept
<1>4. CASE Emit(r)
  <2>1. Backed(r) /\ Backed(r)' /\ UNCHANGED <<owner, completed, evicted, launches>>
    BY <1>4 DEF Emit, Backed, Running, Retained
  <2>2. phase[r] \notin Before
    BY <1>0, <1>4, WasSent DEF Emit
  <2> QED BY <1>0, <1>1, <2>1, <2>2, ServedIsKept
<1>5. CASE RunEnds(r)
  <2>1. phase[r] \notin Before
    BY <1>0, <1>5, WasSent DEF RunEnds, Running
  <2> QED BY <1>0, <1>1, <1>5, <2>1, RememberedIsKept DEF RunEnds, RunTypes
<1>6. CASE Redeliver(r)
  <2>1. Backed(r) /\ Backed(r)' /\ UNCHANGED runVars
    BY <1>6 DEF Redeliver, Backed, Retained, runVars
  <2>2. phase[r] \notin Before
    BY <1>0, <1>6, WasSent DEF Redeliver
  <2> QED BY <1>0, <1>1, <2>1, <2>2, ServedIsKept DEF runVars
<1>7. CASE CompletedExpires(r)
  <2>1. ~Open(r) /\ UNCHANGED <<owner, launches, evicted, toGuest>> /\ completed' \subseteq completed
    BY <1>7 DEF CompletedExpires, Forget
  <2> QED BY <1>0, <1>1, <2>1
          DEF KeptFor, NothingYet, AckMeansSettled, AcceptanceBacked, LaunchBacked, Open, Retained
<1> QED BY <1>3, <1>4, <1>5, <1>6, <1>7 DEF RunNext

\* The host's work on one request leaves the others as they are, but for the
\* results it evicts.
LEMMA HostKeptElsewhere ==
  ASSUME TypeOK, KeptInv, NEW r \in Requests, NEW q \in Requests, q # r,
         RequestNext(r) \/ RunNext(r)
  PROVE  KeptFor(q)'
<1>0. GuestTypes /\ RunTypes /\ ChannelTypes /\ KeptFor(q) /\ 0 \in 0..MaxEvents
  BY LimitsAssumption DEF TypeOK, KeptInv
<1>1. UNCHANGED <<phase, accepted, receipts>>
  BY DEF RequestNext, OnRequest, OnAck, CellConverges, CellAdvances, WaitTimeout, WaitingCancelled,
         RunNext, Launch, Emit, RunEnds, Redeliver, CompletedExpires, guestVars
<1>2. owner'[q] = owner[q] /\ launches'[q] = launches[q] /\ toHost'[q] = toHost[q]
  <2>1. CASE RequestNext(r)
    BY <1>0, <2>1, OtherChannels
       DEF RequestNext, OnRequest, Replays, Decides, Admit, GiveUp, SetOwner, OnAck, CellConverges,
           CellAdvances, WaitTimeout, WaitingCancelled, RunTypes
  <2>2. CASE RunNext(r)
    BY <1>0, <2>2 DEF RunNext, Launch, Emit, RunEnds, Redeliver, CompletedExpires, SetOwner,
                      runVars, RunTypes
  <2> QED BY <2>1, <2>2
<1>3. CASE \E n \in 0..MaxEvents : Remember(r, n)
  BY <1>0, <1>1, <1>2, <1>3, RememberKeeps, UndisturbedIsKept
<1>4. CASE ~\E n \in 0..MaxEvents : Remember(r, n)
  <2>1. toGuest'[q] = toGuest[q]
    BY <1>0, <1>4, OtherChannels
       DEF RequestNext, OnRequest, Replays, Decides, Admit, GiveUp, Refuse, Answer, OnAck,
           CellConverges, CellAdvances, WaitTimeout, WaitingCancelled,
           RunNext, Launch, Emit, RunEnds, Redeliver, CompletedExpires, RunTypes
  <2>2. evicted' = evicted /\ (q \in completed' <=> q \in completed)
    BY <1>0, <1>4
       DEF RequestNext, OnRequest, OnAck, CellConverges, CellAdvances, WaitTimeout, WaitingCancelled,
           RunNext, Launch, Emit, RunEnds, Redeliver, CompletedExpires, Forget, runVars, RunTypes
  <2> QED BY <1>0, <1>1, <1>2, <2>1, <2>2, UndisturbedIsKept
<1> QED BY <1>3, <1>4

\* Stops, moves of the target and of the host, lost and returning routes, and
\* relays keep every request.
LEMMA SessionKept ==
  ASSUME TypeOK, KeptInv, NEW q \in Requests, SessionNext
  PROVE  KeptFor(q)'
<1>0. GuestTypes /\ RunTypes /\ ChannelTypes /\ KeptFor(q)
  BY DEF TypeOK, KeptInv
<1>1. UNCHANGED <<accepted, receipts, runVars>>
  BY DEF SessionNext, StopConfirmed, StopEnds, ComputeChanges, HandoverBegins, HandoverFails,
         HandoverCommits, PeerDisconnected, LinkDown, LinkUp, RelayReorders, RelayLoses, guestVars
<1>2. CASE StopConfirmed \/ StopEnds \/ HandoverBegins \/ HandoverFails
  BY <1>0, <1>1, <1>2, UndisturbedIsKept
     DEF StopConfirmed, StopEnds, HandoverBegins, HandoverFails, guestVars, runVars
<1>3. CASE ComputeChanges \/ HandoverCommits
  <2>1. toGuest'[q] = IF up THEN Append(toGuest[q], Moved) ELSE toGuest[q]
    BY <1>3 DEF ComputeChanges, HandoverCommits, Announce
  <2>2. Elems(toGuest'[q]) \subseteq Elems(toGuest[q]) \cup {Moved}
    <3>1. toGuest[q] \in Seq(GuestBound)
      BY <1>0 DEF ChannelTypes
    <3>2. Elems(toGuest[q] \o <<Moved>>) \subseteq Elems(toGuest[q]) \cup {Moved}
      BY <3>1, FrameTypes, OneElem, ConcatElems
    <3>3. Append(toGuest[q], Moved) = toGuest[q] \o <<Moved>>
      BY <3>1, FrameTypes
    <3> QED BY <2>1, <3>2, <3>3
  <2> QED BY <1>0, <1>1, <1>3, <2>2, UndisturbedIsKept
          DEF ComputeChanges, HandoverCommits, guestVars, runVars
<1>4. CASE PeerDisconnected
  <2>1. CASE Open(q) /\ ~accepted[q]
    BY <1>4, <2>1, SettledIsKept DEF PeerDisconnected, Settled
  <2>2. CASE ~(Open(q) /\ ~accepted[q])
    BY <1>0, <1>1, <1>4, <2>2, UndisturbedIsKept DEF PeerDisconnected, runVars
  <2> QED BY <2>1, <2>2
<1>5. CASE LinkDown
  <2>1. Elems(<<>>) = {} /\ toHost'[q] = <<>> /\ toGuest'[q] = <<>>
    BY <1>5 DEF LinkDown, Elems
  <2> QED BY <1>0, <1>1, <1>5, <2>1, UndisturbedIsKept DEF LinkDown, guestVars, runVars
<1>6. CASE LinkUp
  <2> DEFINE a == IF target = "changed" THEN <<Moved>> ELSE <<>>
             b == IF Retained(q) THEN DeliverCompleted(q)
                  ELSE IF Running(q) THEN DeliverActive(q) ELSE <<>>
  <2>1. UNCHANGED <<phase, toHost>> /\ toGuest'[q] = a \o b
    BY <1>6 DEF LinkUp, guestVars
  <2>2. CASE Running(q) \/ Retained(q)
    <3>1. owner[q] # "none" \/ Retained(q)
      BY <2>2 DEF Running
    <3>2. phase[q] \notin Before
      BY <1>0, <3>1, WasSent
    <3>3. Backed(q) /\ Backed(q)'
      BY <1>1, <2>2 DEF Backed, Running, Retained, runVars
    <3> QED BY <1>0, <1>1, <2>1, <3>2, <3>3, ServedIsKept DEF LinkUp, runVars
  <2>3. CASE ~Running(q) /\ ~Retained(q)
    <3>1. a \in Seq(GuestBound) /\ Elems(a) \subseteq {Moved}
      BY FrameTypes, OneElem, EmptyElems
    <3>2. toGuest'[q] = a
      BY <2>1, <2>3, <3>1
    <3> QED BY <1>0, <1>1, <2>1, <3>1, <3>2, UndisturbedIsKept DEF runVars
  <2> QED BY <2>2, <2>3
<1>7. ASSUME NEW r \in Requests, RelayReorders(r) \/ RelayLoses(r) PROVE KeptFor(q)'
  <2>1. UNCHANGED guestVars
    BY <1>7 DEF RelayReorders, RelayLoses
  <2>2. /\ Elems(toHost'[q]) \subseteq Elems(toHost[q]) /\ (toHost[q] = <<>> => toHost'[q] = <<>>)
        /\ Elems(toGuest'[q]) \subseteq Elems(toGuest[q])
    <3>1. CASE q # r
      BY <1>0, <1>7, <3>1 DEF RelayReorders, RelayLoses, Drop, ChannelTypes
    <3>2. CASE q = r /\ RelayReorders(r)
      <4>1. /\ \A i \in 2..Len(toHost[r]) : Elems(Overtaken(toHost[r], i)) \subseteq Elems(toHost[r])
            /\ \A i \in 2..Len(toGuest[r]) : Elems(Overtaken(toGuest[r], i)) \subseteq Elems(toGuest[r])
        BY <1>0, OvertakenElems DEF ChannelTypes
      <4>2. toHost[r] = <<>> => toHost' = toHost
        BY <1>0, <3>2 DEF RelayReorders, ChannelTypes
      <4> QED BY <1>0, <3>2, <4>1, <4>2 DEF RelayReorders, ChannelTypes
    <3>3. CASE q = r /\ RelayLoses(r)
      <4>1. /\ toHost[r] # <<>> => Elems(Drop(toHost, r)[r]) \subseteq Elems(toHost[r])
            /\ toGuest[r] # <<>> => Elems(Drop(toGuest, r)[r]) \subseteq Elems(toGuest[r])
        BY <1>0, DropElems DEF ChannelTypes
      <4> QED BY <3>3, <4>1 DEF RelayLoses
    <3> QED BY <1>7, <3>1, <3>2, <3>3
  <2> QED BY <1>0, <1>1, <2>1, <2>2, UndisturbedIsKept DEF guestVars, runVars
<1> QED BY <1>2, <1>3, <1>4, <1>5, <1>6, <1>7 DEF SessionNext

LEMMA NextKept == TypeOK /\ KeptInv /\ [Next]_vars => KeptInv'
<1> SUFFICES ASSUME TypeOK, KeptInv, [Next]_vars, NEW q \in Requests PROVE KeptFor(q)'
  BY DEF KeptInv
<1>1. CASE \E r \in Requests : GuestNext(r)
  BY <1>1, GuestKept, ReceivedKept, ReceivedKeptElsewhere DEF GuestNext
<1>2. CASE \E r \in Requests : RequestNext(r) \/ RunNext(r)
  BY <1>2, RequestKept, RunKept, HostKeptElsewhere
<1>3. CASE SessionNext
  BY <1>3, SessionKept
<1>4. CASE UNCHANGED vars
  BY <1>4, UndisturbedIsKept DEF KeptInv, vars, guestVars, runVars
<1> QED BY <1>1, <1>2, <1>3, <1>4 DEF Next

\* KeptInv is an inductive invariant relative to the types.
THEOREM KeptInductive == Spec => []KeptInv
BY InitTypes, NextTypes, InitKept, NextKept, PTL DEF Spec

\* No loss of routes or frames, stop, or move of the host takes what a launched
\* cell produced from a guest that still waits for it; only eviction does
\* (rememberCompletedRemoteExecution).
THEOREM ResultIsKept == Spec => []ResultKept
<1>1. KeptInv => ResultKept
  BY DEF KeptInv, KeptFor, LaunchBacked, ResultKept
<1> QED BY <1>1, KeptInductive, PTL

\* A guest that was told its cell is accepted never waits for a run nobody has,
\* unless the result was evicted (reserveRemoteExecutionOwner to
\* acknowledgeCompletedRemoteExecution).
THEOREM AcceptedIsBacked == Spec => []AcceptedIsOwned
<1>1. KeptInv => AcceptedIsOwned
  BY DEF KeptInv, KeptFor, AcceptanceBacked, AcceptedIsOwned
<1> QED BY <1>1, KeptInductive, PTL

-----------------------------------------------------------------------------
(* What the host remembers of a request is enough: for every set of        *)
(* requests and every limit of the host, a cell is launched once, a        *)
(* stopped one never, and a result arrives with all of its events.         *)

\* The host loses its memory of a request for good.
LEMMA ForgetsForGood ==
  ASSUME TypeOK, [Next]_vars, NEW q \in Requests
  PROVE  /\ Forgettable(q) => Forgettable(q)'
         /\ q \in evicted => q \in evicted'
<1>1. used \in [{"losses", "faults", "stops"} -> Nat]
  BY DEF TypeOK, ChannelTypes
<1>2. used' = used \/ \E what \in {"losses", "faults", "stops"} : Spend(what)
  BY DEF Next, vars, GuestNext, Submit, Synchronized, NotAccepted, SendRequest, ReceiptExpires,
         GuestReceives, OnAccepted, OnEvent, OnResult, OnMoved,
         RequestNext, OnRequest, OnAck, CellConverges, CellAdvances, WaitTimeout, WaitingCancelled,
         RunNext, Launch, Emit, RunEnds, Redeliver, CompletedExpires,
         SessionNext, StopConfirmed, StopEnds, ComputeChanges, HandoverBegins, HandoverFails,
         HandoverCommits, PeerDisconnected, LinkDown, LinkUp, RelayReorders, RelayLoses
<1>3. used.faults \in Nat /\ used'.faults \in Nat /\ used'.faults >= used.faults
  BY <1>1, <1>2 DEF Spend
<1>4. evicted' = evicted \/ \E r \in Requests, n \in 0..MaxEvents : Remember(r, n)
  <2>1. 0 \in 0..MaxEvents /\ events \in [Requests -> 0..MaxEvents]
    BY LimitsAssumption DEF TypeOK, RunTypes
  <2> QED BY <2>1
     DEF Next, vars, GuestNext, Submit, Synchronized, NotAccepted, SendRequest, ReceiptExpires,
         GuestReceives, OnAccepted, OnEvent, OnResult, OnMoved, runVars,
         RequestNext, OnRequest, OnAck, CellConverges, CellAdvances, WaitTimeout, WaitingCancelled,
         RunNext, Launch, Emit, RunEnds, Redeliver, CompletedExpires,
         SessionNext, StopConfirmed, StopEnds, ComputeChanges, HandoverBegins, HandoverFails,
         HandoverCommits, PeerDisconnected, LinkDown, LinkUp, RelayReorders, RelayLoses
<1>5. evicted \subseteq evicted'
  BY <1>4 DEF Remember
<1> QED BY <1>3, <1>5 DEF Forgettable

-----------------------------------------------------------------------------
(* The channel to the host.                                                *)

LEMMA AcksLastTail ==
  ASSUME NEW s \in Seq(HostBound), s # <<>>, AcksLast(s)
  PROVE  AcksLast(Tail(s)) /\ (Head(s) = Acked => Requested \notin Elems(Tail(s)))
<1>1. Len(Tail(s)) = Len(s) - 1 /\ Len(s) \in Nat /\ \A i \in 1..Len(Tail(s)) : Tail(s)[i] = s[i + 1]
  OBVIOUS
<1>2. AcksLast(Tail(s))
  BY <1>1 DEF AcksLast
<1>3. ASSUME Head(s) = Acked, NEW i \in 1..Len(Tail(s)) PROVE Tail(s)[i] = Acked
  BY <1>1, <1>3 DEF AcksLast
<1> QED BY <1>2, <1>3, FramesTell DEF Elems

LEMMA AcksLastMore ==
  ASSUME NEW s \in Seq(HostBound), NEW m \in HostBound, AcksLast(s),
         m = Acked \/ Acked \notin Elems(s)
  PROVE  AcksLast(s \o <<m>>)
<1>1. /\ Len(s \o <<m>>) = Len(s) + 1 /\ Len(s) \in Nat
      /\ \A i \in 1..Len(s) + 1 : (s \o <<m>>)[i] = IF i <= Len(s) THEN s[i] ELSE m
  OBVIOUS
<1> QED BY <1>1 DEF AcksLast, Elems

\* The call is settled, and no copy of its request is on its way.
Over(q) == phase[q] \in Settled /\ Requested \notin Elems(toHost[q])

\* A step keeps the order of the acknowledgements and what is over.
Goes(q) == (AcksLast(toHost[q]) => AcksLast(toHost[q])') /\ (Over(q) => Over(q)')

\* The guest requests before it settles and acknowledges after it.
LEMMA GuestGoes ==
  ASSUME TypeOK, KeptInv, NEW r \in Requests, GuestNext(r), NEW q \in Requests
  PROVE  Goes(q)
<1>0. GuestTypes /\ ChannelTypes /\ KeptFor(q) /\ toHost[q] \in Seq(HostBound)
  BY DEF TypeOK, KeptInv, ChannelTypes
<1>1. phase[q] \in Settled => phase'[q] \in Settled
  <2>1. CASE Submit(r) \/ Synchronized(r) \/ SendRequest(r) \/ ReceiptExpires(r)
    BY <1>0, <2>1 DEF Submit, Synchronized, SendRequest, ReceiptExpires, guestVars, GuestTypes, Settled
  <2>2. CASE \E outcome \in Settled : Settle(r, outcome)
    BY <1>0, <2>2 DEF Settle, GuestTypes
  <2>3. CASE phase' = phase
    BY <2>3
  <2> QED BY <2>1, <2>2, <2>3
          DEF GuestNext, NotAccepted, GuestReceives, OnAccepted, OnEvent, Renders, Buffers,
              OnResult, ResultFor, Resolve, OnMoved, guestVars, Settled
<1>2. \/ toHost'[q] = toHost[q]
      \/ toHost'[q] = toHost[q] \o <<Acked>>
      \/ toHost'[q] = toHost[q] \o <<Requested>> /\ phase[q] = "pending"
  <2>1. CASE SendRequest(r)
    BY <1>0, <2>1 DEF SendRequest, Send, ChannelTypes
  <2>2. CASE toHost' = Send(toHost, r, <<Acked>>)
    BY <1>0, <2>2 DEF Send, ChannelTypes
  <2>3. CASE toHost' = toHost
    BY <2>3
  <2> QED BY <2>1, <2>2, <2>3
          DEF GuestNext, Submit, Synchronized, NotAccepted, ReceiptExpires, GuestReceives, OnAccepted,
              OnEvent, Renders, Buffers, OnResult, ResultFor, Resolve, OnMoved
<1>3. Requested \in HostBound /\ Acked \in HostBound /\ Requested # Acked
  BY FrameTypes, FramesTell
<1>4. CASE toHost'[q] = toHost[q]
  BY <1>1, <1>4 DEF Goes, Over
<1>5. CASE toHost'[q] = toHost[q] \o <<Acked>>
  <2>1. Elems(toHost'[q]) \subseteq Elems(toHost[q]) \cup {Acked}
    BY <1>0, <1>3, <1>5, OneElem, ConcatElems
  <2> QED BY <1>0, <1>1, <1>3, <1>5, <2>1, AcksLastMore DEF Goes, Over
<1>6. CASE toHost'[q] = toHost[q] \o <<Requested>> /\ phase[q] = "pending"
  <2>1. Acked \notin Elems(toHost[q])
    BY <1>0, <1>6 DEF KeptFor, AckMeansSettled
  <2> QED BY <1>0, <1>3, <1>6, <2>1, AcksLastMore DEF Goes, Over, Settled
<1> QED BY <1>2, <1>4, <1>5, <1>6

\* The host takes frames from the channel only.
LEMMA HostGoes ==
  ASSUME TypeOK, NEW r \in Requests, RequestNext(r) \/ RunNext(r), NEW q \in Requests
  PROVE  Goes(q)
<1>0. ChannelTypes /\ toHost[q] \in Seq(HostBound)
  BY DEF TypeOK, ChannelTypes
<1>1. phase' = phase
  BY DEF RequestNext, OnRequest, OnAck, CellConverges, CellAdvances, WaitTimeout, WaitingCancelled,
         RunNext, Launch, Emit, RunEnds, Redeliver, CompletedExpires, guestVars
<1>2. toHost'[q] = toHost[q] \/ (toHost[q] # <<>> /\ toHost'[q] = Tail(toHost[q]))
  BY <1>0 DEF RequestNext, OnRequest, OnAck, CellConverges, CellAdvances, WaitTimeout, WaitingCancelled,
         RunNext, Launch, Emit, RunEnds, Redeliver, CompletedExpires, Drop, ChannelTypes
<1> QED BY <1>0, <1>1, <1>2, AcksLastTail, TailElems DEF Goes, Over

\* A lost route empties the channel; without the faults of a relay nothing else
\* happens to it.
LEMMA SessionGoes ==
  ASSUME TypeOK, SessionNext, NEW q \in Requests, ~Forgettable(q)'
  PROVE  Goes(q)
<1>0. GuestTypes /\ ChannelTypes
  BY DEF TypeOK
<1>1. \A r \in Requests : ~RelayReorders(r) /\ ~RelayLoses(r)
  BY <1>0 DEF RelayReorders, RelayLoses, Spend, Forgettable, ChannelTypes
<1>2. phase[q] \in Settled => phase'[q] = phase[q]
  BY <1>0, <1>1 DEF SessionNext, StopConfirmed, StopEnds, ComputeChanges, HandoverBegins, HandoverFails,
         HandoverCommits, PeerDisconnected, LinkDown, LinkUp, guestVars, GuestTypes, Open, Settled
<1>3. toHost'[q] = toHost[q] \/ toHost'[q] = <<>>
  BY <1>1 DEF SessionNext, StopConfirmed, StopEnds, ComputeChanges, HandoverBegins, HandoverFails,
         HandoverCommits, PeerDisconnected, LinkDown, LinkUp
<1>4. AcksLast(<<>>) /\ Elems(<<>>) = {}
  BY DEF AcksLast, Elems
<1> QED BY <1>2, <1>3, <1>4 DEF Goes, Over

-----------------------------------------------------------------------------
(* OnceInv is inductive.                                                   *)

LEMMA InitOnce == Init => OnceInv
<1> SUFFICES ASSUME Init, NEW q \in Requests PROVE OnceFor(q)
  BY DEF OnceInv
<1>1. AcksLast(<<>>)
  BY DEF AcksLast
<1> QED BY <1>1 DEF Init, OnceFor, FreshOwner, Remembered

\* A step that neither reserves, launches nor ends the request.
LEMMA QuietOnce ==
  ASSUME NEW q \in Requests, OnceFor(q), Goes(q), Forgettable(q) => Forgettable(q)',
         owner'[q] = owner[q], launches'[q] = launches[q],
         q \in completed => q \in completed' \/ Forgettable(q)',
         q \in stopped' => q \in stopped \/ (owner[q] # "none" /\ q \in cancelled'),
         q \in cancelled => q \in cancelled'
  PROVE  OnceFor(q)'
<1> SUFFICES ASSUME ~Forgettable(q)'
             PROVE  AcksLast(toHost[q])' /\ FreshOwner(q)' /\ Remembered(q)' /\ launches'[q] <= 1
  BY DEF OnceFor
<1>1. AcksLast(toHost[q]) /\ FreshOwner(q) /\ Remembered(q) /\ launches[q] <= 1
  BY DEF OnceFor
<1>2. FreshOwner(q)'
  BY <1>1 DEF FreshOwner
<1>3. Remembered(q)'
  BY <1>1 DEF Remembered, Goes, Over, Settled, Retained
<1> QED BY <1>1, <1>2, <1>3 DEF Goes

\* The host's work on a request keeps that request.
LEMMA HostOnce ==
  ASSUME TypeOK, KeptInv, OnceInv, NEW q \in Requests, RequestNext(q) \/ RunNext(q),
         Forgettable(q) => Forgettable(q)'
  PROVE  OnceFor(q)'
<1>0. RunTypes /\ ChannelTypes /\ GuestTypes /\ KeptFor(q) /\ OnceFor(q) /\ Goes(q) /\ 0 \in 0..MaxEvents
  BY HostGoes, LimitsAssumption DEF TypeOK, KeptInv, OnceInv
<1> SUFFICES ASSUME ~Forgettable(q)' PROVE OnceFor(q)'
  BY DEF OnceFor
<1>1. AcksLast(toHost[q]) /\ FreshOwner(q) /\ Remembered(q) /\ launches[q] <= 1 /\ AcksLast(toHost[q])'
  BY <1>0 DEF OnceFor, Goes
<1>2. stopped' = stopped
  BY DEF RequestNext, OnRequest, OnAck, CellConverges, CellAdvances, WaitTimeout, WaitingCancelled,
         RunNext, Launch, Emit, RunEnds, Redeliver, CompletedExpires, hostVars
<1>3. CASE OnRequest(q)
  <2>1. UNCHANGED <<launches, completed, cancelled>>
    BY <1>3 DEF OnRequest, hostVars
  <2>2. CASE owner' = owner
    BY <1>0, <1>2, <2>1, <2>2, QuietOnce
  <2>3. CASE ~Retained(q) /\ owner[q] = "none" /\ (Admit(q) \/ SetOwner(q, "waiting"))
    <3>1. Requested \in Elems(toHost[q])
      BY <1>0, <1>3, DropElems DEF OnRequest, ChannelTypes
    <3>2. launches[q] = 0 /\ q \notin stopped
      BY <1>0, <1>1, <2>3, <3>1 DEF Remembered, RunTypes
    <3>3. owner'[q] \in {"waiting", "preparing"}
      BY <1>0, <2>3 DEF Admit, SetOwner, RunTypes
    <3> QED BY <1>1, <1>2, <2>1, <3>2, <3>3 DEF OnceFor, FreshOwner, Remembered
  <2> QED BY <1>3, <2>2, <2>3 DEF OnRequest, Replays, Decides
<1>4. CASE OnAck(q)
  <2>1. Acked \in Elems(toHost[q]) /\ Requested \notin Elems(toHost'[q])
    BY <1>0, <1>1, <1>4, DropElems, AcksLastTail DEF OnAck, Drop, ChannelTypes
  <2>2. phase[q] \in Settled /\ phase' = phase
    BY <1>0, <1>4, <2>1 DEF KeptFor, AckMeansSettled, Settled, OnAck, guestVars
  <2>3. UNCHANGED <<owner, launches, cancelled>>
    BY <1>4 DEF OnAck, hostVars
  <2> QED BY <1>1, <1>2, <2>1, <2>2, <2>3 DEF OnceFor, FreshOwner, Remembered, Settled
<1>5. CASE CellConverges(q) \/ CellAdvances(q) \/ WaitTimeout(q)
  <2>1. UNCHANGED <<launches, completed, cancelled>>
    BY <1>5 DEF CellConverges, CellAdvances, WaitTimeout, hostVars
  <2>2. CASE owner' = owner
    BY <1>0, <1>2, <2>1, <2>2, QuietOnce
  <2>3. CASE owner[q] = "waiting" /\ q \notin cancelled /\ (Admit(q) \/ GiveUp(q))
    <3>1. launches[q] = 0 /\ q \notin stopped
      BY <1>1, <2>3 DEF FreshOwner
    <3> QED BY <1>1, <1>2, <2>1, <3>1 DEF OnceFor, FreshOwner, Remembered
  <2> QED BY <1>5, <2>2, <2>3 DEF CellConverges, CellAdvances, WaitTimeout
<1>6. CASE \E n \in 0..MaxEvents : Remember(q, n) /\ SetOwner(q, "none") /\ launches' = launches
  <2>1. q \in completed' /\ owner'[q] = "none" /\ launches'[q] = launches[q]
    BY <1>0, <1>6, RememberKeeps DEF SetOwner, RunTypes
  <2> QED BY <1>1, <2>1 DEF OnceFor, FreshOwner, Remembered, Retained
<1>7. CASE Launch(q)
  <2>1. launches[q] = 0 /\ owner'[q] = "running" /\ launches'[q] = 1
    BY <1>0, <1>1, <1>7 DEF Launch, SetOwner, FreshOwner, RunTypes
  <2> QED BY <1>1, <2>1 DEF OnceFor, FreshOwner, Remembered
<1>8. CASE Emit(q) \/ Redeliver(q)
  BY <1>0, <1>2, <1>8, QuietOnce DEF Emit, Redeliver, hostVars, runVars
<1>9. CASE CompletedExpires(q)
  <2>1. UNCHANGED <<phase, owner, launches, cancelled, toHost>> /\ toHost[q] = <<>>
    BY <1>9 DEF CompletedExpires, guestVars, hostVars
  <2>2. phase[q] \in Settled
    BY <1>0, <1>9, WasSent DEF CompletedExpires, GuestTypes, Phases, Before, Settled, Open
  <2>3. Requested \notin Elems(toHost'[q])
    BY <2>1, EmptyElems
  <2> QED BY <1>1, <1>2, <2>1, <2>2, <2>3 DEF OnceFor, FreshOwner, Remembered, Settled
<1> QED BY <1>0, <1>3, <1>4, <1>5, <1>6, <1>7, <1>8, <1>9
        DEF RequestNext, RunNext, WaitingCancelled, RunEnds, RunTypes

\* ... and the others, but for the results it evicts.
LEMMA HostOnceElsewhere ==
  ASSUME TypeOK, OnceInv, NEW r \in Requests, NEW q \in Requests, q # r,
         RequestNext(r) \/ RunNext(r), Forgettable(q) => Forgettable(q)'
  PROVE  OnceFor(q)'
<1>0. RunTypes /\ ChannelTypes /\ OnceFor(q) /\ Goes(q) /\ 0 \in 0..MaxEvents
  BY HostGoes, LimitsAssumption DEF TypeOK, OnceInv
<1>1. owner'[q] = owner[q] /\ launches'[q] = launches[q] /\ stopped' = stopped
      /\ (q \in cancelled => q \in cancelled')
  BY <1>0 DEF RequestNext, OnRequest, Replays, Decides, Admit, GiveUp, SetOwner, OnAck, CellConverges,
      CellAdvances, WaitTimeout, WaitingCancelled, RunNext, Launch, Emit, RunEnds, Redeliver,
      CompletedExpires, runVars, hostVars, RunTypes
<1>2. q \in completed => q \in completed' \/ Forgettable(q)'
  <2>1. CASE \E n \in 0..MaxEvents : Remember(r, n)
    BY <1>0, <2>1, RememberKeeps DEF Forgettable
  <2>2. CASE ~\E n \in 0..MaxEvents : Remember(r, n)
    BY <1>0, <2>2
       DEF RequestNext, OnRequest, OnAck, CellConverges, CellAdvances, WaitTimeout, WaitingCancelled,
           RunNext, Launch, Emit, RunEnds, Redeliver, CompletedExpires, Forget, runVars, RunTypes
  <2> QED BY <2>1, <2>2
<1> QED BY <1>0, <1>1, <1>2, QuietOnce

LEMMA NextOnce == TypeOK /\ KeptInv /\ OnceInv /\ [Next]_vars => OnceInv'
<1> SUFFICES ASSUME TypeOK, KeptInv, OnceInv, [Next]_vars, NEW q \in Requests PROVE OnceFor(q)'
  BY DEF OnceInv
<1>0. Forgettable(q) => Forgettable(q)'
  BY ForgetsForGood
<1>1. CASE \E r \in Requests : GuestNext(r)
  <2>1. UNCHANGED <<owner, launches, completed, stopped, cancelled>>
    BY <1>1 DEF GuestNext, Submit, Synchronized, NotAccepted, SendRequest, ReceiptExpires,
                GuestReceives, OnAccepted, OnEvent, OnResult, OnMoved, runVars, hostVars
  <2>2. Goes(q) /\ OnceFor(q)
    BY <1>1, GuestGoes DEF OnceInv
  <2> QED BY <1>0, <2>1, <2>2, QuietOnce
<1>2. CASE \E r \in Requests : RequestNext(r) \/ RunNext(r)
  BY <1>0, <1>2, HostOnce, HostOnceElsewhere
<1>3. CASE SessionNext
  <2>1. UNCHANGED <<owner, launches, completed>>
    BY <1>3 DEF SessionNext, StopConfirmed, StopEnds, ComputeChanges, HandoverBegins, HandoverFails,
           HandoverCommits, PeerDisconnected, LinkDown, LinkUp, RelayReorders, RelayLoses, runVars
  <2>2. /\ q \in stopped' => q \in stopped \/ (owner[q] # "none" /\ q \in cancelled')
        /\ q \in cancelled => q \in cancelled'
    BY <1>3 DEF SessionNext, StopConfirmed, StopEnds, ComputeChanges, HandoverBegins, HandoverFails,
           HandoverCommits, PeerDisconnected, LinkDown, LinkUp, RelayReorders, RelayLoses, hostVars, Owners
  <2>3. CASE ~Forgettable(q)'
    BY <1>0, <1>3, <2>1, <2>2, <2>3, SessionGoes, QuietOnce DEF OnceInv
  <2>4. CASE Forgettable(q)'
    BY <2>4 DEF OnceFor
  <2> QED BY <2>3, <2>4
<1>4. CASE UNCHANGED vars
  <2>1. Goes(q)
    BY <1>4 DEF vars, guestVars, Goes, Over
  <2> QED BY <1>0, <1>4, <2>1, QuietOnce DEF vars, guestVars, runVars, hostVars, OnceInv
<1> QED BY <1>1, <1>2, <1>3, <1>4 DEF Next

THEOREM OnceInductive == Spec => []OnceInv
BY InitTypes, NextTypes, InitKept, NextKept, InitOnce, NextOnce, PTL DEF Spec

\* One request launches its cell once (docs/protocol.md, Notebook execution),
\* through lost routes, repeated requests, waits for the cell, stops and moves of
\* the host, unless its result was evicted or a relay lost or held back a frame.
THEOREM LaunchesOnce == Spec => []LaunchedOnce
<1>1. TypeOK /\ OnceInv => LaunchedOnce
  BY DEF TypeOK, RunTypes, OnceInv, OnceFor, LaunchedOnce
<1> QED BY <1>1, TypeCorrect, OnceInductive, PTL

\* A run that a confirmed stop named before its launch is not launched later
\* (applyIssuedExecutionStop, and the checks of handleExecutionRequest and
\* executeLocally).
THEOREM StopIsForGood == Spec => StoppedStaysStopped
<1>1. ASSUME TypeOK, OnceInv, [Next]_vars, NEW r \in Requests,
             r \in stopped, launches[r] = 0, launches'[r] > 0
      PROVE  Forgettable(r)
  <2>1. Launch(r)
    <3>1. launches' # launches /\ launches \in [Requests -> Nat]
      BY <1>1 DEF TypeOK, RunTypes
    <3>2. ~(SessionNext \/ UNCHANGED vars \/ \E q \in Requests : GuestNext(q) \/ RequestNext(q))
      BY <3>1 DEF SessionNext, StopConfirmed, StopEnds, ComputeChanges, HandoverBegins, HandoverFails,
           HandoverCommits, PeerDisconnected, LinkDown, LinkUp, RelayReorders, RelayLoses, vars,
           GuestNext, Submit, Synchronized, NotAccepted, SendRequest, ReceiptExpires, GuestReceives,
           OnAccepted, OnEvent, OnResult, OnMoved, RequestNext, OnRequest, OnAck, CellConverges,
           CellAdvances, WaitTimeout, WaitingCancelled, runVars
    <3>3. PICK q \in Requests : Launch(q)
      BY <1>1, <3>1, <3>2 DEF Next, RunNext, Emit, RunEnds, Redeliver, CompletedExpires, runVars
    <3>4. q = r
      BY <1>1, <3>1, <3>3 DEF Launch
    <3> QED BY <3>3, <3>4
  <2> QED BY <1>1, <2>1 DEF Launch, OnceInv, OnceFor, FreshOwner
<1>2. TypeOK /\ OnceInv /\ [Next]_vars
      => [\A r \in Requests : r \in stopped /\ launches[r] = 0 /\ launches'[r] > 0 => Forgettable(r)]_vars
  BY <1>1
<1> QED BY <1>2, TypeCorrect, OnceInductive, PTL DEF Spec, StoppedStaysStopped

-----------------------------------------------------------------------------
(* CompleteInv is inductive.                                               *)

\* A delivery of a retained result names the number of its events.
LEMMA ReplayResult ==
  ASSUME NEW n \in 0..MaxEvents
  PROVE  \A m \in Elems([i \in 1..n |-> Event(i - 1)] \o <<Result(n)>>) : m.type = "result" => m.n = n
<1> DEFINE s == [i \in 1..n |-> Event(i - 1)]
<1>1. s \in Seq(GuestBound) /\ \A m \in Elems(s) : m.type = "event"
  BY ReplayTypes
<1>2. Result(n) \in GuestBound /\ Result(n).n = n
  BY DEF GuestBound, Result
<1>3. <<Result(n)>> \in Seq(GuestBound) /\ Elems(<<Result(n)>>) = {Result(n)}
  BY <1>2, OneElem
<1>4. Elems(s \o <<Result(n)>>) \subseteq Elems(s) \cup {Result(n)}
  <2> HIDE DEF s
  <2> QED BY <1>1, <1>3, ConcatElems
<1> QED BY <1>1, <1>2, <1>4

LEMMA DeliveredResults ==
  ASSUME NEW q \in Requests, events \in [Requests -> 0..MaxEvents]
  PROVE  /\ \A m \in Elems(DeliverActive(q)) : m.type # "result"
         /\ \A m \in Elems(DeliverCompleted(q)) : m.type = "result" => m.n = events[q]
         /\ \A m \in Elems(<<Accepted>> \o DeliverCompleted(q)) : m.type = "result" => m.n = events[q]
<1>1. <<Accepted>> \in Seq(GuestBound) /\ Elems(<<Accepted>>) = {Accepted} /\ Accepted.type # "result"
  BY FrameTypes, OneElem DEF Accepted
<1>2. Events(q) \in Seq(GuestBound) /\ \A m \in Elems(Events(q)) : m.type = "event"
  BY ReplayTypes DEF Events
<1>3. \A m \in Elems(DeliverActive(q)) : m.type # "result"
  <2>1. Elems(DeliverActive(q)) \subseteq Elems(<<Accepted>>) \cup Elems(Events(q))
    BY <1>1, <1>2, ConcatElems DEF DeliverActive
  <2> QED BY <1>1, <1>2, <2>1
<1>4. \A m \in Elems(DeliverCompleted(q)) : m.type = "result" => m.n = events[q]
  BY ReplayResult DEF DeliverCompleted, Events
<1>5. Elems(<<Accepted>> \o DeliverCompleted(q)) \subseteq {Accepted} \cup Elems(DeliverCompleted(q))
  BY <1>1, DeliveryTypes, ConcatElems
<1> QED BY <1>1, <1>3, <1>4, <1>5

LEMMA InitComplete == Init => CompleteInv
<1> SUFFICES ASSUME Init, NEW q \in Requests PROVE CompleteFor(q)
  BY DEF CompleteInv
<1>1. Elems(<<>>) = {}
  BY DEF Elems
<1> QED BY <1>1 DEF Init, CompleteFor, OverIsOver, ResultIsRetained, DeferredIsOpen, Retained

\* A step that keeps what is retained for a waiting guest, and tells it of no
\* other result.
LEMMA StaysComplete ==
  ASSUME NEW q \in Requests, CompleteFor(q),
         Open(q)' => Open(q), deferred'[q] # NoResult => deferred'[q] = deferred[q] /\ Open(q)',
         q \in completed' => owner'[q] = "none",
         Open(q) /\ q \in completed => q \in completed' \/ q \in evicted',
         q \in evicted => q \in evicted',
         Open(q) /\ q \in completed => events'[q] = events[q],
         \A m \in Elems(toGuest'[q]) :
           \/ m \in Elems(toGuest[q])
           \/ m.type = "result" => q \in completed' /\ m.n = events'[q]
  PROVE  CompleteFor(q)'
<1>1. OverIsOver(q)' /\ DeferredIsOpen(q)'
  BY DEF OverIsOver, DeferredIsOpen, Retained
<1>2. ASSUME Open(q)', q \notin evicted' PROVE
        /\ deferred'[q] # NoResult => q \in completed' /\ deferred'[q] = events'[q]
        /\ \A m \in Elems(toGuest'[q]) : m.type = "result" => q \in completed' /\ m.n = events'[q]
  BY <1>2 DEF CompleteFor, ResultIsRetained, Retained
<1> QED BY <1>1, <1>2 DEF CompleteFor, ResultIsRetained, Retained

\* A call that is over waits for nothing.
LEMMA ClosedIsComplete ==
  ASSUME NEW q \in Requests, CompleteFor(q), ~Open(q)', deferred'[q] = NoResult,
         q \in completed' => owner'[q] = "none"
  PROVE  CompleteFor(q)'
BY DEF CompleteFor, OverIsOver, ResultIsRetained, DeferredIsOpen, Retained

\* The guest's own steps, and the frames that reach it.
LEMMA GuestComplete ==
  ASSUME TypeOK, KeptInv, CompleteInv, NEW r \in Requests, GuestNext(r), NEW q \in Requests
  PROVE  CompleteFor(q)'
<1>0. GuestTypes /\ RunTypes /\ ChannelTypes /\ KeptFor(q) /\ CompleteFor(q)
  BY DEF TypeOK, KeptInv, CompleteInv
<1>1. UNCHANGED runVars
  BY DEF GuestNext, Submit, Synchronized, NotAccepted, SendRequest, ReceiptExpires,
         GuestReceives, OnAccepted, OnEvent, OnResult, OnMoved
<1>2. q \in completed' => owner'[q] = "none"
  BY <1>0, <1>1 DEF runVars, CompleteFor, OverIsOver, Retained
<1>3. Elems(toGuest'[q]) \subseteq Elems(toGuest[q])
  <2>1. toGuest' = toGuest \/ (toGuest[r] # <<>> /\ toGuest' = Drop(toGuest, r))
    BY DEF GuestNext, Submit, Synchronized, NotAccepted, SendRequest, ReceiptExpires,
           GuestReceives, OnAccepted, OnEvent, OnResult, OnMoved
  <2>2. CASE q # r
    BY <1>0, <2>1, <2>2, OtherChannels
  <2>3. CASE q = r
    BY <1>0, <2>1, <2>3, DropElems DEF ChannelTypes
  <2> QED BY <2>2, <2>3
<1>4. CASE Submit(r) /\ q = r
  <2>1. Elems(toGuest[q]) \subseteq {Moved} /\ q \notin completed /\ deferred[q] = NoResult
    BY <1>0, <1>4 DEF Submit, KeptFor, NothingYet, Retained, CompleteFor, DeferredIsOpen, Open
  <2>2. toGuest' = toGuest /\ deferred' = deferred
    BY <1>4 DEF Submit
  <2> QED BY <1>0, <1>1, <1>2, <2>1, <2>2
          DEF runVars, CompleteFor, OverIsOver, ResultIsRetained, DeferredIsOpen, Retained, Moved
<1>5. CASE (Open(q)' => Open(q)) /\ (deferred'[q] # NoResult => deferred'[q] = deferred[q] /\ Open(q)')
  BY <1>0, <1>1, <1>2, <1>3, <1>5, StaysComplete DEF runVars
<1>6. CASE q # r
  <2>1. phase'[q] = phase[q] /\ deferred'[q] = deferred[q]
    BY <1>0, <1>6 DEF GuestNext, Submit, Synchronized, NotAccepted, SendRequest, ReceiptExpires,
         GuestReceives, OnAccepted, OnEvent, Renders, Buffers, OnResult, ResultFor, Resolve, OnMoved,
         Settle, guestVars, GuestTypes
  <2> QED BY <1>0, <1>5, <2>1 DEF Open, CompleteFor, DeferredIsOpen
<1>7. CASE q = r /\ \E outcome \in Settled : Settle(r, outcome)
  <2>1. ~Open(q)' /\ deferred'[q] = NoResult
    BY <1>0, <1>7 DEF Settle, GuestTypes, Open, Settled
  <2> QED BY <1>0, <1>2, <2>1, ClosedIsComplete
<1>8. CASE q = r /\ deferred' = deferred /\ (phase' = phase \/ Synchronized(r))
  <2>1. Open(q)' <=> Open(q)
    BY <1>0, <1>8 DEF Synchronized, Open, GuestTypes
  <2> QED BY <1>0, <1>5, <1>8, <2>1 DEF CompleteFor, DeferredIsOpen
<1>9. CASE /\ q = r /\ toGuest[r] # <<>> /\ OnResult(r) /\ Open(r) /\ Head(toGuest[r]).n > next[r]
           /\ deferred' = [deferred EXCEPT ![r] = Head(toGuest[r]).n] /\ phase' = phase
  <2> DEFINE m == Head(toGuest[r])
  <2>1. m \in Elems(toGuest[r]) /\ m \in GuestBound
    BY <1>0, <1>9, DropElems DEF ChannelTypes
  <2>2. next[r] \in Nat /\ m.n > next[r]
    BY <1>0, <1>9, LimitsAssumption DEF GuestTypes
  <2>3. m.type = "result"
    BY <1>9, <2>1, <2>2 DEF OnResult, GuestBound, Accepted, Refusal, Moved, Event, Result, Numbers
  <2>4. q \notin evicted => q \in completed /\ m.n = events[q]
    BY <1>0, <1>9, <2>1, <2>3 DEF CompleteFor, ResultIsRetained, Retained
  <2>5. Open(q)' /\ deferred'[q] = m.n
    BY <1>0, <1>9 DEF Open, GuestTypes
  <2> HIDE DEF m
  <2> QED BY <1>0, <1>1, <1>2, <1>3, <1>9, <2>4, <2>5
          DEF runVars, CompleteFor, OverIsOver, ResultIsRetained, DeferredIsOpen, Retained
<1> QED BY <1>4, <1>6, <1>7, <1>8, <1>9
        DEF GuestNext, Submit, NotAccepted, SendRequest, ReceiptExpires, GuestReceives, OnAccepted,
            OnEvent, Renders, Buffers, OnResult, ResultFor, Resolve, OnMoved, guestVars, Settled,
            Synchronized

\* The host's work on a request: a duplicate repeats the retained result, what
\* runs or waits has none, and only a settled call is forgotten.
LEMMA HostComplete ==
  ASSUME TypeOK, KeptInv, CompleteInv, NEW q \in Requests, RequestNext(q) \/ RunNext(q),
         q \in evicted => q \in evicted'
  PROVE  CompleteFor(q)'
<1>0. GuestTypes /\ RunTypes /\ ChannelTypes /\ KeptFor(q) /\ CompleteFor(q) /\ 0 \in 0..MaxEvents
  BY LimitsAssumption DEF TypeOK, KeptInv, CompleteInv
<1>1. UNCHANGED <<phase, deferred>>
  BY DEF RequestNext, OnRequest, OnAck, CellConverges, CellAdvances, WaitTimeout, WaitingCancelled,
         RunNext, Launch, Emit, RunEnds, Redeliver, CompletedExpires, guestVars
<1>2. /\ Open(q)' <=> Open(q)
      /\ deferred'[q] # NoResult => deferred'[q] = deferred[q] /\ Open(q)'
      /\ q \in completed => owner[q] = "none"
  BY <1>0, <1>1 DEF CompleteFor, DeferredIsOpen, OverIsOver, Retained, Open
<1>3. CASE OnRequest(q)
  <2>1. completed' = completed
    BY <1>3 DEF OnRequest
  <2>2. CASE Replays(q)
    <3>1. UNCHANGED <<owner, events>>
      BY <2>2 DEF Replays
    <3>2. ASSUME NEW m \in Elems(toGuest'[q])
          PROVE  m \in Elems(toGuest[q]) \/ (m.type = "result" => q \in completed /\ m.n = events[q])
      <4>1. CASE Retained(q) /\ Answer(q, <<Accepted>> \o DeliverCompleted(q))
        <5>1. Elems(toGuest'[q]) \subseteq Elems(toGuest[q]) \cup Elems(<<Accepted>> \o DeliverCompleted(q))
          BY <1>0, <4>1, AnswerElems, DeliveryTypes DEF RunTypes
        <5> QED BY <1>0, <4>1, <5>1, <3>2, DeliveredResults DEF Retained, RunTypes
      <4>2. CASE Answer(q, DeliverActive(q))
        <5>1. Elems(toGuest'[q]) \subseteq Elems(toGuest[q]) \cup Elems(DeliverActive(q))
          BY <1>0, <4>2, AnswerElems, DeliveryTypes DEF RunTypes
        <5> QED BY <1>0, <5>1, <3>2, DeliveredResults DEF RunTypes
      <4>3. CASE toGuest' = toGuest
        BY <3>2, <4>3
      <4> QED BY <2>2, <4>1, <4>2, <4>3 DEF Replays
    <3> QED BY <1>0, <1>2, <2>1, <3>1, <3>2, StaysComplete
  <2>3. CASE ~Retained(q) /\ Decides(q)
    <3>1. ASSUME NEW m \in Elems(toGuest'[q]) PROVE m \in Elems(toGuest[q]) \/ m.type # "result"
      <4>1. \/ toGuest' = toGuest \/ Answer(q, <<Accepted>>) \/ Answer(q, <<Refusal>>)
        BY <2>3 DEF Decides, Admit, Refuse
      <4>2. Elems(<<Accepted>>) = {Accepted} /\ Elems(<<Refusal>>) = {Refusal}
        BY FrameTypes, OneElem
      <4>3. Accepted.type # "result" /\ Refusal.type # "result"
        BY DEF Accepted, Refusal
      <4> QED BY <1>0, <3>1, <4>1, <4>2, <4>3, AnswerElems, ShortAnswers
    <3> QED BY <1>0, <1>2, <2>1, <2>3, <3>1, StaysComplete DEF Retained
  <2> QED BY <1>3, <2>2, <2>3 DEF OnRequest
<1>4. CASE OnAck(q) \/ CompletedExpires(q)
  <2>1. ~Open(q)
    <3>1. CASE OnAck(q)
      BY <1>0, <3>1, DropElems DEF OnAck, ChannelTypes, KeptFor, AckMeansSettled, Open
    <3> QED BY <1>4, <3>1 DEF CompletedExpires
  <2>2. UNCHANGED <<owner, toGuest>> /\ completed' \subseteq completed
    BY <1>4 DEF OnAck, CompletedExpires, Forget
  <2> QED BY <1>0, <1>2, <2>1, <2>2, StaysComplete
<1>5. CASE /\ q \notin completed /\ completed' = completed
           /\ \/ toGuest' = toGuest \/ Refuse(q) \/ Answer(q, <<Accepted>>)
              \/ \E n \in Numbers : Answer(q, <<Event(n)>>)
  <2>1. ASSUME NEW m \in Elems(toGuest'[q]) PROVE m \in Elems(toGuest[q]) \/ m.type # "result"
    <3>1. ASSUME NEW n \in Numbers PROVE <<Event(n)>> \in Seq(GuestBound) /\ Elems(<<Event(n)>>) = {Event(n)}
      BY <3>1, OneElem DEF GuestBound
    <3>2. Elems(<<Accepted>>) = {Accepted} /\ Elems(<<Refusal>>) = {Refusal}
      BY FrameTypes, OneElem
    <3>3. Accepted.type # "result" /\ Refusal.type # "result" /\ \A n : Event(n).type # "result"
      BY DEF Accepted, Refusal, Event
    <3> QED BY <1>0, <1>5, <2>1, <3>1, <3>2, <3>3, AnswerElems, ShortAnswers DEF Refuse
  <2> QED BY <1>0, <1>2, <1>5, <2>1, StaysComplete
<1>6. CASE CellConverges(q) \/ CellAdvances(q) \/ WaitTimeout(q)
  <2>1. completed' = completed
    BY <1>6 DEF CellConverges, CellAdvances, WaitTimeout
  <2>2. CASE owner[q] = "waiting"
    BY <1>2, <1>5, <1>6, <2>1, <2>2 DEF CellConverges, CellAdvances, WaitTimeout, Admit, GiveUp
  <2>3. CASE UNCHANGED <<owner, events, toGuest>>
    BY <1>0, <1>2, <2>1, <2>3, StaysComplete
  <2> QED BY <1>6, <2>2, <2>3 DEF CellConverges, CellAdvances, WaitTimeout
<1>7. CASE \E n \in 0..MaxEvents : Remember(q, n) /\ owner[q] # "none" /\ SetOwner(q, "none")
  <2>1. PICK n \in 0..MaxEvents : Remember(q, n) /\ owner[q] # "none" /\ SetOwner(q, "none")
    BY <1>7
  <2>2. q \in completed' /\ owner'[q] = "none" /\ events'[q] = n
    BY <1>0, <2>1, RememberKeeps DEF SetOwner, Remember, RunTypes
  <2>3. ASSUME NEW m \in Elems(toGuest'[q]) PROVE m \in Elems(toGuest[q]) \/ (m.type = "result" => m.n = n)
    <3> DEFINE s == [i \in 1..n |-> Event(i - 1)] \o <<Result(n)>>
    <3>1. s \in Seq(GuestBound) /\ \A f \in Elems(s) : f.type = "result" => f.n = n
      BY ReplayTypes, ReplayResult
    <3>2. toGuest' = Send(toGuest, q, s)
      BY <2>1 DEF Remember
    <3> HIDE DEF s
    <3>3. Elems(toGuest'[q]) \subseteq Elems(toGuest[q]) \cup Elems(s)
      BY <1>0, <3>1, <3>2, SendElems DEF ChannelTypes
    <3> QED BY <2>3, <3>1, <3>3
  <2> QED BY <1>0, <1>2, <2>1, <2>2, <2>3, StaysComplete
<1>8. CASE Launch(q) \/ Emit(q)
  <2>1. q \notin completed /\ completed' = completed
    BY <1>2, <1>8 DEF Launch, Emit
  <2>2. Emit(q) => events[q] \in Numbers
    BY <1>0, LimitsAssumption DEF Emit, RunTypes, Numbers
  <2> QED BY <1>5, <1>8, <2>1, <2>2 DEF Launch, Emit
<1>9. CASE Redeliver(q)
  <2>1. UNCHANGED <<owner, events, completed>> /\ q \in completed
    BY <1>9 DEF Redeliver, runVars, Retained
  <2>2. Elems(toGuest'[q]) \subseteq Elems(toGuest[q]) \cup Elems(DeliverCompleted(q))
    BY <1>0, <1>9, AnswerElems, DeliveryTypes DEF Redeliver, RunTypes
  <2>3. \A m \in Elems(DeliverCompleted(q)) : m.type = "result" => m.n = events[q]
    BY <1>0, DeliveredResults DEF RunTypes
  <2> QED BY <1>0, <1>2, <2>1, <2>2, <2>3, StaysComplete
<1>10. CASE WaitingCancelled(q) \/ RunEnds(q)
  BY <1>0, <1>7, <1>10 DEF WaitingCancelled, RunEnds, Running, RunTypes
<1> QED BY <1>3, <1>4, <1>6, <1>8, <1>9, <1>10 DEF RequestNext, RunNext

\* ... and the others, but for the results it evicts.
LEMMA HostCompleteElsewhere ==
  ASSUME TypeOK, CompleteInv, NEW r \in Requests, NEW q \in Requests, q # r,
         RequestNext(r) \/ RunNext(r), q \in evicted => q \in evicted'
  PROVE  CompleteFor(q)'
<1>0. RunTypes /\ ChannelTypes /\ CompleteFor(q) /\ 0 \in 0..MaxEvents
  BY LimitsAssumption DEF TypeOK, CompleteInv
<1>1. UNCHANGED <<phase, deferred>>
  BY DEF RequestNext, OnRequest, OnAck, CellConverges, CellAdvances, WaitTimeout, WaitingCancelled,
         RunNext, Launch, Emit, RunEnds, Redeliver, CompletedExpires, guestVars
<1>2. owner'[q] = owner[q] /\ events'[q] = events[q]
  BY <1>0 DEF RequestNext, OnRequest, Replays, Decides, Admit, GiveUp, SetOwner, OnAck, CellConverges,
      CellAdvances, WaitTimeout, WaitingCancelled, Remember, RunNext, Launch, Emit, RunEnds, Redeliver,
      CompletedExpires, runVars, RunTypes
<1>3. /\ toGuest'[q] = toGuest[q]
      /\ q \in completed' => q \in completed
      /\ q \in completed => q \in completed' \/ q \in evicted'
  <2>1. CASE \E n \in 0..MaxEvents : Remember(r, n)
    BY <1>0, <2>1, RememberKeeps
  <2>2. CASE ~\E n \in 0..MaxEvents : Remember(r, n)
    BY <1>0, <2>2, OtherChannels
       DEF RequestNext, OnRequest, Replays, Decides, Admit, GiveUp, Refuse, Answer, OnAck,
           CellConverges, CellAdvances, WaitTimeout, WaitingCancelled, RunNext, Launch, Emit, RunEnds,
           Redeliver, CompletedExpires, Forget, runVars, RunTypes
  <2> QED BY <2>1, <2>2
<1> QED BY <1>0, <1>1, <1>2, <1>3, StaysComplete
        DEF CompleteFor, OverIsOver, DeferredIsOpen, Retained, Open

\* Stops, moves and routes: what they put on the way to the guest repeats what
\* is retained.
LEMMA SessionComplete ==
  ASSUME TypeOK, CompleteInv, SessionNext, NEW q \in Requests
  PROVE  CompleteFor(q)'
<1>0. GuestTypes /\ RunTypes /\ ChannelTypes /\ CompleteFor(q)
  BY DEF TypeOK, CompleteInv
<1>1. UNCHANGED runVars
  BY DEF SessionNext, StopConfirmed, StopEnds, ComputeChanges, HandoverBegins, HandoverFails,
         HandoverCommits, PeerDisconnected, LinkDown, LinkUp, RelayReorders, RelayLoses
<1>2. /\ Open(q)' => Open(q)
      /\ deferred'[q] # NoResult => deferred'[q] = deferred[q] /\ Open(q)'
  <2>1. CASE PeerDisconnected
    BY <1>0, <2>1 DEF PeerDisconnected, CompleteFor, DeferredIsOpen, Open, GuestTypes
  <2>2. CASE UNCHANGED <<phase, deferred>>
    BY <1>0, <2>2 DEF CompleteFor, DeferredIsOpen, Open
  <2> QED BY <2>1, <2>2 DEF SessionNext, StopConfirmed, StopEnds, ComputeChanges, HandoverBegins,
         HandoverFails, HandoverCommits, LinkDown, LinkUp, RelayReorders, RelayLoses, guestVars
<1>3. ASSUME NEW m \in Elems(toGuest'[q])
      PROVE  m \in Elems(toGuest[q]) \/ (m.type = "result" => q \in completed /\ m.n = events[q])
  <2>1. CASE ComputeChanges \/ HandoverCommits
    <3>1. toGuest[q] \in Seq(GuestBound)
      BY <1>0 DEF ChannelTypes
    <3>2. Elems(toGuest[q] \o <<Moved>>) \subseteq Elems(toGuest[q]) \cup {Moved}
      BY <3>1, FrameTypes, OneElem, ConcatElems
    <3>3. Append(toGuest[q], Moved) = toGuest[q] \o <<Moved>> /\ Moved.type # "result"
      BY <3>1, FrameTypes DEF Moved
    <3>4. toGuest'[q] = toGuest[q] \/ toGuest'[q] = Append(toGuest[q], Moved)
      BY <2>1 DEF ComputeChanges, HandoverCommits, Announce
    <3> QED BY <1>3, <3>2, <3>3, <3>4
  <2>2. CASE LinkDown
    BY <1>3, <2>2, EmptyElems DEF LinkDown
  <2>3. CASE LinkUp
    <3> DEFINE a == IF target = "changed" THEN <<Moved>> ELSE <<>>
               b == IF Retained(q) THEN DeliverCompleted(q)
                    ELSE IF Running(q) THEN DeliverActive(q) ELSE <<>>
    <3>1. toGuest'[q] = a \o b
      BY <2>3 DEF LinkUp
    <3>2. a \in Seq(GuestBound) /\ Elems(a) \subseteq {Moved}
      BY FrameTypes, OneElem, EmptyElems
    <3>3. b \in Seq(GuestBound)
      BY <1>0, DeliveryTypes, EmptyElems DEF RunTypes
    <3>4. \A f \in Elems(b) : f.type = "result" => q \in completed /\ f.n = events[q]
      BY <1>0, DeliveredResults, EmptyElems DEF RunTypes, Retained
    <3> HIDE DEF a, b
    <3>5. Elems(a \o b) \subseteq Elems(a) \cup Elems(b)
      BY <3>2, <3>3, ConcatElems
    <3> QED BY <1>3, <3>1, <3>2, <3>4, <3>5 DEF Moved
  <2>4. CASE \E r \in Requests : RelayReorders(r) \/ RelayLoses(r)
    <3>1. PICK r \in Requests : RelayReorders(r) \/ RelayLoses(r)
      BY <2>4
    <3>2. CASE q # r
      BY <1>0, <1>3, <3>1, <3>2 DEF RelayReorders, RelayLoses, Drop, ChannelTypes
    <3>3. CASE q = r /\ RelayReorders(r)
      <4>1. \A i \in 2..Len(toGuest[r]) : Elems(Overtaken(toGuest[r], i)) \subseteq Elems(toGuest[r])
        BY <1>0, OvertakenElems DEF ChannelTypes
      <4> QED BY <1>0, <1>3, <3>3, <4>1 DEF RelayReorders, ChannelTypes
    <3>4. CASE q = r /\ RelayLoses(r)
      <4>1. toGuest[r] # <<>> => Elems(Drop(toGuest, r)[r]) \subseteq Elems(toGuest[r])
        BY <1>0, DropElems DEF ChannelTypes
      <4> QED BY <1>3, <3>4, <4>1 DEF RelayLoses
    <3> QED BY <3>1, <3>2, <3>3, <3>4
  <2>5. CASE toGuest' = toGuest
    BY <1>3, <2>5
  <2> QED BY <2>1, <2>2, <2>3, <2>4, <2>5 DEF SessionNext, StopConfirmed, StopEnds, HandoverBegins,
         HandoverFails, PeerDisconnected
<1> QED BY <1>0, <1>1, <1>2, <1>3, StaysComplete DEF runVars, CompleteFor, OverIsOver, Retained

LEMMA NextComplete == TypeOK /\ KeptInv /\ CompleteInv /\ [Next]_vars => CompleteInv'
<1> SUFFICES ASSUME TypeOK, KeptInv, CompleteInv, [Next]_vars, NEW q \in Requests PROVE CompleteFor(q)'
  BY DEF CompleteInv
<1>0. q \in evicted => q \in evicted'
  BY ForgetsForGood
<1>1. CASE \E r \in Requests : GuestNext(r)
  BY <1>1, GuestComplete
<1>2. CASE \E r \in Requests : RequestNext(r) \/ RunNext(r)
  BY <1>0, <1>2, HostComplete, HostCompleteElsewhere
<1>3. CASE SessionNext
  BY <1>3, SessionComplete
<1>4. CASE UNCHANGED vars
  BY <1>4, StaysComplete DEF CompleteInv, CompleteFor, OverIsOver, DeferredIsOpen, Open, Retained,
                             vars, guestVars, runVars
<1> QED BY <1>1, <1>2, <1>3, <1>4 DEF Next

THEOREM CompleteInductive == Spec => []CompleteInv
BY InitTypes, NextTypes, InitKept, NextKept, InitComplete, NextComplete, PTL DEF Spec

\* What the host remembers of every request, of each of them for as long as its
\* guest needs it, is kept by every step.
THEOREM RememberInductive == Spec => []RememberInv
BY KeptInductive, OnceInductive, CompleteInductive, PTL DEF RememberInv

\* A cell resolves with its result when every event kept for it was rendered,
\* whatever was lost, repeated or reordered on the way (resolvePendingRemoteExecution).
THEOREM ResolvesWithAll == Spec => ResolvesComplete
<1>1. ASSUME TypeOK, CompleteInv, [Next]_vars, NEW q \in Requests,
             phase[q] # "ran", phase'[q] = "ran", q \notin evicted
      PROVE  next'[q] = events[q]
  <2>0. GuestTypes /\ ChannelTypes /\ CompleteFor(q)
    BY <1>1 DEF TypeOK, CompleteInv
  <2>1. ~SessionNext /\ ~UNCHANGED vars /\ \A r \in Requests : ~RequestNext(r) /\ ~RunNext(r)
    BY <1>1, <2>0 DEF SessionNext, StopConfirmed, StopEnds, ComputeChanges, HandoverBegins, HandoverFails,
         HandoverCommits, PeerDisconnected, LinkDown, LinkUp, RelayReorders, RelayLoses, vars,
         RequestNext, OnRequest, OnAck, CellConverges, CellAdvances, WaitTimeout, WaitingCancelled,
         RunNext, Launch, Emit, RunEnds, Redeliver, CompletedExpires, guestVars, GuestTypes
  <2>2. GuestNext(q) /\ phase' = [phase EXCEPT ![q] = "ran"]
    <3>1. PICK r \in Requests : GuestNext(r)
      BY <1>1, <2>1 DEF Next
    <3>2. phase' = phase \/ \E outcome \in Phases : phase' = [phase EXCEPT ![r] = outcome]
      BY <3>1 DEF GuestNext, Submit, Synchronized, NotAccepted, Settle, SendRequest, ReceiptExpires,
           GuestReceives, OnAccepted, OnEvent, Renders, Buffers, OnResult, ResultFor, Resolve, OnMoved,
           guestVars, Phases
    <3>3. r = q /\ phase' = [phase EXCEPT ![q] = "ran"]
      BY <1>1, <2>0, <3>2 DEF GuestTypes
    <3> QED BY <3>1, <3>3
  <2>3. toGuest[q] # <<>> /\ Open(q) /\ (OnEvent(q) \/ OnResult(q))
    BY <1>1, <2>0, <2>2
       DEF GuestNext, Submit, Synchronized, NotAccepted, Settle, SendRequest, ReceiptExpires,
           GuestReceives, OnAccepted, OnEvent, OnResult, OnMoved, guestVars, GuestTypes
  <2>4. CASE OnEvent(q)
    <3>1. Renders(q, Head(toGuest[q]).n)
      BY <1>1, <2>2, <2>3, <2>4 DEF OnEvent, Buffers
    <3>2. PICK k \in (Head(toGuest[q]).n + 1)..MaxEvents :
            next' = [next EXCEPT ![q] = k] /\ (deferred[q] # k => UNCHANGED phase)
      BY <3>1 DEF Renders
    <3>3. Head(toGuest[q]).n = next[q] /\ next[q] \in 0..MaxEvents
      BY <2>0, <3>1 DEF Renders, GuestTypes
    <3>4. next'[q] = k /\ deferred[q] = k /\ k # NoResult
      BY <1>1, <2>0, <3>2, <3>3, LimitsAssumption DEF GuestTypes, NoResult
    <3> QED BY <1>1, <2>0, <2>3, <3>4 DEF CompleteFor, ResultIsRetained
  <2>5. CASE OnResult(q)
    <3> DEFINE m == Head(toGuest[q])
    <3>1. m \in Elems(toGuest[q])
      BY <2>0, <2>3, DropElems DEF ChannelTypes
    <3>2. ResultFor(q, m.n, IF m.type = "result" THEN "ran" ELSE "refused") /\ next' = next
      BY <2>3, <2>5 DEF OnResult
    <3>3. m.type = "result" /\ m.n = next[q]
      BY <1>1, <2>0, <3>2 DEF ResultFor, Resolve, Settle, GuestTypes
    <3> HIDE DEF m
    <3> QED BY <1>1, <2>0, <2>3, <3>1, <3>2, <3>3 DEF CompleteFor, ResultIsRetained
  <2> QED BY <2>3, <2>4, <2>5
<1>2. TypeOK /\ CompleteInv /\ [Next]_vars
      => [\A r \in Requests : phase[r] # "ran" /\ phase'[r] = "ran" => next'[r] = events[r] \/ r \in evicted]_vars
  BY <1>1
<1> QED BY <1>2, TypeCorrect, CompleteInductive, PTL DEF Spec, ResolvesComplete
=============================================================================
