---------------------- MODULE ExecutionBarrier_proofs ----------------------
(***************************************************************************)
(* The barrier before a run starts code on a commitment only, for every    *)
(* project, any number of edits, repeated frames and faults, whatever      *)
(* order frames come in (synchronizeExecutionFiles and the executor).      *)
(* Projects are compared as sets of what is known of them (Known), so that *)
(* a merge is a union; queues are compared frame by frame.                 *)
(***************************************************************************)
EXTENDS ExecutionBarrier, SequenceTheorems, TLAPS

-----------------------------------------------------------------------------
(* Projects. *)

LEMMA ProjectFields ==
  ASSUME NEW a \in Projects
  PROVE  /\ DOMAIN a \subseteq Docs /\ a = [d \in DOMAIN a |-> a[d]]
         /\ \A d \in DOMAIN a : a[d] \subseteq 1 .. MaxChanges
BY DEF Projects

LEMMA IsProject ==
  ASSUME NEW D \in SUBSET Docs, NEW a \in [D -> SUBSET (1 .. MaxChanges)]
  PROVE  a \in Projects
BY DEF Projects

LEMMA KnownOf ==
  ASSUME NEW a, NEW p
  PROVE  p \in Known(a) <=> \E d \in DOMAIN a : \E e \in a[d] \cup {0} : p = <<d, e>>
BY DEF Known

\* What is known of a merge is what is known of either.
LEMMA MergeKnown ==
  ASSUME NEW a \in Projects, NEW b \in Projects
  PROVE  Merge(a, b) \in Projects /\ Known(Merge(a, b)) = Known(a) \cup Known(b)
<1> DEFINE part(x, d) == IF d \in DOMAIN x THEN x[d] ELSE {}
           c == Merge(a, b)
<1>1. c = [d \in DOMAIN a \cup DOMAIN b |-> part(a, d) \cup part(b, d)]
  BY DEF Merge
<1>2. DOMAIN c = DOMAIN a \cup DOMAIN b /\ \A d \in DOMAIN c : c[d] = part(a, d) \cup part(b, d)
  BY <1>1
<1>3. c \in Projects
  <2>1. \A d \in DOMAIN c : c[d] \subseteq 1 .. MaxChanges
    BY <1>2, ProjectFields
  <2>2. c \in [DOMAIN c -> SUBSET (1 .. MaxChanges)] /\ DOMAIN c \subseteq Docs
    BY <1>1, <1>2, <2>1, ProjectFields
  <2> HIDE DEF c
  <2> QED BY <2>2, IsProject
<1>4. ASSUME NEW p PROVE p \in Known(c) <=> p \in Known(a) \/ p \in Known(b)
  <2> HIDE DEF c
  <2>1. p \in Known(c) <=> \E d \in DOMAIN c : \E e \in c[d] \cup {0} : p = <<d, e>>
    BY KnownOf
  <2>2. p \in Known(a) <=> \E d \in DOMAIN a : \E e \in a[d] \cup {0} : p = <<d, e>>
    BY KnownOf
  <2>3. p \in Known(b) <=> \E d \in DOMAIN b : \E e \in b[d] \cup {0} : p = <<d, e>>
    BY KnownOf
  <2> QED BY <1>2, <2>1, <2>2, <2>3
<1> QED BY <1>3, <1>4

LEMMA OnlyKnown ==
  ASSUME NEW a \in Projects, NEW D
  PROVE  Only(a, D) \in Projects /\ Known(Only(a, D)) \subseteq Known(a)
<1> DEFINE c == Only(a, D)
<1>1. c = [d \in D \cap DOMAIN a |-> a[d]]
  BY DEF Only
<1>2. c \in [D \cap DOMAIN a -> SUBSET (1 .. MaxChanges)] /\ D \cap DOMAIN a \subseteq Docs
  BY <1>1, ProjectFields
<1>3. DOMAIN c = D \cap DOMAIN a /\ \A d \in DOMAIN c : c[d] = a[d]
  BY <1>1
<1>4. ASSUME NEW p \in Known(c) PROVE p \in Known(a)
  <2> HIDE DEF c
  <2> QED BY <1>3, KnownOf
<1> HIDE DEF c
<1>5. c \in Projects
  BY <1>2, IsProject
<1> QED BY <1>4, <1>5 DEF c

LEMMA EditProject ==
  ASSUME NEW d \in Docs, NEW e \in 1 .. MaxChanges
  PROVE  [x \in {d} |-> {e}] \in Projects
<1>1. [x \in {d} |-> {e}] \in [{d} -> SUBSET (1 .. MaxChanges)] /\ {d} \in SUBSET Docs
  OBVIOUS
<1> QED BY <1>1, IsProject

-----------------------------------------------------------------------------
(* Queues. *)

LEMMA Appended ==
  ASSUME NEW S, NEW q \in Seq(S), NEW f \in S
  PROVE  /\ Append(q, f) \in Seq(S) /\ Len(q) \in Nat /\ Len(Append(q, f)) = Len(q) + 1
         /\ Append(q, f)[Len(q) + 1] = f
         /\ \A i \in 1 .. Len(q) : Append(q, f)[i] = q[i] /\ q[i] \in S
OBVIOUS

LEMMA Two ==
  ASSUME NEW S, NEW q \in Seq(S), NEW f \in S, NEW g \in S
  PROVE  q \o <<f, g>> = Append(Append(q, f), g)
OBVIOUS

\* One frame is taken out, whichever it is.
LEMMA Taken ==
  ASSUME NEW S, NEW q \in Seq(S), NEW i \in 1 .. Len(q)
  PROVE  /\ Without(q, i) \in Seq(S) /\ Len(q) \in Nat /\ Len(Without(q, i)) = Len(q) - 1 /\ q[i] \in S
         /\ \A j \in 1 .. Len(Without(q, i)) : Without(q, i)[j] = (IF j < i THEN q[j] ELSE q[j + 1])
<1> DEFINE n == Len(q) - 1
           e(j) == IF j < i THEN q[j] ELSE q[j + 1]
<1>1. n \in Nat /\ \A j \in 1 .. Len(q) : q[j] \in S
  OBVIOUS
<1>2. \A j \in 1 .. n : e(j) \in S
  BY <1>1
<1>3. [j \in 1 .. n |-> e(j)] \in Seq(S)
  <2> HIDE DEF n, e
  <2> QED BY <1>1, <1>2, IsASeq
<1>4. Without(q, i) = [j \in 1 .. n |-> e(j)]
  BY DEF Without
<1>5. Len(Without(q, i)) = n
  <2>1. DOMAIN Without(q, i) = 1 .. n
    BY <1>4
  <2> HIDE DEF n, e
  <2> QED BY <1>1, <1>3, <1>4, <2>1
<1> QED BY <1>1, <1>3, <1>4, <1>5

LEMMA InFlightAppended ==
  ASSUME NEW S, NEW q \in Seq(S), NEW f \in S
  PROVE  InFlight(Append(q, f)) = InFlight(q) \cup {f}
<1> DEFINE r == Append(q, f)
<1>1. /\ Len(q) \in Nat /\ Len(r) = Len(q) + 1 /\ r[Len(q) + 1] = f
      /\ \A i \in 1 .. Len(q) : r[i] = q[i]
  BY Appended
<1>2. /\ \A i \in 1 .. Len(q) + 1 : i \in 1 .. Len(q) \/ i = Len(q) + 1
      /\ \A i \in 1 .. Len(q) : i \in 1 .. Len(q) + 1
      /\ Len(q) + 1 \in 1 .. Len(q) + 1
  BY <1>1
<1> HIDE DEF r
<1>3. ASSUME NEW g PROVE g \in InFlight(r) <=> g \in InFlight(q) \/ g = f
  BY <1>1, <1>2 DEF InFlight
<1> QED BY <1>3 DEF r

LEMMA InFlightTaken ==
  ASSUME NEW S, NEW q \in Seq(S), NEW i \in 1 .. Len(q)
  PROVE  InFlight(Without(q, i)) \subseteq InFlight(q) /\ q[i] \in InFlight(q)
<1> DEFINE r == Without(q, i)
<1>1. /\ Len(q) \in Nat /\ Len(r) = Len(q) - 1
      /\ \A j \in 1 .. Len(r) : r[j] = (IF j < i THEN q[j] ELSE q[j + 1])
  BY Taken
<1> HIDE DEF r
<1>2. \A j \in 1 .. Len(r) : j \in 1 .. Len(q) /\ j + 1 \in 1 .. Len(q)
  BY <1>1
<1>3. ASSUME NEW j \in 1 .. Len(r) PROVE r[j] \in InFlight(q)
  BY <1>1, <1>2 DEF InFlight
<1> QED BY <1>3 DEF InFlight, r

LEMMA InFlightPrefix ==
  ASSUME NEW S, NEW q \in Seq(S), NEW n \in 0 .. Len(q)
  PROVE  SubSeq(q, 1, n) \in Seq(S) /\ InFlight(SubSeq(q, 1, n)) \subseteq InFlight(q)
<1> DEFINE r == SubSeq(q, 1, n)
<1>1. r \in Seq(S) /\ Len(r) = n /\ \A i \in 1 .. n : r[i] = q[i]
  OBVIOUS
<1> HIDE DEF r
<1>2. \A i \in 1 .. n : i \in 1 .. Len(q)
  OBVIOUS
<1> QED BY <1>1, <1>2 DEF InFlight, r

-----------------------------------------------------------------------------
(* What the updates in a queue bring. *)

Brought(f) == IF f.type = "update" THEN Known(f.docs) ELSE {}

LEMMA NewsOf ==
  ASSUME NEW q, NEW n, NEW p
  PROVE  p \in News(q, n) <=> \E i \in 1 .. n : q[i].type = "update" /\ p \in Known(q[i].docs)
BY DEF News

LEMMA NewsAppended ==
  ASSUME NEW S, NEW q \in Seq(S), NEW f \in S
  PROVE  /\ \A n \in 1 .. Len(q) : News(Append(q, f), n) = News(q, n)
         /\ News(Append(q, f), Len(q) + 1)
              = News(q, Len(q)) \cup Brought(f)
<1> DEFINE r == Append(q, f)
<1>1. /\ Len(q) \in Nat /\ r[Len(q) + 1] = f /\ \A i \in 1 .. Len(q) : r[i] = q[i]
  BY Appended
<1> HIDE DEF r
<1>2. ASSUME NEW n \in 1 .. Len(q), NEW p PROVE p \in News(r, n) <=> p \in News(q, n)
  BY <1>1, NewsOf
<1>3. ASSUME NEW p
      PROVE  p \in News(r, Len(q) + 1)
               <=> p \in News(q, Len(q)) \/ (f.type = "update" /\ p \in Known(f.docs))
  <2>1. p \in News(r, Len(q) + 1)
          <=> \E i \in 1 .. Len(q) + 1 : r[i].type = "update" /\ p \in Known(r[i].docs)
    BY NewsOf
  <2>2. p \in News(q, Len(q)) <=> \E i \in 1 .. Len(q) : q[i].type = "update" /\ p \in Known(q[i].docs)
    BY NewsOf
  <2>3. \A i \in 1 .. Len(q) + 1 : i \in 1 .. Len(q) \/ i = Len(q) + 1
    BY <1>1
  <2>4. 1 .. Len(q) \subseteq 1 .. Len(q) + 1 /\ Len(q) + 1 \in 1 .. Len(q) + 1
    BY <1>1
  <2> QED BY <1>1, <2>1, <2>2, <2>3, <2>4
<1> QED BY <1>2, <1>3 DEF r, Brought

\* One update less, and what it brings.
LEMMA NewsTaken ==
  ASSUME NEW S, NEW q \in Seq(S), NEW i \in 1 .. Len(q), NEW n \in 1 .. Len(q), NEW k \in 0 .. Len(q) - 1,
         (k = n - 1 /\ i <= n) \/ (k = n /\ n < i)
  PROVE  News(q, n) \subseteq News(Without(q, i), k) \cup Brought(q[i])
<1> DEFINE r == Without(q, i)
<1>1. /\ Len(q) \in Nat /\ Len(r) = Len(q) - 1
      /\ \A j \in 1 .. Len(r) : r[j] = (IF j < i THEN q[j] ELSE q[j + 1])
  BY Taken
<1> HIDE DEF r
<1> SUFFICES ASSUME NEW j \in 1 .. n, q[j].type = "update", NEW p \in Known(q[j].docs)
             PROVE  p \in News(r, k) \cup Brought(q[i])
  BY NewsOf DEF r
<1>2. CASE j = i
  BY <1>2 DEF Brought
<1>3. CASE j < i /\ j \in 1 .. k
  <2>1. r[j] = q[j]
    BY <1>1, <1>3
  <2> QED BY <1>3, <2>1, NewsOf
<1>4. CASE j > i
  <2>1. j - 1 \in 1 .. k /\ r[j - 1] = q[j]
    BY <1>1, <1>4
  <2> QED BY <2>1, NewsOf
<1>5. j < i => j \in 1 .. k
  OBVIOUS
<1> QED BY <1>2, <1>3, <1>4, <1>5

\* What a side wants is here or in an update to it; a commit comes behind what it names.
Follows(q, have, want) ==
  /\ want \subseteq have \cup News(q, Len(q))
  /\ \A i \in 1 .. Len(q) :
       q[i].type = "commit" => Known(q[i].manifest) \subseteq have \cup News(q, i)

LEMMA FollowsAppended ==
  ASSUME NEW S, NEW q \in Seq(S), NEW f \in S, NEW have, NEW want, NEW more, Follows(q, have, want),
         f.type = "commit" => Known(f.manifest) \subseteq want, more \subseteq Brought(f)
  PROVE  Follows(Append(q, f), have, want \cup more)
<1> DEFINE r == Append(q, f)
<1>1. /\ Len(q) \in Nat /\ Len(r) = Len(q) + 1 /\ r[Len(q) + 1] = f
      /\ \A i \in 1 .. Len(q) : r[i] = q[i]
  BY Appended
<1>2. /\ \A i \in 1 .. Len(q) : News(r, i) = News(q, i)
      /\ News(r, Len(q) + 1) = News(q, Len(q)) \cup Brought(f)
  BY NewsAppended
<1> HIDE DEF r
<1>3. ASSUME NEW i \in 1 .. Len(r), r[i].type = "commit"
      PROVE  Known(r[i].manifest) \subseteq have \cup News(r, i)
  <2>1. CASE i \in 1 .. Len(q)
    BY <1>1, <1>2, <1>3, <2>1 DEF Follows
  <2>2. CASE i = Len(q) + 1
    BY <1>1, <1>2, <1>3, <2>2 DEF Follows
  <2> QED BY <1>1, <2>1, <2>2
<1>4. want \cup more \subseteq have \cup News(r, Len(r))
  BY <1>1, <1>2 DEF Follows
<1> QED BY <1>3, <1>4 DEF Follows, r

LEMMA FollowsTaken ==
  ASSUME NEW S, NEW q \in Seq(S), NEW i \in 1 .. Len(q), NEW have, NEW want, Follows(q, have, want)
  PROVE  Follows(Without(q, i), have \cup Brought(q[i]), want)
<1> DEFINE r == Without(q, i)
<1>1. /\ Len(q) \in Nat /\ Len(q) \in 1 .. Len(q) /\ Len(r) = Len(q) - 1 /\ i <= Len(q)
      /\ \A j \in 1 .. Len(r) : r[j] = (IF j < i THEN q[j] ELSE q[j + 1])
  BY Taken
<1>2. News(q, Len(q)) \subseteq News(r, Len(r)) \cup Brought(q[i])
  BY <1>1, NewsTaken
<1>3. ASSUME NEW k \in 1 .. Len(r), r[k].type = "commit"
      PROVE  Known(r[k].manifest) \subseteq have \cup Brought(q[i]) \cup News(r, k)
  <2> DEFINE n == IF k < i THEN k ELSE k + 1
  <2>1. n \in 1 .. Len(q) /\ k \in 0 .. Len(q) - 1 /\ r[k] = q[n]
    <3> HIDE DEF r
    <3> QED BY <1>1
  <2>2. (k = n - 1 /\ i <= n) \/ (k = n /\ n < i)
    OBVIOUS
  <2> HIDE DEF n
  <2>3. News(q, n) \subseteq News(r, k) \cup Brought(q[i])
    BY <2>1, <2>2, NewsTaken
  <2> HIDE DEF r
  <2> QED BY <1>3, <2>1, <2>3 DEF Follows
<1> HIDE DEF r
<1> QED BY <1>2, <1>3 DEF Follows, r

LEMMA FollowsMore ==
  ASSUME NEW q, NEW have, NEW want, NEW new, NEW known, Follows(q, have, want), known \subseteq have
  PROVE  Follows(q, have \cup new, want \cup known)
BY DEF Follows

-----------------------------------------------------------------------------
(* What the steps do to the two queues. *)

LEMMA Frames ==
  /\ \A a \in Projects : /\ [type |-> "update", docs |-> a] \in Frame
                         /\ [type |-> "state", docs |-> a] \in Frame
                         /\ [type |-> "check", manifest |-> a] \in Frame
                         /\ [type |-> "commit", manifest |-> a] \in Frame
  /\ [type |-> "stateRequest"] \in Frame /\ [type |-> "stateEnd"] \in Frame
  /\ \A ok \in BOOLEAN : Ack(ok) \in Frame
  /\ \A ok \in BOOLEAN, sync \in BOOLEAN, D \in SUBSET Docs : Status(ok, sync, D) \in Frame
BY DEF Frame, Ack, Status

LEMMA FrameFields ==
  ASSUME NEW f \in Frame
  PROVE  /\ f.type \in {"update", "state"} => f.docs \in Projects
         /\ f.type \in {"check", "commit"} => f.manifest \in Projects
BY DEF Frame

LEMMA Typed ==
  ASSUME TypeOK
  PROVE  /\ X \in Seq(Frame) /\ Q \in Seq(Frame)
         /\ docs["executor"] \in Projects /\ docs["requester"] \in Projects
         /\ Manifest("requester") \in Projects /\ req.manifest \in Projects
         /\ \A m \in req.checks \cup req.commits : m \in Projects
         /\ \A m \in exec.pending \cup exec.completed \cup exec.verifying : m \in Projects
BY DEF TypeOK, X, Q, Sides, Manifest, Requests, Authorizations

\* The queues after a step.
Now(x, q) == X' = x /\ Q' = q /\ net' = [s \in Sides |-> IF s = "executor" THEN x ELSE q]

LEMMA NowTyped ==
  ASSUME NEW x \in Seq(Frame), NEW q \in Seq(Frame), Now(x, q)
  PROVE  net' \in [Sides -> Seq(Frame)]
BY DEF Now

XRest(i) == [net EXCEPT !["executor"] = Without(@, i)]
QRest(i) == [net EXCEPT !["requester"] = Without(@, i)]

LEMMA NetEffect ==
  ASSUME TypeOK, NEW f, NEW i
  PROVE  /\ Post("executor", f) => Now(Append(X, f), Q)
         /\ Post("requester", f) => Now(X, Append(Q, f))
         /\ UNCHANGED net => Now(X, Q)
         /\ net' = XRest(i) => Now(Without(X, i), Q)
         /\ net' = QRest(i) => Now(X, Without(Q, i))
         /\ net' = [XRest(i) EXCEPT !["requester"] = Append(@, f)] => Now(Without(X, i), Append(Q, f))
         /\ net' = [XRest(i) EXCEPT !["requester"] = @ \o f] => Now(Without(X, i), Q \o f)
         /\ net' = [QRest(i) EXCEPT !["executor"] = Append(@, f)] => Now(Append(X, f), Without(Q, i))
<1>1. net \in [Sides -> Seq(Frame)] /\ Sides = {"requester", "executor"}
  BY DEF TypeOK, Sides
<1>2. Post("executor", f) => Now(Append(X, f), Q)
  BY <1>1 DEF Post, Now, X, Q
<1>3. Post("requester", f) => Now(X, Append(Q, f))
  BY <1>1 DEF Post, Now, X, Q
<1>4. UNCHANGED net => Now(X, Q)
  BY <1>1 DEF Now, X, Q
<1>5. /\ net' = XRest(i) => Now(Without(X, i), Q)
      /\ net' = QRest(i) => Now(X, Without(Q, i))
  BY <1>1 DEF Now, X, Q, XRest, QRest
<1>6. /\ net' = [XRest(i) EXCEPT !["requester"] = Append(@, f)] => Now(Without(X, i), Append(Q, f))
      /\ net' = [XRest(i) EXCEPT !["requester"] = @ \o f] => Now(Without(X, i), Q \o f)
  BY <1>1 DEF Now, X, Q, XRest
<1>7. net' = [QRest(i) EXCEPT !["executor"] = Append(@, f)] => Now(Append(X, f), Without(Q, i))
  BY <1>1 DEF Now, X, Q, QRest
<1> QED BY <1>2, <1>3, <1>4, <1>5, <1>6, <1>7

LEMMA Merged ==
  ASSUME docs \in [Sides -> Projects], NEW s \in Sides, NEW a \in Projects,
         docs' = [docs EXCEPT ![s] = Merge(@, a)]
  PROVE  docs' \in [Sides -> Projects] /\ Known(docs'[s]) = Known(docs[s]) \cup Known(a)
         /\ docs'[Other(s)] = docs[Other(s)]
<1>1. /\ docs[s] \in Projects /\ Merge(docs[s], a) \in Projects
      /\ Known(Merge(docs[s], a)) = Known(docs[s]) \cup Known(a)
  BY MergeKnown
<1>2. Other(s) \in Sides /\ Other(s) # s
  BY DEF Other, Sides
<1> QED BY <1>1, <1>2

-----------------------------------------------------------------------------
(* The steps of the requester, with what they leave of the types. *)

Edits(s, new) ==
  /\ new \in Projects /\ docs' = [docs EXCEPT ![s] = Merge(@, new)]
  /\ LET f == [type |-> "update", docs |-> new]
     IN IF s = "requester" THEN Now(Append(X, f), Q) ELSE Now(X, Append(Q, f))
  /\ UNCHANGED <<disordered, req, exec, seen>>

LEMMA EditSteps ==
  ASSUME TypeOK, NEW s \in Sides, NEW d \in Docs, Edit(s, d)
  PROVE  TypeOK' /\ \E new : Edits(s, new)
<1> DEFINE new == [x \in {d} |-> {used.edits + 1}]
           f == [type |-> "update", docs |-> new]
<1>1. new \in Projects
  <2>1. used.edits + 1 \in 1 .. MaxChanges
    BY BarrierAssumption DEF Edit, TypeOK, BarrierAssumption
  <2> QED BY <2>1, EditProject
<1>2. docs' = [docs EXCEPT ![s] = Merge(@, new)] /\ Post(Other(s), f)
      /\ UNCHANGED <<disordered, req, exec, seen>> /\ used' = [used EXCEPT !.edits = @ + 1]
      /\ changed' = (changed \/ req.st # "idle")
  BY DEF Edit
<1>3. f \in Frame
  BY <1>1, Frames
<1> HIDE DEF new
<1>4. IF s = "requester" THEN Now(Append(X, f), Q) ELSE Now(X, Append(Q, f))
  BY <1>2, NetEffect DEF Other, Sides
<1>5. net' \in [Sides -> Seq(Frame)]
  <2>1. Append(X, f) \in Seq(Frame) /\ Append(Q, f) \in Seq(Frame)
    BY <1>3, Typed, Appended
  <2> QED BY <1>4, <2>1, Typed, NowTyped
<1>6. docs' \in [Sides -> Projects]
  BY <1>1, <1>2, Merged DEF TypeOK
<1>7. used' \in [edits : Nat, retries : Nat, faults : Nat] /\ changed' \in BOOLEAN
  BY <1>2 DEF TypeOK
<1>8. Edits(s, new)
  BY <1>1, <1>2, <1>4 DEF Edits
<1> QED BY <1>2, <1>5, <1>6, <1>7, <1>8 DEF TypeOK

LEMMA AttemptTyped ==
  ASSUME TypeOK, NEW n \in 1 .. 2, NEW recovered \in BOOLEAN, Attempt(n, recovered)
  PROVE  /\ req' \in Requests
         /\ req'.st = "status" /\ req'.attempt = n /\ req'.manifest = docs["requester"]
         /\ req'.commits = req.commits
<1>1. req \in Requests /\ Manifest("requester") \in Projects /\ Manifest("requester") = docs["requester"]
  BY Typed DEF TypeOK, Manifest
<1> QED BY <1>1 DEF Attempt, Requests

Becomes(st) ==
  req'.st = st /\ req'.attempt = req.attempt /\ req'.manifest = req.manifest /\ req'.commits = req.commits
TriesAgain ==
  req'.st = "status" /\ req'.manifest = docs["requester"] /\ req'.commits = req.commits

LEMMA BeginSteps ==
  ASSUME TypeOK, Begin
  PROVE  /\ TypeOK' /\ X' = X /\ Q' = Q /\ req.st = "idle" /\ TriesAgain /\ req'.attempt = 1
         /\ UNCHANGED <<docs, disordered, exec, seen>>
<1>1. req.st = "idle" /\ Attempt(1, FALSE) /\ UNCHANGED <<docs, net, disordered, exec, used, seen, changed>>
  BY DEF Begin
<1>2. /\ req' \in Requests /\ TriesAgain /\ req'.attempt = 1
  <2>1. 1 \in 1 .. 2 /\ FALSE \in BOOLEAN
    OBVIOUS
  <2> QED BY <1>1, <2>1, AttemptTyped DEF TriesAgain
<1>3. X' = X /\ Q' = Q
  BY <1>1 DEF X, Q
<1>4. TypeOK'
  BY <1>1, <1>2 DEF TypeOK
<1> QED BY <1>1, <1>2, <1>3, <1>4

LEMMA SendSteps ==
  ASSUME TypeOK, Send
  PROVE  /\ TypeOK' /\ UNCHANGED <<docs, disordered, exec, seen>> /\ Becomes(req.st) /\ Q' = Q
         /\ \E m \in Projects :
              \/ X' = Append(X, [type |-> "check", manifest |-> m])
              \/ X' = Append(X, [type |-> "commit", manifest |-> m]) /\ m \in req.commits
<1>1. /\ req.st \in {"status", "ack"} /\ UNCHANGED <<docs, disordered, exec, seen, changed>>
      /\ \/ req' = [req EXCEPT !.fresh = FALSE] /\ UNCHANGED used
         \/ used' = [used EXCEPT !.retries = @ + 1] /\ UNCHANGED req
  BY DEF Send
<1>2. PICK m \in Loops :
        Post("executor", [type |-> IF req.st = "status" THEN "check" ELSE "commit", manifest |-> m])
  BY DEF Send
<1>3. m \in Projects /\ (req.st = "ack" => m \in req.commits)
  BY <1>1, Typed DEF Loops
<1>4. PICK f \in Frame :
        /\ Post("executor", f)
        /\ \/ f = [type |-> "check", manifest |-> m]
           \/ f = [type |-> "commit", manifest |-> m] /\ req.st = "ack"
  <2>1. CASE req.st = "status"
    BY <1>2, <1>3, <2>1, Frames
  <2>2. CASE req.st = "ack"
    BY <1>2, <1>3, <2>2, Frames
  <2> QED BY <1>1, <2>1, <2>2
<1>5. Now(Append(X, f), Q) /\ X' = Append(X, f) /\ Q' = Q
  BY <1>4, NetEffect DEF Now
<1>6. net' \in [Sides -> Seq(Frame)]
  <2>1. Append(X, f) \in Seq(Frame) /\ Q \in Seq(Frame)
    BY Typed, Appended
  <2> QED BY <1>5, <2>1, NowTyped
<1>7. req' \in Requests /\ Becomes(req.st)
  <2>1. req \in Requests
    BY DEF TypeOK
  <2> QED BY <1>1, <2>1 DEF Becomes, Requests
<1>8. used' \in [edits : Nat, retries : Nat, faults : Nat]
  BY <1>1 DEF TypeOK
<1>9. TypeOK'
  BY <1>1, <1>6, <1>7, <1>8 DEF TypeOK
<1> QED BY <1>1, <1>3, <1>4, <1>5, <1>7, <1>9

\* What the requester handles, and what becomes of the request.
Says == X' = X \/ \E g \in Frame : g.type \in {"state", "stateRequest"} /\ X' = Append(X, g)
Turns(f) ==
  \/ req' = req
  \/ /\ req.st = "status" /\ req'.st = "ack" /\ req'.attempt = req.attempt
     /\ req'.manifest = req.manifest /\ req'.commits = req.commits \cup {req.manifest}
  \/ req.st = "status" /\ Becomes("recover")
  \/ Becomes("failed")
  \/ f.type = "ack" /\ f.ok /\ req.st = "ack" /\ Becomes("done")
  \/ TriesAgain /\ req'.attempt = 2
  \/ req.st = "recover" /\ TriesAgain /\ req'.attempt = req.attempt

LEMMA StatusSteps ==
  ASSUME TypeOK, NEW i \in 1 .. Len(Q), NEW f, req.st = "status", OnStatus(f, QRest(i))
  PROVE  /\ req' \in Requests /\ Turns(f) /\ Q' = Without(Q, i) /\ Says /\ net' \in [Sides -> Seq(Frame)]
<1>1. req \in Requests /\ X \in Seq(Frame) /\ Without(Q, i) \in Seq(Frame)
  BY Typed, Taken DEF TypeOK
<1>2. CASE f.ok /\ req' = [req EXCEPT !.st = "ack", !.fresh = TRUE, !.commits = @ \cup {req.manifest}]
           /\ net' = IF f.missing = {} THEN QRest(i)
                     ELSE [QRest(i) EXCEPT !["executor"] =
                             Append(@, [type |-> "state", docs |-> Only(Manifest("requester"), f.missing)])]
  <2> DEFINE g == [type |-> "state", docs |-> Only(Manifest("requester"), f.missing)]
  <2>1. g \in Frame /\ g.type = "state"
    BY Typed, OnlyKnown, Frames
  <2> HIDE DEF g
  <2>2. Now(X, Without(Q, i)) \/ Now(Append(X, g), Without(Q, i))
    BY <1>2, NetEffect DEF g
  <2>3. Append(X, g) \in Seq(Frame)
    BY <1>1, <2>1, Appended
  <2>4. net' \in [Sides -> Seq(Frame)] /\ Q' = Without(Q, i) /\ Says
    BY <1>1, <2>1, <2>2, <2>3, NowTyped DEF Now, Says
  <2>5. req' \in Requests /\ Turns(f)
    <3>1. req.manifest \in Projects
      BY Typed
    <3> QED BY <1>1, <1>2, <3>1 DEF Requests, Turns
  <2> QED BY <2>4, <2>5
<1>3. CASE req' = [req EXCEPT !.st = "recover", !.recovered = TRUE]
           /\ net' = [QRest(i) EXCEPT !["executor"] = Append(@, [type |-> "stateRequest"])]
  <2> DEFINE g == [type |-> "stateRequest"]
  <2>1. g \in Frame /\ g.type = "stateRequest"
    BY Frames
  <2> HIDE DEF g
  <2>2. Now(Append(X, g), Without(Q, i))
    BY <1>3, NetEffect DEF g
  <2>3. Append(X, g) \in Seq(Frame)
    BY <1>1, <2>1, Appended
  <2>4. net' \in [Sides -> Seq(Frame)] /\ Q' = Without(Q, i) /\ Says
    BY <1>1, <2>1, <2>2, <2>3, NowTyped DEF Now, Says
  <2>5. req' \in Requests /\ Turns(f)
    BY <1>1, <1>3 DEF Requests, Turns, Becomes
  <2> QED BY <2>4, <2>5
<1>4. CASE Ends("failed") /\ net' = QRest(i)
  <2>1. Now(X, Without(Q, i))
    BY <1>4, NetEffect
  <2>2. net' \in [Sides -> Seq(Frame)] /\ Q' = Without(Q, i) /\ Says
    BY <1>1, <2>1, NowTyped DEF Now, Says
  <2>3. req' \in Requests /\ Turns(f)
    BY <1>1, <1>4 DEF Requests, Turns, Becomes, Ends
  <2> QED BY <2>2, <2>3
<1> QED BY <1>2, <1>3, <1>4 DEF OnStatus

LEMMA RequesterSteps ==
  ASSUME TypeOK, RequesterReceives
  PROVE  /\ TypeOK' /\ UNCHANGED <<disordered, exec, seen>> /\ Says
         /\ \E i \in 1 .. Len(Q) :
              /\ Q' = Without(Q, i) /\ Turns(Q[i])
              /\ \/ UNCHANGED docs
                 \/ /\ Q[i].type \in {"update", "state"} /\ Q[i].docs \in Projects
                    /\ docs' = [docs EXCEPT !["requester"] = Merge(@, Q[i].docs)]
<1>1. PICK i \in 1 .. Len(Q) :
        \/ /\ Q[i].type \in {"update", "state"} /\ net' = QRest(i) /\ UNCHANGED req
           /\ docs' = [docs EXCEPT !["requester"] = Merge(@, Q[i].docs)]
        \/ req.st = "status" /\ OnStatus(Q[i], QRest(i)) /\ UNCHANGED docs
        \/ Q[i].type = "ack" /\ req.st = "ack" /\ OnAck(Q[i]) /\ net' = QRest(i) /\ UNCHANGED docs
        \/ req.st = "recover" /\ Attempt(req.attempt, TRUE) /\ net' = QRest(i) /\ UNCHANGED docs
        \/ net' = QRest(i) /\ UNCHANGED <<docs, req>>
  BY DEF RequesterReceives, Ready, Q, QRest
<1>2. UNCHANGED <<disordered, exec, used, seen, changed>>
  BY DEF RequesterReceives
<1>3. req \in Requests /\ X \in Seq(Frame) /\ Without(Q, i) \in Seq(Frame) /\ Q[i] \in Frame
  BY Typed, Taken DEF TypeOK
<1>4. net' = QRest(i) => Now(X, Without(Q, i))
  BY NetEffect
<1>5. net' = QRest(i) => net' \in [Sides -> Seq(Frame)] /\ Q' = Without(Q, i) /\ Says
  BY <1>3, <1>4, NowTyped DEF Now, Says
<1>6. CASE Q[i].type \in {"update", "state"} /\ net' = QRest(i) /\ UNCHANGED req
           /\ docs' = [docs EXCEPT !["requester"] = Merge(@, Q[i].docs)]
  <2>1. Q[i].docs \in Projects
    BY <1>3, <1>6, FrameFields
  <2>2. docs' \in [Sides -> Projects]
    <3>1. "requester" \in Sides /\ docs \in [Sides -> Projects]
      BY DEF Sides, TypeOK
    <3> QED BY <1>6, <2>1, <3>1, Merged
  <2>3. TypeOK'
    BY <1>2, <1>5, <1>6, <2>2 DEF TypeOK
  <2> QED BY <1>2, <1>5, <1>6, <2>1, <2>3 DEF Turns
<1>7. CASE UNCHANGED docs /\ req' \in Requests /\ net' \in [Sides -> Seq(Frame)]
           /\ Q' = Without(Q, i) /\ Says /\ Turns(Q[i])
  <2>1. TypeOK'
    BY <1>2, <1>7 DEF TypeOK
  <2> QED BY <1>2, <1>7, <2>1
<1>8. CASE req.st = "status" /\ OnStatus(Q[i], QRest(i)) /\ UNCHANGED docs
  BY <1>7, <1>8, StatusSteps
<1>9. CASE Q[i].type = "ack" /\ req.st = "ack" /\ OnAck(Q[i]) /\ net' = QRest(i) /\ UNCHANGED docs
  <2>1. CASE Q[i].ok /\ Ends("done")
    <3>1. req' \in Requests /\ Becomes("done")
      BY <1>3, <2>1 DEF Requests, Becomes, Ends
    <3> QED BY <1>5, <1>7, <1>9, <2>1, <3>1 DEF Turns
  <2>2. CASE Ends("failed")
    <3>1. req' \in Requests /\ Becomes("failed")
      BY <1>3, <2>2 DEF Requests, Becomes, Ends
    <3> QED BY <1>5, <1>7, <1>9, <3>1 DEF Turns
  <2>3. CASE Attempt(2, req.recovered)
    <3>1. 2 \in 1 .. 2 /\ req.recovered \in BOOLEAN
      BY <1>3 DEF Requests
    <3>2. req' \in Requests /\ TriesAgain /\ req'.attempt = 2
      BY <2>3, <3>1, AttemptTyped DEF TriesAgain
    <3> QED BY <1>5, <1>7, <1>9, <3>2 DEF Turns
  <2> QED BY <1>9, <2>1, <2>2, <2>3 DEF OnAck
<1>10. CASE req.st = "recover" /\ Attempt(req.attempt, TRUE) /\ net' = QRest(i) /\ UNCHANGED docs
  <2>1. req.attempt \in 1 .. 2 /\ TRUE \in BOOLEAN
    BY <1>3 DEF Requests
  <2>2. req' \in Requests /\ TriesAgain /\ req'.attempt = req.attempt
    BY <1>10, <2>1, AttemptTyped DEF TriesAgain
  <2> QED BY <1>5, <1>7, <1>10, <2>2 DEF Turns
<1>11. CASE net' = QRest(i) /\ UNCHANGED <<docs, req>>
  BY <1>3, <1>5, <1>7, <1>11 DEF Turns
<1> QED BY <1>1, <1>6, <1>8, <1>9, <1>10, <1>11

-----------------------------------------------------------------------------
(* The steps of the executor. *)

LEMMA ExactIsEqual ==
  ASSUME NEW m \in Projects, docs["executor"] \in Projects
  PROVE  IsExact(m) <=> docs["executor"] = m
<1> DEFINE e == docs["executor"]
<1>1. e = [d \in DOMAIN e |-> e[d]] /\ m = [d \in DOMAIN m |-> m[d]]
  BY ProjectFields
<1>2. IsExact(m) <=> DOMAIN e = DOMAIN m /\ \A d \in DOMAIN m : e[d] = m[d]
  BY DEF IsExact, Missing, Extra, Has
<1> QED BY <1>1, <1>2

\* What is answered, and what becomes of the authorizations.
Answers ==
  \/ Q' = Q
  \/ \E g \in Frame : /\ Q' = Append(Q, g) /\ g.type \in {"status", "ack"}
                      /\ g.type = "ack" /\ g.ok => exec.completed # {}
  \/ Q' = Append(Append(Q, [type |-> "state", docs |-> docs["executor"]]), [type |-> "stateEnd"])
Decides(f) ==
  \/ exec' = exec
  \/ exec'.completed = {} /\ exec'.verifying = exec.verifying
  \/ f.type = "commit" /\ exec'.verifying = {f.manifest} /\ exec'.completed = exec.completed

LEMMA AnswerEffect ==
  ASSUME TypeOK, NEW i \in 1 .. Len(X), NEW g \in Frame, g.type \in {"status", "ack"},
         g.type = "ack" /\ g.ok => exec.completed # {}, Answer(XRest(i), g)
  PROVE  net' \in [Sides -> Seq(Frame)] /\ X' = Without(X, i) /\ Answers
<1>1. Now(Without(X, i), Append(Q, g))
  BY NetEffect DEF Answer
<1>2. Without(X, i) \in Seq(Frame) /\ Append(Q, g) \in Seq(Frame)
  BY Typed, Taken, Appended
<1> QED BY <1>1, <1>2, NowTyped DEF Now, Answers

LEMMA CheckSteps ==
  ASSUME TypeOK, NEW i \in 1 .. Len(X), NEW f, X[i].type = "check", OnCheck(X[i].manifest, XRest(i))
  PROVE  net' \in [Sides -> Seq(Frame)] /\ X' = Without(X, i) /\ Answers /\ exec' \in Authorizations /\ Decides(f)
<1> DEFINE m == X[i].manifest
<1>1. X[i] \in Frame /\ m \in Projects /\ exec \in Authorizations
  BY Typed, Taken, FrameFields DEF TypeOK
<1>2. Missing(m) \in SUBSET Docs /\ {} \in SUBSET Docs
  BY <1>1, ProjectFields DEF Missing
<1>3. /\ Status(FALSE, TRUE, {}) \in Frame /\ Status(TRUE, FALSE, Missing(m)) \in Frame
      /\ Status(FALSE, TRUE, {}).type = "status" /\ Status(TRUE, FALSE, Missing(m)).type = "status"
  <2>1. Status(FALSE, TRUE, {}).type = "status" /\ Status(TRUE, FALSE, Missing(m)).type = "status"
    BY DEF Status
  <2> QED BY <1>2, <2>1, Frames
<1>4. CASE Answer(XRest(i), Status(FALSE, TRUE, {})) /\ UNCHANGED exec
  BY <1>1, <1>3, <1>4, AnswerEffect DEF Decides
<1>5. CASE Answer(XRest(i), Status(TRUE, FALSE, Missing(m)))
           /\ exec' = [exec EXCEPT !.pending = {m}, !.completed = {}]
  <2>1. exec' \in Authorizations /\ Decides(f)
    BY <1>1, <1>5 DEF Authorizations, Decides
  <2> QED BY <1>3, <1>5, <2>1, AnswerEffect
<1> QED BY <1>4, <1>5 DEF OnCheck

LEMMA CommitSteps ==
  ASSUME TypeOK, NEW i \in 1 .. Len(X), X[i].type = "commit", OnCommit(X[i].manifest, XRest(i))
  PROVE  net' \in [Sides -> Seq(Frame)] /\ X' = Without(X, i) /\ Answers /\ exec' \in Authorizations
         /\ Decides(X[i])
<1> DEFINE m == X[i].manifest
<1>1. X[i] \in Frame /\ m \in Projects /\ exec \in Authorizations
  BY Typed, Taken, FrameFields DEF TypeOK
<1>2. \A ok \in BOOLEAN : Ack(ok) \in Frame /\ Ack(ok).type = "ack" /\ Ack(ok).ok = ok
  BY Frames DEF Ack
<1>3. CASE m \in exec.completed /\ Answer(XRest(i), Ack(TRUE)) /\ UNCHANGED exec
  BY <1>1, <1>2, <1>3, AnswerEffect DEF Decides
<1>4. CASE Answer(XRest(i), Ack(FALSE)) /\ UNCHANGED exec
  BY <1>1, <1>2, <1>4, AnswerEffect DEF Decides
<1>5. CASE net' = XRest(i) /\ exec' = [exec EXCEPT !.pending = {}, !.verifying = {m}]
  <2>1. exec' \in Authorizations /\ Decides(X[i])
    BY <1>1, <1>5 DEF Authorizations, Decides
  <2>2. Now(Without(X, i), Q)
    BY <1>5, NetEffect
  <2>3. Without(X, i) \in Seq(Frame) /\ Q \in Seq(Frame)
    BY Typed, Taken
  <2> QED BY <2>1, <2>2, <2>3, NowTyped DEF Now, Answers
<1> QED BY <1>3, <1>4, <1>5 DEF OnCommit

LEMMA ProjectSent ==
  ASSUME TypeOK, NEW i \in 1 .. Len(X),
         net' = [XRest(i) EXCEPT !["requester"] =
                   @ \o <<[type |-> "state", docs |-> docs["executor"]], [type |-> "stateEnd"]>>]
  PROVE  net' \in [Sides -> Seq(Frame)] /\ X' = Without(X, i) /\ Answers
<1> DEFINE a == [type |-> "state", docs |-> docs["executor"]]
           b == [type |-> "stateEnd"]
<1>1. a \in Frame /\ b \in Frame /\ Q \in Seq(Frame) /\ Without(X, i) \in Seq(Frame)
  BY Typed, Frames, Taken
<1>2. Now(Without(X, i), Q \o <<a, b>>)
  BY NetEffect
<1> HIDE DEF a, b
<1>3. Q \o <<a, b>> = Append(Append(Q, a), b)
  BY <1>1, Two
<1>4. Append(Append(Q, a), b) \in Seq(Frame)
  BY <1>1, Appended
<1>5. Q' = Append(Append(Q, a), b) /\ X' = Without(X, i)
  BY <1>2, <1>3 DEF Now
<1> QED BY <1>1, <1>2, <1>3, <1>4, <1>5, NowTyped DEF Answers, a, b

LEMMA ExecutorSteps ==
  ASSUME TypeOK, ExecutorReceives
  PROVE  /\ TypeOK' /\ UNCHANGED <<disordered, req, seen>> /\ Answers
         /\ \E i \in Ready(X) :
              /\ i \in 1 .. Len(X) /\ X' = Without(X, i) /\ Decides(X[i])
              /\ \/ X[i].type # "update" /\ UNCHANGED docs
                 \/ /\ X[i].type \in {"update", "state"} /\ X[i].docs \in Projects
                    /\ docs' = [docs EXCEPT !["executor"] = Merge(@, X[i].docs)]
<1>1. PICK i \in Ready(X) :
        \/ /\ X[i].type \in {"update", "state"} /\ net' = XRest(i) /\ UNCHANGED exec
           /\ docs' = [docs EXCEPT !["executor"] = Merge(@, X[i].docs)]
        \/ X[i].type = "check" /\ OnCheck(X[i].manifest, XRest(i)) /\ UNCHANGED docs
        \/ X[i].type = "commit" /\ OnCommit(X[i].manifest, XRest(i)) /\ UNCHANGED docs
        \/ /\ X[i].type = "stateRequest"
           /\ net' = [XRest(i) EXCEPT !["requester"] =
                        @ \o <<[type |-> "state", docs |-> docs["executor"]], [type |-> "stateEnd"]>>]
           /\ UNCHANGED <<docs, exec>>
  BY DEF ExecutorReceives, X, XRest
<1>2. UNCHANGED <<disordered, req, used, seen, changed>>
  BY DEF ExecutorReceives
<1>3. i \in 1 .. Len(X) /\ X[i] \in Frame /\ exec \in Authorizations
  <2>1. i \in 1 .. Len(X)
    BY DEF Ready
  <2> QED BY <2>1, Typed, Taken DEF TypeOK
<1>4. CASE X[i].type \in {"update", "state"} /\ net' = XRest(i) /\ UNCHANGED exec
           /\ docs' = [docs EXCEPT !["executor"] = Merge(@, X[i].docs)]
  <2>1. X[i].docs \in Projects
    BY <1>3, <1>4, FrameFields
  <2>2. docs' \in [Sides -> Projects]
    <3>1. "executor" \in Sides /\ docs \in [Sides -> Projects]
      BY DEF Sides, TypeOK
    <3> QED BY <1>4, <2>1, <3>1, Merged
  <2>3. Now(Without(X, i), Q)
    BY <1>4, NetEffect
  <2>4. net' \in [Sides -> Seq(Frame)]
    <3>1. Without(X, i) \in Seq(Frame) /\ Q \in Seq(Frame)
      BY <1>3, Typed, Taken
    <3> QED BY <2>3, <3>1, NowTyped
  <2>5. TypeOK'
    BY <1>2, <1>4, <2>2, <2>4 DEF TypeOK
  <2> QED BY <1>2, <1>3, <1>4, <2>1, <2>3, <2>5 DEF Now, Answers, Decides
<1>5. CASE X[i].type # "update" /\ UNCHANGED docs /\ net' \in [Sides -> Seq(Frame)] /\ X' = Without(X, i) /\ Answers
           /\ exec' \in Authorizations /\ Decides(X[i])
  <2>1. TypeOK'
    BY <1>2, <1>5 DEF TypeOK
  <2> QED BY <1>2, <1>3, <1>5, <2>1
<1>6. CASE X[i].type = "check" /\ OnCheck(X[i].manifest, XRest(i)) /\ UNCHANGED docs
  BY <1>3, <1>5, <1>6, CheckSteps
<1>7. CASE X[i].type = "commit" /\ OnCommit(X[i].manifest, XRest(i)) /\ UNCHANGED docs
  BY <1>3, <1>5, <1>7, CommitSteps
<1>8. CASE /\ X[i].type = "stateRequest"
           /\ net' = [XRest(i) EXCEPT !["requester"] =
                        @ \o <<[type |-> "state", docs |-> docs["executor"]], [type |-> "stateEnd"]>>]
           /\ UNCHANGED <<docs, exec>>
  BY <1>3, <1>5, <1>8, ProjectSent DEF Decides
<1> QED BY <1>1, <1>4, <1>6, <1>7, <1>8

LEMMA VerifySteps ==
  ASSUME TypeOK, Verify
  PROVE  /\ TypeOK' /\ UNCHANGED <<docs, disordered, req>> /\ X' = X /\ exec'.verifying = {}
         /\ seen \subseteq seen'
         /\ \/ Q' = Append(Q, Ack(FALSE)) /\ exec'.completed = exec.completed
            \/ \E m \in exec.verifying :
                 m \in seen' /\ exec'.completed = {m} /\ Q' = Append(Q, Ack(TRUE))
<1>1. PICK m \in exec.verifying :
        /\ exec' = [exec EXCEPT !.verifying = {}, !.completed = IF IsExact(m) THEN {m} ELSE @]
        /\ Post("requester", Ack(IsExact(m)))
        /\ seen' = IF docs["executor"] = m THEN seen \cup {m} ELSE seen
  BY DEF Verify
<1>2. UNCHANGED <<docs, disordered, req, used, changed>>
  BY DEF Verify
<1>3. m \in Projects /\ exec \in Authorizations /\ (IsExact(m) <=> docs["executor"] = m)
  BY Typed, ExactIsEqual DEF TypeOK
<1>4. IsExact(m) \in BOOLEAN
  BY DEF IsExact
<1>5. Now(X, Append(Q, Ack(IsExact(m))))
  BY <1>1, NetEffect
<1>6. net' \in [Sides -> Seq(Frame)]
  <2>1. Append(Q, Ack(IsExact(m))) \in Seq(Frame) /\ X \in Seq(Frame)
    BY <1>4, Typed, Frames, Appended
  <2> QED BY <1>5, <2>1, NowTyped
<1>7. exec' \in Authorizations /\ exec'.verifying = {}
      /\ exec'.completed = IF IsExact(m) THEN {m} ELSE exec.completed
  <2>1. PICK c \in SUBSET Projects : c = (IF IsExact(m) THEN {m} ELSE exec.completed)
    BY <1>3 DEF Authorizations
  <2>2. exec' = [exec EXCEPT !.verifying = {}, !.completed = c]
    BY <1>1, <2>1
  <2> QED BY <1>3, <2>1, <2>2 DEF Authorizations
<1>8. seen' \subseteq Projects /\ seen \subseteq seen' /\ (IsExact(m) => m \in seen')
  BY <1>1, <1>3 DEF TypeOK
<1>9. TypeOK'
  BY <1>2, <1>6, <1>7, <1>8 DEF TypeOK
<1>10. CASE IsExact(m)
  <2>1. IsExact(m) = TRUE
    BY <1>4, <1>10
  <2> QED BY <1>2, <1>5, <1>7, <1>8, <1>9, <2>1 DEF Now
<1>11. CASE ~IsExact(m)
  <2>1. IsExact(m) = FALSE
    BY <1>4, <1>11
  <2> QED BY <1>2, <1>5, <1>7, <1>8, <1>9, <2>1 DEF Now
<1> QED BY <1>10, <1>11

-----------------------------------------------------------------------------
(* The faults. *)

\* Those that leave the order of the frames, or change nothing of them.
Leaves ==
  \/ X' = X /\ Q' = Q /\ Becomes("failed") /\ exec' = exec
  \/ X' = X /\ Q' = Q /\ req' = req /\ exec'.completed = {} /\ exec'.verifying = exec.verifying
  \/ /\ \E i \in 1 .. Len(X) : X[i].type \in {"check", "commit"} /\ X' = Without(X, i)
     /\ \E g \in Frame : Q' = Append(Q, g) /\ g.type \in {"status", "ack"} /\ (g.type = "ack" => ~g.ok)
     /\ UNCHANGED <<req, exec>>
\* Those that do not.
Disorders ==
  /\ disordered' /\ UNCHANGED <<req, exec>>
  /\ \A f \in InFlight(X)' : f \in InFlight(X) \/ f.type = "state"
  /\ \A f \in InFlight(Q)' : f \in InFlight(Q) \/ (f.type = "state" /\ f.docs = docs["executor"])

LEMMA FaultSteps ==
  ASSUME TypeOK, GiveUp \/ Lapse \/ Refuse \/ Break \/ Upgrade \/ Drop
  PROVE  /\ TypeOK' /\ UNCHANGED <<docs, seen>>
         /\ (disordered' = disordered /\ Leaves) \/ Disorders
<1> USE DEF Fault
<1>1. used' \in [edits : Nat, retries : Nat, faults : Nat] /\ UNCHANGED <<docs, seen, changed>>
  <2>1. used \in [edits : Nat, retries : Nat, faults : Nat]
    BY DEF TypeOK
  <2>2. used' = [used EXCEPT !.faults = @ + 1]
    BY DEF GiveUp, Lapse, Refuse, Break, Upgrade, Drop
  <2>3. UNCHANGED <<docs, seen, changed>>
    BY DEF GiveUp, Lapse, Refuse, Break, Upgrade, Drop
  <2> QED BY <2>1, <2>2, <2>3
<1>2. X \in Seq(Frame) /\ Q \in Seq(Frame) /\ req \in Requests /\ exec \in Authorizations
  BY Typed DEF TypeOK
<1>3. CASE GiveUp
  <2>1. Ends("failed") /\ UNCHANGED <<net, disordered, exec>>
    BY <1>3 DEF GiveUp
  <2>2. req' \in Requests /\ Becomes("failed")
    BY <1>2, <2>1 DEF Ends, Requests, Becomes
  <2>3. TypeOK'
    BY <1>1, <2>1, <2>2 DEF TypeOK
  <2> QED BY <1>1, <2>1, <2>2, <2>3 DEF Leaves, X, Q
<1>4. CASE Lapse
  <2>1. exec' = [exec EXCEPT !.pending = {}, !.completed = {}] /\ UNCHANGED <<net, disordered, req>>
    BY <1>4 DEF Lapse
  <2>2. exec' \in Authorizations /\ exec'.completed = {} /\ exec'.verifying = exec.verifying
    BY <1>2, <2>1 DEF Authorizations
  <2>3. TypeOK'
    BY <1>1, <2>1, <2>2 DEF TypeOK
  <2> QED BY <1>1, <2>1, <2>2, <2>3 DEF Leaves, X, Q
<1>5. CASE Refuse
  <2>1. UNCHANGED <<disordered, req, exec>>
    BY <1>5 DEF Refuse
  <2>2. PICK i \in 1 .. Len(X) :
          \/ X[i].type = "check" /\ Answer(XRest(i), Status(FALSE, FALSE, {}))
          \/ X[i].type = "commit" /\ Answer(XRest(i), Ack(FALSE))
    BY <1>5 DEF Refuse, Ready, X, XRest
  <2>3. PICK g \in Frame : /\ Answer(XRest(i), g) /\ g.type \in {"status", "ack"}
                           /\ g.type = "ack" => ~g.ok
    <3>1. Status(FALSE, FALSE, {}) \in Frame /\ Ack(FALSE) \in Frame
      BY Frames
    <3>2. Status(FALSE, FALSE, {}).type = "status" /\ Ack(FALSE).type = "ack" /\ ~Ack(FALSE).ok
      BY DEF Status, Ack
    <3> QED BY <2>2, <3>1, <3>2
  <2>4. Now(Without(X, i), Append(Q, g))
    BY <2>3, NetEffect DEF Answer
  <2>5. net' \in [Sides -> Seq(Frame)]
    <3>1. Without(X, i) \in Seq(Frame) /\ Append(Q, g) \in Seq(Frame)
      BY <1>2, Taken, Appended
    <3> QED BY <2>4, <3>1, NowTyped
  <2>6. TypeOK'
    BY <1>1, <2>1, <2>5 DEF TypeOK
  <2>7. Leaves
    BY <2>1, <2>2, <2>3, <2>4 DEF Leaves, Now
  <2> QED BY <1>1, <2>1, <2>6, <2>7
<1>6. CASE Break
  <2> DEFINE a == [type |-> "state", docs |-> docs["requester"]]
             b == [type |-> "state", docs |-> docs["executor"]]
  <2>1. disordered' /\ disordered' \in BOOLEAN /\ UNCHANGED <<req, exec>>
    BY <1>6 DEF Break
  <2>2. a \in Frame /\ b \in Frame /\ a.type = "state" /\ b.type = "state" /\ b.docs = docs["executor"]
    BY Typed, Frames
  <2>3. PICK x \in 0 .. Len(X), y \in 0 .. Len(Q) :
          net' = [net EXCEPT !["executor"] = Append(SubSeq(@, 1, x), a),
                             !["requester"] = Append(SubSeq(@, 1, y), b)]
    BY <1>6 DEF Break, X, Q
  <2> HIDE DEF a
  <2>4. /\ SubSeq(X, 1, x) \in Seq(Frame) /\ InFlight(SubSeq(X, 1, x)) \subseteq InFlight(X)
        /\ SubSeq(Q, 1, y) \in Seq(Frame) /\ InFlight(SubSeq(Q, 1, y)) \subseteq InFlight(Q)
    BY <1>2, InFlightPrefix
  <2>5. net \in [Sides -> Seq(Frame)] /\ Sides = {"requester", "executor"}
    BY DEF TypeOK, Sides
  <2>6. X' = Append(SubSeq(X, 1, x), a) /\ Q' = Append(SubSeq(Q, 1, y), b)
    <3> HIDE DEF b
    <3> QED BY <2>3, <2>5 DEF X, Q
  <2>7. net' \in [Sides -> Seq(Frame)]
    <3>1. Append(SubSeq(X, 1, x), a) \in Seq(Frame) /\ Append(SubSeq(Q, 1, y), b) \in Seq(Frame)
      BY <2>2, <2>4, Appended
    <3> HIDE DEF b
    <3> QED BY <2>3, <2>5, <3>1 DEF X, Q
  <2>8. /\ InFlight(Append(SubSeq(X, 1, x), a)) \subseteq InFlight(X) \cup {a}
        /\ InFlight(Append(SubSeq(Q, 1, y), b)) \subseteq InFlight(Q) \cup {b}
    <3>1. \A q \in Seq(Frame), f \in Frame : InFlight(Append(q, f)) = InFlight(q) \cup {f}
      BY InFlightAppended
    <3> HIDE DEF b
    <3> QED BY <2>2, <2>4, <3>1
  <2>9. InFlight(X)' \subseteq InFlight(X) \cup {a} /\ InFlight(Q)' \subseteq InFlight(Q) \cup {b}
    BY <2>6, <2>8
  <2>10. TypeOK'
    BY <1>1, <2>1, <2>7 DEF TypeOK
  <2> QED BY <1>1, <2>1, <2>2, <2>9, <2>10 DEF Disorders
<1>7. CASE Upgrade
  <2>1. disordered' /\ disordered' \in BOOLEAN /\ UNCHANGED <<net, req, exec>>
    BY <1>7 DEF Upgrade
  <2>2. TypeOK'
    BY <1>1, <2>1 DEF TypeOK
  <2> QED BY <1>1, <2>1, <2>2 DEF Disorders, X, Q, InFlight
<1>8. CASE Drop
  <2>1. disordered' /\ disordered' \in BOOLEAN /\ UNCHANGED <<req, exec>>
    BY <1>8 DEF Drop
  <2>2. \/ \E i \in 1 .. Len(X) : net' = XRest(i)
        \/ \E i \in 1 .. Len(Q) : net' = QRest(i)
    BY <1>8 DEF Drop, Sides, X, Q, XRest, QRest
  <2>3. \/ \E i \in 1 .. Len(X) : Now(Without(X, i), Q)
        \/ \E i \in 1 .. Len(Q) : Now(X, Without(Q, i))
    BY <2>2, NetEffect
  <2>4. net' \in [Sides -> Seq(Frame)] /\ InFlight(X)' \subseteq InFlight(X) /\ InFlight(Q)' \subseteq InFlight(Q)
    <3>1. ASSUME NEW i \in 1 .. Len(X), Now(Without(X, i), Q)
          PROVE  net' \in [Sides -> Seq(Frame)] /\ InFlight(X)' \subseteq InFlight(X) /\ InFlight(Q)' \subseteq InFlight(Q)
      <4>1. Without(X, i) \in Seq(Frame) /\ InFlight(Without(X, i)) \subseteq InFlight(X)
        BY <1>2, Taken, InFlightTaken
      <4>2. X' = Without(X, i) /\ Q' = Q
        BY <3>1 DEF Now
      <4> QED BY <1>2, <3>1, <4>1, <4>2, NowTyped
    <3>2. ASSUME NEW i \in 1 .. Len(Q), Now(X, Without(Q, i))
          PROVE  net' \in [Sides -> Seq(Frame)] /\ InFlight(X)' \subseteq InFlight(X) /\ InFlight(Q)' \subseteq InFlight(Q)
      <4>1. Without(Q, i) \in Seq(Frame) /\ InFlight(Without(Q, i)) \subseteq InFlight(Q)
        BY <1>2, Taken, InFlightTaken
      <4>2. Q' = Without(Q, i) /\ X' = X
        BY <3>2 DEF Now
      <4> QED BY <1>2, <3>2, <4>1, <4>2, NowTyped
    <3> QED BY <2>3, <3>1, <3>2
  <2>5. TypeOK'
    BY <1>1, <2>1, <2>4 DEF TypeOK
  <2> QED BY <1>1, <2>1, <2>4, <2>5 DEF Disorders
<1> QED BY <1>3, <1>4, <1>5, <1>6, <1>7, <1>8

-----------------------------------------------------------------------------
(* A run starts on a commitment, in whatever order frames come. *)

\* Both that and the invariant behind it, of what is on its way and the rest.
Commitment(fx, fq, r, e, s) ==
  /\ r.st = "ack" => r.manifest \in r.commits
  /\ r.attempt = 1 => r.commits \subseteq {r.manifest}
  /\ r.st = "idle" \/ (r.attempt = 1 /\ r.st \in {"status", "recover"}) => r.commits = {}
  /\ \A f \in fx : f.type = "commit" => f.manifest \in r.commits
  /\ e.verifying \subseteq r.commits
  /\ e.completed \subseteq r.commits \cap s
  /\ \A f \in fq : f.type = "ack" /\ f.ok => r.commits \cap s # {}
  /\ r.st = "done" => r.commits \cap s # {} /\ (r.attempt = 1 => r.manifest \in s)

LEMMA CommitmentParts ==
  CommitInv /\ StartsOnACommitment <=> Commitment(InFlight(X), InFlight(Q), req, exec, seen)
BY DEF CommitInv, StartsOnACommitment, Commitment

LEMMA CommitmentNext ==
  Commitment(InFlight(X)', InFlight(Q)', req', exec', seen') => (CommitInv /\ StartsOnACommitment)'
BY DEF CommitInv, StartsOnACommitment, Commitment

\* The frames that are on their way after a step.
LEMMA SaysFrames ==
  ASSUME TypeOK, Says
  PROVE  \A f \in InFlight(X)' : f \in InFlight(X) \/ f.type \in {"state", "stateRequest"}
<1>1. CASE X' = X
  BY <1>1 DEF InFlight
<1>2. CASE \E g \in Frame : g.type \in {"state", "stateRequest"} /\ X' = Append(X, g)
  <2>1. PICK g \in Frame : g.type \in {"state", "stateRequest"} /\ X' = Append(X, g)
    BY <1>2
  <2>2. InFlight(Append(X, g)) = InFlight(X) \cup {g}
    BY Typed, InFlightAppended
  <2> QED BY <2>1, <2>2
<1> QED BY <1>1, <1>2 DEF Says

LEMMA AnswerFrames ==
  ASSUME TypeOK, Answers
  PROVE  \A f \in InFlight(Q)' : \/ f \in InFlight(Q)
                                 \/ f.type = "ack" /\ (f.ok => exec.completed # {})
                                 \/ f.type \in {"status", "stateEnd"}
                                 \/ f.type = "state" /\ f.docs = docs["executor"]
<1>1. CASE Q' = Q
  BY <1>1 DEF InFlight
<1>2. CASE \E g \in Frame : /\ Q' = Append(Q, g) /\ g.type \in {"status", "ack"}
                            /\ g.type = "ack" /\ g.ok => exec.completed # {}
  <2>1. PICK g \in Frame : /\ Q' = Append(Q, g) /\ g.type \in {"status", "ack"}
                           /\ g.type = "ack" /\ g.ok => exec.completed # {}
    BY <1>2
  <2>2. InFlight(Append(Q, g)) = InFlight(Q) \cup {g}
    BY Typed, InFlightAppended
  <2> QED BY <2>1, <2>2
<1>3. CASE Q' = Append(Append(Q, [type |-> "state", docs |-> docs["executor"]]), [type |-> "stateEnd"])
  <2> DEFINE a == [type |-> "state", docs |-> docs["executor"]]
             b == [type |-> "stateEnd"]
  <2>1. a \in Frame /\ b \in Frame /\ Q \in Seq(Frame)
    BY Typed, Frames
  <2>2. a.type = "state" /\ a.docs = docs["executor"] /\ b.type = "stateEnd"
    OBVIOUS
  <2> HIDE DEF a, b
  <2>3. Append(Q, a) \in Seq(Frame) /\ InFlight(Append(Q, a)) = InFlight(Q) \cup {a}
    BY <2>1, Appended, InFlightAppended
  <2>4. InFlight(Append(Append(Q, a), b)) = InFlight(Append(Q, a)) \cup {b}
    <3>1. \A q \in Seq(Frame) : InFlight(Append(q, b)) = InFlight(q) \cup {b}
      BY <2>1, InFlightAppended
    <3> QED BY <2>3, <3>1
  <2>5. Q' = Append(Append(Q, a), b)
    BY <1>3 DEF a, b
  <2>6. InFlight(Q)' = InFlight(Q) \cup {a, b}
    BY <2>3, <2>4, <2>5
  <2> QED BY <2>2, <2>6
<1> QED BY <1>1, <1>2, <1>3 DEF Answers

LEMMA CommitInit == Init => CommitInv /\ StartsOnACommitment
<1> SUFFICES ASSUME Init PROVE CommitInv /\ StartsOnACommitment
  OBVIOUS
<1>1. X = <<>> /\ Q = <<>>
  BY DEF Init, X, Q, Sides
<1>2. InFlight(X) = {} /\ InFlight(Q) = {}
  BY <1>1 DEF InFlight
<1> QED BY <1>2 DEF Init, CommitInv, StartsOnACommitment

LEMMA CommitEdit ==
  ASSUME TypeOK, NEW s \in Sides, NEW new, Edits(s, new)
  PROVE  /\ \A f \in InFlight(X)' : f \in InFlight(X) \/ f.type = "update"
         /\ \A f \in InFlight(Q)' : f \in InFlight(Q) \/ (f.type = "update" /\ f.docs = new /\ s = "executor")
<1> DEFINE f == [type |-> "update", docs |-> new]
<1>1. f \in Frame /\ f.type = "update" /\ f.docs = new
  BY Frames DEF Edits
<1>2. IF s = "requester" THEN X' = Append(X, f) /\ Q' = Q ELSE X' = X /\ Q' = Append(Q, f)
  BY DEF Edits, Now
<1> HIDE DEF f
<1>3. InFlight(Append(X, f)) = InFlight(X) \cup {f} /\ InFlight(Append(Q, f)) = InFlight(Q) \cup {f}
  BY <1>1, Typed, InFlightAppended
<1>4. CASE s = "requester"
  <2>1. InFlight(X)' = InFlight(X) \cup {f} /\ InFlight(Q)' = InFlight(Q)
    BY <1>2, <1>3, <1>4
  <2> QED BY <1>1, <2>1
<1>5. CASE s = "executor"
  <2>1. InFlight(X)' = InFlight(X) /\ InFlight(Q)' = InFlight(Q) \cup {f}
    BY <1>2, <1>3, <1>5
  <2> QED BY <1>1, <1>5, <2>1
<1> QED BY <1>4, <1>5 DEF Sides

LEMMA CommitStep ==
  ASSUME TypeOK, CommitInv, StartsOnACommitment, [Next]_vars
  PROVE  CommitInv' /\ StartsOnACommitment'
<1> USE Typed
<1>1. Commitment(InFlight(X), InFlight(Q), req, exec, seen)
  BY CommitmentParts
<1>2. SUFFICES Commitment(InFlight(X)', InFlight(Q)', req', exec', seen')
  BY CommitmentNext
<1>3. CASE \E s \in Sides, d \in Docs : Edit(s, d)
  <2>1. PICK s \in Sides, d \in Docs : Edit(s, d)
    BY <1>3
  <2>2. PICK new : Edits(s, new)
    BY <2>1, EditSteps
  <2>3. UNCHANGED <<req, exec, seen>>
    BY <2>2 DEF Edits
  <2> QED BY <1>1, <2>2, <2>3, CommitEdit DEF Commitment
<1>4. CASE Begin
  <2>1. /\ X' = X /\ Q' = Q /\ req.st = "idle" /\ TriesAgain /\ req'.attempt = 1
        /\ UNCHANGED <<exec, seen>>
    BY <1>4, BeginSteps
  <2> QED BY <1>1, <2>1 DEF Commitment, TriesAgain, InFlight
<1>5. CASE Send
  <2>1. UNCHANGED <<exec, seen>> /\ Becomes(req.st) /\ Q' = Q
    BY <1>5, SendSteps
  <2>2. \A f \in InFlight(X)' : f \in InFlight(X) \/ (f.type = "commit" => f.manifest \in req.commits)
    <3>1. PICK m \in Projects :
              \/ X' = Append(X, [type |-> "check", manifest |-> m])
              \/ X' = Append(X, [type |-> "commit", manifest |-> m]) /\ m \in req.commits
      BY <1>5, SendSteps
    <3>2. PICK g \in Frame : X' = Append(X, g) /\ (g.type = "commit" => g.manifest \in req.commits)
      BY <3>1, Frames
    <3>3. InFlight(Append(X, g)) = InFlight(X) \cup {g}
      BY InFlightAppended
    <3> QED BY <3>2, <3>3
  <2> QED BY <1>1, <2>1, <2>2 DEF Commitment, Becomes, InFlight
<1>6. CASE RequesterReceives
  <2>1. UNCHANGED <<exec, seen>> /\ Says
    BY <1>6, RequesterSteps
  <2>2. PICK i \in 1 .. Len(Q) : Q' = Without(Q, i) /\ Turns(Q[i])
    BY <1>6, RequesterSteps
  <2>3. InFlight(Q)' \subseteq InFlight(Q) /\ Q[i] \in InFlight(Q)
    <3>1. InFlight(Without(Q, i)) \subseteq InFlight(Q) /\ Q[i] \in InFlight(Q)
      BY InFlightTaken
    <3> QED BY <2>2, <3>1
  <2>4. \A f \in InFlight(X)' : f \in InFlight(X) \/ f.type \in {"state", "stateRequest"}
    BY <2>1, SaysFrames
  <2>5. /\ req'.st = "ack" => req'.manifest \in req'.commits
        /\ req'.attempt = 1 => req'.commits \subseteq {req'.manifest}
        /\ req'.st = "idle" \/ (req'.attempt = 1 /\ req'.st \in {"status", "recover"}) => req'.commits = {}
        /\ req.commits \subseteq req'.commits
        /\ req'.st = "done" => req'.commits \cap seen # {} /\ (req'.attempt = 1 => req'.manifest \in seen)
    BY <1>1, <2>2, <2>3 DEF Commitment, Turns, Becomes, TriesAgain
  <2> QED BY <1>1, <2>1, <2>3, <2>4, <2>5 DEF Commitment
<1>7. CASE ExecutorReceives
  <2>1. UNCHANGED <<req, seen>> /\ Answers
    BY <1>7, ExecutorSteps
  <2>2. PICK i \in 1 .. Len(X) : X' = Without(X, i) /\ Decides(X[i])
    BY <1>7, ExecutorSteps
  <2>3. InFlight(X)' \subseteq InFlight(X) /\ X[i] \in InFlight(X)
    <3>1. InFlight(Without(X, i)) \subseteq InFlight(X) /\ X[i] \in InFlight(X)
      BY InFlightTaken
    <3> QED BY <2>2, <3>1
  <2>4. \A f \in InFlight(Q)' : f \in InFlight(Q) \/ (f.type = "ack" /\ f.ok => exec.completed # {})
    BY <2>1, AnswerFrames
  <2>5. exec'.verifying \subseteq req.commits /\ exec'.completed \subseteq req.commits \cap seen
    BY <1>1, <2>2, <2>3 DEF Commitment, Decides
  <2>6. exec.completed # {} => req.commits \cap seen # {}
    BY <1>1 DEF Commitment
  <2> QED BY <1>1, <2>1, <2>3, <2>4, <2>5, <2>6 DEF Commitment
<1>8. CASE Verify
  <2>1. UNCHANGED req /\ X' = X /\ exec'.verifying = {} /\ seen \subseteq seen'
    BY <1>8, VerifySteps
  <2>2. PICK ok \in BOOLEAN :
          /\ Q' = Append(Q, Ack(ok))
          /\ exec'.completed \subseteq req.commits \cap seen'
          /\ ok => req.commits \cap seen' # {}
    <3>1. CASE Q' = Append(Q, Ack(FALSE)) /\ exec'.completed = exec.completed
      BY <1>1, <2>1, <3>1 DEF Commitment
    <3>2. CASE \E m \in exec.verifying :
                 m \in seen' /\ exec'.completed = {m} /\ Q' = Append(Q, Ack(TRUE))
      BY <1>1, <2>1, <3>2 DEF Commitment
    <3> QED BY <1>8, <3>1, <3>2, VerifySteps
  <2>3. \A f \in InFlight(Q)' : f \in InFlight(Q) \/ (f.ok => ok)
    <3>1. Ack(ok) \in Frame /\ Ack(ok).ok = ok
      BY Frames DEF Ack
    <3>2. InFlight(Append(Q, Ack(ok))) = InFlight(Q) \cup {Ack(ok)}
      BY <3>1, InFlightAppended
    <3> QED BY <2>2, <3>1, <3>2
  <2> QED BY <1>1, <2>1, <2>2, <2>3 DEF Commitment, InFlight
<1>9. CASE GiveUp \/ Lapse \/ Refuse \/ Break \/ Upgrade \/ Drop
  <2>1. UNCHANGED seen /\ (Leaves \/ Disorders)
    BY <1>9, FaultSteps
  <2>2. CASE Leaves
    <3>1. CASE X' = X /\ Q' = Q /\ Becomes("failed") /\ exec' = exec
      BY <1>1, <2>1, <3>1 DEF Commitment, Becomes, InFlight
    <3>2. CASE X' = X /\ Q' = Q /\ req' = req /\ exec'.completed = {} /\ exec'.verifying = exec.verifying
      BY <1>1, <2>1, <3>2 DEF Commitment, InFlight
    <3>3. CASE /\ \E i \in 1 .. Len(X) : X[i].type \in {"check", "commit"} /\ X' = Without(X, i)
               /\ \E g \in Frame : /\ Q' = Append(Q, g) /\ g.type \in {"status", "ack"}
                                   /\ g.type = "ack" => ~g.ok
               /\ UNCHANGED <<req, exec>>
      <4>1. InFlight(X)' \subseteq InFlight(X)
        <5>1. \A i \in 1 .. Len(X) : InFlight(Without(X, i)) \subseteq InFlight(X)
          BY InFlightTaken
        <5> QED BY <3>3, <5>1
      <4>2. \A f \in InFlight(Q)' : f \in InFlight(Q) \/ (f.type = "ack" => ~f.ok)
        <5>1. PICK g \in Frame : Q' = Append(Q, g) /\ (g.type = "ack" => ~g.ok)
          BY <3>3
        <5>2. InFlight(Append(Q, g)) = InFlight(Q) \cup {g}
          BY InFlightAppended
        <5> QED BY <5>1, <5>2
      <4> QED BY <1>1, <2>1, <3>3, <4>1, <4>2 DEF Commitment
    <3> QED BY <2>2, <3>1, <3>2, <3>3 DEF Leaves
  <2>3. CASE Disorders
    BY <1>1, <2>1, <2>3 DEF Commitment, Disorders
  <2> QED BY <2>1, <2>2, <2>3
<1>10. CASE UNCHANGED vars
  BY <1>1, <1>10 DEF vars, X, Q, InFlight
<1> QED BY <1>3, <1>4, <1>5, <1>6, <1>7, <1>8, <1>9, <1>10 DEF Next

-----------------------------------------------------------------------------
(* Why a commit comes behind all it names. *)

KX == Known(docs["executor"])
KQ == Known(docs["requester"])
Behind == ~disordered => Follows(X, KX, KQ)
Learnt == \A f \in InFlight(Q) : f.type \in {"update", "state"} => Known(f.docs) \subseteq KX
Meant == \A m \in req.commits \cup {req.manifest} : Known(m) \subseteq KQ
There == ~disordered => \A m \in exec.verifying : Known(m) \subseteq KX

LEMMA NewsParts == NewsInv /\ CommitComesBehind <=> Behind /\ Learnt /\ Meant /\ There
BY DEF NewsInv, CommitComesBehind, Behind, Learnt, Meant, There, Follows, KX, KQ

LEMMA NewsInit == Init => NewsInv /\ CommitComesBehind
<1> SUFFICES ASSUME Init PROVE NewsInv /\ CommitComesBehind
  OBVIOUS
<1>1. X = <<>> /\ Q = <<>> /\ docs["executor"] = docs["requester"]
  BY DEF Init, X, Q, Sides
<1>2. InFlight(Q) = {} /\ Len(X) = 0
  BY <1>1 DEF InFlight
<1>3. Known(Nothing) = {}
  BY DEF Known, Nothing
<1>4. req.manifest = Nothing /\ req.commits = {} /\ exec.verifying = {}
  BY DEF Init
<1> QED BY <1>1, <1>2, <1>3, <1>4 DEF NewsInv, CommitComesBehind

\* A step that lets nobody learn and sends no commit leaves all of it.
LEMMA NewsKept ==
  ASSUME Behind, Learnt, Meant, There, UNCHANGED docs,
         disordered' \/ (~disordered /\ Follows(X', KX, KQ)),
         \A f \in InFlight(Q)' : f \in InFlight(Q) \/ f.type \notin {"update", "state"} \/ f.docs = docs["executor"],
         \A m \in (req.commits)' \cup {(req.manifest)'} : m \in req.commits \cup {req.manifest, docs["requester"]},
         disordered' \/ \A m \in (exec.verifying)' : Known(m) \subseteq KX
  PROVE  Behind' /\ Learnt' /\ Meant' /\ There'
<1>1. KX' = KX /\ KQ' = KQ
  BY DEF KX, KQ
<1>2. Behind'
  BY <1>1 DEF Behind, Follows, News, Known
<1>3. Learnt'
  BY <1>1 DEF Learnt, KX
<1>4. Meant'
  BY <1>1 DEF Meant, KQ
<1>5. There'
  BY <1>1 DEF There
<1> QED BY <1>2, <1>3, <1>4, <1>5

LEMMA KnownMore ==
  ASSUME TypeOK, NEW s \in Sides, NEW a \in Projects, docs' = [docs EXCEPT ![s] = Merge(@, a)]
  PROVE  /\ s = "requester" => KQ' = KQ \cup Known(a) /\ KX' = KX
         /\ s = "executor" => KX' = KX \cup Known(a) /\ KQ' = KQ
<1>1. docs \in [Sides -> Projects]
  BY DEF TypeOK
<1>2. Known(docs'[s]) = Known(docs[s]) \cup Known(a) /\ docs'[Other(s)] = docs[Other(s)]
  BY <1>1, Merged
<1>3. KX' = Known(docs'["executor"]) /\ KQ' = Known(docs'["requester"])
  BY DEF KX, KQ
<1>4. CASE s = "requester"
  <2>1. Other(s) = "executor"
    BY <1>4 DEF Other
  <2> QED BY <1>2, <1>3, <1>4, <2>1 DEF KX, KQ
<1>5. CASE s = "executor"
  <2>1. Other(s) = "requester"
    BY <1>5 DEF Other
  <2> QED BY <1>2, <1>3, <1>5, <2>1 DEF KX, KQ
<1> QED BY <1>4, <1>5

LEMMA NewsEdit ==
  ASSUME TypeOK, Behind, Learnt, Meant, There, NEW s \in Sides, NEW new, Edits(s, new)
  PROVE  Behind' /\ Learnt' /\ Meant' /\ There'
<1> DEFINE f == [type |-> "update", docs |-> new]
<1>1. new \in Projects /\ docs' = [docs EXCEPT ![s] = Merge(@, new)] /\ UNCHANGED <<disordered, req, exec>>
  BY DEF Edits
<1>2. /\ s = "requester" => KQ' = KQ \cup Known(new) /\ KX' = KX
      /\ s = "executor" => KX' = KX \cup Known(new) /\ KQ' = KQ
  BY <1>1, KnownMore
<1>3. f \in Frame /\ f.type = "update" /\ Brought(f) = Known(new) /\ X \in Seq(Frame)
  BY <1>1, Frames, Typed DEF Brought
<1>4. IF s = "requester" THEN X' = Append(X, f) ELSE X' = X
  BY DEF Edits, Now
<1> HIDE DEF f
<1>5. ~disordered => Follows(X', KX', KQ')
  <2>1. ASSUME s = "requester", ~disordered PROVE Follows(X', KX', KQ')
    <3>1. Follows(Append(X, f), KX, KQ \cup Known(new))
      BY <1>3, <2>1, FollowsAppended DEF Behind
    <3> QED BY <1>2, <1>4, <2>1, <3>1
  <2>2. ASSUME s = "executor", ~disordered PROVE Follows(X', KX', KQ')
    <3>1. Follows(X, KX \cup Known(new), KQ \cup {})
      BY <2>2, FollowsMore DEF Behind
    <3> QED BY <1>2, <1>4, <2>2, <3>1
  <2> QED BY <2>1, <2>2 DEF Sides
<1>6. Behind'
  BY <1>1, <1>5 DEF Behind, Follows, News, Known
<1>7. \A g \in InFlight(Q)' : g \in InFlight(Q) \/ (g.docs = new /\ s = "executor")
  BY CommitEdit
<1>8. Learnt'
  <2>1. KX \subseteq KX' /\ (s = "executor" => Known(new) \subseteq KX')
    BY <1>2 DEF Sides
  <2>2. \A g \in InFlight(Q)' : g.type \in {"update", "state"} => Known(g.docs) \subseteq KX'
    BY <1>7, <2>1 DEF Learnt
  <2> QED BY <2>2 DEF Learnt
<1>9. KX \subseteq KX' /\ KQ \subseteq KQ'
  BY <1>2 DEF Sides
<1>10. Meant' /\ There'
  <2>1. \A m \in req'.commits \cup {req'.manifest} : Known(m) \subseteq KQ'
    BY <1>1, <1>9 DEF Meant
  <2>2. ~disordered' => \A m \in exec'.verifying : Known(m) \subseteq KX'
    BY <1>1, <1>9 DEF There
  <2> QED BY <2>1, <2>2 DEF Meant, There
<1> QED BY <1>6, <1>8, <1>10

LEMMA NewsSend ==
  ASSUME TypeOK, Behind, Learnt, Meant, There, Send
  PROVE  Behind' /\ Learnt' /\ Meant' /\ There'
<1>1. UNCHANGED <<docs, disordered, exec>> /\ Becomes(req.st) /\ Q' = Q
  BY SendSteps
<1>2. PICK m \in Projects :
          \/ X' = Append(X, [type |-> "check", manifest |-> m])
          \/ X' = Append(X, [type |-> "commit", manifest |-> m]) /\ m \in req.commits
  BY SendSteps
<1>3. PICK g \in Frame : X' = Append(X, g) /\ (g.type = "commit" => g.manifest \in req.commits)
  BY <1>2, Frames
<1>4. ASSUME ~disordered PROVE Follows(X', KX, KQ)
  <2>1. Follows(Append(X, g), KX, KQ \cup {})
    BY <1>3, <1>4, Typed, FollowsAppended DEF Behind, Meant
  <2> QED BY <1>3, <2>1
<1> QED BY <1>1, <1>4, NewsKept DEF Becomes, InFlight, There

LEMMA NewsRequester ==
  ASSUME TypeOK, Behind, Learnt, Meant, There, RequesterReceives
  PROVE  Behind' /\ Learnt' /\ Meant' /\ There'
<1>1. UNCHANGED <<disordered, exec>> /\ Says
  BY RequesterSteps
<1>2. PICK i \in 1 .. Len(Q) :
        /\ Q' = Without(Q, i) /\ Turns(Q[i])
        /\ \/ UNCHANGED docs
           \/ /\ Q[i].type \in {"update", "state"} /\ Q[i].docs \in Projects
              /\ docs' = [docs EXCEPT !["requester"] = Merge(@, Q[i].docs)]
  BY RequesterSteps
<1>3. InFlight(Q)' \subseteq InFlight(Q) /\ Q[i] \in InFlight(Q)
  <2>1. InFlight(Without(Q, i)) \subseteq InFlight(Q) /\ Q[i] \in InFlight(Q)
    BY Typed, InFlightTaken
  <2> QED BY <1>2, <2>1
<1>4. KX' = KX /\ \E new : new \subseteq KX /\ KQ' = KQ \cup new
  <2>1. CASE UNCHANGED docs
    <3>1. KX' = KX /\ KQ' = KQ \cup {}
      BY <2>1 DEF KX, KQ
    <3> QED BY <3>1
  <2>2. CASE /\ Q[i].type \in {"update", "state"} /\ Q[i].docs \in Projects
             /\ docs' = [docs EXCEPT !["requester"] = Merge(@, Q[i].docs)]
    <3>1. KX' = KX /\ KQ' = KQ \cup Known(Q[i].docs)
      BY <2>2, KnownMore DEF Sides
    <3>2. Known(Q[i].docs) \subseteq KX
      BY <1>3, <2>2 DEF Learnt
    <3> QED BY <3>1, <3>2
  <2> QED BY <1>2, <2>1, <2>2
<1>5. ASSUME ~disordered PROVE Follows(X', KX', KQ')
  <2>1. Follows(X', KX, KQ)
    <3>1. CASE X' = X
      BY <1>5, <3>1 DEF Behind
    <3>2. CASE \E g \in Frame : g.type \in {"state", "stateRequest"} /\ X' = Append(X, g)
      <4>1. PICK g \in Frame : g.type \in {"state", "stateRequest"} /\ X' = Append(X, g)
        BY <3>2
      <4>2. Follows(Append(X, g), KX, KQ \cup {})
        BY <1>5, <4>1, Typed, FollowsAppended DEF Behind
      <4> QED BY <4>1, <4>2
    <3> QED BY <1>1, <3>1, <3>2 DEF Says
  <2>2. PICK new : new \subseteq KX /\ KQ' = KQ \cup new
    BY <1>4
  <2>3. Follows(X', KX \cup {}, KQ \cup new)
    BY <2>1, <2>2, FollowsMore
  <2> QED BY <1>4, <2>2, <2>3
<1>6. Behind'
  BY <1>1, <1>5 DEF Behind, Follows, News, Known
<1>7. Learnt'
  <2>1. \A g \in InFlight(Q)' : g.type \in {"update", "state"} => Known(g.docs) \subseteq KX'
    BY <1>3, <1>4 DEF Learnt
  <2> QED BY <2>1 DEF Learnt
<1>8. Meant'
  <2>1. \A m \in req'.commits \cup {req'.manifest} : m \in req.commits \cup {req.manifest, docs["requester"]}
    BY <1>2 DEF Turns, Becomes, TriesAgain
  <2>2. \A m \in req'.commits \cup {req'.manifest} : Known(m) \subseteq KQ
    BY <2>1 DEF Meant, KQ
  <2>3. \A m \in req'.commits \cup {req'.manifest} : Known(m) \subseteq KQ'
    BY <1>4, <2>2
  <2> QED BY <2>3 DEF Meant
<1>9. There'
  <2>1. ~disordered' => \A m \in exec'.verifying : Known(m) \subseteq KX'
    BY <1>1, <1>4 DEF There
  <2> QED BY <2>1 DEF There
<1> QED BY <1>6, <1>7, <1>8, <1>9

\* A commit that is ready has no update ahead of it.
LEMMA ReadyCommit ==
  ASSUME NEW q, NEW i \in Ready(q), q[i].type = "commit", ~disordered
  PROVE  News(q, i) = {}
<1>1. i \in 1 .. Len(q) /\ \A j \in 1 .. (i - 1) : ~StaysAhead(q[j], q[i])
  BY DEF Ready
<1>2. ASSUME NEW j \in 1 .. i PROVE q[j].type # "update"
  <2>1. CASE j = i
    BY <2>1
  <2>2. CASE j # i
    <3>1. j \in 1 .. (i - 1)
      BY <1>1, <2>2
    <3>2. ~StaysAhead(q[j], q[i])
      BY <1>1, <3>1
    <3> QED BY <3>2 DEF StaysAhead, IsBulk, InBackground
  <2> QED BY <2>1, <2>2
<1> QED BY <1>2 DEF News

LEMMA NewsExecutor ==
  ASSUME TypeOK, Behind, Learnt, Meant, There, ExecutorReceives
  PROVE  Behind' /\ Learnt' /\ Meant' /\ There'
<1>1. UNCHANGED <<disordered, req>> /\ Answers
  BY ExecutorSteps
<1>2. PICK i \in Ready(X) :
        /\ i \in 1 .. Len(X) /\ X' = Without(X, i) /\ Decides(X[i])
        /\ \/ X[i].type # "update" /\ UNCHANGED docs
           \/ /\ X[i].type \in {"update", "state"} /\ X[i].docs \in Projects
              /\ docs' = [docs EXCEPT !["executor"] = Merge(@, X[i].docs)]
  BY ExecutorSteps
<1>3. KQ' = KQ /\ KX \subseteq KX' /\ Brought(X[i]) \subseteq KX'
  <2>1. CASE X[i].type # "update" /\ UNCHANGED docs
    BY <2>1 DEF KX, KQ, Brought
  <2>2. CASE /\ X[i].type \in {"update", "state"} /\ X[i].docs \in Projects
             /\ docs' = [docs EXCEPT !["executor"] = Merge(@, X[i].docs)]
    <3>1. KQ' = KQ /\ KX' = KX \cup Known(X[i].docs)
      BY <2>2, KnownMore DEF Sides
    <3>2. Brought(X[i]) \subseteq Known(X[i].docs)
      BY DEF Brought
    <3> QED BY <3>1, <3>2
  <2> QED BY <1>2, <2>1, <2>2
<1>4. ASSUME ~disordered PROVE Follows(X', KX', KQ')
  <2>1. Follows(Without(X, i), KX \cup Brought(X[i]), KQ)
    BY <1>2, <1>4, Typed, FollowsTaken DEF Behind
  <2>2. (KX \cup Brought(X[i])) \cup KX' = KX' /\ KQ \cup {} = KQ'
    BY <1>3
  <2>3. Follows(Without(X, i), (KX \cup Brought(X[i])) \cup KX', KQ \cup {})
    BY <2>1, FollowsMore
  <2> QED BY <1>2, <2>2, <2>3
<1>5. Behind'
  BY <1>1, <1>4 DEF Behind, Follows, News, Known
<1>6. Learnt'
  <2>1. \A g \in InFlight(Q)' : g \in InFlight(Q) \/ g.type \notin {"update", "state"} \/ g.docs = docs["executor"]
    BY <1>1, AnswerFrames
  <2>2. \A g \in InFlight(Q)' : g.type \in {"update", "state"} => Known(g.docs) \subseteq KX
    BY <2>1 DEF Learnt, KX
  <2>3. \A g \in InFlight(Q)' : g.type \in {"update", "state"} => Known(g.docs) \subseteq KX'
    BY <1>3, <2>2
  <2> QED BY <2>3 DEF Learnt
<1>7. Meant'
  <2>1. \A m \in req'.commits \cup {req'.manifest} : Known(m) \subseteq KQ'
    BY <1>1, <1>3 DEF Meant
  <2> QED BY <2>1 DEF Meant
<1>8. There'
  <2>1. ASSUME ~disordered PROVE \A m \in exec'.verifying : Known(m) \subseteq KX
    <3>1. CASE X[i].type = "commit" /\ exec'.verifying = {X[i].manifest}
      <4>1. Known(X[i].manifest) \subseteq KX \cup News(X, i)
        BY <1>2, <2>1, <3>1 DEF Behind, Follows
      <4>2. News(X, i) = {}
        BY <1>2, <2>1, <3>1, ReadyCommit
      <4> QED BY <3>1, <4>1, <4>2
    <3>2. CASE exec'.verifying = exec.verifying
      BY <2>1, <3>2 DEF There
    <3> QED BY <1>2, <3>1, <3>2 DEF Decides
  <2>2. ~disordered' => \A m \in exec'.verifying : Known(m) \subseteq KX'
    BY <1>1, <1>3, <2>1
  <2> QED BY <2>2 DEF There
<1> QED BY <1>5, <1>6, <1>7, <1>8

LEMMA NewsVerify ==
  ASSUME TypeOK, Behind, Learnt, Meant, There, Verify
  PROVE  Behind' /\ Learnt' /\ Meant' /\ There'
<1>1. UNCHANGED <<docs, disordered, req>> /\ X' = X /\ exec'.verifying = {}
  BY VerifySteps
<1>2. PICK ok \in BOOLEAN : Q' = Append(Q, Ack(ok))
  BY VerifySteps
<1>3. \A f \in InFlight(Q)' : f \in InFlight(Q) \/ f.type = "ack"
  <2>1. Ack(ok) \in Frame /\ Ack(ok).type = "ack"
    BY Frames DEF Ack
  <2>2. InFlight(Append(Q, Ack(ok))) = InFlight(Q) \cup {Ack(ok)}
    BY <2>1, Typed, InFlightAppended
  <2> QED BY <1>2, <2>1, <2>2
<1>4. disordered' \/ (~disordered /\ Follows(X', KX, KQ))
  BY <1>1 DEF Behind, TypeOK
<1> QED BY <1>1, <1>3, <1>4, NewsKept

LEMMA NewsFault ==
  ASSUME TypeOK, Behind, Learnt, Meant, There, GiveUp \/ Lapse \/ Refuse \/ Break \/ Upgrade \/ Drop
  PROVE  Behind' /\ Learnt' /\ Meant' /\ There'
<1>1. UNCHANGED docs /\ ((disordered' = disordered /\ Leaves) \/ Disorders)
  BY FaultSteps
<1>2. CASE disordered' = disordered /\ Leaves
  <2>1. ASSUME ~disordered PROVE Follows(X', KX, KQ)
    <3>1. CASE X' = X
      BY <2>1, <3>1 DEF Behind
    <3>2. CASE \E i \in 1 .. Len(X) : X[i].type \in {"check", "commit"} /\ X' = Without(X, i)
      <4>1. PICK i \in 1 .. Len(X) : X[i].type \in {"check", "commit"} /\ X' = Without(X, i)
        BY <3>2
      <4>2. Follows(Without(X, i), KX \cup Brought(X[i]), KQ)
        BY <2>1, Typed, FollowsTaken DEF Behind
      <4>3. KX \cup Brought(X[i]) = KX
        BY <4>1 DEF Brought
      <4> QED BY <4>1, <4>2, <4>3
    <3> QED BY <1>2, <3>1, <3>2 DEF Leaves
  <2>2. \A f \in InFlight(Q)' : f \in InFlight(Q) \/ f.type \in {"status", "ack"}
    <3>1. CASE Q' = Q
      BY <3>1 DEF InFlight
    <3>2. CASE \E g \in Frame : Q' = Append(Q, g) /\ g.type \in {"status", "ack"}
      <4>1. PICK g \in Frame : Q' = Append(Q, g) /\ g.type \in {"status", "ack"}
        BY <3>2
      <4>2. InFlight(Append(Q, g)) = InFlight(Q) \cup {g}
        BY Typed, InFlightAppended
      <4> QED BY <4>1, <4>2
    <3> QED BY <1>2, <3>1, <3>2 DEF Leaves
  <2>3. /\ (req.commits)' = req.commits /\ (req.manifest)' = req.manifest
        /\ (exec.verifying)' = exec.verifying
    BY <1>2 DEF Leaves, Becomes
  <2> QED BY <1>1, <1>2, <2>1, <2>2, <2>3, NewsKept DEF There
<1>3. CASE Disorders
  <2>1. /\ disordered' /\ UNCHANGED <<req, exec>>
        /\ \A f \in InFlight(Q)' : f \in InFlight(Q) \/ (f.type = "state" /\ f.docs = docs["executor"])
    BY <1>3 DEF Disorders
  <2> QED BY <1>1, <2>1, NewsKept
<1> QED BY <1>1, <1>2, <1>3

LEMMA NewsStep ==
  ASSUME TypeOK, NewsInv, CommitComesBehind, [Next]_vars
  PROVE  NewsInv' /\ CommitComesBehind'
<1>1. Behind /\ Learnt /\ Meant /\ There
  BY NewsParts
<1>2. Behind' /\ Learnt' /\ Meant' /\ There'
  <2>1. CASE \E s \in Sides, d \in Docs : Edit(s, d)
    <3>1. PICK s \in Sides, d \in Docs : Edit(s, d)
      BY <2>1
    <3>2. PICK new : Edits(s, new)
      BY <3>1, EditSteps
    <3> QED BY <1>1, <3>2, NewsEdit
  <2>2. CASE Begin
    <3>1. X' = X /\ Q' = Q /\ TriesAgain /\ UNCHANGED <<docs, disordered, exec>>
      BY <2>2, BeginSteps
    <3>2. disordered' \/ (~disordered /\ Follows(X', KX, KQ))
      BY <1>1, <3>1 DEF Behind
    <3>3. \A f \in InFlight(Q)' : f \in InFlight(Q)
      BY <3>1 DEF InFlight
    <3>4. \A m \in (req.commits)' \cup {(req.manifest)'} :
             m \in req.commits \cup {req.manifest, docs["requester"]}
      BY <3>1 DEF TriesAgain
    <3>5. disordered' \/ \A m \in (exec.verifying)' : Known(m) \subseteq KX
      BY <1>1, <3>1 DEF There
    <3> QED BY <1>1, <3>1, <3>2, <3>3, <3>4, <3>5, NewsKept
  <2>3. CASE Send
    BY <1>1, <2>3, NewsSend
  <2>4. CASE RequesterReceives
    BY <1>1, <2>4, NewsRequester
  <2>5. CASE ExecutorReceives
    BY <1>1, <2>5, NewsExecutor
  <2>6. CASE Verify
    BY <1>1, <2>6, NewsVerify
  <2>7. CASE GiveUp \/ Lapse \/ Refuse \/ Break \/ Upgrade \/ Drop
    BY <1>1, <2>7, NewsFault
  <2>8. CASE UNCHANGED vars
    <3>1. X' = X /\ Q' = Q /\ UNCHANGED <<docs, disordered, req, exec>>
      BY <2>8 DEF vars, X, Q
    <3> QED BY <1>1, <3>1 DEF Behind, Learnt, Meant, There, Follows, News, InFlight, KX, KQ
  <2> QED BY <2>1, <2>2, <2>3, <2>4, <2>5, <2>6, <2>7, <2>8 DEF Next
<1>3. (Behind /\ Learnt /\ Meant /\ There)' => (NewsInv /\ CommitComesBehind)'
  BY NewsParts, PTL
<1> QED BY <1>2, <1>3

-----------------------------------------------------------------------------
LEMMA InitType == Init => TypeOK
<1> SUFFICES ASSUME Init PROVE TypeOK
  OBVIOUS
<1>1. [d \in Initial |-> {}] \in Projects /\ Nothing \in Projects
  <2>1. [d \in Initial |-> {}] \in [Initial -> SUBSET (1 .. MaxChanges)] /\ Initial \in SUBSET Docs
    BY BarrierAssumption DEF BarrierAssumption
  <2>2. Nothing \in [{} -> SUBSET (1 .. MaxChanges)]
    <3>1. Nothing = [i \in {} |-> {}]
      BY DEF Nothing
    <3> QED BY <3>1
  <2> QED BY <2>1, <2>2, IsProject
<1>2. docs \in [Sides -> Projects]
  BY <1>1 DEF Init
<1>3. net \in [Sides -> Seq(Frame)]
  <2>1. <<>> \in Seq(Frame)
    OBVIOUS
  <2>2. net = [s \in Sides |-> <<>>]
    BY DEF Init
  <2> QED BY <2>1, <2>2
<1>4. req \in Requests
  <2>1. 1 \in 1 .. 2
    OBVIOUS
  <2> HIDE DEF Nothing
  <2> QED BY <1>1, <2>1 DEF Init, Requests
<1>5. exec \in Authorizations /\ used \in [edits : Nat, retries : Nat, faults : Nat] /\ seen \subseteq Projects
      /\ disordered \in BOOLEAN /\ changed \in BOOLEAN
  BY DEF Init, Authorizations
<1> QED BY <1>2, <1>3, <1>4, <1>5 DEF TypeOK

LEMMA TypeStep == ASSUME TypeOK, [Next]_vars PROVE TypeOK'
<1>1. CASE UNCHANGED vars
  BY <1>1 DEF vars, TypeOK
<1> QED BY <1>1, EditSteps, BeginSteps, SendSteps, RequesterSteps, ExecutorSteps, VerifySteps,
           FaultSteps DEF Next

\* What is verified and acknowledged is what the requester committed to, and
\* of what it commits to nothing is missing (CommitInv, NewsInv): the inductive
\* invariant of synchronizeExecutionFiles, its sending loops and the executor,
\* with frames repeated, lost and overtaken.
THEOREM BarrierInductive == Spec => []BarrierInv
<1>1. Init => BarrierInv
  BY InitType, CommitInit, NewsInit DEF BarrierInv
<1>2. BarrierInv /\ [Next]_vars => BarrierInv'
  <2> SUFFICES ASSUME BarrierInv, [Next]_vars PROVE BarrierInv'
    OBVIOUS
  <2>1. TypeOK /\ CommitInv /\ NewsInv /\ StartsOnACommitment /\ CommitComesBehind
    BY DEF BarrierInv
  <2>2. TypeOK' /\ CommitInv' /\ NewsInv' /\ StartsOnACommitment' /\ CommitComesBehind'
    BY <2>1, TypeStep, CommitStep, NewsStep
  <2> QED BY <2>2 DEF BarrierInv
<1> QED BY <1>1, <1>2, PTL DEF Spec

\* A run starts only when the executor had exactly a project the requester
\* committed this request to; in a first attempt that is the manifest of the
\* request (synchronizeExecutionFiles, handleExecutionBarrierCommit).
THEOREM RunsOnACommitment == Spec => []StartsOnACommitment
<1>1. BarrierInv => StartsOnACommitment
  BY DEF BarrierInv
<1> QED BY <1>1, BarrierInductive, PTL

\* While a route lasts nothing a commit names is missing when it is verified:
\* checks overtake states, commits do not overtake updates (mesh.ts:3484-3486).
THEOREM NothingNamedIsMissing == Spec => []CommitComesBehind
<1>1. BarrierInv => CommitComesBehind
  BY DEF BarrierInv
<1> QED BY <1>1, BarrierInductive, PTL
=============================================================================
