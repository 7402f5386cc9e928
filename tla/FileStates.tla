------------------------------ MODULE FileStates ------------------------------
(***************************************************************************)
(* The life of the files of a session (src/runtime/session.ts): every      *)
(* participant keeps a versioned state per path, newer states win, a       *)
(* deleted directory hides what is below it, and texts move with renames.  *)
(* Text is a set of edits: the merge of Yjs is their union.  A path is the *)
(* sequence of its names; participant 1 is the Session Host.               *)
(***************************************************************************)
EXTENDS Naturals, Sequences, FiniteSets, SequencesExt

CONSTANTS
  Peers,     \* participants: numbers from 1
  Actors,    \* bound: those whose user acts
  Paths,     \* the paths in play
  Dirs,      \* those that are directories
  Initial,   \* the paths that exist at the start
  Ops,       \* bound: the kinds of local operations
  MaxOps,    \* bound: local operations
  MaxCuts    \* bound: routes that break

VARIABLES
  local,  \* what each participant keeps
  net,    \* frames on their way, for every ordered pair of participants
  up,     \* the pairs of participants with a route
  ops,    \* local operations so far
  cuts,   \* routes broken so far
  want    \* what the last user who acted has then

vars == <<local, net, up, ops, cuts, want>>

None == [v |-> 0, by |-> 0, kind |-> "none", dead |-> FALSE]
Kind(path) == IF path \in Dirs THEN "directory" ELSE "text"

Under(path)  == {q \in Paths : IsPrefix(path, q)}
Below(path)  == Under(path) \ {path}
Ancestors(p) == {q \in Paths : IsStrictPrefix(q, p)}
Nested(a, b) == a \in Under(b) \/ b \in Under(a)
Moved(path, from, to) == to \o SubSeq(path, Len(from) + 1, Len(path))

(* compareFileState; a path keeps its kind here.                            *)
Older(a, b) ==
  \/ a.v < b.v
  \/ a.v = b.v /\ a.by < b.by
  \/ a.v = b.v /\ a.by = b.by /\ ~a.dead /\ b.dead

Newest(S) == CHOOSE s \in S : \A t \in S : ~Older(s, t)

(* effectiveFileState: its own state or the deletion of a directory above.  *)
Effective(L, path) ==
  Newest({L.state[path]} \cup {s \in {L.state[a] : a \in Ancestors(path)} : s.dead})

IsLive(L, path) == Effective(L, path) # None /\ ~Effective(L, path).dead

-----------------------------------------------------------------------------
(* What the handlers do to the state of one participant; frames it sends    *)
(* are collected in L.out as [to, frame], to = 0 for a broadcast.           *)
Send(L, to, f) == [L EXCEPT !.out = Append(@, [to |-> to, f |-> f])]

StateFrame(path, s)        == [type |-> "fileState", path |-> path, s |-> s]
(* The host's edits carry the digest of its text: here the text itself.     *)
UpdateFrame(path, s, text, digest) ==
  [type |-> "update", path |-> path, s |-> s, text |-> text, digest |-> digest]
VectorFrame(path, s, text) == [type |-> "vector", path |-> path, s |-> s, text |-> text]

SetState(L, path, s) == [L EXCEPT !.state[path] = s,
                                  !.counter = IF s.v > @ THEN s.v ELSE @]

(* nextFileState *)
NextState(L, path, dead, p) == [v |-> L.counter + 1, by |-> p, kind |-> Kind(path), dead |-> dead]

(* applyDeletedPath: the document, or the directory and all below it.       *)
ApplyDeleted(L, path) ==
  [L EXCEPT !.has = @ \ Under(path),
            !.text = [q \in Paths |-> IF q \in Under(path) THEN {} ELSE @[q]]]

(* ensureLivePathMaterialized *)
Materialize(L, path) == [L EXCEPT !.has = @ \cup {path}]

(* mutant of Accept: the state is taken whatever is known.                  *)
AcceptAnything(L, path, s, effects, propagate) ==
  LET A == SetState(L, path, s)
      B == IF ~effects THEN A
           ELSE IF s.dead THEN ApplyDeleted(A, path) ELSE Materialize(A, path)
  IN [IF propagate /\ L.state[path] # s THEN Send(B, 0, StateFrame(path, s)) ELSE B
        EXCEPT !.ok = TRUE]

(* acceptFileState; ok tells whether the incoming state now rules.          *)
Accept(L, path, s, effects, propagate) ==
  IF Older(s, Effective(L, path)) THEN [L EXCEPT !.ok = FALSE]
  ELSE LET A == SetState(L, path, s)
           B == IF ~effects THEN A
                ELSE IF s.dead THEN ApplyDeleted(A, path) ELSE Materialize(A, path)
           C == IF L.state[path] = s THEN L
                ELSE IF propagate THEN Send(B, 0, StateFrame(path, s)) ELSE B
       IN [C EXCEPT !.ok = (Effective(C, path) = s)]

(* ensureLiveFileState *)
EnsureLive(L, path, p) ==
  IF L.state[path] # None /\ ~L.state[path].dead /\ Effective(L, path) = L.state[path] THEN L
  ELSE SetState(L, path, NextState(L, path, FALSE, p))

(* renameFileStates: the old tree is buried, the new one takes its place.   *)
RenameStates(L, from, to, fromState, toState) ==
  LET max(a, b) == IF a > b THEN a ELSE b
      old == {q \in Below(from) : L.state[q] # None}
      new == {Moved(q, from, to) : q \in old}
      source(q) == L.state[CHOOSE o \in old : Moved(o, from, to) = q]
  IN [L EXCEPT
        !.state = [q \in Paths |->
           CASE q = to   -> toState
             [] q \in new -> [source(q) EXCEPT !.v = max(@, toState.v), !.by = toState.by]
             [] q = from -> fromState
             [] q \in old -> [L.state[q] EXCEPT !.v = max(@, fromState.v),
                                                !.by = fromState.by, !.dead = TRUE]
             [] OTHER -> L.state[q]],
        !.counter = max(@, max(fromState.v, toState.v))]

(* project.renameDocument and renameDirectories *)
RenameContent(L, from, to) ==
  LET old == L.has \cap Under(from)
      new == {Moved(q, from, to) : q \in old}
      source(q) == CHOOSE o \in old : Moved(o, from, to) = q
  IN [L EXCEPT
        !.has = (@ \ old) \cup new,
        !.text = [q \in Paths |-> IF q \in new THEN L.text[source(q)]
                                  ELSE IF q \in old THEN {} ELSE L.text[q]]]

Remember(L, from, to, toState) == [L EXCEPT !.origin[from] = [to |-> to, s |-> toState]]
NoOrigin == [to |-> <<>>, s |-> None]

Buried(s) == [s EXCEPT !.dead = TRUE]

-----------------------------------------------------------------------------
(* The messages.                                                            *)

(* requestDocumentState, after a state that made a text appear.             *)
OnFileState(L, m, from) ==
  LET A == Accept(L, m.path, m.s, TRUE, TRUE)
  IN IF A.ok /\ m.path \notin L.has /\ ~m.s.dead /\ m.s.kind = "text"
     THEN Send(A, from, VectorFrame(m.path, Effective(A, m.path), A.text[m.path]))
     ELSE A

(* applyRemoteUpdate, then the digest that came with the text is compared.  *)
Merge(L, m, from) ==
  LET A == [L EXCEPT !.text[m.path] = @ \cup m.text, !.has = @ \cup {m.path}]
  IN IF m.digest \in {{}, {A.text[m.path]}} THEN A
     ELSE Send(A, from, [type |-> "textStateRequest", path |-> m.path, text |-> A.text[m.path]])

(* projectUpdate, stateDocument and stateDiff *)
OnUpdate(L, m, from) ==
  LET A == Accept(L, m.path, m.s, TRUE, TRUE)
  IN CASE m.s = None -> L
       [] m.s # None /\ A.ok /\ ~Effective(A, m.path).dead -> Merge(A, m, from)
       [] OTHER -> A

(* sendAuthoritativeTextState *)
OnTextRequest(L, m, from) ==
  IF m.path \notin L.has THEN L
  ELSE Send(L, from, [type |-> "textStateSnapshot", path |-> m.path,
                      text |-> L.text[m.path] \ m.text, digest |-> {L.text[m.path]}])

OnVector(L, m, from, p) ==
  LET A == Accept(L, m.path, m.s, TRUE, TRUE) IN
  CASE m.s = None -> L
    [] m.s # None /\ ~A.ok -> A
    [] m.s # None /\ A.ok /\ Effective(A, m.path).dead ->
         Send(A, from, StateFrame(m.path, Effective(A, m.path)))
    [] m.s # None /\ A.ok /\ ~Effective(A, m.path).dead /\ m.path \notin L.has ->
         LET B == Materialize(EnsureLive(A, m.path, p), m.path)
         IN Send(B, from, VectorFrame(m.path, B.state[m.path], B.text[m.path]))
    [] OTHER ->
         Send(A, from, UpdateFrame(m.path, Effective(A, m.path), A.text[m.path] \ m.text, {}))

(* reconcileFilesystemState: one state after another.                       *)
OnFilesystem(L, m, from) ==
  FoldLeft(LAMBDA A, path : IF m.states[path] = None THEN A
                            ELSE OnFileState(A, StateFrame(path, m.states[path]), from),
           L, SetToSeq(Paths))

(* fileRename: an earlier rename of the same source may lose or win.        *)
Loses(L, m) == LET o == L.origin[m.from]
               IN o # NoOrigin /\ o.to # m.to /\ ~Older(o.s, m.toState)

OnRename(L, m) ==
  LET o      == L.origin[m.from]
      moves  == o # NoOrigin /\ o.to # m.to
      source == IF moves THEN o.to ELSE m.from
      F == Accept(L, m.from, m.fromState, FALSE, FALSE)
      T == Accept(F, m.to, m.toState, FALSE, FALSE)
      B == IF moves THEN Accept(T, o.to, Buried(o.s), FALSE, TRUE) ELSE T
      R == Remember(RenameContent(RenameStates(B, source, m.to, m.fromState, m.toState),
                                  source, m.to), m.from, m.to, m.toState)
      M == IF m.to \in R.has THEN R ELSE Materialize(R, m.to)
      D == IF F.ok THEN ApplyDeleted(T, m.from) ELSE T
  IN CASE Loses(L, m) -> Accept(L, m.to, Buried(m.toState), TRUE, TRUE)
       [] ~Loses(L, m) /\ F.ok /\ T.ok ->
            Send(Send(M, 0, StateFrame(m.from, m.fromState)), 0, StateFrame(m.to, m.toState))
       [] OTHER -> IF T.ok THEN Materialize(D, m.to) ELSE D

Handled(L, m, from, p) ==
  CASE m.type = "fileState"  -> OnFileState(L, m, from)
    [] m.type = "update"     -> OnUpdate(L, m, from)
    [] m.type = "vector"     -> OnVector(L, m, from, p)
    [] m.type = "filesystem" -> OnFilesystem(L, m, from)
    [] m.type = "rename"     -> OnRename(L, m)
    [] m.type = "textStateRequest"  -> OnTextRequest(L, m, from)
    [] m.type = "textStateSnapshot" -> Merge(L, m, from)

-----------------------------------------------------------------------------
Pairs == {pq \in Peers \X Peers : pq[1] # pq[2]}
Joined(p, q) == {p, q} \in up

(* The participant's state after a step, and its frames on their way.       *)
Commit(p, L, rest) ==
  /\ local' = [local EXCEPT ![p] = [L EXCEPT !.out = <<>>, !.ok = TRUE]]
  /\ net' = [pq \in Pairs |->
       IF pq[1] = p /\ Joined(p, pq[2])
       THEN rest[pq] \o [i \in 1 .. Len(SelectSeq(L.out, LAMBDA o : o.to \in {0, pq[2]})) |->
                           SelectSeq(L.out, LAMBDA o : o.to \in {0, pq[2]})[i].f]
       ELSE rest[pq]]

Digest(p, text) == IF p = 1 THEN {text} ELSE {}
First(path) == [v |-> 1, by |-> 1, kind |-> Kind(path), dead |-> FALSE]

Init ==
  /\ local = [p \in Peers |->
       [state |-> [q \in Paths |-> IF q \in Initial THEN First(q) ELSE None],
        counter |-> 1, has |-> Initial, text |-> [q \in Paths |-> {}],
        origin |-> [q \in Paths |-> NoOrigin], out |-> <<>>, ok |-> TRUE]]
  /\ net = [pq \in Pairs |-> <<>>]
  /\ up = {{pq[1], pq[2]} : pq \in Pairs}
  /\ ops = 0 /\ cuts = 0
  /\ want = [has |-> Initial, text |-> [q \in Paths |-> {}]]

Acts(kind) == kind \in Ops /\ ops < MaxOps /\ ops' = ops + 1 /\ UNCHANGED <<up, cuts>>
Changes(p, L) == Commit(p, L, net) /\ want' = [has |-> L.has, text |-> L.text]

HasParent(L, path) == Ancestors(path) \subseteq L.has

(* onLocalFile and onLocalDirectory: a path appears on the disk.            *)
Create(p, path) ==
  LET L == local[p]
      A == EnsureLive(L, path, p)
      B == Send([A EXCEPT !.has = @ \cup {path}], 0, StateFrame(path, A.state[path]))
  IN /\ Acts("create")
     /\ path \notin L.has /\ HasParent(L, path)
     /\ Changes(p, IF path \in Dirs THEN B
                  ELSE Send([B EXCEPT !.text[path] = {ops + 1}], 0,
                            UpdateFrame(path, B.state[path], {ops + 1}, Digest(p, {ops + 1}))))

(* An update of the document is published under its present state.          *)
Edit(p, path) ==
  LET A == EnsureLive(local[p], path, p)
  IN /\ Acts("edit")
     /\ path \in local[p].has \ Dirs
     /\ Changes(p, Send([A EXCEPT !.text[path] = @ \cup {ops + 1}], 0,
                       UpdateFrame(path, A.state[path], {ops + 1},
                                   Digest(p, A.text[path] \cup {ops + 1}))))

(* applyLocalDeletion *)
Delete(p, path) ==
  LET L == local[p]
      s == NextState(L, path, TRUE, p)
  IN /\ Acts("delete")
     /\ path \in L.has
     /\ Changes(p, Send(ApplyDeleted(SetState(L, path, s), path), 0, StateFrame(path, s)))

(* onLocalRename *)
Rename(p, from, to) ==
  LET L == local[p]
      fromState == NextState(L, from, TRUE, p)
      toState   == [NextState(L, to, FALSE, p) EXCEPT !.v = @ + 1]
      A == RenameContent(RenameStates(L, from, to, fromState, toState), from, to)
  IN /\ Acts("rename")
     /\ from \in L.has /\ to \notin L.has /\ ~Nested(from, to)
     /\ Kind(from) = Kind(to) /\ HasParent(L, to)
     /\ Changes(p, Send(Remember(A, from, to, toState), 0,
                       [type |-> "rename", from |-> from, to |-> to,
                        fromState |-> fromState, toState |-> toState]))

(* onMessage *)
Deliver(p, q) ==
  /\ net[<<q, p>>] # <<>>
  /\ Commit(p, Handled(local[p], Head(net[<<q, p>>]), q, p),
            [net EXCEPT ![<<q, p>>] = Tail(@)])
  /\ UNCHANGED <<up, ops, cuts, want>>

(* A route breaks with all that is on it; peerConnected sends everything.   *)
Cut(p, q) ==
  /\ Joined(p, q) /\ cuts < MaxCuts
  /\ cuts' = cuts + 1
  /\ up' = up \ {{p, q}}
  /\ net' = [net EXCEPT ![<<p, q>>] = <<>>, ![<<q, p>>] = <<>>]
  /\ UNCHANGED <<local, ops, want>>

(* sendFilesystemState, then sendProjectState by the host and               *)
(* sendStateVectors by the others.                                          *)
Greeting(L, host) ==
  LET texts == SetToSeq(L.has \ Dirs)
      vectors == [i \in DOMAIN texts |-> VectorFrame(texts[i], L.state[texts[i]], L.text[texts[i]])]
      full == [i \in DOMAIN texts |-> UpdateFrame(texts[i], L.state[texts[i]], L.text[texts[i]], {})]
  IN <<[type |-> "filesystem", states |-> L.state]>> \o (IF host THEN full ELSE <<>>) \o vectors

Reconnect(p, q) ==
  /\ p < q /\ ~Joined(p, q)
  /\ up' = up \cup {{p, q}}
  /\ net' = [net EXCEPT ![<<p, q>>] = Greeting(local[p], p = 1),
                        ![<<q, p>>] = Greeting(local[q], q = 1)]
  /\ UNCHANGED <<local, ops, cuts, want>>

Next ==
  \/ \E p \in Actors, path \in Paths :
       \/ Create(p, path) \/ Edit(p, path) \/ Delete(p, path)
       \/ \E to \in Paths : Rename(p, path, to)
  \/ \E p, q \in Peers : p # q /\ (Deliver(p, q) \/ Cut(p, q) \/ Reconnect(p, q))

Spec == Init /\ [][Next]_vars

-----------------------------------------------------------------------------
Quiet == (\A pq \in Pairs : net[pq] = <<>>) /\ (\A pq \in Pairs : Joined(pq[1], pq[2]))

(* When all is delivered everybody sees the same files and has them.        *)
FilesAgree ==
  Quiet => \A p, q \in Peers, path \in Paths :
    /\ IsLive(local[p], path) = IsLive(local[q], path)
    /\ IsLive(local[p], path) => path \in local[p].has

(* Everybody ends up with what the one user at work has.                    *)
OneUserDecides ==
  Quiet => \A p \in Peers : local[p].has = want.has /\ local[p].text = want.text

(* When all is delivered everybody has the same text.                       *)
TextsAgree ==
  Quiet => \A p, q \in Peers, path \in Paths : local[p].text[path] = local[q].text[path]

(* What a participant knows of a path gives way only to something newer.    *)
NoOldStateReturns ==
  \A p \in Peers, path \in Paths : ~Older(Effective(local'[p], path), Effective(local[p], path))
=============================================================================
