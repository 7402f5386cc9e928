--------------------------- MODULE NotebookDocument ---------------------------
(***************************************************************************)
(* A notebook that two participants edit (src/core/crdt.ts and the         *)
(* structural part of src/vscode/sync.ts).  The order of the cells is a    *)
(* shared array of entries, each naming a cell; a move deletes an entry    *)
(* and inserts another, the payload of a cell is kept aside until nothing  *)
(* refers to it.  Yjs is seen as what it promises: one total order of all  *)
(* entries ever made, of which each replica shows those it knows and has   *)
(* not deleted, and the union of what is known and of what is deleted.     *)
(***************************************************************************)
EXTENDS Naturals, Sequences, FiniteSets, SequencesExt

CONSTANTS
  Cells,     \* cells that may exist
  Start,     \* those of the notebook at the start, in order
  Ops,       \* bound: the kinds of edits
  MaxOps,    \* bound: edits
  MaxCuts,   \* bound: times the participants lose each other
  Collectors, \* bound: participants that collect garbage
  MaxTicks,  \* bound: rounds of the garbage collection of each
  Grace      \* rounds a grace period has

VARIABLES
  layout,  \* all entries ever made, in the order of the array
  cellOf,  \* the cell of each entry
  rep,     \* the replica and the editor of each participant
  net,     \* updates on their way to each
  up,      \* the participants see each other
  count,   \* edits and cuts so far
  cleared  \* cells some user deleted

vars == <<layout, cellOf, rep, net, up, count, cleared>>

P == {1, 2}
Peer(p) == 3 - p

(* The entries replica R shows, and the cells they name.                    *)
Entries(lay, R) == SelectSeq(lay, LAMBDA e : e \in R.known /\ e \notin R.dead)
Order(lay, of, R) == LET s == Entries(lay, R) IN [i \in DOMAIN s |-> of[s[i]]]
Shown(p) == Order(layout, cellOf, rep[p])
Source(R, c) == R.ins[c] \ R.del[c]

-----------------------------------------------------------------------------
(* What a replica sends: all it knows; applying it twice changes nothing.   *)
Update(R, t) == [known |-> R.known, dead |-> R.dead, ins |-> R.ins, del |-> R.del,
                 lost |-> R.lost, t |-> t]

Merge(R, u) ==
  [R EXCEPT !.known = @ \cup u.known, !.dead = @ \cup u.dead,
            !.ins = [c \in Cells |-> @[c] \cup u.ins[c]],
            !.del = [c \in Cells |-> @[c] \cup u.del[c]],
            !.lost = @ \cup u.lost]

(* mutant of Duplicates: the last entry of a cell is the one that stays     *)
AllButLast(lay, of, R) ==
  LET s == Entries(lay, R)
  IN {s[i] : i \in {j \in DOMAIN s : \E k \in DOMAIN s : k > j /\ of[s[k]] = of[s[j]]}}

(* normalizeOrder keeps the first entry of a cell.                          *)
Duplicates(lay, of, R) ==
  LET s == Entries(lay, R)
  IN {s[i] : i \in {j \in DOMAIN s : \E k \in DOMAIN s : k < j /\ of[s[k]] = of[s[j]]}}

Normalized(lay, of, R) == [R EXCEPT !.dead = @ \cup Duplicates(lay, of, R)]

-----------------------------------------------------------------------------
(* A new entry goes right behind its left neighbour; what another replica   *)
(* put at the same place is before it when that replica comes first.        *)
Place(lay, R, left, p) ==
  LET at  == IF left = 0 THEN 0 ELSE CHOOSE i \in DOMAIN lay : lay[i] = left
      own == {i \in at + 1 .. Len(lay) : lay[i] \in R.known}
      end == IF own = {} THEN Len(lay) ELSE (CHOOSE i \in own : \A j \in own : i <= j) - 1
  IN IF p = 1 THEN at ELSE end

InsertEntry(a, i, c, p) ==
  LET s == Entries(a.lay, a.R)
      e == Len(a.of) + 1
  IN [a EXCEPT !.lay = InsertAt(@, Place(a.lay, a.R, IF i = 1 THEN 0 ELSE s[i - 1], p) + 1, e),
               !.of = Append(@, c), !.R.known = @ \cup {e}]

(* One turn of the loop of reconcileNotebook: cell c comes to place i.      *)
Settle(a, i, c, p) ==
  LET s == Entries(a.lay, a.R)
      later == {e \in {s[j] : j \in i + 1 .. Len(s)} : a.of[e] = c}
  IN IF i <= Len(s) /\ a.of[s[i]] = c THEN a
     ELSE InsertEntry([a EXCEPT !.R.dead = @ \cup
            (IF later = {} THEN {} ELSE {CHOOSE e \in later : TRUE})], i, c, p)

(* reconcileNotebook: the order becomes target; source is what the snapshot *)
(* says of the text of the cells it names.                                  *)
Reconcile(lay, of, R, target, source, p) ==
  LET listed == {target[i] : i \in DOMAIN target}
      texts == [R EXCEPT !.ins = [c \in Cells |-> IF c \in listed THEN @[c] \cup source[c] ELSE @[c]],
                         !.del = [c \in Cells |-> IF c \in listed THEN @[c] \cup (R.ins[c] \ source[c]) ELSE @[c]]]
      a0 == [lay |-> lay, of |-> of,
             R |-> [texts EXCEPT !.dead = @ \cup {e \in R.known : of[e] \notin listed}]]
      a1 == FoldLeft(LAMBDA a, i : Settle(a, i, target[i], p), a0, [i \in DOMAIN target |-> i])
      s  == Entries(a1.lay, a1.R)
  IN [a1 EXCEPT !.R.dead = @ \cup {s[i] : i \in {j \in DOMAIN s : j > Len(target)}}]

-----------------------------------------------------------------------------
(* minimalNotebookSplice: the first place that differs and the lengths of   *)
(* the parts that do.                                                       *)
Head0(a, b) ==
  Cardinality({n \in DOMAIN a \cap DOMAIN b : SubSeq(a, 1, n) = SubSeq(b, 1, n)})
Tail0(a, b, head) ==
  Head0(Reverse(SubSeq(a, head + 1, Len(a))), Reverse(SubSeq(b, head + 1, Len(b))))
Difference(a, b, head, tail) ==
  [gone |-> {a[i] : i \in head + 1 .. Len(a) - tail},
   put |-> SubSeq(b, head + 1, Len(b) - tail),
   left |-> SubSeq(b, 1, head), right |-> SubSeq(b, Len(b) - tail + 1, Len(b))]
SpliceAfter(a, b, head) == Difference(a, b, head, Tail0(a, b, head))
Splice(a, b) == SpliceAfter(a, b, Head0(a, b))

(* The text of a cell in a structural change: the shared one.               *)
Known(R, c) == Source(R, c)

(* reconcileEditorStructure: what changed in the editor since it was last   *)
(* compared, on top of an order that may have changed meanwhile.  What was  *)
(* put goes before the nearest right neighbour, else behind the left one.   *)
Anchor(kept, right, left) ==
  LET at(c) == CHOOSE i \in DOMAIN kept : kept[i] = c
  IN IF right # <<>> THEN at(right[1])
     ELSE IF left # <<>> THEN at(left[Len(left)]) + 1 ELSE Len(kept) + 1

Spliced(kept, put, i) == SubSeq(kept, 1, i - 1) \o put \o SubSeq(kept, i, Len(kept))

Around(kept, put, x) ==
  LET stays(s) == SelectSeq(s, LAMBDA c : c \in Range(kept))
  IN Spliced(kept, put, Anchor(kept, stays(x.right), stays(x.left)))

Changed(now, x, put) == Around(SelectSeq(now, LAMBDA c : c \notin x.gone \cup Range(put)), put, x)

(* Cells another participant deleted meanwhile are not put back.            *)
Structured(shown, now, x) ==
  Changed(now, x, SelectSeq(x.put, LAMBDA c : c \in Range(now) \/ c \notin Range(shown)))

Structure(R, now, editor) == Structured(R.shown, now, Splice(R.shown, editor))

-----------------------------------------------------------------------------
Blank == [known |-> {}, dead |-> {}, ins |-> [c \in Cells |-> {}], del |-> [c \in Cells |-> {}],
          lost |-> {}, shown |-> Start, seen |-> [c \in Cells |-> {}],
          present |-> 1, since |-> [c \in Cells |-> 0], collected |-> {}, ticks |-> Grace + 1]

Init ==
  /\ layout = [i \in DOMAIN Start |-> i]
  /\ cellOf = Start
  /\ rep = [p \in P |-> [Blank EXCEPT !.known = DOMAIN Start]]
  /\ net = [p \in P |-> <<>>]
  /\ up = TRUE
  /\ count = [ops |-> 0, cuts |-> 0]
  /\ cleared = {}

(* A changed replica publishes; the frame remembers the rounds of both.     *)
Rounds == [p \in P |-> rep[p].ticks]
Publish(p, R) ==
  net' = IF up THEN [net EXCEPT ![Peer(p)] = Append(@, Update(R, Rounds))] ELSE net

Acts(kind) == kind \in Ops /\ count.ops < MaxOps /\ count' = [count EXCEPT !.ops = @ + 1]

(* onDidChangeNotebookDocument: the user's editor shows editor now.         *)
Restructure(p, editor) ==
  LET R == rep[p]
      target == Structure(R, Shown(p), editor)
  IN \E a \in {Reconcile(layout, cellOf, R, target, [c \in Cells |-> Known(R, c)], p)} :
       LET N == [Normalized(a.lay, a.of, a.R) EXCEPT !.shown = editor,
                   !.seen = [c \in Cells |-> Source(a.R, c)]]
       IN /\ layout' = a.lay /\ cellOf' = a.of
          /\ rep' = [rep EXCEPT ![p] = N]
          /\ Publish(p, N)
          /\ UNCHANGED up

Without(s, i) == SubSeq(s, 1, i - 1) \o SubSeq(s, i + 1, Len(s))

Move(p) ==
  /\ Acts("move")
  /\ \E i \in DOMAIN rep[p].shown, j \in DOMAIN rep[p].shown :
       /\ i # j
       /\ Restructure(p, InsertAt(Without(rep[p].shown, i), j, rep[p].shown[i]))
  /\ UNCHANGED cleared

Delete(p) ==
  /\ Acts("delete")
  /\ \E i \in DOMAIN rep[p].shown :
       /\ Restructure(p, Without(rep[p].shown, i))
       /\ cleared' = cleared \cup {rep[p].shown[i]}

Add(p) ==
  /\ Acts("add")
  /\ \E c \in Cells, i \in 1 .. Len(rep[p].shown) + 1 :
       /\ \A e \in DOMAIN cellOf : cellOf[e] # c
       /\ Restructure(p, InsertAt(rep[p].shown, i, c))
  /\ UNCHANGED cleared

(* applyCellTextChanges *)
Type(p) ==
  /\ Acts("type")
  /\ \E c \in {Shown(p)[i] : i \in DOMAIN Shown(p)} \ rep[p].lost :
       LET R == [rep[p] EXCEPT !.ins[c] = @ \cup {count.ops + 1}, !.seen[c] = @ \cup {count.ops + 1}]
       IN rep' = [rep EXCEPT ![p] = R] /\ Publish(p, R)
  /\ UNCHANGED <<layout, cellOf, up, cleared>>

(* The editor is brought to what the replica says.                          *)
Refresh(p) ==
  /\ rep[p].shown # Shown(p) \/ \E c \in Cells : rep[p].seen[c] # Source(rep[p], c)
  /\ rep' = [rep EXCEPT ![p].shown = Shown(p), ![p].seen = [c \in Cells |-> Source(rep[p], c)]]
  /\ UNCHANGED <<layout, cellOf, net, up, count, cleared>>

(* applyRemoteUpdate, and normalizeOrder when the order changed.            *)
Receive(p) ==
  LET M == Merge(rep[p], Head(net[p]))
      N == Normalized(layout, cellOf, M)
      rest == [net EXCEPT ![p] = Tail(@)]
  IN /\ net[p] # <<>>
     /\ rep' = [rep EXCEPT ![p] = N]
     /\ net' = IF N.dead = M.dead \/ ~up THEN rest
               ELSE [rest EXCEPT ![Peer(p)] = Append(@, Update(N, Rounds))]
     /\ UNCHANGED <<layout, cellOf, up, count, cleared>>

-----------------------------------------------------------------------------
(* isGarbageCollectionSafe: everybody has been there, at every round of a   *)
(* grace period.                                                            *)
IsSafe(R) == up /\ R.present # 0 /\ R.ticks + 1 - R.present >= Grace

Unreferenced(p) == {cellOf[e] : e \in rep[p].known} \ {Shown(p)[i] : i \in DOMAIN Shown(p)}

(* collectAllGarbage: a round of collectGarbage, then                       *)
(* repairCollectedResurrections.  What is sent arrives before the sender    *)
(* has had a whole round.                                                   *)
Tick(p) ==
  LET R == rep[p]
      now == R.ticks + 1
      idle == Unreferenced(p) \ R.lost
      old == {c \in idle : IsSafe(R) /\ R.since[c] # 0 /\ now - R.since[c] >= Grace}
      since == [c \in Cells |-> IF ~IsSafe(R) \/ c \in old \/ c \notin idle THEN 0
                                ELSE IF R.since[c] = 0 THEN now ELSE R.since[c]]
      G == [R EXCEPT !.ticks = now, !.since = since, !.lost = @ \cup old, !.collected = @ \cup old,
                     !.present = IF ~up THEN 0 ELSE IF @ = 0 THEN now ELSE @]
      N == [G EXCEPT !.dead = @ \cup {e \in R.known : cellOf[e] \in G.lost \cap G.collected}]
  IN /\ R.ticks < Grace + 1 + MaxTicks
     /\ \A q \in P : \A i \in DOMAIN net[q] : net[q][i].t[p] = R.ticks
     /\ rep' = [rep EXCEPT ![p] = N]
     /\ IF N.lost = R.lost /\ N.dead = R.dead THEN UNCHANGED net ELSE Publish(p, N)
     /\ UNCHANGED <<layout, cellOf, up, count, cleared>>

Cut ==
  /\ up /\ count.cuts < MaxCuts
  /\ count' = [count EXCEPT !.cuts = @ + 1]
  /\ up' = FALSE /\ net' = [p \in P |-> <<>>]
  /\ UNCHANGED <<layout, cellOf, rep, cleared>>

(* State vectors are exchanged and each sends what the other lacks.  An     *)
(* absence between two rounds goes unnoticed.                               *)
Reconnect ==
  /\ ~up
  /\ up' = TRUE
  /\ net' = [p \in P |-> <<Update(rep[Peer(p)], Rounds)>>]
  /\ UNCHANGED <<layout, cellOf, rep, count, cleared>>

Next ==
  \/ \E p \in P : Move(p) \/ Delete(p) \/ Add(p) \/ Type(p) \/ Refresh(p) \/ Receive(p)
  \/ \E p \in Collectors : Tick(p)
  \/ Cut \/ Reconnect

Spec == Init /\ [][Next]_vars

-----------------------------------------------------------------------------
(* A cell no user deleted is shown exactly once by every replica that knows *)
(* of it, however it was moved and whatever is still on its way.            *)
CellsSurvive ==
  \A p \in P :
    LET s == Shown(p) IN
    \A c \in {cellOf[e] : e \in rep[p].known} \ cleared : Cardinality({i \in DOMAIN s : s[i] = c}) = 1

(* No text is lost to a structural change of someone who had not seen it.   *)
TextSurvives == \A p \in P, c \in Cells : rep[p].del[c] = {}

(* What a replica shows has a payload: a cell that was moved while another  *)
(* deleted it is not collected.                                             *)
NothingHollow ==
  \A p \in P : \A i \in DOMAIN Shown(p) : Shown(p)[i] \notin rep[p].lost

Quiet == up /\ \A p \in P : net[p] = <<>>

(* When all is delivered both show the same cells with the same text.       *)
ReplicasAgree ==
  Quiet => /\ Shown(1) = Shown(2)
           /\ \A c \in Cells : Source(rep[1], c) = Source(rep[2], c)
=============================================================================
