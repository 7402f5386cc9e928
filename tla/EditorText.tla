------------------------------ MODULE EditorText ------------------------------
(***************************************************************************)
(* One open text document: what VS Code shows of it, the Yjs text of this  *)
(* participant, and the edits of the others (src/vscode/sync.ts and        *)
(* src/vscode/editorTextReplica.ts).  An edit from elsewhere is applied to *)
(* the editor asynchronously, and is refused when the user typed           *)
(* meanwhile; keystrokes carry offsets into what was displayed, so the     *)
(* version of the text the editor displays is kept beside the shared one.  *)
(*                                                                         *)
(* Yjs is seen as one total order of all characters ever typed, of which a *)
(* replica knows some and has deleted some; a character is taken in only   *)
(* by a replica that knows the one it was typed behind.                    *)
(***************************************************************************)
EXTENDS Naturals, Sequences, FiniteSets, SequencesExt

CONSTANTS
  Screens,   \* texts the editor may show when it is bound to the shared one
  MaxOps,    \* bound: edits of the user and of the others
  MaxTurns   \* bound: times the permission to edit changes

VARIABLES
  entries,   \* all characters ever typed, in the order of the text
  made,      \* of each, the character and the entry it was typed behind
  canon,     \* the shared text here (project)
  shown,     \* the version the editor displays (textReplicas)
  other,     \* the shared text of the others
  editor,    \* what VS Code shows
  initial,   \* the editor has not shown the shared text yet (initialTextBaselines)
  render,    \* renderText: idle, due, or an edit handed to VS Code
  allowed,   \* canEdit
  ops, turns,
  torn,      \* something typed here was put behind a character the displayed version lacks
  fate       \* what became of characters: erased, refused, either

vars == <<entries, made, canon, shown, other, editor, initial, render, allowed, ops, turns, torn, fate>>

-----------------------------------------------------------------------------
(* Texts and changes: characters at the offsets gone go, put goes to at.    *)
Applied(s, c) ==
  LET stays(from, to) == SelectSeq([i \in 1 .. to - from + 1 |-> from + i - 1], LAMBDA i : i - 1 \notin c.gone)
      chars(idx) == [i \in DOMAIN idx |-> s[idx[i]]]
  IN chars(stays(1, c.at)) \o c.put \o chars(stays(c.at + 1, Len(s)))

InRange(s, c) == c.at <= Len(s) /\ \A i \in c.gone : i < Len(s)

(* minimalEdit *)
CommonEnd(a, b) == Len(LongestCommonPrefix({Reverse(a), Reverse(b)}))
EditBetween(s, t, head, tail) ==
  [at |-> head, gone |-> {i \in 0 .. Len(s) - 1 : head <= i /\ i < Len(s) - tail},
   put |-> SubSeq(t, head + 1, Len(t) - tail)]
EditFrom(s, t, head) ==
  EditBetween(s, t, head, CommonEnd(SubSeq(s, head + 1, Len(s)), SubSeq(t, head + 1, Len(t))))
MinimalEdit(s, t) == EditFrom(s, t, Len(LongestCommonPrefix({s, t})))

(* rebaseTextChanges: what both texts have in common stays; an insertion    *)
(* goes before the next character that does.                                *)
Least(S) == CHOOSE i \in S : \A j \in S : i <= j
Where(t, c) == CHOOSE j \in DOMAIN t : t[j] = c
Rebased(s, t, c) ==
  LET later == {i \in DOMAIN s : i > c.at /\ s[i] \in Range(t)}
  IN [at |-> IF later = {} THEN Len(t) ELSE Where(t, s[Least(later)]) - 1,
      gone |-> {Where(t, s[i + 1]) - 1 : i \in {j \in c.gone : s[j + 1] \in Range(t)}},
      put |-> c.put]

IsNothing(c) == c.gone = {} /\ c.put = <<>>

-----------------------------------------------------------------------------
(* The Yjs side.  W is the part of the state an edit changes.               *)
World == [ent |-> entries, made |-> made, canon |-> canon, shown |-> shown,
          torn |-> torn, ok |-> TRUE]

Alive(W, R) == SelectSeq(W.ent, LAMBDA e : e \in R.known /\ e \notin R.dead)
TextOf(W, R) == LET a == Alive(W, R) IN [i \in DOMAIN a |-> W.made[a[i]].char]
Source(R) == TextOf(World, R)

(* Y.Text: an insertion is made behind all that comes before the next       *)
(* character that is there, what was deleted included.                      *)
Behind(W, R, right) ==
  LET before == SelectSeq(W.ent, LAMBDA e : e \in R.known)
      end == IF right = 0 THEN Len(before) ELSE Where(before, right) - 1
  IN IF end = 0 THEN 0 ELSE before[end]

PutIn(W, left, char) ==
  [W EXCEPT !.ent = InsertAt(@, IF left = 0 THEN 1 ELSE Where(@, left) + 1, Len(W.made) + 1),
            !.made = Append(@, [char |-> char, left |-> left])]

PutAll(W, left, chars) ==
  FoldLeft(LAMBDA a, c : [w |-> PutIn(a.w, a.left, c), left |-> Len(a.w.made) + 1],
           [w |-> W, left |-> left], chars).w

(* applyTextChanges on replica R: the characters made and deleted.          *)
RightOf(alive, c) ==
  LET later == {i \in DOMAIN alive : i > c.at /\ i - 1 \notin c.gone}
  IN IF later = {} THEN 0 ELSE alive[Least(later)]
EditOf(W, alive, left, c) ==
  [w |-> PutAll(W, left, c.put), left |-> left,
   new |-> Len(W.made) + 1 .. Len(W.made) + Len(c.put), dead |-> {alive[i + 1] : i \in c.gone}]
Edit(W, R, c) == EditOf(W, Alive(W, R), Behind(W, R, RightOf(Alive(W, R), c)), c)

Take(R, new, dead) == [known |-> R.known \cup new, dead |-> R.dead \cup dead]

(* accept: the displayed version cannot take what was typed behind a        *)
(* character it does not know.                                              *)
Accepts(R, u) == u.left = 0 \/ u.left \in R.known
Shared(u) ==
  [u.w EXCEPT !.canon = Take(@, u.new, u.dead),
              !.shown = Take(@, IF Accepts(@, u) THEN u.new ELSE {}, u.dead),
              !.torn = @ \/ ~Accepts(u.w.shown, u)]

(* publishTextChanges: against the displayed version when the shared text   *)
(* has moved on, else against both.                                         *)
Base(W) == IF TextOf(W, W.shown) # TextOf(W, W.canon) THEN W.shown ELSE W.canon
Publish(W, c) == IF IsNothing(c) THEN W ELSE Shared(Edit(W, Base(W), c))

(* mutant of PublishChange: offsets are taken for those of the shared text  *)
PublishShared(W, before, c) ==
  IF ~allowed THEN [W EXCEPT !.ok = FALSE]
  ELSE IF InRange(TextOf(W, W.canon), c) /\ ~IsNothing(c) THEN Shared(Edit(W, W.canon, c)) ELSE W

(* The same with recoverRejectedText: offsets that fit nothing are rebased  *)
(* from the text the user saw.                                              *)
PublishChange(W, before, c) ==
  IF ~allowed THEN [W EXCEPT !.ok = FALSE]
  ELSE IF InRange(TextOf(W, Base(W)), c) THEN Publish(W, c)
  ELSE Publish([W EXCEPT !.shown = W.canon], Rebased(before, TextOf(W, W.canon), c))

(* publishPostApplyText *)
PublishText(W, text) ==
  IF TextOf(W, W.shown) = text THEN W
  ELSE PublishChange(W, TextOf(W, W.shown), MinimalEdit(TextOf(W, W.shown), text))

(* publishInitialTextEvents and publishBufferedTextEvents, event by event.  *)
InitialEvent(W, before, ev) ==
  IF ~W.ok THEN W ELSE PublishChange(W, before, Rebased(before, TextOf(W, W.shown), ev.c))
BufferedEvent(W, before, ev) ==
  IF ~W.ok THEN W
  ELSE IF TextOf(W, W.shown) # before THEN PublishText(W, editor)
  ELSE PublishChange(W, before, ev.c)

PublishInitial(W, base, events) ==
  FoldLeft(LAMBDA a, ev : [w |-> InitialEvent(a.w, a.s, ev), s |-> ev.after], [w |-> W, s |-> base], events).w
PublishBuffered(W, base, events) ==
  LET V == FoldLeft(LAMBDA a, ev : [w |-> BufferedEvent(a.w, a.s, ev), s |-> ev.after],
                    [w |-> W, s |-> base], events).w
  IN IF V.ok THEN PublishText(V, editor) ELSE V

Becomes(W) ==
  /\ entries' = W.ent /\ made' = W.made /\ canon' = W.canon /\ shown' = W.shown
  /\ torn' = W.torn

-----------------------------------------------------------------------------
Idle == [phase |-> "idle", goal |-> <<>>, target |-> canon, base |-> <<>>, events |-> <<>>]
Due  == [Idle EXCEPT !.phase = "due"]

(* bindTextDocument and rememberText: a clean editor is brought to the      *)
(* shared text, what is dirty in it is published as an edit of the user.    *)
Init ==
  /\ entries = <<1, 2>>
  /\ made = <<[char |-> 1, left |-> 0], [char |-> 2, left |-> 1]>>
  /\ canon = [known |-> {1, 2}, dead |-> {}] /\ shown = canon /\ other = canon
  /\ editor \in Screens
  /\ initial = (editor # <<1, 2>>)
  /\ render = IF initial THEN Due ELSE Idle
  /\ allowed = TRUE
  /\ ops = 0 /\ turns = 0 /\ torn = FALSE
  /\ fate = [erased |-> Range(editor) \ {1, 2}, refused |-> {}, either |-> {}]

(* onTextChanged: kept for later while an edit of ours is under way.        *)
OnTextChanged(c, after) ==
  IF render.phase \in {"out", "in"}
  THEN /\ render' = [render EXCEPT !.events = Append(@, [c |-> c, after |-> after])]
       /\ UNCHANGED <<entries, made, canon, shown, torn>>
  ELSE LET W == IF initial THEN InitialEvent(World, editor, [c |-> c])
                ELSE PublishChange(World, editor, c)
       IN Becomes(W) /\ render' = IF W.ok THEN render ELSE Due

Acts == ops < MaxOps /\ ops' = ops + 1

(* The user types or erases a character; the queue of microtasks is empty.  *)
Type ==
  /\ Acts /\ render.phase # "due"
  /\ \E i \in 0 .. Len(editor) :
       LET c == [at |-> i, gone |-> {}, put |-> <<10 + ops>>]
       IN OnTextChanged(c, Applied(editor, c)) /\ editor' = Applied(editor, c)
  /\ fate' = IF allowed THEN fate ELSE [fate EXCEPT !.refused = @ \cup {10 + ops}]
  /\ UNCHANGED <<other, initial, allowed, turns>>

Erase ==
  /\ Acts /\ render.phase # "due"
  /\ \E i \in 0 .. Len(editor) - 1 :
       LET c == [at |-> i, gone |-> {i}, put |-> <<>>]
       IN /\ OnTextChanged(c, Applied(editor, c)) /\ editor' = Applied(editor, c)
          /\ fate' = IF allowed THEN [fate EXCEPT !.erased = @ \cup {editor[i + 1]}] ELSE fate
  /\ UNCHANGED <<other, initial, allowed, turns>>

(* The others type and erase, hear of us, and we of them.                   *)
TheyType ==
  /\ Acts
  /\ \E i \in 0 .. Len(Alive(World, other)) :
       LET u == Edit(World, other, [at |-> i, gone |-> {}, put |-> <<10 + ops>>])
       IN entries' = u.w.ent /\ made' = u.w.made /\ other' = Take(other, u.new, {})
  /\ UNCHANGED <<canon, shown, editor, initial, render, allowed, turns, fate, torn>>

TheyErase ==
  /\ Acts
  /\ \E i \in DOMAIN Alive(World, other) :
       LET e == Alive(World, other)[i]
       IN /\ other' = Take(other, {}, {e})
          /\ fate' = [fate EXCEPT !.erased = @ \cup {made[e].char}]
  /\ UNCHANGED <<entries, made, canon, shown, editor, initial, render, allowed, turns, torn>>

TheyHear ==
  /\ Take(other, canon.known, canon.dead) # other
  /\ other' = Take(other, canon.known, canon.dead)
  /\ UNCHANGED <<entries, made, canon, shown, editor, initial, render, allowed, ops, turns, fate, torn>>

(* applyRemoteUpdate, and the observer of the text asks for a render.       *)
Arrive ==
  /\ Take(canon, other.known, other.dead) # canon
  /\ canon' = Take(canon, other.known, other.dead)
  /\ render' = IF render.phase = "idle" THEN Due ELSE render
  /\ UNCHANGED <<entries, made, shown, other, editor, initial, allowed, ops, turns, fate, torn>>

-----------------------------------------------------------------------------
(* renderText, one turn of its loop up to applyEdit.  A new version makes   *)
(* an old one with the same text obsolete.                                  *)
Render ==
  /\ render.phase = "due"
  /\ LET goal == Source(canon) IN
     IF editor = goal
     THEN /\ render' = Idle
          /\ shown' = IF Source(shown) = goal THEN shown ELSE canon
          /\ initial' = IF Source(shown) = goal THEN initial ELSE FALSE
     ELSE /\ render' = [phase |-> "out", goal |-> goal, target |-> canon, base |-> editor, events |-> <<>>]
          /\ shown' = IF Source(shown) = goal THEN canon ELSE shown
          /\ UNCHANGED initial
  /\ UNCHANGED <<entries, made, canon, other, editor, allowed, ops, turns, fate, torn>>

(* VS Code applies an edit to the text it was made for.                     *)
EditorApplies ==
  /\ render.phase = "out" /\ render.events = <<>>
  /\ editor' = render.goal
  /\ render' = [render EXCEPT !.phase = "in",
       !.events = <<[c |-> MinimalEdit(editor, render.goal), after |-> render.goal]>>]
  /\ UNCHANGED <<entries, made, canon, shown, other, initial, allowed, ops, turns, fate, torn>>

(* Events after the one that brought the text to goal are of the user.      *)
After(events, goal) ==
  LET i == Least({j \in DOMAIN events : events[j].after = goal}) IN SubSeq(events, i + 1, Len(events))

(* The version the edit was made for is the displayed one now.              *)
Displays(W) == [W EXCEPT !.shown = render.target]

(* applyEdit resolves: what the user did meanwhile is published against the *)
(* version displayed then, and the loop goes on.                            *)
Resolved ==
  /\ render.phase = "in"
  /\ Becomes(IF editor = render.goal THEN Displays(World)
             ELSE PublishBuffered(Displays(World), render.goal, After(render.events, render.goal)))
  /\ initial' = FALSE
  /\ render' = Due
  /\ UNCHANGED <<other, editor, allowed, ops, turns, fate>>

Refused ==
  /\ render.phase = "out" /\ render.events # <<>>
  /\ Becomes(IF initial THEN PublishInitial(World, render.base, render.events)
             ELSE PublishBuffered(World, render.base, render.events))
  /\ render' = Due
  /\ UNCHANGED <<other, editor, initial, allowed, ops, turns, fate>>

(* The permission of this participant changes.                              *)
PermissionChanges ==
  /\ turns < MaxTurns
  /\ turns' = turns + 1
  /\ allowed' = ~allowed
  /\ fate' = IF render.phase = "idle" THEN fate
             ELSE [fate EXCEPT !.either = @ \cup Range(render.base) \cup Range(render.goal) \cup Range(Source(canon)) \cup Range(editor)
                     \cup UNION {Range(render.events[i].c.put) : i \in DOMAIN render.events}]
  /\ UNCHANGED <<entries, made, canon, shown, other, editor, initial, render, ops, torn>>

Next ==
  \/ Type \/ Erase \/ TheyType \/ TheyErase \/ TheyHear \/ Arrive
  \/ Render \/ EditorApplies \/ Resolved \/ Refused \/ PermissionChanges

Spec == Init /\ [][Next]_vars

-----------------------------------------------------------------------------
(* When nothing is under way the editor shows the shared text (but for the  *)
(* case of torn).                                                           *)
ScreenIsShared == render.phase = "idle" /\ ~torn => editor = Source(canon)

Live(c) == {e \in canon.known \ canon.dead : made[e].char = c}
Arrived == {made[e].char : e \in canon.known}

(* Every character is in the shared text exactly once, unless it was erased *)
(* by someone or typed without permission: none is lost, doubled, or comes  *)
(* back, whatever arrived while it was typed.                               *)
OnceEach ==
  render.phase = "idle" /\ ~torn =>
    \A c \in (Arrived \cup Range(editor)) \ fate.either :
      IF c \in fate.refused THEN Live(c) = {}
      ELSE IF c \in fate.erased THEN other.dead \subseteq canon.dead => Live(c) = {}
      ELSE Cardinality(Live(c)) = 1
=============================================================================
