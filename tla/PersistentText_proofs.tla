------------------------ MODULE PersistentText_proofs ------------------------
(***************************************************************************)
(* A shared text loses no work and its editors agree: for every set of     *)
(* editors, any number of edits and any number of troubles.                *)
(***************************************************************************)
EXTENDS PersistentText, TLAPS

-----------------------------------------------------------------------------
(* Types.                                                                  *)

LEMMA TypesStay ==
  ASSUME UNCHANGED edit
  PROVE  /\ EditSet' = EditSet /\ Copies' = Copies /\ Texts' = Texts /\ Journals' = Journals
         /\ States' = States /\ Requests' = Requests /\ Replies' = Replies /\ Events' = Events
<1>1. EditSet' = EditSet
  BY DEF EditSet
<1>2. Journals' = Journals
  BY <1>1 DEF Journals
<1> QED BY <1>1, <1>2 DEF Copies, Texts, States, Requests, Replies, Events

\* What is left of TypeOK when no edit is typed.
LEMMA TypeFrame ==
  ASSUME TypeOK, UNCHANGED edit,
         file' \in Texts, root' \in Seq(Texts), acl' \in Nat \ {0}, readers' \subseteq Member,
         replica' \in [epoch : Nat, edits : EditSet, acl : Nat, previous : Copies],
         state' \in [Member -> States],
         journal' \in [Member -> Journals], archive' \in [Member -> EditSet],
         {kept', acked', written'} \subseteq EditSet, issued' \in Nat, restored' \in BOOLEAN,
         requests' \subseteq Requests, replies' \subseteq Replies,
         events' \in [Member -> Seq(Events)], troubles' \in Nat
  PROVE  TypeOK'
<1>1. edit' = edit
  OBVIOUS
<1> QED BY <1>1, TypesStay DEF TypeOK

LEMMA TextTypes ==
  ASSUME TypeOK
  PROVE  /\ \A copy : copy.epoch \in 1..Len(root) /\ copy.edits \in EditSet => TextOf(copy) \in Texts
         /\ \A k \in Nat : Fresh(k) \in Texts
         /\ NoCopy \in Copies /\ NoJournal \in Journals /\ Closed \in States
<1> USE DEF TypeOK
<1>1. {} \in EditSet /\ NoJournal \in Journals
  BY DEF EditSet, NoJournal, Journals
<1>2. ASSUME NEW copy, copy.epoch \in 1..Len(root), copy.edits \in EditSet PROVE TextOf(copy) \in Texts
  <2>1. root[copy.epoch] \in Texts
    BY <1>2
  <2>2. root[copy.epoch].edits \cup Integrated(copy.edits) \in EditSet
    BY <2>1, <1>2 DEF Integrated, EditSet, Texts
  <2> QED BY <2>1, <2>2 DEF TextOf, Texts
<1> QED BY <1>1, <1>2 DEF Fresh, Texts, NoCopy, Copies, Closed, States, Bound

LEMMA InitType == Init => TypeOK
<1> SUFFICES ASSUME Init PROVE TypeOK
  OBVIOUS
<1>1. /\ {} \in EditSet /\ 1..Len(edit) = {} /\ edit \in Seq([epoch : Nat, needs : SUBSET Nat])
  BY DEF Init, EditSet
<1>2. Closed \in States /\ NoJournal \in Journals /\ NoCopy \in Copies
  BY <1>1 DEF Closed, States, NoJournal, Journals, NoCopy, Copies, Bound
<1>3. /\ file \in Texts /\ root \in Seq(Texts) /\ acl \in Nat \ {0} /\ readers \subseteq Member
      /\ {kept, acked, written} \subseteq EditSet /\ issued \in Nat /\ restored \in BOOLEAN
      /\ requests \subseteq Requests /\ replies \subseteq Replies /\ troubles \in Nat
  <2>1. Fresh(0) \in Texts
    BY <1>1 DEF Fresh, Texts
  <2>2. root = <<>> /\ requests = {} /\ replies = {} /\ readers = {} /\ kept = {} /\ acked = {} /\ written = {}
    BY DEF Init
  <2>3. acl = 1 /\ issued = 0 /\ restored = FALSE /\ troubles = 0 /\ file = Fresh(0)
    BY DEF Init
  <2>4. root \in Seq(Texts)
    BY <2>2
  <2>5. {kept, acked, written} \subseteq EditSet
    BY <1>1, <2>2
  <2>6. restored \in BOOLEAN
    BY <2>3
  <2>7. requests \subseteq Requests /\ replies \subseteq Replies /\ readers \subseteq Member
    BY <2>2
  <2>8. acl \in Nat \ {0} /\ issued \in Nat /\ troubles \in Nat
    BY <2>3
  <2>9. file \in Texts
    BY <2>1, <2>3
  <2> QED BY <2>4, <2>5, <2>6, <2>7, <2>8, <2>9
<1>4. /\ state \in [Member -> States]
      /\ journal \in [Member -> Journals] /\ archive \in [Member -> EditSet]
      /\ events \in [Member -> Seq(Events)]
  BY <1>1, <1>2 DEF Init
<1>5. replica \in [epoch : Nat, edits : EditSet, acl : Nat, previous : Copies]
  BY <1>1, <1>2 DEF Init, NoReplica
<1> QED BY <1>1, <1>3, <1>4, <1>5 DEF TypeOK

LEMMA PersistTypes ==
  ASSUME TypeOK, NEW s \in States, NEW at \in Bound
  PROVE  Snapshot(s) \in Journals /\ Persist(s, at) \in States
<1>1. Snapshot(s) \in Journals
  BY DEF TypeOK, Snapshot, States, Journals, EditSet
<1> QED BY <1>1 DEF Persist, States

LEMMA CallTypes ==
  ASSUME TypeOK, NEW c \in Member, NEW kind \in AllKinds, NEW epoch \in Nat, NEW update \in EditSet
  PROVE  Request(c, kind, epoch, update) \in Requests
BY DEF Request, Requests

\* What an editor and a call hold.
LEMMA Holds ==
  ASSUME TypeOK
  PROVE  /\ \A c \in Member : state[c] \in States /\ journal[c] \in Journals /\ archive[c] \in EditSet
         /\ \A r \in requests : r \in Requests
BY DEF TypeOK

LEMMA ForgetTypes ==
  ASSUME TypeOK, NEW c \in Member, NEW kinds, Forget(c, kinds)
  PROVE  requests' \subseteq Requests /\ replies' \subseteq Replies
<1>1. ASSUME NEW r \in requests PROVE [r EXCEPT !.live = FALSE] \in Requests
  BY Holds DEF Requests
<1> QED BY <1>1 DEF TypeOK, Forget

LEMMA AnswerTypes ==
  ASSUME TypeOK, NEW r \in requests, NEW status \in {"ok", "replaced", "refused", "failed"},
         NEW epoch \in Nat, NEW edits \in EditSet, Answer(r, status, epoch, edits)
  PROVE  requests' \subseteq Requests /\ replies' \subseteq Replies
<1>1. [to |-> r.from, kind |-> r.kind, status |-> status, epoch |-> epoch, edits |-> edits] \in Replies
  BY DEF TypeOK, Requests, Replies
<1> QED BY <1>1 DEF TypeOK, Answer

LEMMA BroadcastTypes ==
  ASSUME TypeOK, NEW e \in Events, Broadcast(e)
  PROVE  events' \in [Member -> Seq(Events)]
BY DEF TypeOK, Broadcast

LEMMA OpenType == ASSUME TypeOK, NEW c \in Member, Open(c) PROVE TypeOK'
<1>1. requests' \subseteq Requests
  <2>1. {} \in EditSet /\ "open" \in AllKinds
    BY DEF AllKinds, EditSet
  <2>2. Request(c, "open", 0, {}) \in Requests
    BY <2>1, CallTypes
  <2> QED BY <2>2 DEF Open, TypeOK
<1>2. state[c] \in States /\ journal[c] \in Journals /\ archive[c] \in EditSet
  BY Holds
<1>3. /\ [state[c] EXCEPT !.at = "opening", !.saved = journal[c]] \in States
      /\ [state[c] EXCEPT !.at = "opening"] \in States
  BY <1>2 DEF States
<1>4. state' \in [Member -> States]
  BY <1>3 DEF Open, TypeOK
<1>5. journal' \in [Member -> Journals] /\ archive' \in [Member -> EditSet]
  <2>1. archive[c] \cup journal[c].pending \in EditSet
    BY <1>2 DEF Journals, EditSet
  <2>2. journal \in [Member -> Journals] /\ archive \in [Member -> EditSet] /\ NoJournal \in Journals
    BY TextTypes DEF TypeOK
  <2> QED BY <2>1, <2>2 DEF Open
<1>6. UNCHANGED <<edit, file, replica, acl, root, readers, replies, events, troubles,
                  kept, acked, written, issued, restored>>
  BY DEF Open, disk, history
<1>7. /\ file' \in Texts /\ root' \in Seq(Texts) /\ acl' \in Nat \ {0} /\ readers' \subseteq Member
      /\ replica' \in [epoch : Nat, edits : EditSet, acl : Nat, previous : Copies]
      /\ {kept', acked', written'} \subseteq EditSet /\ issued' \in Nat /\ restored' \in BOOLEAN
      /\ replies' \subseteq Replies /\ events' \in [Member -> Seq(Events)] /\ troubles' \in Nat
  BY <1>6 DEF TypeOK
<1> QED BY <1>1, <1>4, <1>5, <1>6, <1>7, TypeFrame

LEMMA OpenedType == ASSUME TypeOK, NEW c \in Member, Opened(c) PROVE TypeOK'
<1> USE DEF TypeOK
<1>1. PICK r \in replies : Opened(c)!(r)
  BY DEF Opened
<1> DEFINE saved == state[c].saved
           same == Resumes(saved, r)
           s == [state[c] EXCEPT !.epoch = r.epoch,
                  !.doc = r.edits \cup (IF same THEN saved.doc ELSE {}),
                  !.pending = IF same THEN saved.pending ELSE {}]
<1>2. /\ state[c] \in States /\ journal[c] \in Journals /\ archive[c] \in EditSet
      /\ saved \in Journals /\ r \in Replies
  BY DEF States
<1>3. s \in States
  BY <1>2 DEF States, Replies, Journals, EditSet
<1>4. "binding" \in Bound /\ Persist(s, "binding") \in States
  BY <1>3, PersistTypes DEF Bound
<1>5. state' \in [Member -> States]
  <2> HIDE DEF s
  <2>1. state' = [state EXCEPT ![c] = Persist(s, "binding")]
    BY <1>1 DEF s
  <2> QED BY <1>4, <2>1
<1>6. journal' \in [Member -> Journals] /\ archive' \in [Member -> EditSet]
  <2>1. /\ journal' = [journal EXCEPT ![c] = IF same THEN @ ELSE NoJournal]
        /\ archive' = [archive EXCEPT ![c] = @ \cup (IF same THEN {} ELSE saved.pending)]
    BY <1>1
  <2> QED BY <1>2, <2>1, TextTypes DEF Journals, EditSet
<1>7. replies' \subseteq Replies
  BY <1>1
<1> QED BY <1>1, <1>5, <1>6, <1>7, TypeFrame DEF disk, history

LEMMA OpenFailedType == ASSUME TypeOK, NEW c \in Member, OpenFailed(c) PROVE TypeOK'
<1>1. state' \in [Member -> States]
  BY TextTypes DEF OpenFailed, TypeOK
<1>2. replies' \subseteq Replies
  BY DEF OpenFailed, TypeOK
<1> QED BY <1>1, <1>2, TypeFrame DEF OpenFailed, TypeOK, disk, history

\* An edit is new, so whatever holds others still does.
LEMMA TypesGrow ==
  ASSUME EditSet \subseteq EditSet'
  PROVE  /\ Copies \subseteq Copies' /\ Texts \subseteq Texts' /\ Journals \subseteq Journals'
         /\ States \subseteq States' /\ Requests \subseteq Requests' /\ Replies \subseteq Replies'
         /\ Events \subseteq Events'
<1>1. Journals \subseteq Journals'
  BY DEF Journals
<1>2. States \subseteq States'
  BY <1>1 DEF States
<1> QED BY <1>1, <1>2 DEF Copies, Texts, Requests, Replies, Events

LEMMA TypeType == ASSUME TypeOK, NEW c \in Member, Type(c) PROVE TypeOK'
<1> USE DEF TypeOK
<1>1. PICK base \in {{}} \cup {{n} \cup edit[n].needs : n \in Integrated(state[c].doc)} :
        edit' = Append(edit, [epoch |-> state[c].epoch, needs |-> base])
  BY DEF Type
<1>2. state[c] \in States /\ Len(edit) \in Nat
  OBVIOUS
<1>3. base \in EditSet
  BY <1>2 DEF States, Integrated, EditSet
<1>4. base \in SUBSET Nat
  BY <1>2, <1>3 DEF EditSet
<1>5. /\ edit' \in Seq([epoch : Nat, needs : SUBSET Nat]) /\ Len(edit') = Len(edit) + 1
      /\ \A n \in 1..Len(edit) : edit'[n] = edit[n]
      /\ edit'[Len(edit) + 1].needs = base
  BY <1>1, <1>2, <1>4 DEF States
<1>6. EditSet \subseteq EditSet'
  BY <1>2, <1>5 DEF EditSet
<1>7. \A n \in 1..Len(edit') : edit'[n].needs \in EditSet'
  <2>1. ASSUME NEW n \in 1..Len(edit) PROVE edit'[n].needs \in EditSet'
    BY <1>5, <1>6, <2>1
  <2> QED BY <1>2, <1>3, <1>5, <1>6, <2>1
<1>8. [state[c] EXCEPT !.doc = @ \cup {Len(edit) + 1}, !.pending = @ \cup {Len(edit) + 1}] \in States'
  <2>1. state[c] \in States'
    BY <1>2, <1>6, TypesGrow
  <2>2. Len(edit) + 1 \in 1..Len(edit')
    BY <1>2, <1>5
  <2> QED BY <2>1, <2>2 DEF States, EditSet
<1>9. state' \in [Member -> States']
  BY <1>6, <1>8, TypesGrow DEF Type
<1>10. /\ file' \in Texts' /\ acl' \in Nat \ {0} /\ readers' \subseteq Member
       /\ issued' \in Nat /\ restored' \in BOOLEAN /\ troubles' \in Nat
       /\ replica' \in [epoch : Nat, edits : EditSet', acl : Nat, previous : Copies']
  BY <1>6, TypesGrow DEF Type, disk, history
<1>11. root' \in Seq(Texts')
  BY <1>6, TypesGrow DEF Type, disk
<1>12. events' \in [Member -> Seq(Events')]
  BY <1>6, TypesGrow DEF Type, net
<1>13. /\ journal' \in [Member -> Journals'] /\ archive' \in [Member -> EditSet']
       /\ {kept', acked', written'} \subseteq EditSet'
  BY <1>6, TypesGrow DEF Type, history
<1>14. requests' \subseteq Requests' /\ replies' \subseteq Replies'
  BY <1>6, TypesGrow DEF Type, net
<1> QED BY <1>5, <1>7, <1>9, <1>10, <1>11, <1>12, <1>13, <1>14

LEMMA SendType == ASSUME TypeOK, NEW c \in Member, Send(c) PROVE TypeOK'
<1> DEFINE s == [state[c] EXCEPT !.inFlight = state[c].pending, !.pending = {}]
<1>1. s \in States /\ "saving" \in Bound
  BY Holds DEF States, EditSet, Bound
<1>2. Persist(s, "saving") \in States
  BY <1>1, PersistTypes
<1>3. state' = [state EXCEPT ![c] = Persist(s, "saving")]
  BY DEF Send, TypeOK
<1>4. state' \in [Member -> States]
  BY <1>2, <1>3 DEF TypeOK
<1> QED BY <1>4, TypeFrame DEF Send, TypeOK, disk, net, history

LEMMA WriteJournalTypes ==
  ASSUME TypeOK, NEW c \in Member, WriteJournal(c)
  PROVE  /\ journal' \in [Member -> Journals] /\ {kept', acked', written'} \subseteq EditSet
         /\ issued' \in Nat /\ restored' \in BOOLEAN
<1>1. state[c] \in States /\ state[c].saved \in Journals /\ state[c].saved.pending \in EditSet
  BY DEF TypeOK, States, Journals
<1>2. kept' \in EditSet
  BY <1>1 DEF TypeOK, WriteJournal, EditSet
<1> QED BY <1>1, <1>2 DEF TypeOK, WriteJournal

LEMMA SavedType == ASSUME TypeOK, NEW c \in Member, Saved(c) PROVE TypeOK'
<1>1. state[c] \in States
  BY DEF TypeOK
<1>2. state' \in [Member -> States]
  <2>1. [state[c] EXCEPT !.at = "calling"] \in States
    BY <1>1 DEF States, Bound
  <2> QED BY <2>1 DEF TypeOK, Saved
<1>3. requests' \subseteq Requests
  <2>1. Request(c, "edit", state[c].epoch, state[c].inFlight) \in Requests
    BY <1>1, CallTypes DEF States, AllKinds
  <2> QED BY <2>1 DEF Saved, TypeOK
<1>4. WriteJournal(c)
  BY DEF Saved
<1> QED BY <1>2, <1>3, <1>4, WriteJournalTypes, TypeFrame DEF Saved, TypeOK, disk

LEMMA SettledType == ASSUME TypeOK, NEW c \in Member, Settled(c) PROVE TypeOK'
<1>1. state' \in [Member -> States]
  <2>1. [state[c] EXCEPT !.at = "idle"] \in States
    BY Holds DEF States, Bound
  <2> QED BY <2>1 DEF TypeOK, Settled
<1>2. WriteJournal(c)
  BY DEF Settled
<1> QED BY <1>1, <1>2, WriteJournalTypes, TypeFrame DEF Settled, TypeOK, disk, net

LEMMA FailedType == ASSUME TypeOK, NEW c \in Member, Failed(c) PROVE TypeOK'
<1>1. state[c] \in States /\ (state[c].missed \/ state[c].refresh = "wanted") \in BOOLEAN
  BY DEF TypeOK, States
<1>2. state' \in [Member -> States]
  <2>1. [state[c] EXCEPT !.at = "idle", !.refresh = IF @ = "wanted" THEN "none" ELSE @,
                         !.missed = @ \/ state[c].refresh = "wanted"] \in States
    BY <1>1 DEF States, Bound
  <2> QED BY <2>1 DEF TypeOK, Failed
<1>3. WriteJournal(c)
  BY DEF Failed
<1> QED BY <1>2, <1>3, WriteJournalTypes, TypeFrame DEF Failed, TypeOK, disk, net

LEMMA RefusedType == ASSUME TypeOK, NEW c \in Member, Refused(c) PROVE TypeOK'
<1>1. state' \in [Member -> States]
  <2>1. state[c] \in States /\ "archiving" \in Bound
    BY DEF TypeOK, Bound
  <2>2. Persist(state[c], "archiving") \in States
    BY <2>1, PersistTypes
  <2> QED BY <2>2 DEF TypeOK, Refused
<1>2. WriteJournal(c)
  BY DEF Refused
<1> QED BY <1>1, <1>2, WriteJournalTypes, TypeFrame DEF Refused, TypeOK, disk, net

LEMMA ArchivedType == ASSUME TypeOK, NEW c \in Member, Archived(c) PROVE TypeOK'
<1>1. state[c].saved.pending \in EditSet /\ archive[c] \in EditSet
  BY DEF TypeOK, States, Journals
<1>2. state' \in [Member -> States] /\ journal' \in [Member -> Journals]
  BY TextTypes DEF TypeOK, Archived
<1>3. archive' \in [Member -> EditSet] /\ {kept', acked', written'} \subseteq EditSet
  <2>1. archive[c] \cup state[c].saved.pending \in EditSet /\ kept \cup state[c].saved.pending \in EditSet
    BY <1>1 DEF TypeOK, EditSet
  <2> QED BY <2>1 DEF TypeOK, Archived
<1>4. requests' \subseteq Requests /\ replies' \subseteq Replies
  BY ForgetTypes DEF Archived
<1> QED BY <1>2, <1>3, <1>4, TypeFrame DEF Archived, TypeOK, disk

LEMMA AcknowledgedType == ASSUME TypeOK, NEW c \in Member, Acknowledged(c) PROVE TypeOK'
<1>1. PICK r \in replies : Acknowledged(c)!(r)
  BY DEF Acknowledged
<1> DEFINE s == [state[c] EXCEPT !.doc = @ \cup r.edits, !.inFlight = {}, !.missed = FALSE]
<1>2. state[c] \in States /\ r \in Replies
  BY DEF TypeOK
<1>3. s \in States /\ "acked" \in Bound
  BY <1>2 DEF States, Replies, EditSet, Bound
<1>4. Persist(s, "acked") \in States
  BY <1>3, PersistTypes
<1>5. state' = [state EXCEPT ![c] = Persist(s, "acked")]
  <2> HIDE DEF s
  <2> QED BY <1>1 DEF s
<1>6. state' \in [Member -> States]
  BY <1>4, <1>5 DEF TypeOK
<1>7. {kept', acked', written'} \subseteq EditSet
  <2>1. acked \cup state[c].inFlight \in EditSet
    BY <1>2 DEF TypeOK, States, EditSet
  <2> QED BY <1>1, <2>1 DEF TypeOK
<1> QED BY <1>1, <1>6, <1>7, TypeFrame DEF TypeOK, disk

LEMMA RejectedType == ASSUME TypeOK, NEW c \in Member, Rejected(c) PROVE TypeOK'
<1>1. PICK r \in replies : Rejected(c)!(r)
  BY DEF Rejected
<1> DEFINE s == [state[c] EXCEPT !.pending = @ \cup state[c].inFlight, !.inFlight = {}]
           at == IF r.status = "failed" THEN "failed" ELSE "refused"
<1>2. s \in States /\ at \in Bound
  BY Holds DEF States, EditSet, Bound
<1>3. Persist(s, at) \in States
  BY <1>2, PersistTypes
<1>4. state' = [state EXCEPT ![c] = Persist(s, at)]
  <2> HIDE DEF s, at
  <2> QED BY <1>1 DEF s, at
<1>5. state' \in [Member -> States]
  BY <1>3, <1>4 DEF TypeOK
<1> QED BY <1>1, <1>5, TypeFrame DEF TypeOK, disk, history

LEMMA ReceiveType == ASSUME TypeOK, NEW c \in Member, Receive(c) PROVE TypeOK'
<1> DEFINE e == Head(events[c])
<1>1. state[c] \in States /\ events[c] \in Seq(Events) /\ e \in Events
  BY DEF TypeOK, Receive
<1>2. events' \in [Member -> Seq(Events)]
  BY <1>1 DEF TypeOK, Receive
<1>3. CASE /\ e.kind = "text"
           /\ state' = [state EXCEPT ![c].doc =
                          IF state[c].epoch = e.epoch THEN @ \cup e.edits ELSE @,
                        ![c].missed = @ \/ state[c].at = "opening"]
           /\ UNCHANGED <<requests, replies>>
  <2>1. (state[c].missed \/ state[c].at = "opening") \in BOOLEAN
    OBVIOUS
  <2>2. (IF state[c].epoch = e.epoch THEN state[c].doc \cup e.edits ELSE state[c].doc) \in EditSet
    BY <1>1 DEF States, Events, EditSet
  <2> HIDE DEF e
  <2>3. [state[c] EXCEPT !.doc = IF state[c].epoch = e.epoch THEN @ \cup e.edits ELSE @,
                         !.missed = @ \/ state[c].at = "opening"] \in States
    BY <1>1, <2>1, <2>2 DEF States
  <2>4. state' \in [Member -> States]
    BY <1>3, <2>3 DEF TypeOK
  <2> QED BY <1>2, <1>3, <2>4, TypeFrame DEF Receive, TypeOK, disk, history
<1>4. CASE state' = [state EXCEPT ![c].refresh = "wanted"] /\ Forget(c, {"refresh"})
  <2>1. [state[c] EXCEPT !.refresh = "wanted"] \in States
    BY <1>1 DEF States
  <2>2. state' \in [Member -> States]
    BY <1>4, <2>1 DEF TypeOK
  <2> QED BY <1>2, <1>4, <2>2, ForgetTypes, TypeFrame DEF Receive, TypeOK, disk, history
<1> QED BY <1>3, <1>4 DEF Receive

LEMMA RefreshType == ASSUME TypeOK, NEW c \in Member, Refresh(c) PROVE TypeOK'
<1>1. state[c] \in States
  BY DEF TypeOK
<1>2. state' \in [Member -> States]
  <2>1. [state[c] EXCEPT !.refresh = "calling"] \in States
    BY <1>1 DEF States
  <2> QED BY <2>1 DEF TypeOK, Refresh
<1>3. requests' \subseteq Requests
  <2>1. {} \in EditSet
    BY DEF EditSet
  <2>2. Request(c, "refresh", state[c].epoch, {}) \in Requests
    BY <1>1, <2>1, CallTypes DEF States, AllKinds
  <2> QED BY <2>2 DEF Refresh, TypeOK
<1> QED BY <1>2, <1>3, TypeFrame DEF Refresh, TypeOK, disk, history

LEMMA RefreshedType == ASSUME TypeOK, NEW c \in Member, Refreshed(c) PROVE TypeOK'
<1>1. PICK r \in replies : Refreshed(c)!(r)
  BY DEF Refreshed
<1>2. state[c] \in States /\ r \in Replies /\ "archiving" \in Bound
  BY DEF TypeOK, Bound
<1>3. /\ [state[c] EXCEPT !.doc = @ \cup r.edits, !.refresh = "none", !.missed = FALSE] \in States
      /\ [state[c] EXCEPT !.refresh = "none", !.missed = TRUE] \in States
  BY <1>2 DEF States, Replies, EditSet
<1>4. [Persist(state[c], "archiving") EXCEPT !.refresh = "none"] \in States
  <2>1. Persist(state[c], "archiving") \in States
    BY <1>2, PersistTypes
  <2> QED BY <2>1 DEF States
<1>5. state' \in [Member -> States]
  <2>1. ASSUME NEW s \in States, state' = [state EXCEPT ![c] = s]
        PROVE  state' \in [Member -> States]
    BY <2>1 DEF TypeOK
  <2> DEFINE shown == [state[c] EXCEPT !.doc = @ \cup r.edits, !.refresh = "none", !.missed = FALSE]
             missing == [state[c] EXCEPT !.refresh = "none", !.missed = TRUE]
             archived == [Persist(state[c], "archiving") EXCEPT !.refresh = "none"]
  <2>2. \/ state' = [state EXCEPT ![c] = shown]
        \/ state' = [state EXCEPT ![c] = missing]
        \/ state' = [state EXCEPT ![c] = archived]
    BY <1>1, Zenon
  <2>3. shown \in States /\ missing \in States /\ archived \in States
    BY <1>3, <1>4
  <2> HIDE DEF shown, missing, archived
  <2> QED BY <2>1, <2>2, <2>3
<1> QED BY <1>1, <1>5, TypeFrame DEF TypeOK, disk, history

LEMMA LeaveType == ASSUME TypeOK, NEW c \in Member, Leave(c) PROVE TypeOK'
<1>1. Snapshot(state[c]) \in Journals /\ journal[c] \in Journals
  BY PersistTypes DEF TypeOK, Bound
<1>2. state' \in [Member -> States] /\ events' \in [Member -> Seq(Events)]
  BY TextTypes DEF TypeOK, Leave
<1>3. journal' \in [Member -> Journals]
  BY <1>1 DEF TypeOK, Leave
<1>4. {kept', acked', written'} \subseteq EditSet
  <2>1. kept \cup Snapshot(state[c]).pending \in EditSet /\ {kept, acked, written} \subseteq EditSet
    BY <1>1 DEF TypeOK, Journals, EditSet
  <2> QED BY <2>1 DEF Leave
<1> QED BY <1>2, <1>3, <1>4, ForgetTypes, TypeFrame DEF Leave, Trouble, TypeOK, disk

LEMMA ReloadType == ASSUME TypeOK, NEW c \in Member, Reload(c) PROVE TypeOK'
<1>1. state' \in [Member -> States] /\ events' \in [Member -> Seq(Events)]
  BY TextTypes DEF TypeOK, Reload
<1> QED BY <1>1, ForgetTypes, TypeFrame DEF Reload, Trouble, TypeOK, disk, history

-----------------------------------------------------------------------------
(* Types: the server.                                                      *)

LEMMA SelectedTypes == ASSUME TypeOK PROVE Selected \in Copies
BY TextTypes DEF TypeOK, Selected, Copies

LEMMA TextSyncType == ASSUME TypeOK, NEW r \in requests, TextSync(r) PROVE TypeOK'
<1> DEFINE copy == Selected
           epoch == IF copy.epoch # 0 THEN copy.epoch ELSE Len(root) + 1
<1>1. r \in Requests /\ copy \in Copies /\ epoch \in Nat /\ {} \in EditSet
  BY SelectedTypes DEF TypeOK, Copies, EditSet
<1>2. ASSUME NEW status \in {"replaced", "refused"}, Answer(r, status, 0, {}), UNCHANGED <<replica, root>>
      PROVE  TypeOK'
  <2>1. requests' \subseteq Requests /\ replies' \subseteq Replies
    BY <1>1, <1>2, AnswerTypes
  <2> QED BY <1>2, <2>1, TypeFrame DEF TextSync, TypeOK, client, history
<1>3. CASE /\ root' = IF copy.epoch # 0 THEN root ELSE Append(root, file)
           /\ replica' = Saves(epoch, copy.edits \cup r.update, copy)
           /\ requests' = (requests \ {r}) \cup {[r EXCEPT !.started = TRUE]}
           /\ UNCHANGED replies
  <2>1. root' \in Seq(Texts)
    BY <1>3 DEF TypeOK
  <2>2. replica' \in [epoch : Nat, edits : EditSet, acl : Nat, previous : Copies]
    <3>1. copy.edits \cup r.update \in EditSet
      BY <1>1 DEF Copies, Requests, EditSet
    <3> HIDE DEF copy, epoch
    <3> QED BY <1>1, <1>3, <3>1 DEF Saves, TypeOK
  <2>3. requests' \subseteq Requests
    BY <1>1, <1>3 DEF TypeOK, Requests
  <2> QED BY <1>3, <2>1, <2>2, <2>3, TypeFrame DEF TextSync, TypeOK, client, history
<1> QED BY <1>2, <1>3 DEF TextSync

\* The text of the replica while a call is under way.
LEMMA StartedText ==
  ASSUME TypeOK, ScopeInv, WriteInv, NEW r \in requests, r.started
  PROVE  /\ replica.epoch \in 1..Len(root) /\ TextOf(replica) \in Texts
         /\ TextOf(replica).edits \in EditSet
<1>1. replica.epoch \in 1..Len(root)
  BY DEF WriteInv, ScopeInv, ScopeOfServer, TypeOK
<1>2. replica.edits \in EditSet
  BY DEF TypeOK
<1> QED BY <1>1, <1>2, TextTypes DEF Texts

LEMMA CommitType == ASSUME TypeOK, ScopeInv, WriteInv, Commit PROVE TypeOK'
<1>1. PICK r \in requests : Commit!(r)
  BY DEF Commit
<1>2. /\ TextOf(replica) \in Texts /\ TextOf(replica).edits \in EditSet
      /\ replica.epoch \in Nat /\ replica.edits \in EditSet
  BY <1>1, StartedText DEF TypeOK
<1>3. requests' \subseteq Requests /\ replies' \subseteq Replies
  <2> DEFINE epoch == replica.epoch
             edits == replica.edits
  <2>1. epoch \in Nat /\ edits \in EditSet /\ Answer(r, "ok", epoch, edits)
    BY <1>1, <1>2
  <2> HIDE DEF epoch, edits
  <2> QED BY <2>1, AnswerTypes
<1>4. events' \in [Member -> Seq(Events)]
  <2>1. [kind |-> "text", epoch |-> replica.epoch, edits |-> Delta(replica.previous.edits)] \in Events
    BY <1>2 DEF Delta, Events, EditSet
  <2> QED BY <1>1, <2>1, BroadcastTypes DEF TypeOK
<1>5. written' \in EditSet /\ issued' \in Nat
  BY <1>1, <1>2 DEF TypeOK, EditSet
<1> QED BY <1>1, <1>2, <1>3, <1>4, <1>5, TypeFrame DEF TypeOK, client

LEMMA CommitFailsType == ASSUME TypeOK, CommitFails PROVE TypeOK'
<1>1. PICK r \in requests, status \in {"refused", "failed"} : CommitFails!(r, status)
  BY DEF CommitFails
<1>2. {} \in EditSet
  BY DEF EditSet
<1> QED BY <1>1, <1>2, AnswerTypes, TypeFrame DEF TypeOK, disk, client, history, Trouble

LEMMA SyncEventType == ASSUME TypeOK PROVE SyncEvent \in Events
BY DEF SyncEvent, Events, EditSet

LEMMA RestartType == ASSUME TypeOK, ScopeInv, WriteInv, Restart PROVE TypeOK'
<1>1. file' \in Texts /\ file'.edits \in EditSet
  BY StartedText DEF Restart, TypeOK, Texts
<1>2. replies' \subseteq Replies
  <2>1. ASSUME NEW r \in requests
        PROVE  [to |-> r.from, kind |-> r.kind, status |-> "failed", epoch |-> 0, edits |-> {}] \in Replies
    BY DEF TypeOK, Requests, Replies, EditSet
  <2> QED BY <2>1 DEF TypeOK, Restart
<1>3. events' \in [Member -> Seq(Events)]
  <2>1. <<SyncEvent>> \in Seq(Events) /\ <<>> \in Seq(Events)
    BY SyncEventType
  <2> QED BY <2>1 DEF Restart
<1>4. written' \in EditSet
  BY <1>1 DEF Restart, TypeOK, EditSet
<1> QED BY <1>1, <1>2, <1>3, <1>4, TypeFrame DEF Restart, Trouble, TypeOK, client

LEMMA ChangeType ==
  ASSUME TypeOK, Change, file' \in Texts, acl' \in Nat \ {0}, readers' \subseteq Member,
         {kept', acked', written'} \subseteq EditSet, issued' \in Nat, restored' \in BOOLEAN
  PROVE  TypeOK'
BY SyncEventType, BroadcastTypes, TypeFrame DEF Change, Trouble, TypeOK, client

LEMMA ChangesType ==
  ASSUME TypeOK, ScopeInv,
         Replace \/ Restore \/ ChangeVisibility \/ (\E c \in Member : Revoke(c))
  PROVE  TypeOK'
<1>1. CASE Replace
  <2>1. file' \in Texts
    BY <1>1, TextTypes DEF Replace, TypeOK
  <2> QED BY <1>1, <2>1, ChangeType DEF Replace, TypeOK
<1>2. CASE Restore
  <2>1. file' \in Texts
    BY <1>2, TextTypes DEF Restore, TypeOK, ScopeInv, ScopeOfServer, NoCopy, Copies
  <2> QED BY <1>2, <2>1, ChangeType DEF Restore, TypeOK
<1>3. CASE ChangeVisibility
  BY <1>3, ChangeType DEF ChangeVisibility, TypeOK
<1>4. CASE \E c \in Member : Revoke(c)
  BY <1>4, ChangeType DEF Revoke, TypeOK, history
<1> QED BY <1>1, <1>2, <1>3, <1>4

LEMMA TimeoutType == ASSUME TypeOK, NEW c \in Member, Timeout(c) PROVE TypeOK'
<1>1. PICK kind \in AllKinds : Timeout(c)!2!(kind)
  BY DEF Timeout
<1>2. requests' \subseteq Requests
  <2>1. ASSUME NEW r \in requests PROVE [r EXCEPT !.live = FALSE] \in Requests
    BY Holds DEF Requests
  <2> QED BY <1>1, <2>1 DEF TypeOK
<1>3. replies' \subseteq Replies
  <2>1. [to |-> c, kind |-> kind, status |-> "failed", epoch |-> 0, edits |-> {}] \in Replies
    BY DEF Replies, EditSet
  <2> QED BY <1>1, <2>1 DEF TypeOK
<1> QED BY <1>2, <1>3, TypeFrame DEF Timeout, Trouble, TypeOK, disk, client, history

LEMMA ReconnectType == ASSUME TypeOK, NEW c \in Member, Reconnect(c) PROVE TypeOK'
<1>1. events' \in [Member -> Seq(Events)]
  BY SyncEventType DEF Reconnect, TypeOK
<1> QED BY <1>1, TypeFrame DEF Reconnect, Trouble, TypeOK, disk, client, history

LEMMA NextType == ASSUME TypeOK, ScopeInv, WriteInv, [Next]_vars PROVE TypeOK'
<1>1. CASE UNCHANGED vars
  BY <1>1, TypeFrame DEF vars, disk, net, client, history, TypeOK
<1>2. ASSUME NEW c \in Member, Editor(c) PROVE TypeOK'
  BY <1>2, OpenType, OpenedType, OpenFailedType, SendType, SavedType, SettledType, FailedType,
     RefusedType, ArchivedType, AcknowledgedType, RejectedType, ReceiveType, RefreshType,
     RefreshedType DEF Editor
<1>3. CASE Serve
  BY <1>3, TextSyncType, CommitType DEF Serve
<1>4. CASE CommitFails \/ Restart
  BY <1>4, CommitFailsType, RestartType
<1>5. CASE Replace \/ Restore \/ ChangeVisibility
  BY <1>5, ChangesType
<1>6. ASSUME NEW c \in Member,
             Type(c) \/ Leave(c) \/ Reload(c) \/ Revoke(c) \/ Timeout(c) \/ Reconnect(c)
      PROVE  TypeOK'
  <2>1. CASE Revoke(c)
    BY <2>1, ChangesType
  <2> QED BY <1>6, <2>1, TypeType, LeaveType, ReloadType, TimeoutType, ReconnectType
<1> QED BY <1>1, <1>2, <1>3, <1>4, <1>5, <1>6 DEF Next, Environment

-----------------------------------------------------------------------------
(* Edits and epochs stay what they are.                                    *)

Grows ==
  /\ Len(edit) <= Len(edit') /\ \A n \in 1..Len(edit) : edit'[n] = edit[n]
  /\ Len(root') \in Nat /\ Len(root) <= Len(root') /\ \A e \in 1..Len(root) : root'[e] = root[e]

Rests == UNCHANGED <<edit, root>>

LEMMA EditorDisk ==
  ASSUME NEW c \in Member, Editor(c) PROVE UNCHANGED <<edit, disk, troubles, written, issued, restored>>
BY DEF Editor, Open, Opened, OpenFailed, Send, Saved, Settled, Failed, Refused, Archived,
   Acknowledged, Rejected, Receive, Refresh, Refreshed, WriteJournal, history

LEMMA StepGrows == ASSUME TypeOK, [Next]_vars PROVE Grows
<1>1. CASE Rests
  BY <1>1 DEF TypeOK, Rests, Grows
<1>2. ASSUME NEW c \in Member, Type(c) PROVE Grows
  BY <1>2 DEF TypeOK, Grows, Type, disk
<1>3. ASSUME NEW r \in requests, TextSync(r) PROVE Grows
  <2>1. root' = root \/ root' = Append(root, file)
    BY <1>3 DEF TextSync
  <2> QED BY <1>3, <2>1 DEF TypeOK, Grows, TextSync
<1>4. CASE UNCHANGED vars
  BY <1>1, <1>4 DEF vars, disk, Rests
<1>5. ASSUME NEW c \in Member, Editor(c) PROVE Rests
  BY <1>5, EditorDisk DEF disk, Rests
<1>6. ASSUME NEW c \in Member, Leave(c) \/ Reload(c) \/ Revoke(c) \/ Timeout(c) \/ Reconnect(c) PROVE Rests
  BY <1>6 DEF Leave, Reload, Revoke, Change, Timeout, Reconnect, Rests, disk
<1>7. ASSUME Commit \/ CommitFails \/ Restart \/ Replace \/ Restore \/ ChangeVisibility PROVE Rests
  BY <1>7 DEF Commit, CommitFails, Restart, Replace, Restore, ChangeVisibility, Change, Rests, disk
<1> QED BY <1>1, <1>2, <1>3, <1>4, <1>5, <1>6, <1>7 DEF Next, Environment, Serve

LEMMA ScopeStays ==
  ASSUME TypeOK, Grows
  PROVE  /\ \A e \in Nat : \A edits \in EditSet : OfEpoch(e, edits) => OfEpoch(e, edits)'
         /\ \A j \in Journals : ScopeOfJournal(j) => ScopeOfJournal(j)'
         /\ \A s \in States : ScopeOfState(s) => ScopeOfState(s)'
         /\ \A r \in Requests : ScopeOfCall(r) => ScopeOfCall(r)'
<1>1. ASSUME NEW e \in Nat, NEW edits \in EditSet, OfEpoch(e, edits) PROVE OfEpoch(e, edits)'
  BY <1>1 DEF OfEpoch, Grows, EditSet
<1>2. Len(root) \in Nat /\ Len(root') \in Nat /\ Len(root) <= Len(root')
  BY DEF TypeOK, Grows
<1>3. ASSUME NEW j \in Journals, ScopeOfJournal(j) PROVE ScopeOfJournal(j)'
  BY <1>1, <1>2, <1>3 DEF ScopeOfJournal, Journals
<1>4. ASSUME NEW s \in States, ScopeOfState(s) PROVE ScopeOfState(s)'
  <2>1. Own(s) \in EditSet /\ s.saved \in Journals /\ s.epoch \in Nat
    BY DEF States, Own, EditSet
  <2>2. OfEpoch(s.epoch, Own(s))' /\ ScopeOfJournal(s.saved)'
    BY <1>1, <1>3, <1>4, <2>1 DEF ScopeOfState
  <2> QED BY <1>2, <1>4, <2>1, <2>2 DEF ScopeOfState, Own
<1>5. ASSUME NEW r \in Requests, ScopeOfCall(r) PROVE ScopeOfCall(r)'
  BY <1>1, <1>2, <1>5 DEF ScopeOfCall, Requests
<1> QED BY <1>1, <1>3, <1>4, <1>5

-----------------------------------------------------------------------------
(* Scopes.                                                                 *)

LEMMA ClosedScope == ASSUME TypeOK PROVE ScopeOfState(Closed) /\ ScopeOfJournal(NoJournal)
BY DEF TypeOK, ScopeOfState, ScopeOfJournal, Closed, NoJournal, Own, OfEpoch

LEMMA SnapshotScope ==
  ASSUME NEW s \in States, ScopeOfState(s)
  PROVE  ScopeOfJournal(Snapshot(s))
BY DEF ScopeOfState, ScopeOfJournal, Snapshot, Own, States

LEMMA PersistScope ==
  ASSUME NEW s \in States, ScopeOfState(s), s.epoch # 0, NEW at \in Bound,
         s.inFlight # {} => at \in {"saving", "calling", "archiving"}
  PROVE  ScopeOfState(Persist(s, at))
<1>1. ScopeOfJournal(Snapshot(s))
  BY SnapshotScope
<1>2. Persist(s, at).saved = Snapshot(s) /\ Persist(s, at).at = at
  BY DEF Persist, States
<1>3. Persist(s, at).epoch = s.epoch /\ Persist(s, at).inFlight = s.inFlight
      /\ Persist(s, at).pending = s.pending
  BY DEF Persist, States
<1>4. at \notin {"closed", "opening"}
  BY DEF Bound
<1> QED BY <1>1, <1>2, <1>3, <1>4 DEF ScopeOfState, Own

\* What an editor does leaves it within its scope.
EditorScope(c) == ScopeOfState(state'[c]) /\ ScopeOfJournal(journal'[c])

LEMMA EditorHas ==
  ASSUME TypeOK, ScopeInv, NEW c \in Member
  PROVE  /\ state[c] \in States /\ ScopeOfState(state[c]) /\ state[c].saved \in Journals
         /\ ScopeOfJournal(state[c].saved) /\ journal[c] \in Journals /\ ScopeOfJournal(journal[c])
         /\ state[c].epoch = 0 <=> state[c].at \notin Bound
BY DEF TypeOK, ScopeInv, States, ScopeOfState, Bound

LEMMA OpensScope ==
  ASSUME TypeOK, KeepInv, NEW c \in Member, Open(c) \/ Opened(c) \/ OpenFailed(c)
  PROVE  EditorScope(c)
<1> USE DEF EditorScope
<1>1. /\ state[c] \in States /\ ScopeOfState(state[c]) /\ journal[c] \in Journals
      /\ ScopeOfJournal(journal[c])
  BY EditorHas DEF KeepInv
<1>2. CASE Open(c)
  <2>1. CASE state'[c] = [state[c] EXCEPT !.at = "opening", !.saved = journal[c]] /\ journal' = journal
    BY <1>1, <1>2, <2>1 DEF Open, ScopeOfState, States, Own
  <2>2. CASE state'[c] = [state[c] EXCEPT !.at = "opening"] /\ journal'[c] = NoJournal
    BY <1>1, <1>2, <2>2, ClosedScope DEF Open, ScopeOfState, States, Own
  <2> QED BY <1>2, <2>1, <2>2 DEF Open, TypeOK
<1>3. CASE Opened(c)
  <2>1. PICK r \in replies : Opened(c)!(r)
    BY <1>3 DEF Opened
  <2> DEFINE saved == state[c].saved
             same == Resumes(saved, r)
             s == [state[c] EXCEPT !.epoch = r.epoch,
                    !.doc = r.edits \cup (IF same THEN saved.doc ELSE {}),
                    !.pending = IF same THEN saved.pending ELSE {}]
  <2>2. r \in Replies /\ r.epoch \in 1..Len(root) /\ saved \in Journals /\ ScopeOfJournal(saved)
    BY <1>1, <2>1 DEF TypeOK, ScopeInv, KeepInv, States, ScopeOfState
  <2>3. s \in States
    BY <1>1, <2>2 DEF States, Replies, Journals, EditSet
  <2>4. state[c].at = "opening" /\ state[c].inFlight = {}
    <3>1. r \in AnswersTo(c, "open") /\ "open" \in AllKinds
      BY <2>1 DEF AnswersTo, AllKinds
    <3>2. Awaits(state[c], "open")
      BY <3>1 DEF KeepInv, CallInv, OneCall
    <3> QED BY <1>1, <3>2 DEF ScopeOfState, Awaits
  <2>5. ScopeOfState([s EXCEPT !.at = "binding"])
    BY <1>1, <2>2, <2>4 DEF ScopeOfState, Own, OfEpoch, States, Resumes, ScopeOfJournal, Journals
  <2>6. ScopeOfState(Persist(s, "binding"))
    <3> DEFINE t == [s EXCEPT !.at = "binding"]
    <3>1. t \in States /\ "binding" \in Bound /\ t.epoch # 0 /\ t.inFlight = {}
      <4>1. s.epoch # 0 /\ s.inFlight = {}
        BY <1>1, <2>2, <2>4 DEF States
      <4> HIDE DEF s
      <4> QED BY <2>3, <4>1 DEF States, Bound
    <3>2. ScopeOfState(Persist(t, "binding"))
      <4> HIDE DEF t
      <4> QED BY <2>5, <3>1, PersistScope DEF t
    <3>3. Persist(t, "binding") = Persist(s, "binding")
      BY <2>3 DEF Persist, Snapshot, States
    <3> QED BY <3>2, <3>3
  <2>7. state' = [state EXCEPT ![c] = Persist(s, "binding")]
        /\ journal' = [journal EXCEPT ![c] = IF same THEN @ ELSE NoJournal]
    BY <2>1
  <2> QED BY <1>1, <2>6, <2>7, ClosedScope DEF TypeOK
<1>4. CASE OpenFailed(c)
  BY <1>1, <1>4, ClosedScope DEF OpenFailed, TypeOK
<1> QED BY <1>2, <1>3, <1>4

LEMMA SendsScope ==
  ASSUME TypeOK, KeepInv, NEW c \in Member,
         Send(c) \/ Saved(c) \/ Settled(c) \/ Failed(c) \/ Refused(c) \/ Archived(c)
           \/ Acknowledged(c) \/ Rejected(c)
  PROVE  EditorScope(c)
<1> USE DEF EditorScope
<1>1. /\ state[c] \in States /\ ScopeOfState(state[c]) /\ state[c].saved \in Journals
      /\ ScopeOfJournal(state[c].saved) /\ journal[c] \in Journals /\ ScopeOfJournal(journal[c])
      /\ state[c].epoch = 0 <=> state[c].at \notin Bound
  BY EditorHas DEF KeepInv
<1>2. CASE Send(c)
  <2> DEFINE s == [state[c] EXCEPT !.at = "saving", !.inFlight = state[c].pending, !.pending = {}]
  <2>1. s \in States /\ ScopeOfState(s) /\ s.epoch # 0 /\ "saving" \in Bound
    BY <1>1, <1>2 DEF States, EditSet, Bound, ScopeOfState, Own, Send
  <2>2. ScopeOfState(Persist(s, "saving"))
    BY <2>1, PersistScope
  <2>3. Persist(s, "saving") =
          Persist([state[c] EXCEPT !.inFlight = state[c].pending, !.pending = {}], "saving")
    BY <1>1 DEF Persist, Snapshot, States
  <2> QED BY <1>1, <1>2, <2>2, <2>3 DEF Send, TypeOK
<1>3. CASE Saved(c)
  BY <1>1, <1>3 DEF Saved, WriteJournal, TypeOK, States, ScopeOfState, Own
<1>4. CASE Settled(c)
  BY <1>1, <1>4 DEF Settled, WriteJournal, TypeOK, States, ScopeOfState, Own, Bound
<1>5. CASE Failed(c)
  BY <1>1, <1>5 DEF Failed, WriteJournal, TypeOK, States, ScopeOfState, Own, Bound
<1>6. CASE Refused(c)
  <2>1. ScopeOfState(Persist(state[c], "archiving"))
    BY <1>1, <1>6, PersistScope DEF Refused, Bound
  <2> QED BY <1>1, <1>6, <2>1 DEF Refused, WriteJournal, TypeOK
<1>7. CASE Archived(c)
  BY <1>7, ClosedScope DEF Archived, TypeOK
<1>8. CASE Acknowledged(c)
  <2>1. PICK r \in replies : Acknowledged(c)!(r)
    BY <1>8 DEF Acknowledged
  <2> DEFINE s == [state[c] EXCEPT !.doc = @ \cup r.edits, !.inFlight = {}, !.missed = FALSE]
  <2>2. s \in States /\ ScopeOfState(s) /\ s.epoch # 0 /\ "acked" \in Bound /\ s.inFlight = {}
    BY <1>1, <2>1 DEF TypeOK, States, Replies, EditSet, Bound, ScopeOfState, Own, OfEpoch
  <2>3. ScopeOfState(Persist(s, "acked"))
    <3> HIDE DEF s
    <3> QED BY <2>2, PersistScope
  <2>4. state' = [state EXCEPT ![c] = Persist(s, "acked")] /\ journal' = journal
    BY <2>1
  <2> QED BY <1>1, <2>3, <2>4 DEF TypeOK
<1>9. CASE Rejected(c)
  <2>1. PICK r \in replies : Rejected(c)!(r)
    BY <1>9 DEF Rejected
  <2> DEFINE s == [state[c] EXCEPT !.pending = @ \cup state[c].inFlight, !.inFlight = {}]
             at == IF r.status = "failed" THEN "failed" ELSE "refused"
  <2>2. s \in States /\ ScopeOfState(s) /\ s.epoch # 0 /\ at \in Bound /\ s.inFlight = {}
    BY <1>1, <2>1 DEF TypeOK, States, EditSet, Bound, ScopeOfState, Own, OfEpoch
  <2>3. ScopeOfState(Persist(s, at))
    <3> HIDE DEF s, at
    <3> QED BY <2>2, PersistScope
  <2>4. state' = [state EXCEPT ![c] = Persist(s, at)] /\ journal' = journal
    BY <2>1
  <2> QED BY <1>1, <2>3, <2>4 DEF TypeOK
<1> QED BY <1>2, <1>3, <1>4, <1>5, <1>6, <1>7, <1>8, <1>9

LEMMA HearsScope ==
  ASSUME TypeOK, KeepInv, NEW c \in Member,
         Receive(c) \/ Refresh(c) \/ Refreshed(c) \/ Leave(c) \/ Reload(c)
  PROVE  EditorScope(c)
<1> USE DEF EditorScope
<1>1. /\ state[c] \in States /\ ScopeOfState(state[c]) /\ state[c].saved \in Journals
      /\ ScopeOfJournal(state[c].saved) /\ journal[c] \in Journals /\ ScopeOfJournal(journal[c])
      /\ state[c].epoch = 0 <=> state[c].at \notin Bound
  BY EditorHas DEF KeepInv
<1>2. CASE Receive(c)
  <2> DEFINE e == Head(events[c])
  <2>1. e \in Events /\ (e.kind = "text" => e.epoch # 0)
    <3>1. events[c] \in Seq(Events) /\ events[c] # <<>>
      BY <1>2 DEF TypeOK, Receive
    <3>2. e = events[c][1] /\ 1 \in 1..Len(events[c])
      BY <3>1
    <3> HIDE DEF e
    <3> QED BY <3>1, <3>2 DEF KeepInv, ScopeInv
  <2>2. CASE /\ e.kind = "text"
             /\ state' = [state EXCEPT ![c].doc =
                          IF state[c].epoch = e.epoch THEN @ \cup e.edits ELSE @,
                        ![c].missed = @ \/ state[c].at = "opening"]
    <3> DEFINE doc == IF state[c].epoch = e.epoch THEN state[c].doc \cup e.edits ELSE state[c].doc
               missed == state[c].missed \/ state[c].at = "opening"
    <3>1. state'[c] = [state[c] EXCEPT !.doc = doc, !.missed = missed]
      BY <2>2 DEF TypeOK
    <3>2. state[c].epoch = 0 => doc = {}
      BY <1>1, <2>1, <2>2 DEF ScopeOfState
    <3> HIDE DEF e, doc, missed
    <3>3. ScopeOfState(state'[c])
      BY <1>1, <3>1, <3>2 DEF ScopeOfState, States, Own
    <3> QED BY <1>1, <1>2, <3>3 DEF Receive
  <2>3. CASE state' = [state EXCEPT ![c].refresh = "wanted"]
    BY <1>1, <1>2, <2>3 DEF Receive, TypeOK, ScopeOfState, States, Own
  <2> QED BY <1>2, <2>2, <2>3 DEF Receive
<1>3. CASE Refresh(c)
  BY <1>1, <1>3 DEF Refresh, TypeOK, ScopeOfState, States, Own, Bound
<1>4. CASE Refreshed(c)
  <2>1. PICK r \in replies : Refreshed(c)!(r)
    BY <1>4 DEF Refreshed
  <2>2. state[c].epoch # 0
    BY <1>1, <2>1 DEF ScopeOfState
  <2>3. CASE r.status # "replaced"
    <3>1. PICK doc \in EditSet, missed \in BOOLEAN :
            state'[c] = [state[c] EXCEPT !.doc = doc, !.refresh = "none", !.missed = missed]
      <4>1. state[c].doc \cup r.edits \in EditSet /\ state[c].doc \in EditSet
        BY <1>1, <2>1 DEF TypeOK, Replies, States, EditSet
      <4>2. CASE r.status = "ok"
        BY <1>1, <2>1, <4>1, <4>2 DEF TypeOK, States
      <4>3. CASE r.status = "failed"
        <5>1. state'[c] = [state[c] EXCEPT !.doc = state[c].doc, !.refresh = "none", !.missed = TRUE]
          <6>1. state' = [state EXCEPT ![c].refresh = "none", ![c].missed = TRUE]
            BY <2>1, <4>3
          <6>2. state'[c] = [state[c] EXCEPT !.refresh = "none", !.missed = TRUE]
            BY <6>1 DEF TypeOK
          <6> QED BY <1>1, <6>2 DEF States
        <5> QED BY <4>1, <5>1
      <4> QED BY <2>1, <2>3, <4>2, <4>3
    <3> QED BY <1>1, <2>1, <2>2, <3>1 DEF TypeOK, ScopeOfState, States, Own
  <2>4. CASE r.status = "replaced"
    <3> DEFINE s == Persist(state[c], "archiving")
    <3>1. s \in States /\ ScopeOfState(s)
      BY <1>1, <2>2, PersistScope, PersistTypes DEF Bound
    <3>2. state' = [state EXCEPT ![c] = [s EXCEPT !.refresh = "none"]]
      BY <2>1, <2>4
    <3>3. ScopeOfState([s EXCEPT !.refresh = "none"])
      <4> HIDE DEF s
      <4> QED BY <3>1 DEF States, ScopeOfState, Own
    <3> HIDE DEF s
    <3> QED BY <1>1, <2>1, <3>2, <3>3 DEF TypeOK
  <2> QED BY <2>3, <2>4
<1>5. CASE Leave(c)
  BY <1>1, <1>5, ClosedScope, SnapshotScope DEF Leave, TypeOK
<1>6. CASE Reload(c)
  BY <1>1, <1>6, ClosedScope DEF Reload, TypeOK
<1> QED BY <1>2, <1>3, <1>4, <1>5, <1>6

-----------------------------------------------------------------------------
(* What a step does to editors, calls, answers and events.                 *)

EditorActs(c) == Editor(c) \/ Type(c) \/ Leave(c) \/ Reload(c)

EditorRests(c) == state'[c] = state[c] /\ journal'[c] = journal[c] /\ archive'[c] = archive[c]

LEMMA OtherRests ==
  TypeOK => \A c, d \in Member : c # d /\ EditorActs(c) => EditorRests(d)
<1> SUFFICES ASSUME TypeOK PROVE \A c, d \in Member : c # d /\ EditorActs(c) => EditorRests(d)
  OBVIOUS
<1> USE DEF EditorRests
<1>1. ASSUME NEW d \in Member, NEW c \in Member, c # d, Editor(c) PROVE EditorRests(d)
  BY <1>1 DEF Editor, Open, Opened, OpenFailed, Send, Saved, Settled, Failed, Refused, Archived,
     Acknowledged, Rejected, Receive, Refresh, Refreshed, WriteJournal, TypeOK
<1>2. ASSUME NEW d \in Member, NEW c \in Member, c # d, Type(c) \/ Leave(c) \/ Reload(c) PROVE EditorRests(d)
  BY <1>2 DEF Type, Leave, Reload, TypeOK
<1> QED BY <1>1, <1>2 DEF EditorActs

LEMMA OneEditorActs ==
  ASSUME TypeOK, [Next]_vars, NEW d \in Member
  PROVE  EditorRests(d) \/ EditorActs(d)
<1> USE DEF EditorRests
<1>1. CASE UNCHANGED client
  BY <1>1 DEF client
<1>2. ASSUME NEW c \in Member, c # d, EditorActs(c) PROVE EditorRests(d)
  BY <1>2, OtherRests
<1>3. ASSUME NEW c \in Member, Revoke(c) \/ Timeout(c) \/ Reconnect(c) PROVE UNCHANGED client
  BY <1>3 DEF Revoke, Change, Timeout, Reconnect
<1>4. ASSUME CommitFails \/ Restart \/ Replace \/ Restore \/ ChangeVisibility \/ Serve PROVE UNCHANGED client
  BY <1>4 DEF CommitFails, Restart, Replace, Restore, ChangeVisibility, Change, Serve, TextSync, Commit
<1>5. CASE UNCHANGED vars
  BY <1>1, <1>5 DEF vars
<1> QED BY <1>1, <1>2, <1>3, <1>4, <1>5 DEF Next, Environment, EditorActs

SameCall(r, q) ==
  /\ r.from = q.from /\ r.kind = q.kind /\ r.epoch = q.epoch /\ r.update = q.update
  /\ r.live => q.live

\* The call that an editor makes.
Calls(c, r) ==
  \/ Open(c) /\ r = Request(c, "open", 0, {})
  \/ Saved(c) /\ r = Request(c, "edit", state[c].epoch, state[c].inFlight)
  \/ Refresh(c) /\ r = Request(c, "refresh", state[c].epoch, {})

\* The first write of a call.
Starts(r) ==
  LET copy == Selected
      epoch == IF copy.epoch # 0 THEN copy.epoch ELSE Len(root) + 1
  IN /\ ~Busy /\ ~Replaced(r, epoch) /\ ~Denied(r)
     /\ root' = IF copy.epoch # 0 THEN root ELSE Append(root, file)
     /\ replica' = Saves(epoch, copy.edits \cup r.update, copy)
     /\ requests' = (requests \ {r}) \cup {[r EXCEPT !.started = TRUE]}
     /\ UNCHANGED <<edit, file, acl, readers, replies, events, client, troubles, history>>

Refuses(r) ==
  /\ \E status \in {"replaced", "refused"} : Answer(r, status, 0, {})
  /\ UNCHANGED <<edit, disk, events, client, troubles, history>>

LEMMA TextSyncDoes == ASSUME NEW r \in requests, TextSync(r) PROVE Starts(r) \/ Refuses(r)
BY DEF TextSync, Starts, Refuses, disk

CallsFollow ==
  \A r \in requests' :
    \/ \E q \in requests : SameCall(r, q) /\ r.started = q.started
    \/ \E c \in Member : Calls(c, r)
    \/ \E q \in requests : SameCall(r, q) /\ Starts(q)

LEMMA ForgetFollows ==
  ASSUME TypeOK, NEW c \in Member, NEW kinds, Forget(c, kinds)
  PROVE  /\ CallsFollow
         /\ \A r \in requests' : ~(r.live /\ r.from = c /\ r.kind \in kinds)
         /\ replies' \subseteq replies
         /\ \A r \in replies' : ~(r.to = c /\ r.kind \in kinds)
<1>1. ASSUME NEW q \in requests
      PROVE  /\ SameCall([q EXCEPT !.live = FALSE], q) /\ [q EXCEPT !.live = FALSE].started = q.started
             /\ [q EXCEPT !.live = FALSE].live = FALSE /\ SameCall(q, q)
  BY DEF TypeOK, Requests, SameCall
<1>2. ASSUME NEW r \in requests'
      PROVE  \E q \in requests : SameCall(r, q) /\ r.started = q.started
                                 /\ ~(r.live /\ r.from = c /\ r.kind \in kinds)
  <2>1. PICK q \in requests : r = IF q.from = c /\ q.kind \in kinds THEN [q EXCEPT !.live = FALSE] ELSE q
    BY <1>2 DEF Forget
  <2> QED BY <1>1, <2>1 DEF TypeOK
<1> QED BY <1>2 DEF Forget, CallsFollow

LEMMA StepCalls == ASSUME TypeOK, [Next]_vars PROVE CallsFollow
<1>1. CASE requests' \subseteq requests
  BY <1>1 DEF CallsFollow, SameCall, TypeOK
<1>2. ASSUME NEW c \in Member, Editor(c) PROVE CallsFollow
  <2>1. CASE Open(c) \/ Saved(c) \/ Refresh(c)
    BY <2>1 DEF Open, Saved, Refresh, CallsFollow, Calls, SameCall, TypeOK
  <2>2. CASE Archived(c)
    BY <2>2, ForgetFollows DEF Archived
  <2>3. CASE Receive(c)
    BY <1>1, <2>3, ForgetFollows DEF Receive
  <2>4. CASE ~(Open(c) \/ Saved(c) \/ Refresh(c) \/ Archived(c) \/ Receive(c))
    BY <1>1, <1>2, <2>4 DEF Editor, Opened, OpenFailed, Send, Settled, Failed, Refused,
       Acknowledged, Rejected, Refreshed, net
  <2> QED BY <2>1, <2>2, <2>3, <2>4
<1>3. ASSUME NEW r \in requests, TextSync(r) PROVE CallsFollow
  <2>1. CASE Starts(r)
    <3>1. SameCall([r EXCEPT !.started = TRUE], r)
      BY DEF SameCall, TypeOK, Requests
    <3> QED BY <2>1, <3>1 DEF CallsFollow, SameCall, Starts
  <2>2. CASE Refuses(r)
    BY <1>1, <2>2 DEF Refuses, Answer
  <2> QED BY <1>3, <2>1, <2>2, TextSyncDoes
<1>4. CASE Commit \/ CommitFails \/ Restart
  BY <1>1, <1>4 DEF Commit, CommitFails, Restart, Answer
<1>5. CASE Replace \/ Restore \/ ChangeVisibility \/ \E c \in Member : Revoke(c)
  BY <1>1, <1>5 DEF Replace, Restore, ChangeVisibility, Revoke, Change
<1>6. ASSUME NEW c \in Member, Type(c) \/ Reconnect(c) PROVE CallsFollow
  BY <1>1, <1>6 DEF Type, Reconnect, net
<1>7. ASSUME NEW c \in Member, Leave(c) \/ Reload(c) PROVE CallsFollow
  BY <1>7, ForgetFollows DEF Leave, Reload
<1>8. ASSUME NEW c \in Member, Timeout(c) PROVE CallsFollow
  <2>1. PICK kind \in AllKinds : Timeout(c)!2!(kind)
    BY <1>8 DEF Timeout
  <2>2. ASSUME NEW q \in requests
        PROVE  /\ SameCall([q EXCEPT !.live = FALSE], q) /\ [q EXCEPT !.live = FALSE].started = q.started
               /\ SameCall(q, q)
    BY DEF TypeOK, Requests, SameCall
  <2>3. ASSUME NEW r \in requests' PROVE \E q \in requests : SameCall(r, q) /\ r.started = q.started
    BY <2>1, <2>2
  <2> QED BY <2>3 DEF CallsFollow
<1>9. CASE UNCHANGED vars
  BY <1>1, <1>9 DEF vars, net
<1> QED BY <1>2, <1>3, <1>4, <1>5, <1>6, <1>7, <1>8, <1>9 DEF Next, Environment, Serve

\* The answer of a call that has written the file.
Answers(q, r) ==
  /\ q.started /\ q.live /\ Commit /\ file' = TextOf(replica)
  /\ r = [to |-> q.from, kind |-> q.kind, status |-> "ok", epoch |-> replica.epoch, edits |-> replica.edits]

RepliesFollow ==
  \A r \in replies' : r.status = "ok" => r \in replies \/ \E q \in requests : Answers(q, r)

LEMMA StepReplies == ASSUME TypeOK, [Next]_vars PROVE RepliesFollow
<1>1. CASE replies' \subseteq replies
  BY <1>1 DEF RepliesFollow
<1>2. ASSUME NEW c \in Member, Editor(c) PROVE replies' \subseteq replies
  <2>1. CASE Archived(c)
    BY <2>1 DEF Archived, Forget
  <2>2. CASE Receive(c)
    BY <2>2 DEF Receive, Forget
  <2> QED BY <1>2, <2>1, <2>2 DEF Editor, Open, Opened, OpenFailed, Send, Saved, Settled, Failed, Refused,
          Acknowledged, Rejected, Refresh, Refreshed, net
<1>3. ASSUME NEW r \in requests, TextSync(r) PROVE RepliesFollow
  <2>1. CASE Starts(r)
    BY <1>1, <2>1 DEF Starts
  <2>2. CASE Refuses(r)
    <3>1. PICK status \in {"replaced", "refused"} : Answer(r, status, 0, {})
      BY <2>2 DEF Refuses
    <3> QED BY <3>1 DEF Answer, RepliesFollow
  <2> QED BY <1>3, <2>1, <2>2, TextSyncDoes
<1>4. CASE Commit
  BY <1>4 DEF Commit, Answer, RepliesFollow, Answers
<1>5. CASE CommitFails \/ Restart
  BY <1>5 DEF CommitFails, Restart, Answer, RepliesFollow
<1>6. CASE Replace \/ Restore \/ ChangeVisibility \/ \E c \in Member : Revoke(c)
  BY <1>1, <1>6 DEF Replace, Restore, ChangeVisibility, Revoke, Change
<1>7. ASSUME NEW c \in Member, Type(c) \/ Reconnect(c) \/ Leave(c) \/ Reload(c) PROVE RepliesFollow
  BY <1>1, <1>7 DEF Type, Reconnect, net, Leave, Reload, Forget
<1>8. ASSUME NEW c \in Member, Timeout(c) PROVE RepliesFollow
  BY <1>8 DEF Timeout, RepliesFollow
<1>9. CASE UNCHANGED vars
  BY <1>1, <1>9 DEF vars, net
<1> QED BY <1>1, <1>2, <1>3, <1>4, <1>5, <1>6, <1>7, <1>8, <1>9 DEF Next, Environment, Serve

\* The live event of a write of the file.
LiveEvent == [kind |-> "text", epoch |-> replica.epoch, edits |-> Delta(replica.previous.edits)]
Writes == file' = TextOf(replica) /\ \E q \in requests : q.started

EventsFollow ==
  \A d \in Member : \A k \in 1..Len(events'[d]) :
    \/ \E i \in 1..Len(events[d]) : events'[d][k] = events[d][i]
    \/ events'[d][k] = SyncEvent
    \/ events'[d][k] = LiveEvent /\ Writes

LEMMA EditorEvents ==
  ASSUME NEW c \in Member, Editor(c), ~Receive(c) PROVE UNCHANGED events
BY DEF Editor, Open, Opened, OpenFailed, Send, Saved, Settled, Failed, Refused, Archived,
   Acknowledged, Rejected, Refresh, Refreshed, net

LEMMA StepEvents == ASSUME TypeOK, [Next]_vars PROVE EventsFollow
<1>1. ASSUME UNCHANGED events PROVE EventsFollow
  BY <1>1 DEF EventsFollow
<1>2. ASSUME NEW c \in Member, Receive(c) PROVE EventsFollow
  <2>1. events[c] \in Seq(Events) /\ events[c] # <<>> /\ events' = [events EXCEPT ![c] = Tail(@)]
    BY <1>2 DEF Receive, TypeOK
  <2>2. \A k \in 1..Len(Tail(events[c])) : k + 1 \in 1..Len(events[c]) /\ Tail(events[c])[k] = events[c][k + 1]
    BY <2>1
  <2> QED BY <2>1, <2>2 DEF EventsFollow, TypeOK
<1>3. ASSUME NEW c \in Member, Editor(c), ~Receive(c) PROVE UNCHANGED events
  BY <1>3, EditorEvents
<1>4. ASSUME NEW e, Broadcast(e), e = SyncEvent \/ (e = LiveEvent /\ Writes) PROVE EventsFollow
  <2>1. ASSUME NEW d \in Member, NEW k \in 1..Len(events'[d])
        PROVE  (\E i \in 1..Len(events[d]) : events'[d][k] = events[d][i]) \/ events'[d][k] = e
    <3>1. events[d] \in Seq(Events) /\ (events'[d] = events[d] \/ events'[d] = Append(events[d], e))
      BY <1>4 DEF Broadcast, TypeOK
    <3>2. CASE events'[d] = Append(events[d], e)
      <4>1. /\ Len(events'[d]) = Len(events[d]) + 1 /\ Len(events[d]) \in Nat
            /\ \A i \in 1..Len(events[d]) : events'[d][i] = events[d][i]
            /\ events'[d][Len(events[d]) + 1] = e
        BY <3>1, <3>2
      <4>2. k <= Len(events[d]) \/ k = Len(events[d]) + 1
        BY <2>1, <4>1
      <4>3. k \in Nat /\ k >= 1
        BY <2>1, <4>1
      <4>4. CASE k = Len(events[d]) + 1
        BY <4>1, <4>4
      <4>5. CASE k <= Len(events[d])
        <5>1. k \in 1..Len(events[d])
          BY <4>1, <4>3, <4>5
        <5> QED BY <4>1, <5>1
      <4> QED BY <4>2, <4>4, <4>5
    <3> QED BY <2>1, <3>1, <3>2
  <2> QED BY <1>4, <2>1 DEF EventsFollow
<1>5. ASSUME NEW r \in requests, TextSync(r) PROVE UNCHANGED events
  BY <1>5 DEF TextSync
<1>6. CASE Commit
  BY <1>1, <1>4, <1>6 DEF Commit, LiveEvent, Writes
<1>7. CASE Replace \/ Restore \/ ChangeVisibility \/ \E c \in Member : Revoke(c)
  BY <1>4, <1>7 DEF Replace, Restore, ChangeVisibility, Revoke, Change
<1>8. CASE Restart
  BY <1>8 DEF Restart, EventsFollow
<1>9. ASSUME NEW c \in Member, Leave(c) \/ Reload(c) \/ Reconnect(c) PROVE EventsFollow
  <2>1. PICK q \in {<<>>, <<SyncEvent>>} : events' = [events EXCEPT ![c] = q]
    BY <1>9 DEF Leave, Reload, Reconnect
  <2>2. \A k \in 1..Len(q) : q[k] = SyncEvent
    OBVIOUS
  <2> QED BY <2>1, <2>2 DEF EventsFollow, TypeOK
<1>10. CASE CommitFails \/ (\E c \in Member : Type(c) \/ Timeout(c)) \/ UNCHANGED vars
  BY <1>1, <1>10 DEF CommitFails, Type, Timeout, net, vars
<1> QED BY <1>1, <1>2, <1>3, <1>5, <1>6, <1>7, <1>8, <1>9, <1>10 DEF Next, Environment, Serve

-----------------------------------------------------------------------------
(* ScopeInv is kept.                                                       *)

LEMMA StatesScope ==
  ASSUME TypeOK, KeepInv, [Next]_vars, Grows, NEW d \in Member
  PROVE  ScopeOfState(state[d])' /\ ScopeOfJournal(journal[d])'
<1>1. /\ state[d] \in States /\ ScopeOfState(state[d]) /\ journal[d] \in Journals
      /\ ScopeOfJournal(journal[d])
  BY EditorHas DEF KeepInv
<1>2. CASE state'[d] = state[d] /\ journal'[d] = journal[d]
  BY <1>1, <1>2, ScopeStays DEF ScopeOfState, ScopeOfJournal, OfEpoch, Own
<1>3. CASE Editor(d) \/ Leave(d) \/ Reload(d)
  <2>1. EditorScope(d)
    BY <1>3, OpensScope, SendsScope, HearsScope DEF Editor
  <2>2. UNCHANGED <<edit, root>>
    BY <1>3, EditorDisk DEF Leave, Reload, disk
  <2> QED BY <2>1, <2>2 DEF EditorScope, ScopeOfState, ScopeOfJournal, OfEpoch, Own
<1>4. CASE Type(d)
  <2> DEFINE n == Len(edit) + 1
             s == state'[d]
  <2>1. /\ s = [state[d] EXCEPT !.doc = @ \cup {n}, !.pending = @ \cup {n}]
        /\ journal' = journal /\ root' = root /\ edit'[n].epoch = state[d].epoch /\ state[d].at \in Bound
    BY <1>4 DEF Type, TypeOK, disk
  <2>2. state[d].epoch \in Nat /\ state[d].epoch # 0
    BY <1>1, <2>1 DEF ScopeOfState, Bound, States
  <2>3. /\ s.epoch = state[d].epoch /\ Own(s) = Own(state[d]) \cup {n} /\ s.saved = state[d].saved
        /\ s.inFlight = state[d].inFlight /\ s.at = state[d].at /\ s.refresh = state[d].refresh
    BY <1>1, <2>1 DEF States, Own
  <2>4. \A m \in Own(s) : edit'[m].epoch = s.epoch
    BY <1>1, <2>1, <2>3 DEF ScopeOfState, OfEpoch, Grows, Own, States, EditSet
  <2>5. /\ s.saved.epoch <= Len(root') /\ \A m \in s.saved.pending : edit'[m].epoch = s.saved.epoch
        /\ ScopeOfJournal(journal[d])'
    BY <1>1, <2>1, <2>3, ScopeStays DEF ScopeOfState, ScopeOfJournal, OfEpoch, States
  <2> QED BY <1>1, <2>1, <2>2, <2>3, <2>4, <2>5 DEF ScopeOfState, ScopeOfJournal, OfEpoch
<1> QED BY <1>2, <1>3, <1>4, OneEditorActs DEF EditorActs, EditorRests

\* The copy that is selected has the text of the file and is of the last epoch.
LEMMA SelectedIs ==
  ASSUME TypeOK, KeepInv
  PROVE  /\ Selected \in Copies
         /\ Selected.epoch = 0 => Selected = NoCopy
         /\ Selected.epoch # 0 =>
              /\ Selected.epoch = replica.epoch /\ Selected.epoch \in 1..Len(root)
              /\ TextOf(Selected) = file /\ replica.acl = acl
              /\ Selected = [epoch |-> replica.epoch, edits |-> replica.edits] \/ Selected = replica.previous
         /\ OfEpoch(Selected.epoch, Selected.edits)
<1>1. /\ replica.epoch \in 0..Len(root) /\ (replica.acl = acl => replica.epoch # 0)
      /\ replica.previous = NoCopy \/ replica.previous.epoch = replica.epoch
      /\ OfEpoch(replica.epoch, replica.edits) /\ OfEpoch(replica.epoch, replica.previous.edits)
      /\ replica.previous \in Copies /\ Len(root) \in Nat
  BY DEF TypeOK, KeepInv, ScopeInv, ScopeOfServer
<1>2. CASE replica.acl = acl /\ TextOf(replica) = file
  <2>1. Selected = [epoch |-> replica.epoch, edits |-> replica.edits]
    BY <1>2 DEF Selected
  <2>2. TextOf(Selected) = file
    BY <1>2, <2>1 DEF TextOf
  <2> QED BY <1>1, <1>2, <2>1, <2>2, SelectedTypes
<1>3. CASE replica.acl = acl /\ TextOf(replica) # file /\ replica.previous.epoch # 0
           /\ TextOf(replica.previous) = file
  <2>1. Selected = replica.previous /\ replica.previous.epoch = replica.epoch
    BY <1>1, <1>3 DEF Selected, NoCopy
  <2> QED BY <1>1, <1>3, <2>1, SelectedTypes
<1>4. CASE Selected = NoCopy
  BY <1>4, SelectedTypes DEF NoCopy, OfEpoch
<1> QED BY <1>2, <1>3, <1>4 DEF Selected

LEMMA ServerScope ==
  ASSUME TypeOK, TypeOK', KeepInv, [Next]_vars, Grows
  PROVE  ScopeOfServer'
<1>1. ScopeOfServer /\ Len(root) \in Nat /\ Len(edit) \in Nat
  BY DEF TypeOK, KeepInv, ScopeInv
<1>2. ASSUME UNCHANGED <<edit, root, replica>> PROVE ScopeOfServer'
  BY <1>1, <1>2 DEF ScopeOfServer, OfEpoch
<1>3. ASSUME NEW c \in Member, Type(c) PROVE ScopeOfServer'
  <2>1. state[c].epoch \in 1..Len(root)
    BY <1>3, EditorHas DEF KeepInv, Type, States, ScopeOfState, ScopeInv
  <2>2. \A n \in 1..Len(edit') : edit'[n].epoch \in 1..Len(root)
    BY <1>1, <1>3, <2>1 DEF TypeOK, Type, ScopeOfServer
  <2>3. /\ replica.edits \in EditSet /\ replica.previous.edits \in EditSet
        /\ \A e \in 1..Len(root) : root[e].edits \in EditSet
    <3>1. root \in Seq(Texts) /\ replica.previous \in Copies /\ replica.edits \in EditSet
      BY DEF TypeOK
    <3>2. \A e \in 1..Len(root) : root[e] \in Texts
      BY <3>1
    <3> QED BY <3>1, <3>2 DEF Copies, Texts
  <2>4. /\ OfEpoch(replica.epoch, replica.edits)' /\ OfEpoch(replica.epoch, replica.previous.edits)'
        /\ \A e \in 1..Len(root) : \A n \in root[e].edits : edit'[n].epoch < e
    BY <1>1, <1>3, <2>3 DEF Grows, OfEpoch, EditSet, ScopeOfServer, Type, disk
  <2> QED BY <1>1, <1>3, <2>2, <2>4 DEF ScopeOfServer, Type, disk
<1>4. ASSUME NEW r \in requests, Starts(r) PROVE ScopeOfServer'
  <2> DEFINE copy == Selected
             epoch == IF copy.epoch # 0 THEN copy.epoch ELSE Len(root) + 1
  <2>1. /\ copy \in Copies /\ (copy.epoch = 0 => copy = NoCopy) /\ OfEpoch(copy.epoch, copy.edits)
        /\ copy.epoch # 0 => copy.epoch \in 1..Len(root)
    BY SelectedIs
  <2>2. /\ root' = IF copy.epoch # 0 THEN root ELSE Append(root, file)
        /\ replica' = Saves(epoch, copy.edits \cup r.update, copy) /\ edit' = edit
        /\ ~Replaced(r, epoch)
    BY <1>4 DEF Starts
  <2>3. epoch \in 1..Len(root') /\ Len(root') \in Nat /\ Len(root) <= Len(root')
    BY <1>1, <2>1, <2>2 DEF TypeOK
  <2>4. ScopeOfCall(r) /\ r \in Requests
    BY DEF KeepInv, ScopeInv, TypeOK
  <2>5. OfEpoch(epoch, copy.edits) /\ OfEpoch(epoch, r.update)
    <3>1. OfEpoch(epoch, copy.edits)
      BY <2>1 DEF OfEpoch, NoCopy
    <3>2. r.epoch = 0 => r.update = {}
      BY <1>1, <2>4 DEF ScopeOfCall, OfEpoch, ScopeOfServer, Requests, EditSet
    <3> HIDE DEF copy, epoch
    <3> QED BY <2>2, <2>4, <3>1, <3>2 DEF Replaced, ScopeOfCall, OfEpoch
  <2>6. \A n \in 1..Len(edit') : edit'[n].epoch \in 1..Len(root')
    BY <1>1, <2>2, <2>3 DEF ScopeOfServer
  <2>7. \A e \in 1..Len(root') : \A n \in root'[e].edits : edit'[n].epoch < e
    <3>1. root \in Seq(Texts) /\ \A n \in file.edits : edit[n].epoch < Len(root) + 1
      <4>1. root \in Seq(Texts) /\ file.edits \subseteq 1..Len(edit)
        BY DEF TypeOK, Texts, EditSet
      <4>2. ASSUME NEW n \in file.edits PROVE edit[n].epoch < Len(root) + 1
        <5>1. edit[n].epoch \in 1..Len(root)
          BY <1>1, <4>1 DEF ScopeOfServer
        <5> QED BY <1>1, <5>1
      <4> QED BY <4>1, <4>2
    <3>2. \A e \in 1..Len(root) : Append(root, file)[e] = root[e]
      BY <3>1
    <3>3. Len(Append(root, file)) = Len(root) + 1 /\ Append(root, file)[Len(root) + 1] = file
      BY <3>1 DEF TypeOK
    <3> HIDE DEF copy, epoch
    <3>4. CASE root' = root
      BY <1>1, <2>2, <3>4 DEF ScopeOfServer
    <3>5. CASE root' = Append(root, file)
      <4>1. ASSUME NEW e \in 1..Len(root') PROVE e = Len(root) + 1 \/ e \in 1..Len(root)
        BY <1>1, <3>3, <3>5
      <4> QED BY <1>1, <2>2, <3>1, <3>2, <3>3, <3>5, <4>1 DEF ScopeOfServer
    <3> QED BY <2>2, <3>4, <3>5
  <2>8. copy = NoCopy \/ copy.epoch = epoch
    BY <2>1
  <2> HIDE DEF copy, epoch
  <2>9. replica'.epoch = epoch /\ replica'.edits = copy.edits \cup r.update /\ replica'.previous = copy
    BY <2>2 DEF Saves
  <2>10. OfEpoch(epoch, copy.edits \cup r.update) /\ epoch # 0
    BY <2>3, <2>5 DEF OfEpoch
  <2>11. replica'.epoch \in 0..Len(root') /\ replica'.epoch # 0
    BY <2>3, <2>9
  <2>12. replica'.previous = NoCopy \/ replica'.previous.epoch = replica'.epoch
    BY <2>8, <2>9
  <2>13. OfEpoch(replica.epoch, replica.edits)' /\ OfEpoch(replica.epoch, replica.previous.edits)'
    BY <2>2, <2>5, <2>9, <2>10 DEF OfEpoch
  <2> QED BY <2>6, <2>7, <2>11, <2>12, <2>13 DEF ScopeOfServer, NoCopy
<1>5. ASSUME NEW c \in Member, Editor(c) PROVE UNCHANGED <<edit, root, replica>>
  BY <1>5, EditorDisk DEF disk
<1>6. ASSUME NEW c \in Member, Leave(c) \/ Reload(c) \/ Revoke(c) \/ Timeout(c) \/ Reconnect(c)
      PROVE  UNCHANGED <<edit, root, replica>>
  BY <1>6 DEF Leave, Reload, Revoke, Change, Timeout, Reconnect, disk
<1>7. ASSUME Commit \/ CommitFails \/ Restart \/ Replace \/ Restore \/ ChangeVisibility
      PROVE  UNCHANGED <<edit, root, replica>>
  BY <1>7 DEF Commit, CommitFails, Restart, Replace, Restore, ChangeVisibility, Change, disk
<1>8. ASSUME NEW r \in requests, TextSync(r) PROVE ScopeOfServer'
  BY <1>2, <1>4, <1>8, TextSyncDoes DEF Refuses, disk
<1>9. CASE UNCHANGED vars
  BY <1>2, <1>9 DEF vars, disk
<1>10. CASE \E c \in Member : Editor(c)
  BY <1>2, <1>5, <1>10
<1>11. CASE Serve
  BY <1>2, <1>7, <1>8, <1>11 DEF Serve
<1>12. CASE Environment
  BY <1>2, <1>3, <1>6, <1>7, <1>12 DEF Environment
<1> QED BY <1>9, <1>10, <1>11, <1>12 DEF Next

LEMMA ScopeKept == ASSUME TypeOK, TypeOK', KeepInv, [Next]_vars PROVE ScopeInv'
<1>1. Grows
  BY StepGrows
<1>2. /\ Len(root) \in Nat /\ Len(root') \in Nat /\ Len(root) <= Len(root') /\ ScopeInv
      /\ \A r \in Requests : ScopeOfCall(r) => ScopeOfCall(r)'
  <2>1. Len(root) \in Nat /\ Len(root') \in Nat /\ Len(root) <= Len(root') /\ ScopeInv
    BY <1>1 DEF TypeOK, Grows, KeepInv
  <2>2. \A r \in Requests : ScopeOfCall(r) => ScopeOfCall(r)'
    BY <1>1, ScopeStays
  <2> QED BY <2>1, <2>2
<1>3. ASSUME NEW r \in requests' PROVE ScopeOfCall(r)'
  <2>1. ASSUME NEW q \in requests, SameCall(r, q) PROVE ScopeOfCall(r)'
    <3>1. ScopeOfCall(q)' /\ q \in Requests
      BY <1>2 DEF TypeOK, ScopeInv
    <3> QED BY <2>1, <3>1 DEF ScopeOfCall, OfEpoch, SameCall
  <2>2. ASSUME NEW c \in Member, Calls(c, r) PROVE ScopeOfCall(r)'
    <3>1. /\ state[c] \in States /\ state[c].epoch <= Len(root)
          /\ OfEpoch(state[c].epoch, state[c].inFlight)
      BY <1>2, EditorHas DEF ScopeOfState, Own, OfEpoch
    <3>2. r.update = {} \/ (r.epoch = state[c].epoch /\ r.update = state[c].inFlight)
      BY <2>2 DEF Calls, Request
    <3>3. \A n \in state[c].inFlight : edit'[n].epoch = state[c].epoch
      BY <1>1, <3>1 DEF OfEpoch, Grows, States, EditSet
    <3>4. OfEpoch(r.epoch, r.update)'
      BY <3>2, <3>3 DEF OfEpoch
    <3>5. r.epoch \in {0, state[c].epoch} /\ (r.kind = "open" => r.epoch = 0) /\ (r.kind # "edit" => r.update = {})
      BY <2>2 DEF Calls, Request
    <3> QED BY <1>2, <3>1, <3>4, <3>5 DEF ScopeOfCall, States
  <2> QED BY <2>1, <2>2, StepCalls DEF CallsFollow
<1>4. ASSUME NEW r \in replies', r.status = "ok" PROVE r.epoch \in 1..Len(root')
  <2>1. ASSUME NEW q \in requests, Answers(q, r) PROVE r.epoch \in 1..Len(root)
    BY <2>1, StartedText DEF Answers, KeepInv
  <2>2. r \in replies => r.epoch \in 1..Len(root)
    BY <1>2, <1>4 DEF ScopeInv
  <2> QED BY <1>2, <1>4, <2>1, <2>2, StepReplies DEF RepliesFollow
<1>5. ASSUME NEW c \in Member, NEW k \in 1..Len(events'[c]), events'[c][k].kind = "text"
      PROVE  events'[c][k].epoch \in 1..Len(root')
  <2>1. events'[c][k] # SyncEvent
    BY <1>5 DEF SyncEvent
  <2>2. ASSUME NEW i \in 1..Len(events[c]), events'[c][k] = events[c][i]
        PROVE  events'[c][k].epoch \in 1..Len(root)
    BY <1>2, <1>5, <2>2 DEF ScopeInv
  <2>3. ASSUME events'[c][k] = LiveEvent, Writes PROVE events'[c][k].epoch \in 1..Len(root)
    BY <2>3, StartedText DEF LiveEvent, Writes, KeepInv
  <2> QED BY <1>2, <2>1, <2>2, <2>3, StepEvents DEF EventsFollow
<1>6. ASSUME NEW c \in Member PROVE ScopeOfState(state[c])' /\ ScopeOfJournal(journal[c])'
  BY <1>1, StatesScope
<1>7. ScopeOfServer'
  BY <1>1, ServerScope
<1> QED BY <1>3, <1>4, <1>5, <1>6, <1>7 DEF ScopeInv

-----------------------------------------------------------------------------
(* Calls and their answers.                                                *)

\* Calls and answers go, and the editor waits as before.
LEMMA CallsGo ==
  ASSUME NEW c \in Member, NEW kind \in AllKinds, OneCall(c, kind),
         CallsOf(c, kind)' \subseteq CallsOf(c, kind), AnswersTo(c, kind)' \subseteq AnswersTo(c, kind),
         \/ CallsOf(c, kind)' = {} /\ AnswersTo(c, kind)' = {}
         \/ /\ Awaits(state[c], kind) => Awaits(state'[c], kind)
            /\ state'[c].epoch = state[c].epoch
            /\ kind = "edit" => state'[c].inFlight = state[c].inFlight
  PROVE  OneCall(c, kind)'
<1>1. Awaits(state[c], kind)' = Awaits(state'[c], kind)
  BY DEF Awaits
<1> DEFINE C == CallsOf(c, kind)'
           A == AnswersTo(c, kind)'
<1>2. /\ C \cup A # {} => Awaits(state[c], kind)
      /\ \A r, q \in C : r = q
      /\ \A r, q \in A : r = q
      /\ C = {} \/ A = {}
  BY DEF OneCall
<1>3. /\ \A r \in C : r.epoch = state'[c].epoch /\ (kind = "edit" => r.update = state'[c].inFlight)
      /\ \A r \in A : r.status = "ok" =>
           /\ kind # "open" => r.epoch = state'[c].epoch
           /\ kind = "edit" => state'[c].inFlight \subseteq r.edits
  BY DEF OneCall
<1>4. C \cup A # {} => Awaits(state'[c], kind)
  BY <1>2
<1> QED BY <1>1, <1>2, <1>3, <1>4 DEF OneCall

\* An editor makes a call that it was not waiting for.
LEMMA CallMade ==
  ASSUME NEW c \in Member, NEW kind \in AllKinds, OneCall(c, kind), ~Awaits(state[c], kind),
         NEW r, r.epoch = state'[c].epoch, kind = "edit" => r.update = state'[c].inFlight,
         requests' = requests \cup {r}, replies' = replies, Awaits(state'[c], kind)
  PROVE  OneCall(c, kind)'
<1>1. CallsOf(c, kind)' \subseteq {r} /\ AnswersTo(c, kind)' = {}
  BY DEF OneCall, CallsOf, AnswersTo
<1>2. Awaits(state[c], kind)' = Awaits(state'[c], kind)
  BY DEF Awaits
<1> QED BY <1>1, <1>2 DEF OneCall

\* Nothing is under way or answered, as when the editor has started again.
LEMMA NoCall ==
  ASSUME NEW c \in Member, NEW kind \in AllKinds, CallsOf(c, kind)' = {}, AnswersTo(c, kind)' = {}
  PROVE  OneCall(c, kind)'
BY DEF OneCall

\* The answer to a call of send leaves the state to be written.
LEMMA AnswerKept ==
  ASSUME TypeOK, NEW c \in Member, Acknowledged(c) \/ Rejected(c)
  PROVE  \E s \in States, at \in Bound \ {"archiving", "saving", "calling"} :
           /\ state[c].at = "calling" /\ s.epoch = state[c].epoch /\ s.refresh = state[c].refresh
           /\ s.inFlight = {}
           /\ state' = [state EXCEPT ![c] = Persist(s, at)]
<1>1. CASE Acknowledged(c)
  <2>1. PICK r \in replies : Acknowledged(c)!(r)
    BY <1>1, Zenon DEF Acknowledged
  <2> DEFINE s == [state[c] EXCEPT !.doc = @ \cup r.edits, !.inFlight = {}, !.missed = FALSE]
  <2>2. state[c] \in States /\ r \in Replies
    BY DEF TypeOK
  <2>3. /\ s \in States /\ s.epoch = state[c].epoch /\ s.refresh = state[c].refresh /\ s.inFlight = {}
        /\ "acked" \in Bound \ {"archiving", "saving", "calling"}
    BY <2>1, <2>2 DEF States, Replies, EditSet, Bound
  <2>4. state' = [state EXCEPT ![c] = Persist(s, "acked")] /\ state[c].at = "calling"
    BY <2>1
  <2> HIDE DEF s
  <2> QED BY <2>3, <2>4
<1>2. CASE Rejected(c)
  <2>1. PICK r \in replies : Rejected(c)!(r)
    BY <1>2, Zenon DEF Rejected
  <2> DEFINE s == [state[c] EXCEPT !.pending = @ \cup state[c].inFlight, !.inFlight = {}]
             at == IF r.status = "failed" THEN "failed" ELSE "refused"
  <2>2. state[c] \in States /\ r \in Replies
    BY DEF TypeOK
  <2>3. /\ s \in States /\ s.epoch = state[c].epoch /\ s.refresh = state[c].refresh /\ s.inFlight = {}
        /\ at \in Bound \ {"archiving", "saving", "calling"}
    BY <2>1, <2>2 DEF States, EditSet, Bound
  <2>4. state' = [state EXCEPT ![c] = Persist(s, at)] /\ state[c].at = "calling"
    BY <2>1
  <2> HIDE DEF s, at
  <2> QED BY <2>3, <2>4
<1> QED BY <1>1, <1>2

\* An editor takes an answer off the way.
LEMMA AnswerTaken ==
  ASSUME NEW c \in Member, NEW kind \in AllKinds,
         \/ kind = "open" /\ (Opened(c) \/ OpenFailed(c))
         \/ kind = "edit" /\ (Acknowledged(c) \/ Rejected(c))
         \/ kind = "refresh" /\ Refreshed(c)
  PROVE  \E r \in AnswersTo(c, kind) : replies' = replies \ {r} /\ requests' = requests
<1> USE DEF AnswersTo
<1>1. CASE kind = "open" /\ Opened(c)
  <2>1. PICK r \in replies : Opened(c)!(r)
    BY <1>1, Zenon DEF Opened
  <2>2. r \in AnswersTo(c, kind) /\ replies' = replies \ {r} /\ requests' = requests
    BY <1>1, <2>1
  <2> QED BY <2>2
<1>2. CASE kind = "open" /\ OpenFailed(c)
  <2>1. PICK r \in replies : OpenFailed(c)!(r)
    BY <1>2, Zenon DEF OpenFailed
  <2>2. r \in AnswersTo(c, kind) /\ replies' = replies \ {r} /\ requests' = requests
    BY <1>2, <2>1
  <2> QED BY <2>2
<1>3. CASE kind = "edit" /\ Acknowledged(c)
  <2>1. PICK r \in replies : Acknowledged(c)!(r)
    BY <1>3, Zenon DEF Acknowledged
  <2>2. r \in AnswersTo(c, kind) /\ replies' = replies \ {r} /\ requests' = requests
    BY <1>3, <2>1
  <2> QED BY <2>2
<1>4. CASE kind = "edit" /\ Rejected(c)
  <2>1. PICK r \in replies : Rejected(c)!(r)
    BY <1>4, Zenon DEF Rejected
  <2>2. r \in AnswersTo(c, kind) /\ replies' = replies \ {r} /\ requests' = requests
    BY <1>4, <2>1
  <2> QED BY <2>2
<1>5. CASE kind = "refresh" /\ Refreshed(c)
  <2>1. PICK r \in replies : Refreshed(c)!(r)
    BY <1>5, Zenon DEF Refreshed
  <2>2. r \in AnswersTo(c, kind) /\ replies' = replies \ {r} /\ requests' = requests
    BY <1>5, <2>1
  <2> QED BY <2>2
<1> QED BY <1>1, <1>2, <1>3, <1>4, <1>5

LEMMA OtherCalls ==
  ASSUME TypeOK, NEW c \in Member, EditorActs(c), NEW d \in Member \ {c}, NEW kind \in AllKinds
  PROVE  CallsOf(d, kind)' \subseteq CallsOf(d, kind) /\ AnswersTo(d, kind)' \subseteq AnswersTo(d, kind)
<1> USE DEF CallsOf, AnswersTo
<1>1. ASSUME NEW kinds, Forget(c, kinds)
      PROVE  CallsOf(d, kind)' \subseteq CallsOf(d, kind) /\ AnswersTo(d, kind)' \subseteq AnswersTo(d, kind)
  <2>1. ASSUME NEW r \in requests', r.from = d PROVE r \in requests
    <3>1. PICK q \in requests : r = IF q.from = c /\ q.kind \in kinds THEN [q EXCEPT !.live = FALSE] ELSE q
      BY <1>1 DEF Forget
    <3>2. q \in Requests
      BY DEF TypeOK
    <3> QED BY <2>1, <3>1, <3>2 DEF Requests
  <2> QED BY <1>1, <2>1 DEF Forget
<1>2. CASE Leave(c) \/ Reload(c) \/ Archived(c)
  BY <1>1, <1>2 DEF Leave, Reload, Archived
<1>3. CASE Receive(c)
  BY <1>1, <1>3 DEF Receive
<1>4. CASE Open(c) \/ Saved(c) \/ Refresh(c)
  <2>1. PICK r : r.from = c /\ requests' = requests \cup {r} /\ replies' = replies
    BY <1>4 DEF Open, Saved, Refresh, Request
  <2> QED BY <2>1
<1>5. CASE Opened(c) \/ OpenFailed(c) \/ Acknowledged(c) \/ Rejected(c) \/ Refreshed(c)
  BY <1>5, AnswerTaken DEF AllKinds
<1>6. CASE Send(c) \/ Settled(c) \/ Failed(c) \/ Refused(c) \/ Type(c)
  BY <1>6 DEF Send, Settled, Failed, Refused, Type, net
<1> QED BY <1>2, <1>3, <1>4, <1>5, <1>6 DEF EditorActs, Editor

\* What an editor does to its own calls when it opens the document.
LEMMA OpensCalls ==
  ASSUME TypeOK, KeepInv, NEW c \in Member, Open(c) \/ Opened(c) \/ OpenFailed(c), NEW kind \in AllKinds
  PROVE  OneCall(c, kind)'
<1>1. /\ state[c] \in States /\ ScopeOfState(state[c]) /\ OneCall(c, kind)
      /\ state[c].epoch = 0 <=> state[c].at \notin Bound
  BY EditorHas DEF KeepInv, CallInv
<1>2. CASE Open(c)
  <2>1. /\ state[c].at = "closed" /\ state[c].epoch = 0 /\ state'[c].at = "opening"
        /\ state'[c].epoch = 0 /\ state'[c].inFlight = state[c].inFlight
        /\ state'[c].refresh = state[c].refresh
        /\ requests' = requests \cup {Request(c, "open", 0, {})} /\ replies' = replies
    BY <1>1, <1>2 DEF Open, TypeOK, States, Bound
  <2>2. CASE kind = "open"
    BY <1>1, <2>1, <2>2, CallMade DEF Awaits, Request
  <2>3. CASE kind # "open"
    <3>1. CallsOf(c, kind)' \subseteq CallsOf(c, kind) /\ AnswersTo(c, kind)' \subseteq AnswersTo(c, kind)
      BY <2>1, <2>3 DEF CallsOf, AnswersTo, Request
    <3>2. Awaits(state[c], kind) => Awaits(state'[c], kind)
      BY <2>1, <2>3 DEF Awaits, AllKinds
    <3> QED BY <1>1, <2>1, <3>1, <3>2, CallsGo
  <2> QED BY <2>2, <2>3
<1>3. CASE Opened(c) \/ OpenFailed(c)
  <2>1. PICK r \in AnswersTo(c, "open") : replies' = replies \ {r} /\ requests' = requests
    BY <1>3, AnswerTaken DEF AllKinds
  <2>2. /\ OneCall(c, "open") /\ Awaits(state[c], "open")
    BY <2>1 DEF KeepInv, CallInv, OneCall, AllKinds
  <2>3. CASE kind = "open"
    <3>1. CallsOf(c, "open") = {} /\ \A q \in AnswersTo(c, "open") : q = r
      BY <2>1, <2>2 DEF OneCall
    <3>2. CallsOf(c, "open")' = {} /\ AnswersTo(c, "open")' = {}
      BY <2>1, <3>1 DEF CallsOf, AnswersTo
    <3> QED BY <2>3, <3>2, NoCall
  <2>4. CASE kind # "open"
    <3>1. ~Awaits(state[c], kind)
      BY <1>1, <2>2, <2>4 DEF Awaits, AllKinds, ScopeOfState
    <3>2. CallsOf(c, kind) = {} /\ AnswersTo(c, kind) = {}
      BY <1>1, <3>1 DEF OneCall
    <3>3. CallsOf(c, kind)' = {} /\ AnswersTo(c, kind)' = {}
      BY <2>1, <3>2 DEF CallsOf, AnswersTo
    <3> QED BY <3>3, NoCall
  <2> QED BY <2>3, <2>4
<1> QED BY <1>2, <1>3

LEMMA ForgetCalls ==
  ASSUME TypeOK, NEW c \in Member, NEW kinds, Forget(c, kinds), NEW kind \in AllKinds
  PROVE  /\ kind \in kinds => CallsOf(c, kind)' = {} /\ AnswersTo(c, kind)' = {}
         /\ CallsOf(c, kind)' \subseteq CallsOf(c, kind) /\ AnswersTo(c, kind)' \subseteq AnswersTo(c, kind)
<1> USE DEF CallsOf, AnswersTo
<1>1. ASSUME NEW r \in requests', r.live PROVE r \in requests /\ ~(r.from = c /\ r.kind \in kinds)
  <2>1. PICK q \in requests : r = IF q.from = c /\ q.kind \in kinds THEN [q EXCEPT !.live = FALSE] ELSE q
    BY DEF Forget
  <2>2. q \in Requests
    BY DEF TypeOK
  <2> QED BY <1>1, <2>1, <2>2 DEF Requests
<1>2. /\ replies' \subseteq replies
      /\ \A r \in replies' : ~(r.to = c /\ r.kind \in kinds)
  BY DEF Forget
<1> QED BY <1>1, <1>2

\* The actions of an editor that make no call.
LEMMA RestCalls ==
  ASSUME TypeOK, KeepInv, NEW c \in Member, NEW kind \in AllKinds,
         Type(c) \/ Send(c) \/ Settled(c) \/ Failed(c) \/ Refused(c)
  PROVE  OneCall(c, kind)'
<1>1. /\ state[c] \in States /\ ScopeOfState(state[c]) /\ OneCall(c, kind)
  BY EditorHas DEF KeepInv, CallInv
<1>2. CallsOf(c, kind)' = CallsOf(c, kind) /\ AnswersTo(c, kind)' = AnswersTo(c, kind)
  BY DEF Type, Send, Settled, Failed, Refused, net, CallsOf, AnswersTo
<1>3. CASE Send(c)
  <2>1. /\ state[c].at = "idle" /\ state'[c].epoch = state[c].epoch /\ state'[c].refresh = state[c].refresh
    BY <1>1, <1>3 DEF Send, Persist, States, TypeOK
  <2>2. CASE kind = "refresh"
    BY <1>1, <1>2, <2>1, <2>2, CallsGo DEF Awaits
  <2>3. CASE kind # "refresh"
    <3>1. ~Awaits(state[c], kind)
      BY <2>1, <2>3 DEF Awaits, AllKinds
    <3> QED BY <1>1, <1>2, <3>1, NoCall DEF OneCall
  <2> QED BY <2>2, <2>3
<1>4. CASE ~Send(c)
  <2>1. /\ state'[c].epoch = state[c].epoch /\ state'[c].inFlight = state[c].inFlight
        /\ state'[c].refresh = "calling" <=> state[c].refresh = "calling"
    <3>1. CASE Type(c)
      BY <1>1, <3>1 DEF Type, States, TypeOK
    <3>2. CASE Settled(c)
      BY <1>1, <3>2 DEF Settled, States, TypeOK
    <3>3. CASE Failed(c)
      BY <1>1, <3>3 DEF Failed, States, TypeOK
    <3>4. CASE Refused(c)
      BY <1>1, <3>4 DEF Refused, Persist, States, TypeOK
    <3> QED BY <1>4, <3>1, <3>2, <3>3, <3>4
  <2>2. state[c].at \in {"binding", "acked", "failed", "refused"} \/ state'[c].at = state[c].at
    BY <1>1, <1>4 DEF Type, Settled, Failed, Refused, States, TypeOK
  <2>3. Awaits(state[c], kind) => Awaits(state'[c], kind)
    BY <2>1, <2>2 DEF Awaits, AllKinds
  <2> QED BY <1>1, <1>2, <2>1, <2>3, CallsGo
<1> QED BY <1>3, <1>4

LEMMA SendsCalls ==
  ASSUME TypeOK, KeepInv, NEW c \in Member, NEW kind \in AllKinds,
         Saved(c) \/ Archived(c) \/ Acknowledged(c) \/ Rejected(c) \/ Leave(c) \/ Reload(c)
  PROVE  OneCall(c, kind)'
<1>1. /\ state[c] \in States /\ ScopeOfState(state[c]) /\ OneCall(c, kind)
  BY EditorHas DEF KeepInv, CallInv
<1>2. CASE Archived(c) \/ Leave(c) \/ Reload(c)
  BY <1>2, ForgetCalls, NoCall DEF Archived, Leave, Reload
<1>3. CASE Saved(c)
  <2>1. /\ state[c].at = "saving" /\ state'[c] = [state[c] EXCEPT !.at = "calling"]
        /\ requests' = requests \cup {Request(c, "edit", state[c].epoch, state[c].inFlight)}
        /\ replies' = replies
    BY <1>3 DEF Saved, TypeOK
  <2>2. /\ state'[c].at = "calling" /\ state'[c].epoch = state[c].epoch
        /\ state'[c].inFlight = state[c].inFlight /\ state'[c].refresh = state[c].refresh
    BY <1>1, <2>1 DEF States
  <2>3. CASE kind = "edit"
    BY <1>1, <2>1, <2>2, <2>3, CallMade DEF Awaits, Request
  <2>4. CASE kind # "edit"
    <3>1. CallsOf(c, kind)' \subseteq CallsOf(c, kind) /\ AnswersTo(c, kind)' \subseteq AnswersTo(c, kind)
      BY <2>1, <2>4 DEF CallsOf, AnswersTo, Request
    <3>2. Awaits(state[c], kind) => Awaits(state'[c], kind)
      BY <2>1, <2>2, <2>4 DEF Awaits, AllKinds
    <3> QED BY <1>1, <2>2, <3>1, <3>2, CallsGo
  <2> QED BY <2>3, <2>4
<1>4. CASE Acknowledged(c) \/ Rejected(c)
  <2>1. PICK r \in AnswersTo(c, "edit") : replies' = replies \ {r} /\ requests' = requests
    BY <1>4, AnswerTaken DEF AllKinds
  <2>2. /\ state[c].at = "calling" /\ state'[c].epoch = state[c].epoch
        /\ state'[c].refresh = state[c].refresh
    <3>1. PICK s \in States, at \in Bound :
            /\ state[c].at = "calling" /\ s.epoch = state[c].epoch /\ s.refresh = state[c].refresh
            /\ state' = [state EXCEPT ![c] = Persist(s, at)]
      BY <1>1, <1>4, AnswerKept
    <3> QED BY <3>1 DEF Persist, States, TypeOK
  <2>3. CASE kind = "edit"
    <3>1. CallsOf(c, "edit") = {} /\ \A q \in AnswersTo(c, "edit") : q = r
      BY <1>1, <2>1, <2>3 DEF OneCall
    <3>2. CallsOf(c, "edit")' = {} /\ AnswersTo(c, "edit")' = {}
      BY <2>1, <3>1 DEF CallsOf, AnswersTo
    <3> QED BY <2>3, <3>2, NoCall
  <2>4. CASE kind # "edit"
    <3>1. CallsOf(c, kind)' \subseteq CallsOf(c, kind) /\ AnswersTo(c, kind)' \subseteq AnswersTo(c, kind)
      BY <2>1 DEF CallsOf, AnswersTo
    <3>2. Awaits(state[c], kind) => Awaits(state'[c], kind)
      BY <2>2, <2>4 DEF Awaits, AllKinds
    <3> QED BY <1>1, <2>2, <2>4, <3>1, <3>2, CallsGo
  <2> QED BY <2>3, <2>4
<1> QED BY <1>2, <1>3, <1>4

LEMMA HearsCalls ==
  ASSUME TypeOK, KeepInv, NEW c \in Member, NEW kind \in AllKinds,
         Receive(c) \/ Refresh(c) \/ Refreshed(c)
  PROVE  OneCall(c, kind)'
<1>1. /\ state[c] \in States /\ ScopeOfState(state[c]) /\ OneCall(c, kind)
      /\ state[c].epoch = 0 <=> state[c].at \notin Bound
  BY EditorHas DEF KeepInv, CallInv
<1>2. CASE Receive(c)
  <2>1. /\ state'[c].at = state[c].at /\ state'[c].epoch = state[c].epoch
        /\ state'[c].inFlight = state[c].inFlight
    BY <1>1, <1>2 DEF Receive, States, TypeOK
  <2>2. CASE Forget(c, {"refresh"})
    <3>1. CASE kind = "refresh"
      BY <2>2, <3>1, ForgetCalls, NoCall
    <3>2. CASE kind # "refresh"
      <4>1. Awaits(state[c], kind) => Awaits(state'[c], kind)
        BY <2>1, <3>2 DEF Awaits, AllKinds
      <4> QED BY <1>1, <2>1, <2>2, <4>1, ForgetCalls, CallsGo
    <3> QED BY <3>1, <3>2
  <2>3. CASE requests' = requests /\ replies' = replies /\ state'[c].refresh = state[c].refresh
    <3>1. Awaits(state[c], kind) => Awaits(state'[c], kind)
      BY <2>1, <2>3 DEF Awaits, AllKinds
    <3>2. CallsOf(c, kind)' = CallsOf(c, kind) /\ AnswersTo(c, kind)' = AnswersTo(c, kind)
      BY <2>3 DEF CallsOf, AnswersTo
    <3> QED BY <1>1, <2>1, <3>1, <3>2, CallsGo
  <2>4. Forget(c, {"refresh"}) \/ (requests' = requests /\ replies' = replies
                                   /\ state'[c].refresh = state[c].refresh)
    BY <1>1, <1>2 DEF Receive, States, TypeOK
  <2> QED BY <2>2, <2>3, <2>4
<1>3. CASE Refresh(c)
  <2>1. /\ state[c].refresh = "wanted" /\ state'[c] = [state[c] EXCEPT !.refresh = "calling"]
        /\ requests' = requests \cup {Request(c, "refresh", state[c].epoch, {})} /\ replies' = replies
    BY <1>3 DEF Refresh, TypeOK
  <2>2. /\ state'[c].at = state[c].at /\ state'[c].epoch = state[c].epoch
        /\ state'[c].inFlight = state[c].inFlight /\ state'[c].refresh = "calling"
    BY <1>1, <2>1 DEF States
  <2>3. CASE kind = "refresh"
    BY <1>1, <2>1, <2>2, <2>3, CallMade DEF Awaits, Request
  <2>4. CASE kind # "refresh"
    <3>1. CallsOf(c, kind)' \subseteq CallsOf(c, kind) /\ AnswersTo(c, kind)' \subseteq AnswersTo(c, kind)
      BY <2>1, <2>4 DEF CallsOf, AnswersTo, Request
    <3>2. Awaits(state[c], kind) => Awaits(state'[c], kind)
      BY <2>2, <2>4 DEF Awaits, AllKinds
    <3> QED BY <1>1, <2>2, <3>1, <3>2, CallsGo
  <2> QED BY <2>3, <2>4
<1>4. CASE Refreshed(c)
  <2>1. PICK r \in AnswersTo(c, "refresh") : replies' = replies \ {r} /\ requests' = requests
    BY <1>4, AnswerTaken DEF AllKinds
  <2>2. /\ state'[c].epoch = state[c].epoch /\ state'[c].inFlight = state[c].inFlight
        /\ state[c].refresh = "calling" /\ state'[c].at \in {state[c].at, "archiving"}
    <3>1. PICK q \in replies : Refreshed(c)!(q)
      BY <1>4, Zenon DEF Refreshed
    <3>2. state \in [Member -> States]
      BY DEF TypeOK
    <3>3. CASE state' = [state EXCEPT ![c] = [Persist(@, "archiving") EXCEPT !.refresh = "none"]]
      <4>1. state'[c] = [Persist(state[c], "archiving") EXCEPT !.refresh = "none"]
        BY <3>2, <3>3
      <4> QED BY <1>1, <3>1, <4>1 DEF States, Persist
    <3>4. CASE state' = [state EXCEPT ![c].refresh = "none", ![c].missed = TRUE]
      BY <1>1, <3>1, <3>2, <3>4 DEF States
    <3>5. CASE state' = [state EXCEPT ![c].doc = @ \cup q.edits, ![c].refresh = "none",
                            ![c].missed = FALSE]
      BY <1>1, <3>1, <3>2, <3>5 DEF States
    <3> QED BY <3>1, <3>3, <3>4, <3>5
  <2>3. CASE kind = "refresh"
    <3>1. CallsOf(c, "refresh") = {} /\ \A q \in AnswersTo(c, "refresh") : q = r
      BY <1>1, <2>1, <2>3 DEF OneCall
    <3>2. CallsOf(c, "refresh")' = {} /\ AnswersTo(c, "refresh")' = {}
      BY <2>1, <3>1 DEF CallsOf, AnswersTo
    <3> QED BY <2>3, <3>2, NoCall
  <2>4. CASE kind # "refresh"
    <3>1. CallsOf(c, kind)' \subseteq CallsOf(c, kind) /\ AnswersTo(c, kind)' \subseteq AnswersTo(c, kind)
      BY <2>1 DEF CallsOf, AnswersTo
    <3>2. Awaits(state[c], kind) => Awaits(state'[c], kind)
      BY <1>1, <2>2, <2>4 DEF Awaits, AllKinds, ScopeOfState
    <3> QED BY <1>1, <2>2, <3>1, <3>2, CallsGo
  <2> QED BY <2>3, <2>4
<1> QED BY <1>2, <1>3, <1>4

\* A call ends with an answer that fits it.
LEMMA CallEnds ==
  ASSUME TypeOK, KeepInv, NEW c \in Member, NEW kind \in AllKinds, UNCHANGED state,
         NEW r \in requests, NEW status, NEW epoch, NEW edits, Answer(r, status, epoch, edits),
         status = "ok" /\ r.live => /\ r.kind # "open" => epoch = state[r.from].epoch
                                    /\ r.kind = "edit" => r.update \subseteq edits
  PROVE  OneCall(c, kind)'
<1> USE DEF CallsOf, AnswersTo
<1> DEFINE answer == [to |-> r.from, kind |-> r.kind, status |-> status, epoch |-> epoch, edits |-> edits]
<1>1. OneCall(c, kind) /\ UNCHANGED state[c] /\ requests' = requests \ {r}
      /\ replies' = replies \cup IF r.live THEN {answer} ELSE {}
  BY DEF KeepInv, CallInv, Answer
<1>2. CASE r \notin CallsOf(c, kind)
  <2>1. CallsOf(c, kind)' \subseteq CallsOf(c, kind) /\ AnswersTo(c, kind)' \subseteq AnswersTo(c, kind)
    BY <1>1, <1>2
  <2> HIDE DEF CallsOf, AnswersTo
  <2> QED BY <1>1, <2>1, CallsGo
<1>3. CASE r \in CallsOf(c, kind)
  <2>1. /\ CallsOf(c, kind) = {r} /\ AnswersTo(c, kind) = {} /\ Awaits(state[c], kind)
        /\ kind = "edit" => r.update = state[c].inFlight
    BY <1>1, <1>3 DEF OneCall
  <2>2. CallsOf(c, kind)' = {}
    BY <1>1, <2>1
  <2>3. AnswersTo(c, kind)' = {answer}
    BY <1>1, <1>3, <2>1
  <2>4. Awaits(state[c], kind)' = Awaits(state[c], kind)
    BY <1>1 DEF Awaits
  <2>5. answer.status = "ok" =>
          /\ kind # "open" => answer.epoch = state[c].epoch
          /\ kind = "edit" => state[c].inFlight \subseteq answer.edits
    BY <1>3, <2>1
  <2> HIDE DEF answer, CallsOf, AnswersTo
  <2> QED BY <1>1, <2>1, <2>2, <2>3, <2>4, <2>5 DEF OneCall
<1> QED BY <1>2, <1>3

LEMMA ServerCalls ==
  ASSUME TypeOK, KeepInv, NEW c \in Member, NEW kind \in AllKinds, Serve \/ CommitFails
  PROVE  OneCall(c, kind)'
<1>1. ASSUME NEW r \in requests, Starts(r) PROVE OneCall(c, kind)'
  <2> USE DEF CallsOf, AnswersTo
  <2> DEFINE s == [r EXCEPT !.started = TRUE]
  <2>1. OneCall(c, kind) /\ UNCHANGED <<state, replies>> /\ requests' = (requests \ {r}) \cup {s}
    BY <1>1 DEF KeepInv, CallInv, Starts, client
  <2>2. /\ s.from = r.from /\ s.kind = r.kind /\ s.live = r.live /\ s.epoch = r.epoch
        /\ s.update = r.update
    BY DEF TypeOK, Requests
  <2> HIDE DEF s
  <2>3. AnswersTo(c, kind)' = AnswersTo(c, kind) /\ Awaits(state[c], kind)' = Awaits(state[c], kind)
        /\ state'[c] = state[c]
    BY <2>1 DEF Awaits
  <2>4. CASE r \notin CallsOf(c, kind)
    <3>1. CallsOf(c, kind)' \subseteq CallsOf(c, kind)
      BY <2>1, <2>2, <2>4
    <3> HIDE DEF CallsOf, AnswersTo
    <3> QED BY <2>1, <2>3, <3>1, CallsGo
  <2>5. CASE r \in CallsOf(c, kind)
    <3>1. /\ CallsOf(c, kind) = {r}
      BY <2>1, <2>5 DEF OneCall
    <3>2. CallsOf(c, kind)' = {s}
      BY <2>1, <2>2, <2>5, <3>1
    <3> HIDE DEF CallsOf, AnswersTo
    <3> QED BY <2>1, <2>2, <2>3, <3>1, <3>2 DEF OneCall
  <2> QED BY <2>4, <2>5
<1>2. ASSUME NEW r \in requests, Refuses(r) PROVE OneCall(c, kind)'
  <2>1. PICK status \in {"replaced", "refused"} : Answer(r, status, 0, {})
    BY <1>2 DEF Refuses
  <2> QED BY <1>2, <2>1, CallEnds DEF Refuses, client
<1>3. CASE Commit
  <2>1. PICK r \in requests : Commit!(r)
    BY <1>3 DEF Commit
  <2>2. /\ replica.epoch # 0 /\ r.epoch \in {0, replica.epoch} /\ r.update \subseteq replica.edits
    BY <2>1 DEF KeepInv, WriteInv
  <2>3. r.live => /\ r.kind # "open" => replica.epoch = state[r.from].epoch
                  /\ r.kind = "edit" => r.update \subseteq replica.edits
    <3>1. ASSUME r.live, r.kind # "open" PROVE replica.epoch = state[r.from].epoch
      <4>1. r \in Requests /\ r \in CallsOf(r.from, r.kind)
        BY <3>1 DEF TypeOK, CallsOf
      <4>2. r.from \in Member /\ r.kind \in AllKinds
        BY <4>1 DEF Requests
      <4>3. OneCall(r.from, r.kind) /\ ScopeOfState(state[r.from])
        BY <4>2 DEF KeepInv, CallInv, ScopeInv
      <4>4. r.epoch = state[r.from].epoch /\ Awaits(state[r.from], r.kind)
        BY <4>1, <4>3 DEF OneCall
      <4>5. state[r.from].epoch # 0
        BY <3>1, <4>2, <4>3, <4>4 DEF ScopeOfState, Awaits, AllKinds
      <4> QED BY <2>2, <4>4, <4>5
    <3> QED BY <2>2, <3>1
  <2> DEFINE epoch == replica.epoch
             edits == replica.edits
  <2>4. Answer(r, "ok", epoch, edits) /\ UNCHANGED state
    BY <2>1 DEF client
  <2>5. r.live => /\ r.kind # "open" => epoch = state[r.from].epoch
                  /\ r.kind = "edit" => r.update \subseteq edits
    BY <2>3
  <2> HIDE DEF epoch, edits
  <2> QED BY <2>4, <2>5, CallEnds
<1>4. CASE CommitFails
  <2>1. PICK r \in requests, status \in {"refused", "failed"} : CommitFails!(r, status)
    BY <1>4 DEF CommitFails
  <2> QED BY <2>1, CallEnds DEF client
<1> QED BY <1>1, <1>2, <1>3, <1>4, TextSyncDoes DEF Serve

LEMMA BreaksCalls ==
  ASSUME TypeOK, KeepInv, NEW c \in Member, NEW kind \in AllKinds,
         Restart \/ (\E d \in Member : Timeout(d))
  PROVE  OneCall(c, kind)'
<1> USE DEF CallsOf, AnswersTo
<1> DEFINE failed == [to |-> c, kind |-> kind, status |-> "failed", epoch |-> 0, edits |-> {}]
<1>1. OneCall(c, kind) /\ UNCHANGED state[c]
  BY DEF KeepInv, CallInv, Restart, Timeout, client
<1>2. ASSUME CallsOf(c, kind)' = {}, AnswersTo(c, kind)' = {failed}, Awaits(state[c], kind)
      PROVE  OneCall(c, kind)'
  <2>1. Awaits(state[c], kind)' = Awaits(state[c], kind) /\ failed.status = "failed"
    BY <1>1 DEF Awaits
  <2> HIDE DEF CallsOf, AnswersTo, failed
  <2> QED BY <1>2, <2>1 DEF OneCall
<1>3. ASSUME CallsOf(c, kind)' \subseteq CallsOf(c, kind), AnswersTo(c, kind)' \subseteq AnswersTo(c, kind)
      PROVE  OneCall(c, kind)'
  <2> HIDE DEF CallsOf, AnswersTo
  <2> QED BY <1>1, <1>3, CallsGo
<1>4. CASE Restart
  <2>1. /\ requests' = {}
        /\ replies' = replies \cup
             {[to |-> r.from, kind |-> r.kind, status |-> "failed", epoch |-> 0, edits |-> {}]
              : r \in {q \in requests : q.live}}
    BY <1>4 DEF Restart
  <2>2. CASE CallsOf(c, kind) = {}
    <3>1. AnswersTo(c, kind)' \subseteq AnswersTo(c, kind)
      <4>1. ASSUME NEW a \in replies', a.to = c, a.kind = kind, a \notin replies PROVE FALSE
        <5>1. PICK r \in requests : r.live /\ a = [to |-> r.from, kind |-> r.kind, status |-> "failed",
                                                   epoch |-> 0, edits |-> {}]
          BY <2>1, <4>1
        <5> QED BY <2>2, <4>1, <5>1
      <4> QED BY <4>1
    <3> QED BY <1>3, <2>1, <3>1
  <2>3. CASE CallsOf(c, kind) # {}
    <3>1. PICK r \in CallsOf(c, kind) : TRUE
      BY <2>3
    <3>2. CallsOf(c, kind) = {r} /\ AnswersTo(c, kind) = {} /\ Awaits(state[c], kind)
      BY <1>1, <3>1 DEF OneCall
    <3>3. failed \in AnswersTo(c, kind)'
      BY <2>1, <3>1
    <3>4. ASSUME NEW a \in replies', a.to = c, a.kind = kind PROVE a = failed
      <4>1. a \notin replies
        BY <3>2, <3>4
      <4>2. PICK q \in requests : q.live /\ a = [to |-> q.from, kind |-> q.kind, status |-> "failed",
                                                 epoch |-> 0, edits |-> {}]
        BY <2>1, <4>1
      <4> QED BY <3>4, <4>2
    <3>5. AnswersTo(c, kind)' = {failed}
      BY <3>3, <3>4
    <3> QED BY <1>2, <2>1, <3>2, <3>5
  <2> QED BY <2>2, <2>3
<1>5. ASSUME NEW d \in Member, Timeout(d) PROVE OneCall(c, kind)'
  <2>1. PICK k \in AllKinds : Timeout(d)!2!(k)
    BY <1>5 DEF Timeout
  <2>2. ASSUME NEW r \in requests', r.live PROVE r \in requests /\ ~(r.from = d /\ r.kind = k)
    <3>1. PICK q \in requests : r = IF q.from = d /\ q.kind = k THEN [q EXCEPT !.live = FALSE] ELSE q
      BY <2>1
    <3>2. q \in Requests
      BY DEF TypeOK
    <3> QED BY <2>2, <3>1, <3>2 DEF Requests
  <2>3. CASE d = c /\ k = kind
    <3>1. Awaits(state[c], kind)
      BY <1>1, <2>1, <2>3 DEF OneCall
    <3>2. CallsOf(c, kind)' = {} /\ AnswersTo(c, kind)' = {failed}
      BY <2>1, <2>2, <2>3
    <3> QED BY <1>2, <3>1, <3>2
  <2>4. CASE ~(d = c /\ k = kind)
    <3>1. CallsOf(c, kind)' \subseteq CallsOf(c, kind)
      BY <2>2
    <3>2. AnswersTo(c, kind)' \subseteq AnswersTo(c, kind)
      BY <2>1, <2>4
    <3> QED BY <1>3, <3>1, <3>2
  <2> QED BY <2>3, <2>4
<1> QED BY <1>4, <1>5

LEMMA CallsKept == ASSUME TypeOK, KeepInv, [Next]_vars PROVE CallInv'
<1> SUFFICES ASSUME NEW d \in Member, NEW kind \in AllKinds PROVE OneCall(d, kind)'
  BY DEF CallInv
<1>1. OneCall(d, kind)
  BY DEF KeepInv, CallInv
<1>2. ASSUME UNCHANGED <<state, requests, replies>> PROVE OneCall(d, kind)'
  <2>1. CallsOf(d, kind)' = CallsOf(d, kind) /\ AnswersTo(d, kind)' = AnswersTo(d, kind)
        /\ state'[d] = state[d]
    BY <1>2 DEF CallsOf, AnswersTo
  <2> QED BY <1>1, <2>1, CallsGo
<1>3. CASE EditorActs(d)
  BY <1>3, OpensCalls, RestCalls, SendsCalls, HearsCalls DEF EditorActs, Editor
<1>4. ASSUME NEW c \in Member \ {d}, EditorActs(c) PROVE OneCall(d, kind)'
  <2>1. state'[d] = state[d] \/ EditorActs(d)
    BY OneEditorActs DEF EditorRests
  <2> QED BY <1>1, <1>3, <1>4, <2>1, OtherCalls, CallsGo
<1>5. CASE Replace \/ Restore \/ ChangeVisibility \/ (\E c \in Member : Revoke(c) \/ Reconnect(c))
  BY <1>2, <1>5 DEF Replace, Restore, ChangeVisibility, Revoke, Change, Reconnect, client
<1>6. CASE UNCHANGED vars
  BY <1>2, <1>6 DEF vars, client, net
<1> QED BY <1>3, <1>4, <1>5, <1>6, ServerCalls, BreaksCalls DEF Next, Environment, EditorActs

-----------------------------------------------------------------------------
(* The write-ahead.                                                        *)

\* A text is what it was when edits and epochs are added.
LEMMA TextStays ==
  ASSUME TypeOK, Grows
  PROVE  \A copy : copy.epoch \in 1..Len(root) /\ copy.edits \in EditSet => TextOf(copy)' = TextOf(copy)
<1> SUFFICES ASSUME NEW copy, copy.epoch \in 1..Len(root), copy.edits \in EditSet
             PROVE  TextOf(copy)' = TextOf(copy)
  OBVIOUS
<1>1. Integrated(copy.edits)' = Integrated(copy.edits)
  BY DEF Integrated, Grows, EditSet
<1>2. root'[copy.epoch] = root[copy.epoch]
  BY DEF Grows
<1> QED BY <1>1, <1>2 DEF TextOf

\* The copies of the server.
LEMMA ReplicaTexts ==
  ASSUME TypeOK, ScopeInv, Grows, replica' = replica
  PROVE  /\ replica.epoch # 0 => TextOf(replica)' = TextOf(replica)
         /\ replica.previous.epoch # 0 => TextOf(replica.previous)' = TextOf(replica.previous)
<1>1. /\ replica.edits \in EditSet /\ replica.previous.edits \in EditSet
      /\ replica.epoch # 0 => replica.epoch \in 1..Len(root)
      /\ replica.previous.epoch # 0 => replica.previous.epoch \in 1..Len(root)
  BY DEF TypeOK, ScopeInv, ScopeOfServer, Copies, NoCopy
<1>2. \A copy : copy.epoch \in 1..Len(root) /\ copy.edits \in EditSet => TextOf(copy)' = TextOf(copy)
  BY TextStays
<1>3. ASSUME replica.epoch # 0 PROVE TextOf(replica)' = TextOf(replica)
  BY <1>1, <1>2, <1>3
<1>4. ASSUME replica.previous.epoch # 0 PROVE TextOf(replica.previous)' = TextOf(replica.previous)
  BY <1>1, <1>2, <1>4
<1> QED BY <1>3, <1>4

\* Calls under way were under way.
StartedStay ==
  /\ \A r \in requests' : r.started =>
       \E q \in requests : q.started /\ r.epoch = q.epoch /\ r.update = q.update
  /\ (\A r, q \in requests : r.started /\ q.started => r = q)
     => \A r, q \in requests' : r.started /\ q.started => r = q

LEMMA ForgetStarted ==
  ASSUME TypeOK, NEW c \in Member, NEW kinds, Forget(c, kinds)
  PROVE  StartedStay
<1> DEFINE f(q) == IF q.from = c /\ q.kind \in kinds THEN [q EXCEPT !.live = FALSE] ELSE q
<1>1. requests' = {f(q) : q \in requests}
  BY DEF Forget
<1>2. \A q \in requests : f(q).started = q.started /\ f(q).epoch = q.epoch /\ f(q).update = q.update
  BY DEF TypeOK, Requests
<1> HIDE DEF f
<1> QED BY <1>1, <1>2 DEF StartedStay

LEMMA StepStarted ==
  ASSUME TypeOK, [Next]_vars, \A r \in requests : ~Starts(r)
  PROVE  StartedStay
<1>1. CASE requests' \subseteq requests
  BY <1>1 DEF StartedStay
<1>2. ASSUME NEW c \in Member, Editor(c) PROVE StartedStay
  <2>1. CASE Open(c) \/ Saved(c) \/ Refresh(c)
    <3>1. PICK kind, epoch, update : requests' = requests \cup {Request(c, kind, epoch, update)}
      BY <2>1 DEF Open, Saved, Refresh
    <3>2. PICK r : r = Request(c, kind, epoch, update)
      OBVIOUS
    <3>3. requests' = requests \cup {r} /\ r.started = FALSE
      BY <3>1, <3>2 DEF Request
    <3> QED BY <3>3 DEF StartedStay
  <2>2. CASE Archived(c)
    BY <2>2, ForgetStarted DEF Archived
  <2>3. CASE Receive(c)
    BY <1>1, <2>3, ForgetStarted DEF Receive
  <2>4. CASE Opened(c) \/ OpenFailed(c) \/ Acknowledged(c) \/ Rejected(c) \/ Refreshed(c)
    <3>1. requests' = requests
      BY <2>4, AnswerTaken DEF AllKinds
    <3> QED BY <1>1, <3>1
  <2>5. CASE Send(c) \/ Settled(c) \/ Failed(c) \/ Refused(c)
    BY <1>1, <2>5 DEF Send, Settled, Failed, Refused, net
  <2> QED BY <1>2, <2>1, <2>2, <2>3, <2>4, <2>5 DEF Editor
<1>3. ASSUME NEW r \in requests, TextSync(r) PROVE StartedStay
  BY <1>1, <1>3, TextSyncDoes DEF Refuses, Answer
<1>4. CASE Commit \/ CommitFails \/ Restart
  BY <1>1, <1>4 DEF Commit, CommitFails, Restart, Answer
<1>5. CASE Replace \/ Restore \/ ChangeVisibility \/ \E c \in Member : Revoke(c)
  BY <1>1, <1>5 DEF Replace, Restore, ChangeVisibility, Revoke, Change
<1>6. ASSUME NEW c \in Member, Type(c) \/ Reconnect(c) PROVE StartedStay
  BY <1>1, <1>6 DEF Type, Reconnect, net
<1>7. ASSUME NEW c \in Member, Leave(c) \/ Reload(c) PROVE StartedStay
  BY <1>7, ForgetStarted DEF Leave, Reload
<1>8. ASSUME NEW c \in Member, Timeout(c) PROVE StartedStay
  <2>1. PICK kind \in AllKinds : Timeout(c)!2!(kind)
    BY <1>8 DEF Timeout
  <2> DEFINE f(q) == IF q.from = c /\ q.kind = kind THEN [q EXCEPT !.live = FALSE] ELSE q
  <2>2. requests' = {f(q) : q \in requests}
    BY <2>1
  <2>3. \A q \in requests : f(q).started = q.started /\ f(q).epoch = q.epoch /\ f(q).update = q.update
    BY DEF TypeOK, Requests
  <2> HIDE DEF f
  <2> QED BY <2>2, <2>3 DEF StartedStay
<1>9. CASE UNCHANGED vars
  BY <1>1, <1>9 DEF vars, net
<1> QED BY <1>2, <1>3, <1>4, <1>5, <1>6, <1>7, <1>8, <1>9 DEF Next, Environment, Serve

\* No call is under way twice.
LEMMA OneStarted ==
  ASSUME WriteInv
  PROVE  \A r, q \in requests : r.started /\ q.started => r = q
BY DEF WriteInv

LEMMA WriteStays ==
  ASSUME TypeOK, KeepInv, Grows, StartedStay, UNCHANGED <<replica, acl, file, issued>>
  PROVE  WriteInv'
<1>1. WriteInv /\ ScopeInv /\ \A r, q \in requests' : r.started /\ q.started => r = q
  BY OneStarted DEF KeepInv, StartedStay
<1>2. /\ replica.epoch # 0 => TextOf(replica)' = TextOf(replica)
      /\ replica.previous.epoch # 0 => TextOf(replica.previous)' = TextOf(replica.previous)
  BY <1>1, ReplicaTexts
<1>3. ASSUME NEW r \in requests', r.started
      PROVE  /\ replica'.epoch # 0 /\ replica'.acl = acl'
             /\ r.epoch \in {0, replica'.epoch} /\ r.update \subseteq replica'.edits
             /\ replica'.previous.epoch # 0 => TextOf(replica.previous)' = file'
             /\ \A q \in requests' : q.started => q = r
  <2>1. PICK q \in requests : q.started /\ r.epoch = q.epoch /\ r.update = q.update
    BY <1>3 DEF StartedStay
  <2>2. /\ replica.epoch # 0 /\ replica.acl = acl
        /\ r.epoch \in {0, replica.epoch} /\ r.update \subseteq replica.edits
        /\ replica.previous.epoch # 0 => TextOf(replica.previous) = file
    BY <1>1, <2>1 DEF WriteInv
  <2> QED BY <1>1, <1>2, <1>3, <2>2
<1>4. ASSUME issued' # 0
      PROVE  /\ replica'.acl = acl' /\ replica'.epoch = issued'
             /\ \/ TextOf(replica)' = file'
                \/ replica'.previous.epoch = issued' /\ TextOf(replica.previous)' = file'
  <2>1. /\ replica.acl = acl /\ replica.epoch = issued /\ issued # 0
        /\ \/ TextOf(replica) = file
           \/ replica.previous.epoch = issued /\ TextOf(replica.previous) = file
    BY <1>1, <1>4 DEF WriteInv
  <2> QED BY <1>2, <2>1
<1> QED BY <1>3, <1>4 DEF WriteInv

LEMMA StartsWrite ==
  ASSUME TypeOK, KeepInv, Grows, NEW r \in requests, Starts(r)
  PROVE  WriteInv'
<1> DEFINE copy == Selected
           epoch == IF copy.epoch # 0 THEN copy.epoch ELSE Len(root) + 1
           s == [r EXCEPT !.started = TRUE]
<1>1. /\ ~Busy /\ ~Replaced(r, epoch) /\ replica' = Saves(epoch, copy.edits \cup r.update, copy)
      /\ requests' = (requests \ {r}) \cup {s} /\ UNCHANGED <<file, acl, issued>>
  BY DEF Starts, history
<1>2. /\ copy \in Copies
      /\ copy.epoch # 0 => copy.epoch \in 1..Len(root) /\ TextOf(copy) = file
      /\ Len(root) \in Nat
  BY SelectedIs DEF TypeOK
<1> HIDE DEF copy, epoch, s
<1>3. /\ replica'.epoch = epoch /\ replica'.edits = copy.edits \cup r.update /\ replica'.acl = acl
      /\ replica'.previous = copy
  BY <1>1 DEF Saves
<1>4. copy.epoch # 0 => TextOf(replica.previous)' = file
  <2>1. copy.edits \in EditSet
    BY <1>2 DEF Copies
  <2>2. \A x : x.epoch \in 1..Len(root) /\ x.edits \in EditSet => TextOf(x)' = TextOf(x)
    BY TextStays
  <2> QED BY <1>2, <1>3, <2>1, <2>2
<1>5. epoch # 0 /\ (copy.epoch # 0 => epoch = copy.epoch)
  BY <1>2 DEF epoch
<1>6. ASSUME NEW q \in requests', q.started
      PROVE  /\ replica'.epoch # 0 /\ replica'.acl = acl'
             /\ q.epoch \in {0, replica'.epoch} /\ q.update \subseteq replica'.edits
             /\ replica'.previous.epoch # 0 => TextOf(replica.previous)' = file'
             /\ \A p \in requests' : p.started => p = q
  <2>1. q = s /\ \A p \in requests' : p.started => p = s
    BY <1>1, <1>6 DEF Busy
  <2>2. s.epoch = r.epoch /\ s.update = r.update
    BY DEF s, TypeOK, Requests
  <2> QED BY <1>1, <1>3, <1>4, <1>5, <2>1, <2>2 DEF Replaced
<1>7. ASSUME issued' # 0
      PROVE  /\ replica'.acl = acl' /\ replica'.epoch = issued'
             /\ \/ TextOf(replica)' = file'
                \/ replica'.previous.epoch = issued' /\ TextOf(replica.previous)' = file'
  <2>1. copy.epoch = issued
    BY <1>1, <1>7 DEF KeepInv, WriteInv, Selected, copy
  <2> QED BY <1>1, <1>3, <1>4, <1>5, <1>7, <2>1
<1> QED BY <1>6, <1>7 DEF WriteInv

LEMMA WriteKept ==
  ASSUME TypeOK, KeepInv, [Next]_vars
  PROVE  WriteInv'
<1>1. Grows /\ WriteInv /\ ScopeInv
  BY StepGrows DEF KeepInv
<1>2. ASSUME NEW r \in requests, Starts(r) PROVE WriteInv'
  BY <1>1, <1>2, StartsWrite
<1>3. CASE (\A r \in requests : ~Starts(r)) /\ UNCHANGED <<replica, acl, file, issued>>
  BY <1>1, <1>3, StepStarted, WriteStays
<1>4. CASE Commit
  <2>1. PICK r \in requests : Commit!(r)
    BY <1>4 DEF Commit
  <2>2. /\ file' = TextOf(replica) /\ issued' = replica.epoch /\ UNCHANGED <<replica, acl>>
        /\ \A q \in requests' : ~q.started
    BY <1>1, <2>1, OneStarted DEF Answer
  <2>3. replica.acl = acl /\ replica.epoch # 0
    BY <1>1, <2>1 DEF WriteInv
  <2>4. TextOf(replica)' = TextOf(replica)
    BY <1>1, <2>2, <2>3, ReplicaTexts
  <2> QED BY <2>2, <2>3, <2>4 DEF WriteInv
<1>5. CASE Restart
  <2>1. /\ file' = file \/ (file' = TextOf(replica) /\ replica.epoch # 0 /\ replica.acl = acl)
        /\ requests' = {} /\ UNCHANGED <<replica, acl, issued>>
    BY <1>1, <1>5 DEF Restart, WriteInv
  <2>2. /\ replica.epoch # 0 => TextOf(replica)' = TextOf(replica)
        /\ replica.previous.epoch # 0 => TextOf(replica.previous)' = TextOf(replica.previous)
    BY <1>1, <2>1, ReplicaTexts
  <2>3. ASSUME issued' # 0
        PROVE  /\ replica'.acl = acl' /\ replica'.epoch = issued'
               /\ \/ TextOf(replica)' = file'
                  \/ replica'.previous.epoch = issued' /\ TextOf(replica.previous)' = file'
    BY <1>1, <2>1, <2>2, <2>3 DEF WriteInv
  <2> QED BY <2>1, <2>3 DEF WriteInv
<1>6. CASE Replace \/ Restore \/ ChangeVisibility
  BY <1>6 DEF Replace, Restore, ChangeVisibility, Change, Busy, WriteInv
<1>7. ASSUME NEW c \in Member,
             Editor(c) \/ Type(c) \/ Leave(c) \/ Reload(c) \/ Revoke(c) \/ Timeout(c) \/ Reconnect(c)
      PROVE  UNCHANGED <<replica, acl, file, issued>>
  BY <1>7, EditorDisk DEF Type, Leave, Reload, Revoke, Change, Timeout, Reconnect, disk, history
<1>8. ASSUME NEW r \in requests, TextSync(r), ~Starts(r) PROVE UNCHANGED <<replica, acl, file, issued>>
  BY <1>8, TextSyncDoes DEF Refuses, disk, history
<1>9. ASSUME CommitFails PROVE UNCHANGED <<replica, acl, file, issued>>
  BY <1>9 DEF CommitFails, disk, history
<1>10. ASSUME UNCHANGED vars PROVE UNCHANGED <<replica, acl, file, issued>>
  BY <1>10 DEF vars, disk, history
<1> QED BY <1>2, <1>3, <1>4, <1>5, <1>6, <1>7, <1>8, <1>9, <1>10 DEF Next, Environment, Serve

-----------------------------------------------------------------------------
(* Journals.                                                               *)

\* What an editor does to its journal.
JournalActs(c) ==
  /\ Safe \subseteq Safe' /\ JournalOf(c)' /\ Pending(c) \subseteq Safe' \cup Pending(c)'
  /\ kept' \subseteq kept \cup Safe' \cup Pending(c)'

\* An archive grows, and so does what is safe.
LEMMA ArchiveGrows ==
  ASSUME TypeOK, NEW c \in Member, NEW e, archive' = [archive EXCEPT ![c] = @ \cup e], acked \subseteq acked'
  PROVE  Safe \subseteq Safe' /\ e \subseteq Safe'
<1>1. archive'[c] = archive[c] \cup e /\ \A d \in Member \ {c} : archive'[d] = archive[d]
  BY DEF TypeOK
<1> QED BY <1>1 DEF Safe, SetAside

LEMMA JournalHas ==
  ASSUME TypeOK, KeepInv, NEW c \in Member
  PROVE  /\ state[c] \in States /\ ScopeOfState(state[c]) /\ JournalOf(c) /\ journal[c] \in Journals
         /\ state[c].epoch = 0 <=> state[c].at \notin Bound
         /\ \A s : Snapshot(s).pending = Own(s)
BY EditorHas DEF KeepInv, JournalInv, Snapshot, Own

\* The editor goes on with what it has, or closes.
LEMMA JournalRests ==
  ASSUME TypeOK, KeepInv, NEW c \in Member, Safe \subseteq Safe', journal' = journal, kept' = kept,
         \/ state'[c] = Closed
         \/ /\ state'[c].at = state[c].at /\ state'[c].saved = state[c].saved
            /\ Own(state[c]) \subseteq Own(state'[c])
         \/ /\ state[c].at \in Bound /\ state'[c].saved.pending = Own(state'[c])
            /\ state'[c].at \in Bound /\ Own(state[c]) \subseteq Safe' \cup Own(state'[c])
  PROVE  JournalActs(c)
<1>1. Closed.at = "closed" /\ Closed.saved = NoJournal
  BY DEF Closed
<1>2. JournalOf(c)
  BY JournalHas
<1> QED BY <1>1, <1>2 DEF JournalActs, JournalOf, Pending, Bound, Own

\* The editor writes its journal.
LEMMA JournalWritten ==
  ASSUME TypeOK, KeepInv, NEW c \in Member, WriteJournal(c), archive' = archive,
         state[c].at \in Bound, state'[c].at \in Bound, Own(state'[c]) = Own(state[c]),
         state'[c].saved = state[c].saved \/ state'[c].saved.pending = Own(state[c])
  PROVE  JournalActs(c)
<1>1. JournalOf(c) /\ Safe' = Safe
  BY JournalHas DEF Safe, SetAside, WriteJournal
<1>2. journal'[c] = state[c].saved /\ kept' = kept \cup state[c].saved.pending
  BY DEF WriteJournal, TypeOK
<1>3. Pending(c)' = state[c].saved.pending /\ Own(state[c])' = Own(state[c])
  BY <1>2 DEF Pending, Own
<1> QED BY <1>1, <1>2, <1>3 DEF JournalActs, JournalOf, Bound

LEMMA OpensJournal ==
  ASSUME TypeOK, KeepInv, NEW c \in Member, Open(c) \/ Opened(c) \/ OpenFailed(c)
  PROVE  JournalActs(c)
<1>1. /\ state[c] \in States /\ ScopeOfState(state[c]) /\ JournalOf(c) /\ journal[c] \in Journals
      /\ \A s : Snapshot(s).pending = Own(s)
  BY JournalHas
<1>2. CASE Open(c)
  <2>1. state[c].at = "closed" /\ state[c].saved = NoJournal /\ kept' = kept /\ acked' = acked
    BY <1>1, <1>2 DEF Open, JournalOf, history
  <2>2. CASE /\ state' = [state EXCEPT ![c].at = "opening", ![c].saved = journal[c]]
             /\ UNCHANGED <<journal, archive>>
    <3>1. state'[c].at = "opening" /\ state'[c].saved = journal[c]
      BY <1>1, <2>2 DEF TypeOK, States
    <3>2. JournalOf(c)' /\ Safe' = Safe /\ Pending(c)' = Pending(c)
      BY <2>1, <2>2, <3>1 DEF JournalOf, Bound, Safe, SetAside, Pending
    <3> QED BY <2>1, <3>2 DEF JournalActs
  <2>3. CASE /\ state' = [state EXCEPT ![c].at = "opening"]
             /\ journal' = [journal EXCEPT ![c] = NoJournal]
             /\ archive' = [archive EXCEPT ![c] = @ \cup journal[c].pending]
    <3>1. state'[c].at = "opening" /\ state'[c].saved = NoJournal /\ journal'[c] = NoJournal
      BY <1>1, <2>1, <2>3 DEF TypeOK, States
    <3>2. JournalOf(c)' /\ Safe \subseteq Safe' /\ Pending(c) \subseteq Safe'
      BY <2>1, <2>3, <3>1, ArchiveGrows DEF JournalOf, Bound, Pending
    <3> QED BY <2>1, <3>2 DEF JournalActs
  <2> QED BY <1>2, <2>2, <2>3 DEF Open
<1>3. CASE Opened(c)
  <2>1. PICK r \in replies : Opened(c)!(r)
    BY <1>3, Zenon DEF Opened
  <2> DEFINE saved == state[c].saved
             same == Resumes(saved, r)
             s == [state[c] EXCEPT !.epoch = r.epoch,
                    !.doc = r.edits \cup (IF same THEN saved.doc ELSE {}),
                    !.pending = IF same THEN saved.pending ELSE {}]
  <2>2. state[c].at = "opening" /\ state[c].inFlight = {} /\ saved = journal[c]
    <3>1. OneCall(c, "open") /\ r \in AnswersTo(c, "open")
      BY <2>1 DEF KeepInv, CallInv, AllKinds, AnswersTo
    <3> QED BY <1>1, <3>1 DEF OneCall, Awaits, ScopeOfState, JournalOf
  <2>3. /\ state' = [state EXCEPT ![c] = Persist(s, "binding")]
        /\ journal' = [journal EXCEPT ![c] = IF same THEN @ ELSE NoJournal]
        /\ archive' = [archive EXCEPT ![c] = @ \cup (IF same THEN {} ELSE saved.pending)]
        /\ kept' = kept /\ acked' = acked
    BY <2>1 DEF history
  <2>4. Safe \subseteq Safe' /\ (IF same THEN {} ELSE saved.pending) \subseteq Safe'
    BY <2>3, ArchiveGrows
  <2>5. Own(s) = IF same THEN saved.pending ELSE {}
    BY <1>1, <2>2 DEF States, Own
  <2>6. /\ state'[c].at = "binding" /\ state'[c].saved.pending = Own(s) /\ Own(state'[c]) = Own(s)
    <3>1. s \in [at : {s.at}, epoch : {r.epoch}, doc : {s.doc}, pending : {s.pending},
                 inFlight : {s.inFlight}, saved : Journals, refresh : {s.refresh}, missed : {s.missed}]
      BY <1>1 DEF States, Bound
    <3> HIDE DEF s
    <3> QED BY <1>1, <2>3, <3>1 DEF Persist, TypeOK, Own
  <2>7. Pending(c)' = IF same THEN saved.pending ELSE {}
    BY <2>2, <2>3 DEF Pending, TypeOK, NoJournal
  <2>8. Pending(c) = saved.pending
    BY <2>2 DEF Pending
  <2> HIDE DEF s, same, saved
  <2>9. JournalOf(c)'
    BY <2>5, <2>6, <2>7 DEF JournalOf, Bound, Own
  <2> QED BY <2>3, <2>4, <2>7, <2>8, <2>9 DEF JournalActs
<1>4. CASE OpenFailed(c)
  <2>1. /\ state'[c] = Closed /\ UNCHANGED <<journal, archive, kept, acked>>
    BY <1>4 DEF OpenFailed, TypeOK, history
  <2> QED BY <2>1, JournalRests DEF Safe, SetAside
<1> QED BY <1>2, <1>3, <1>4

\* What an answer takes from an editor is acknowledged.
LEMMA AnswerOwns ==
  ASSUME TypeOK, NEW c \in Member, Acknowledged(c) \/ Rejected(c)
  PROVE  \E s \in States, at \in Bound :
           /\ state[c].at = "calling" /\ s.inFlight = {}
           /\ state' = [state EXCEPT ![c] = Persist(s, at)]
           /\ Own(state[c]) \subseteq acked' \cup Own(s) /\ acked \subseteq acked'
           /\ UNCHANGED <<journal, archive, kept>>
<1>1. CASE Acknowledged(c)
  <2>1. PICK r \in replies : Acknowledged(c)!(r)
    BY <1>1, Zenon DEF Acknowledged
  <2> DEFINE s == [state[c] EXCEPT !.doc = @ \cup r.edits, !.inFlight = {}, !.missed = FALSE]
  <2>2. state[c] \in States /\ r \in Replies
    BY DEF TypeOK
  <2>3. s \in States /\ s.inFlight = {} /\ Own(s) = state[c].pending /\ "acked" \in Bound
    BY <2>2 DEF States, Replies, EditSet, Bound, Own
  <2>4. /\ state' = [state EXCEPT ![c] = Persist(s, "acked")] /\ state[c].at = "calling"
        /\ acked' = acked \cup state[c].inFlight /\ UNCHANGED <<journal, archive, kept>>
    BY <2>1
  <2> HIDE DEF s
  <2>5. Own(state[c]) \subseteq acked' \cup Own(s)
    BY <2>3, <2>4 DEF Own
  <2> QED BY <2>3, <2>4, <2>5
<1>2. CASE Rejected(c)
  <2>1. PICK r \in replies : Rejected(c)!(r)
    BY <1>2, Zenon DEF Rejected
  <2> DEFINE s == [state[c] EXCEPT !.pending = @ \cup state[c].inFlight, !.inFlight = {}]
             at == IF r.status = "failed" THEN "failed" ELSE "refused"
  <2>2. state[c] \in States
    BY DEF TypeOK
  <2>3. s \in States /\ s.inFlight = {} /\ Own(s) = Own(state[c]) /\ at \in Bound
    BY <2>2 DEF States, EditSet, Bound, Own
  <2>4. /\ state' = [state EXCEPT ![c] = Persist(s, at)] /\ state[c].at = "calling"
        /\ acked' = acked /\ UNCHANGED <<journal, archive, kept>>
    BY <2>1 DEF history
  <2> HIDE DEF s, at
  <2> QED BY <2>3, <2>4
<1> QED BY <1>1, <1>2

LEMMA SendsJournal ==
  ASSUME TypeOK, KeepInv, NEW c \in Member,
         Type(c) \/ Send(c) \/ Saved(c) \/ Settled(c) \/ Failed(c) \/ Refused(c) \/ Archived(c)
           \/ Acknowledged(c) \/ Rejected(c)
  PROVE  JournalActs(c)
<1>1. /\ state[c] \in States /\ ScopeOfState(state[c]) /\ JournalOf(c) /\ journal[c] \in Journals
      /\ \A s : Snapshot(s).pending = Own(s)
  BY JournalHas
<1>2. CASE Type(c)
  <2>1. /\ state'[c].at = state[c].at /\ state'[c].saved = state[c].saved
        /\ Own(state[c]) \subseteq Own(state'[c]) /\ UNCHANGED <<journal, archive, kept, acked>>
    BY <1>1, <1>2 DEF Type, TypeOK, States, Own, history
  <2> QED BY <2>1, JournalRests DEF Safe, SetAside
<1>3. CASE Send(c)
  <2> DEFINE s == [state[c] EXCEPT !.inFlight = state[c].pending, !.pending = {}]
  <2>1. s \in States /\ Own(s) = Own(state[c]) /\ state[c].at \in Bound
    BY <1>1, <1>3 DEF Send, States, EditSet, Own, ScopeOfState, Bound
  <2>2. state'[c] = Persist(s, "saving") /\ UNCHANGED <<journal, archive, kept, acked>>
    BY <1>3 DEF Send, TypeOK, history
  <2> HIDE DEF s
  <2>3. state'[c].saved.pending = Own(s) /\ Own(state'[c]) = Own(s) /\ state'[c].at \in Bound
    BY <1>1, <2>1, <2>2 DEF Persist, States, Own, Bound
  <2> QED BY <2>1, <2>2, <2>3, JournalRests DEF Safe, SetAside
<1>4. CASE Saved(c) \/ Settled(c) \/ Failed(c)
  <2>1. /\ WriteJournal(c) /\ archive' = archive /\ state[c].at \in Bound /\ state'[c].at \in Bound
    BY <1>1, <1>4 DEF Saved, Settled, Failed, Bound, TypeOK, States
  <2>2. Own(state'[c]) = Own(state[c]) /\ state'[c].saved = state[c].saved
    <3>1. CASE Saved(c)
      BY <1>1, <3>1 DEF Saved, TypeOK, States, Own
    <3>2. CASE Settled(c)
      BY <1>1, <3>2 DEF Settled, TypeOK, States, Own
    <3>3. CASE Failed(c)
      BY <1>1, <3>3 DEF Failed, TypeOK, States, Own
    <3> QED BY <1>4, <3>1, <3>2, <3>3
  <2> QED BY <2>1, <2>2, JournalWritten
<1>5. CASE Refused(c)
  <2>1. /\ WriteJournal(c) /\ archive' = archive /\ state[c].at \in Bound
        /\ state'[c] = Persist(state[c], "archiving")
    BY <1>5 DEF Refused, Bound, TypeOK
  <2>2. Own(state'[c]) = Own(state[c]) /\ state'[c].saved.pending = Own(state[c]) /\ state'[c].at \in Bound
    BY <1>1, <2>1 DEF Persist, States, Own, Bound
  <2> QED BY <2>1, <2>2, JournalWritten
<1>6. CASE Archived(c)
  <2>1. /\ archive' = [archive EXCEPT ![c] = @ \cup state[c].saved.pending] /\ acked' = acked
        /\ kept' = kept \cup state[c].saved.pending /\ state'[c] = Closed /\ journal'[c] = NoJournal
        /\ state[c].at \in Bound
    BY <1>6 DEF Archived, TypeOK, Bound
  <2>2. Safe \subseteq Safe' /\ state[c].saved.pending \subseteq Safe'
    BY <2>1, ArchiveGrows
  <2>3. JournalOf(c)'
    BY <2>1 DEF JournalOf, Closed, Bound
  <2> QED BY <1>1, <2>1, <2>2, <2>3 DEF JournalActs, JournalOf
<1>7. CASE Acknowledged(c) \/ Rejected(c)
  <2>1. PICK s \in States, at \in Bound :
          /\ state[c].at = "calling" /\ s.inFlight = {}
          /\ state' = [state EXCEPT ![c] = Persist(s, at)]
          /\ Own(state[c]) \subseteq acked' \cup Own(s) /\ acked \subseteq acked'
          /\ UNCHANGED <<journal, archive, kept>>
    BY <1>7, AnswerOwns
  <2>2. state'[c].saved.pending = Own(s) /\ Own(state'[c]) = Own(s) /\ state'[c].at \in Bound
    BY <1>1, <2>1 DEF Persist, States, Own, Bound, TypeOK
  <2>3. Own(state[c]) \subseteq Safe' \cup Own(state'[c]) /\ Safe \subseteq Safe' /\ state[c].at \in Bound
    BY <2>1, <2>2 DEF Safe, SetAside, Bound
  <2> QED BY <2>1, <2>2, <2>3, JournalRests
<1> QED BY <1>2, <1>3, <1>4, <1>5, <1>6, <1>7

LEMMA HearsJournal ==
  ASSUME TypeOK, KeepInv, NEW c \in Member,
         Receive(c) \/ Refresh(c) \/ Refreshed(c) \/ Leave(c) \/ Reload(c)
  PROVE  JournalActs(c)
<1>1. /\ state[c] \in States /\ ScopeOfState(state[c]) /\ JournalOf(c) /\ journal[c] \in Journals
      /\ state[c].epoch = 0 <=> state[c].at \notin Bound
      /\ \A s : Snapshot(s).pending = Own(s)
  BY JournalHas
<1>2. CASE Receive(c) \/ Refresh(c)
  <2>1. /\ state'[c].at = state[c].at /\ state'[c].saved = state[c].saved
        /\ Own(state[c]) \subseteq Own(state'[c]) /\ UNCHANGED <<journal, archive, kept, acked>>
    <3>1. CASE Receive(c)
      <4>1. /\ state'[c].at = state[c].at /\ state'[c].saved = state[c].saved
            /\ state'[c].pending = state[c].pending /\ state'[c].inFlight = state[c].inFlight
        BY <1>1, <3>1 DEF Receive, TypeOK, States
      <4> QED BY <3>1, <4>1 DEF Receive, Own, history
    <3>2. CASE Refresh(c)
      BY <1>1, <3>2 DEF Refresh, TypeOK, States, Own, history
    <3> QED BY <1>2, <3>1, <3>2
  <2> QED BY <2>1, JournalRests DEF Safe, SetAside
<1>3. CASE Refreshed(c)
  <2>1. PICK r \in replies : Refreshed(c)!(r)
    BY <1>3, Zenon DEF Refreshed
  <2>2. state \in [Member -> States] /\ UNCHANGED <<journal, archive, kept, acked>>
    BY <2>1 DEF TypeOK, history
  <2>3. CASE state' = [state EXCEPT ![c] = [Persist(@, "archiving") EXCEPT !.refresh = "none"]]
    <3>1. state'[c] = [Persist(state[c], "archiving") EXCEPT !.refresh = "none"]
      BY <2>2, <2>3
    <3>2. /\ Own(state'[c]) = Own(state[c]) /\ state'[c].saved.pending = Own(state[c])
          /\ state'[c].at \in Bound /\ state[c].at \in Bound
      BY <1>1, <2>1, <3>1 DEF States, Persist, Own, Bound, ScopeOfState
    <3> QED BY <2>2, <3>2, JournalRests DEF Safe, SetAside
  <2>4. CASE state' = [state EXCEPT ![c].refresh = "none", ![c].missed = TRUE]
    <3>1. /\ state'[c].at = state[c].at /\ state'[c].saved = state[c].saved
          /\ Own(state'[c]) = Own(state[c])
      BY <1>1, <2>2, <2>4 DEF States, Own
    <3> QED BY <2>2, <3>1, JournalRests DEF Safe, SetAside
  <2>5. CASE state' = [state EXCEPT ![c].doc = @ \cup r.edits, ![c].refresh = "none",
                          ![c].missed = FALSE]
    <3>1. /\ state'[c].at = state[c].at /\ state'[c].saved = state[c].saved
          /\ Own(state'[c]) = Own(state[c])
      BY <1>1, <2>2, <2>5 DEF States, Own
    <3> QED BY <2>2, <3>1, JournalRests DEF Safe, SetAside
  <2> QED BY <2>1, <2>3, <2>4, <2>5
<1>4. CASE Reload(c)
  <2>1. state'[c] = Closed /\ UNCHANGED <<journal, archive, kept, acked>>
    BY <1>4 DEF Reload, TypeOK, history
  <2> QED BY <2>1, JournalRests DEF Safe, SetAside
<1>5. CASE Leave(c)
  <2>1. state'[c] = Closed /\ UNCHANGED <<archive, acked>> /\ journal \in [Member -> Journals]
    BY <1>5 DEF Leave, TypeOK
  <2>2. JournalOf(c)' /\ Safe' = Safe
    BY <2>1 DEF JournalOf, Closed, Bound, Safe, SetAside
  <2>3. CASE state[c].at = "opening"
    <3>1. journal'[c] = journal[c] /\ kept' = kept
      BY <1>5, <2>1, <2>3 DEF Leave
    <3> QED BY <2>2, <3>1 DEF JournalActs, Pending
  <2>4. CASE state[c].at # "opening"
    <3>1. journal'[c] = Snapshot(state[c]) /\ kept' = kept \cup Snapshot(state[c]).pending
          /\ state[c].at \in Bound
      BY <1>1, <1>5, <2>1, <2>4 DEF Leave, States
    <3>2. Pending(c)' = Own(state[c])
      BY <1>1, <3>1 DEF Pending
    <3> QED BY <1>1, <2>2, <3>1, <3>2 DEF JournalActs, JournalOf
  <2> QED BY <2>3, <2>4
<1> QED BY <1>2, <1>3, <1>4, <1>5

LEMMA JournalKept == ASSUME TypeOK, KeepInv, [Next]_vars PROVE JournalInv'
<1>1. JournalInv
  BY DEF KeepInv
<1>2. ASSUME NEW c \in Member, EditorActs(c) PROVE JournalInv'
  <2>1. JournalActs(c)
    BY <1>2, OpensJournal, SendsJournal, HearsJournal DEF EditorActs, Editor
  <2>2. ASSUME NEW d \in Member PROVE JournalOf(d)' /\ Pending(d) \subseteq Safe' \cup Pending(d)'
    <3>1. CASE d = c \/ EditorActs(d)
      <4>1. JournalActs(d)
        BY <2>1, <3>1, OpensJournal, SendsJournal, HearsJournal DEF EditorActs, Editor
      <4> QED BY <4>1 DEF JournalActs
    <3>2. CASE EditorRests(d)
      <4>1. JournalOf(d) /\ Safe \subseteq Safe'
        BY <1>1, <2>1 DEF JournalInv, JournalActs
      <4>2. state'[d] = state[d] /\ Pending(d)' = Pending(d) /\ journal'[d] = journal[d]
        BY <3>2 DEF EditorRests, Pending
      <4> QED BY <4>1, <4>2 DEF JournalOf, Own
    <3> QED BY <3>1, <3>2, OneEditorActs
  <2>3. kept' \subseteq Safe' \cup UNION {Pending(d)' : d \in Member}
    BY <1>1, <2>1, <2>2 DEF JournalInv, JournalActs
  <2> QED BY <2>2, <2>3 DEF JournalInv
<1>3. ASSUME UNCHANGED <<client, kept, acked>> PROVE JournalInv'
  <2>1. UNCHANGED <<state, journal, archive, kept, acked>>
    BY <1>3 DEF client
  <2> QED BY <1>1, <2>1 DEF JournalInv, JournalOf, Safe, SetAside, Pending, Own
<1>4. ASSUME NEW r \in requests, TextSync(r) PROVE UNCHANGED <<client, kept, acked>>
  BY <1>4, TextSyncDoes DEF Starts, Refuses, history
<1>5. CASE Commit \/ Restart
  BY <1>3, <1>5 DEF Commit, Restart
<1>6. CASE CommitFails
  BY <1>3, <1>6, Zenon DEF CommitFails, history
<1>7. CASE Replace \/ Restore \/ ChangeVisibility \/ (\E c \in Member : Revoke(c) \/ Reconnect(c) \/ Timeout(c))
  BY <1>3, <1>7 DEF Replace, Restore, ChangeVisibility, Revoke, Change, Reconnect, Timeout, history
<1>8. CASE UNCHANGED vars
  BY <1>3, <1>8 DEF vars, history
<1> QED BY <1>2, <1>3, <1>4, <1>5, <1>6, <1>7, <1>8 DEF Next, Environment, Serve, EditorActs

-----------------------------------------------------------------------------
(* What the inductive invariant says of the promises.                      *)

LEMMA InitKeep == Init => KeepInv
<1> SUFFICES ASSUME Init PROVE KeepInv
  OBVIOUS
<1>1. edit = <<>> /\ root = <<>> /\ acl = 1 /\ requests = {} /\ replies = {} /\ kept = {} /\ issued = 0
      /\ replica = NoReplica
  BY DEF Init
<1>2. TypeOK
  BY InitType
<1>3. ScopeOfServer
  <2>1. Len(root) = 0 /\ Len(edit) = 0
    BY <1>1
  <2> QED BY <1>1, <2>1 DEF ScopeOfServer, NoReplica, NoCopy, OfEpoch
<1>4. \A c \in Member : state[c] = Closed /\ journal[c] = NoJournal /\ events[c] = <<>>
  BY DEF Init
<1>5. \A c \in Member : Len(events[c]) = 0
  BY <1>4
<1>6. ScopeInv
  BY <1>1, <1>2, <1>3, <1>4, <1>5, ClosedScope DEF ScopeInv
<1>7. CallInv
  BY <1>1 DEF CallInv, OneCall, CallsOf, AnswersTo
<1>8. WriteInv
  BY <1>1 DEF WriteInv
<1>9. JournalInv
  BY <1>1, <1>4 DEF JournalInv, JournalOf, Closed, Bound
<1> QED BY <1>6, <1>7, <1>8, <1>9 DEF KeepInv

\* One step keeps it.
LEMMA NextKeep ==
  ASSUME TypeOK, KeepInv, [Next]_vars
  PROVE  TypeOK' /\ KeepInv'
<1>1. TypeOK'
  BY NextType DEF KeepInv
<1> QED BY <1>1, ScopeKept, CallsKept, WriteKept, JournalKept DEF KeepInv

LEMMA KeepUnacknowledged == KeepInv => UnacknowledgedIsKept
BY DEF KeepInv, JournalInv, UnacknowledgedIsKept, Safe

LEMMA KeepScopes == KeepInv => OldScopeStaysOut
BY DEF KeepInv, ScopeInv, ScopeOfServer, ScopeOfJournal, OfEpoch, OldScopeStaysOut, Pending

\* The text of a copy has the edits of its epoch that the copy holds.
LEMMA TextOfEpoch ==
  ASSUME TypeOK, ScopeInv, NEW copy, copy.epoch \in 1..Len(root), copy.edits \in EditSet,
         NEW n \in TextOf(copy).edits, edit[n].epoch = copy.epoch
  PROVE  n \in Integrated(copy.edits)
<1>1. root[copy.epoch] \in Texts /\ \A m \in root[copy.epoch].edits : edit[m].epoch < copy.epoch
  BY DEF TypeOK, ScopeInv, ScopeOfServer
<1>2. TextOf(copy).edits = root[copy.epoch].edits \cup Integrated(copy.edits)
  BY <1>1 DEF TextOf, Texts
<1> QED BY <1>1, <1>2

LEMMA KeepSelects == ASSUME TypeOK, KeepInv PROVE WriteAheadSelects
<1> SUFFICES ASSUME issued # 0
             PROVE  /\ Selected.epoch = issued
                    /\ {n \in file.edits : edit[n].epoch = issued} \subseteq Selected.edits
  BY DEF WriteAheadSelects
<1>1. Selected.epoch = issued
  BY DEF KeepInv, WriteInv, Selected
<1>2. Selected.epoch \in 1..Len(root) /\ TextOf(Selected) = file /\ Selected.edits \in EditSet
  BY <1>1, SelectedIs DEF Copies
<1>3. ASSUME NEW n \in file.edits, edit[n].epoch = issued PROVE n \in Selected.edits
  <2> DEFINE copy == Selected
  <2>1. /\ copy.epoch \in 1..Len(root) /\ copy.edits \in EditSet /\ n \in TextOf(copy).edits
        /\ edit[n].epoch = copy.epoch
    BY <1>1, <1>2, <1>3
  <2> HIDE DEF copy
  <2>2. n \in Integrated(copy.edits)
    BY <2>1, TextOfEpoch DEF KeepInv
  <2> QED BY <2>2 DEF copy, Integrated
<1> QED BY <1>1, <1>3

-----------------------------------------------------------------------------
(* What was given out.                                                     *)

\* Two whole copies of one epoch with the same text have the same edits.
LEMMA SameText ==
  ASSUME TypeOK, ScopeInv, NEW a, NEW b, a.epoch \in 1..Len(root), b.epoch = a.epoch,
         a.edits \in EditSet, b.edits \in EditSet,
         OfEpoch(a.epoch, a.edits), Whole(a.edits), TextOf(a) = TextOf(b)
  PROVE  a.edits \subseteq b.edits
<1> SUFFICES ASSUME NEW n \in a.edits PROVE n \in b.edits
  OBVIOUS
<1>1. root[a.epoch] \in Texts
  BY DEF TypeOK
<1>2. TextOf(a).edits = root[a.epoch].edits \cup Integrated(a.edits)
  BY <1>1 DEF TextOf, Texts
<1>3. n \in Integrated(a.edits)
  BY DEF Whole, Integrated
<1>4. n \in TextOf(b).edits /\ edit[n].epoch = b.epoch
  BY <1>2, <1>3 DEF OfEpoch
<1>5. n \in Integrated(b.edits)
  BY <1>4, TextOfEpoch
<1> QED BY <1>5 DEF Integrated

ServerActs ==
  \/ UNCHANGED <<replica, root, file>>
  \/ \E r \in requests : Starts(r)
  \/ Writes /\ UNCHANGED <<replica, root>>
  \/ Replace
  \/ Restore

LEMMA StepServer ==
  ASSUME TypeOK, [Next]_vars
  PROVE  ServerActs /\ written \subseteq written' /\ (restored => restored') /\ troubles <= troubles'
         /\ (Writes \/ UNCHANGED file \/ Replace \/ Restore)
<1> USE DEF ServerActs
<1>0. troubles <= troubles /\ (Trouble => troubles <= troubles')
  BY DEF TypeOK, Trouble
<1>1. ASSUME NEW c \in Member, Editor(c) PROVE UNCHANGED <<replica, root, file, written, restored, troubles>>
  BY <1>1, EditorDisk DEF disk
<1>2. ASSUME NEW c \in Member, Type(c)
      PROVE  UNCHANGED <<replica, root, file, written, restored, troubles>>
  BY <1>2 DEF Type, disk, history
<1>3. ASSUME NEW c \in Member, Leave(c) \/ Reload(c) \/ Revoke(c) \/ Timeout(c) \/ Reconnect(c)
      PROVE  UNCHANGED <<replica, root, file, written, restored>> /\ Trouble
  BY <1>3 DEF Leave, Reload, Revoke, Change, Timeout, Reconnect, disk, history
<1>4. ASSUME CommitFails PROVE UNCHANGED <<replica, root, file, written, restored>> /\ Trouble
  BY <1>4 DEF CommitFails, disk, history
<1>5. ASSUME ChangeVisibility PROVE UNCHANGED <<replica, root, file, written, restored>> /\ Trouble
  BY <1>5 DEF ChangeVisibility, Change
<1>6. ASSUME NEW r \in requests, TextSync(r)
      PROVE  (Starts(r) \/ UNCHANGED <<replica, root, file>>) /\ UNCHANGED <<file, written, restored, troubles>>
  BY <1>6, TextSyncDoes DEF Starts, Refuses, disk, history
<1>7. ASSUME Commit
      PROVE  Writes /\ UNCHANGED <<replica, root, troubles, restored>> /\ written \subseteq written'
  BY <1>7 DEF Commit, Writes
<1>8. ASSUME Restart
      PROVE  /\ (UNCHANGED file \/ Writes) /\ UNCHANGED <<replica, root, restored>> /\ Trouble
             /\ written \subseteq written'
  BY <1>8 DEF Restart, Writes
<1>9. ASSUME Replace \/ Restore
      PROVE  Trouble /\ written' = written /\ (restored => restored')
  BY <1>9 DEF Replace, Restore, Change
<1>10. CASE UNCHANGED vars
  BY <1>0, <1>10 DEF vars, disk, history
<1>11. CASE Serve
  BY <1>0, <1>6, <1>7, <1>11 DEF Serve
<1>12. CASE Environment
  BY <1>0, <1>2, <1>3, <1>4, <1>5, <1>8, <1>9, <1>12 DEF Environment
<1>13. CASE \E c \in Member : Editor(c)
  BY <1>0, <1>1, <1>13
<1> QED BY <1>10, <1>11, <1>12, <1>13 DEF Next

\* The replica and the one before it.
LEMMA ReplicaHas ==
  ASSUME TypeOK, KeepInv
  PROVE  /\ replica.edits \in EditSet /\ replica.previous.edits \in EditSet
         /\ replica.epoch \in 0..Len(root) /\ OfEpoch(replica.epoch, replica.edits)
         /\ replica.previous = NoCopy \/ replica.previous.epoch = replica.epoch
         /\ replica.previous.epoch \in 0..Len(root)
         /\ Len(root) \in Nat
BY DEF TypeOK, KeepInv, ScopeInv, ScopeOfServer, Copies, NoCopy

\* When the file is written, the replica before it is not selected any more,
\* unless it holds the same edits.
LEMMA WritesGive ==
  ASSUME TypeOK, KeepInv, Causal, Writes, NEW edits, edits \subseteq replica.edits,
         UNCHANGED replica, TextOf(replica.previous)' = TextOf(replica.previous)
  PROVE  Given(replica.epoch, edits)'
<1>1. PICK q \in requests : q.started /\ file' = TextOf(replica)
  BY DEF Writes
<1>2. replica.epoch \in 1..Len(root)
  BY <1>1, ReplicaHas DEF KeepInv, WriteInv
<1>3. ASSUME replica.previous.epoch = replica.epoch, TextOf(replica.previous) = TextOf(replica)
      PROVE  replica.edits \subseteq replica.previous.edits
  <2>1. Whole(replica.edits) /\ ScopeInv
    BY DEF Causal, KeepInv
  <2>2. PICK a, b : a = replica /\ b = replica.previous
    OBVIOUS
  <2>3. a.edits \subseteq b.edits
    BY <1>2, <1>3, <2>1, <2>2, ReplicaHas, SameText
  <2> QED BY <2>2, <2>3
<1> QED BY <1>1, <1>3 DEF Given

LEMMA GivenStays ==
  ASSUME TypeOK, KeepInv, Causal, Grows, [Next]_vars, ~restored'
  PROVE  \A epoch \in 1..Len(root) : \A edits : Given(epoch, edits) => Given(epoch, edits)'
<1> SUFFICES ASSUME NEW epoch \in 1..Len(root), NEW edits, Given(epoch, edits)
             PROVE  Given(epoch, edits)'
  OBVIOUS
<1>1. /\ replica.previous.epoch \in 0..Len(root) /\ ScopeInv
      /\ replica.previous = NoCopy \/ replica.previous.epoch = replica.epoch
  BY ReplicaHas DEF KeepInv
<1>2. replica' = replica /\ replica.previous.epoch # 0 => TextOf(replica.previous)' = TextOf(replica.previous)
  BY <1>1, ReplicaTexts
<1>3. CASE UNCHANGED <<replica, root, file>>
  BY <1>2, <1>3 DEF Given
<1>4. ASSUME NEW r \in requests, Starts(r) PROVE Given(epoch, edits)'
  <2> DEFINE copy == Selected
             new == IF copy.epoch # 0 THEN copy.epoch ELSE Len(root) + 1
  <2>1. replica' = Saves(new, copy.edits \cup r.update, copy) /\ file' = file
    BY <1>4 DEF Starts
  <2>2. /\ copy.epoch = 0 => copy = NoCopy
        /\ copy.epoch # 0 => /\ copy.epoch = replica.epoch /\ TextOf(copy) = file
                             /\ copy.edits = replica.edits \/ copy = replica.previous
    BY SelectedIs
  <2>3. copy.epoch = 0 => new # epoch
    BY ReplicaHas
  <2>4. copy.epoch # 0 => new = copy.epoch
    OBVIOUS
  <2>5. copy.epoch = epoch => edits \subseteq copy.edits
    <3>1. CASE copy.edits = replica.edits
      BY <2>2, <3>1 DEF Given
    <3>2. CASE copy = replica.previous
      BY <2>2, <3>2 DEF Given
    <3> QED BY <2>2, <3>1, <3>2
  <2> HIDE DEF copy, new
  <2>6. replica'.epoch = new /\ replica'.edits = copy.edits \cup r.update /\ replica'.previous = copy
    BY <2>1 DEF Saves
  <2> QED BY <2>2, <2>3, <2>4, <2>5, <2>6 DEF Given, NoCopy
<1>5. CASE Writes /\ UNCHANGED <<replica, root>>
  <2>1. CASE epoch = replica.epoch /\ replica.previous.epoch = replica.epoch
    BY <1>2, <1>5, <2>1, WritesGive DEF Given
  <2>2. CASE ~(epoch = replica.epoch /\ replica.previous.epoch = replica.epoch)
    BY <1>1, <1>5, <2>2 DEF Given, NoCopy
  <2> QED BY <2>1, <2>2
<1>6. CASE Replace
  <2>1. file' = Fresh(troubles + 1) /\ UNCHANGED <<replica, root>>
    BY <1>6 DEF Replace, Change
  <2>2. replica.previous.epoch # 0 => TextOf(replica.previous).origin <= troubles
    <3>1. replica.previous.epoch # 0 => root[replica.previous.epoch] \in Texts
                                        /\ root[replica.previous.epoch].origin <= troubles
      BY <1>1 DEF TypeOK, Causal
    <3> QED BY <3>1 DEF TextOf, Texts
  <2>3. file'.origin = troubles + 1 /\ troubles \in Nat
    BY <2>1 DEF Fresh, TypeOK
  <2>4. replica.previous.epoch # 0 => TextOf(replica.previous) # file'
    <3>1. ASSUME replica.previous.epoch # 0, TextOf(replica.previous) = file' PROVE FALSE
      <4>1. troubles + 1 <= troubles
        BY <2>2, <2>3, <3>1
      <4> QED BY <2>3, <4>1
    <3> QED BY <3>1
  <2> QED BY <1>1, <1>2, <2>1, <2>4 DEF Given
<1>7. CASE Restore
  BY <1>7 DEF Restore
<1> QED BY <1>3, <1>4, <1>5, <1>6, <1>7, StepServer DEF ServerActs

-----------------------------------------------------------------------------
(* No edit waits for a lost one: the copies of an editor.                  *)

LEMMA CausalStays ==
  ASSUME TypeOK, KeepInv, Causal, Grows, [Next]_vars, ~restored'
  PROVE  /\ \A epoch \in 1..Len(root) : \A doc, own \in EditSet :
              GivenBeside(epoch, doc, own) => GivenBeside(epoch, doc, own)'
         /\ \A edits \in EditSet : Whole(edits) => Whole(edits)'
         /\ \A j \in Journals : ScopeOfJournal(j) /\ CausalOfJournal(j) => CausalOfJournal(j)'
         /\ \A s \in States : ScopeOfState(s) /\ CausalOfState(s) => CausalOfState(s)'
<1>1. ASSUME NEW epoch \in 1..Len(root), NEW doc \in EditSet, NEW own \in EditSet,
             GivenBeside(epoch, doc, own)
      PROVE  GivenBeside(epoch, doc, own)'
  <2>1. Given(epoch, doc \ own)'
    BY <1>1, GivenStays DEF GivenBeside
  <2>2. \A n \in own : edit'[n] = edit[n]
    BY DEF Grows, EditSet
  <2> QED BY <1>1, <2>1, <2>2 DEF GivenBeside
<1>2. ASSUME NEW edits \in EditSet, Whole(edits) PROVE Whole(edits)'
  BY <1>2 DEF Whole, Grows, EditSet
<1>3. Len(root) \in Nat
  BY DEF TypeOK
<1>4. ASSUME NEW j \in Journals, ScopeOfJournal(j), CausalOfJournal(j) PROVE CausalOfJournal(j)'
  <2>1. j.epoch \in Nat /\ j.doc \in EditSet /\ j.pending \in EditSet /\ j.epoch <= Len(root)
    BY <1>4 DEF Journals, ScopeOfJournal
  <2>2. j.epoch # 0 => GivenBeside(j.epoch, j.doc, j.pending)'
    BY <1>1, <1>3, <1>4, <2>1 DEF CausalOfJournal
  <2> QED BY <2>2 DEF CausalOfJournal
<1>5. ASSUME NEW s \in States, ScopeOfState(s), CausalOfState(s) PROVE CausalOfState(s)'
  <2>1. /\ s.epoch \in Nat /\ s.doc \in EditSet /\ Own(s) \in EditSet /\ s.epoch <= Len(root)
        /\ s.saved \in Journals /\ ScopeOfJournal(s.saved) /\ s.inFlight \in EditSet
        /\ s.at \in Bound => s.epoch # 0
    BY <1>5 DEF States, ScopeOfState, Own, EditSet, Bound
  <2>2. CausalOfJournal(s.saved)'
    BY <1>4, <1>5, <2>1 DEF CausalOfState
  <2>3. s.at \in Bound => GivenBeside(s.epoch, s.doc, Own(s))'
    BY <1>1, <1>3, <1>5, <2>1 DEF CausalOfState
  <2>4. \A n \in s.inFlight : edit'[n] = edit[n]
    BY <2>1 DEF Grows, EditSet
  <2> QED BY <1>5, <2>2, <2>3, <2>4 DEF CausalOfState, Own
<1> QED BY <1>1, <1>2, <1>4, <1>5

\* What was given out may be put together.
LEMMA GivenTogether ==
  ASSUME NEW epoch, NEW a, NEW b, Given(epoch, a), Given(epoch, b)
  PROVE  /\ Given(epoch, a \cup b)
         /\ \A c : c \subseteq a \cup b => Given(epoch, c)
BY DEF Given

\* A document that receives what was given out.
LEMMA BesideGrows ==
  ASSUME NEW epoch, NEW doc, NEW own, NEW edits, NEW less, GivenBeside(epoch, doc, own), Given(epoch, edits),
         less \subseteq own, own \ less \subseteq edits
  PROVE  GivenBeside(epoch, doc \cup edits, less)
<1>1. (doc \cup edits) \ less \subseteq (doc \ own) \cup edits
  OBVIOUS
<1>2. Given(epoch, (doc \cup edits) \ less)
  BY <1>1, GivenTogether DEF GivenBeside
<1> QED BY <1>2 DEF GivenBeside

LEMMA PersistCausal ==
  ASSUME NEW s \in States, GivenBeside(s.epoch, s.doc, Own(s)),
         \A n \in s.inFlight : edit[n].needs \cap s.pending \subseteq s.inFlight,
         NEW at \in Bound
  PROVE  CausalOfState(Persist(s, at)) /\ CausalOfJournal(Snapshot(s))
<1>1. Own(s) = s.inFlight \cup s.pending
  BY DEF Own
<1>2. CausalOfJournal(Snapshot(s))
  BY <1>1 DEF CausalOfJournal, Snapshot
<1>3. /\ Persist(s, at).saved = Snapshot(s) /\ Persist(s, at).epoch = s.epoch
      /\ Persist(s, at).doc = s.doc /\ Persist(s, at).inFlight = s.inFlight
      /\ Persist(s, at).pending = s.pending
  BY DEF Persist, States
<1> QED BY <1>2, <1>3 DEF CausalOfState, Own

LEMMA ClosedCausal == CausalOfState(Closed) /\ CausalOfJournal(NoJournal)
BY DEF CausalOfState, CausalOfJournal, Closed, NoJournal, Bound

\* What an editor does leaves it with what was given out beside its own edits.
EditorCausal(c) == CausalOfState(state'[c]) /\ CausalOfJournal(journal'[c])

LEMMA CausalHas ==
  ASSUME TypeOK, KeepInv, Causal, NEW c \in Member
  PROVE  /\ state[c] \in States /\ ScopeOfState(state[c]) /\ CausalOfState(state[c])
         /\ journal[c] \in Journals /\ CausalOfJournal(journal[c]) /\ JournalOf(c)
         /\ state[c].at \in Bound <=> state[c].epoch # 0
BY JournalHas DEF Causal

LEMMA OpensCausal ==
  ASSUME TypeOK, KeepInv, Causal, NEW c \in Member, Open(c) \/ Opened(c) \/ OpenFailed(c)
  PROVE  EditorCausal(c)
<1> USE DEF EditorCausal
<1>1. /\ state[c] \in States /\ ScopeOfState(state[c]) /\ CausalOfState(state[c])
      /\ journal[c] \in Journals /\ CausalOfJournal(journal[c]) /\ JournalOf(c)
  BY CausalHas
<1>2. CASE Open(c)
  <2>1. state[c].at = "closed" /\ state[c].saved = NoJournal
    BY <1>1, <1>2 DEF Open, JournalOf
  <2>2. CASE /\ state' = [state EXCEPT ![c].at = "opening", ![c].saved = journal[c]]
             /\ UNCHANGED <<journal, archive>>
    <3>1. state'[c].at = "opening" /\ state'[c].saved = journal[c] /\ journal'[c] = journal[c]
      BY <1>1, <2>2 DEF TypeOK, States
    <3> QED BY <1>1, <3>1 DEF CausalOfState, Bound
  <2>3. CASE /\ state' = [state EXCEPT ![c].at = "opening"]
             /\ journal' = [journal EXCEPT ![c] = NoJournal]
    <3>1. state'[c].at = "opening" /\ state'[c].saved = NoJournal /\ journal'[c] = NoJournal
      BY <1>1, <2>1, <2>3 DEF TypeOK, States
    <3> QED BY <3>1, ClosedCausal DEF CausalOfState, Bound
  <2> QED BY <1>2, <2>2, <2>3 DEF Open
<1>3. CASE Opened(c)
  <2>1. PICK r \in replies : Opened(c)!(r)
    BY <1>3, Zenon DEF Opened
  <2> DEFINE saved == state[c].saved
             same == Resumes(saved, r)
             doc == r.edits \cup (IF same THEN saved.doc ELSE {})
             pending == IF same THEN saved.pending ELSE {}
             s == [state[c] EXCEPT !.epoch = r.epoch, !.doc = doc, !.pending = pending]
  <2>2. state[c].at = "opening" /\ state[c].inFlight = {} /\ saved = journal[c]
    <3>1. OneCall(c, "open") /\ r \in AnswersTo(c, "open")
      BY <2>1 DEF KeepInv, CallInv, AllKinds, AnswersTo
    <3> QED BY <1>1, <3>1 DEF OneCall, Awaits, ScopeOfState, JournalOf
  <2>3. /\ r \in Replies /\ r.epoch \in 1..Len(root) /\ Given(r.epoch, r.edits)
        /\ saved \in Journals /\ CausalOfJournal(saved)
    BY <1>1, <2>1, <2>2 DEF TypeOK, KeepInv, ScopeInv, Causal
  <2>4. GivenBeside(r.epoch, doc, pending)
    <3>1. CASE same
      <4>1. GivenBeside(r.epoch, saved.doc, saved.pending)
        BY <2>3, <3>1 DEF Resumes, CausalOfJournal
      <4>2. GivenBeside(r.epoch, saved.doc \cup r.edits, saved.pending)
        BY <2>3, <4>1, BesideGrows
      <4>3. doc = saved.doc \cup r.edits /\ pending = saved.pending
        BY <3>1
      <4> HIDE DEF doc, pending, saved
      <4> QED BY <4>2, <4>3
    <3>2. CASE ~same
      <4>1. doc = r.edits /\ pending = {} /\ doc \ pending = r.edits
        BY <3>2
      <4> HIDE DEF doc, pending
      <4> QED BY <2>3, <4>1 DEF GivenBeside
    <3> QED BY <3>1, <3>2
  <2>5. s \in States /\ s.epoch = r.epoch /\ s.doc = doc /\ Own(s) = pending /\ s.inFlight = {}
    <3>1. doc \in EditSet /\ pending \in EditSet
      BY <1>1, <2>3 DEF Replies, Journals, EditSet
    <3> HIDE DEF doc, pending
    <3> QED BY <1>1, <2>2, <2>3, <3>1 DEF States, Own, Replies
  <2>6. state' = [state EXCEPT ![c] = Persist(s, "binding")]
        /\ journal' = [journal EXCEPT ![c] = IF same THEN @ ELSE NoJournal]
    BY <2>1
  <2> HIDE DEF s, doc, pending, same
  <2>7. CausalOfState(Persist(s, "binding"))
    BY <2>4, <2>5, PersistCausal DEF Bound
  <2>8. CausalOfJournal(journal'[c])
    BY <1>1, <2>6, ClosedCausal DEF TypeOK
  <2> QED BY <2>6, <2>7, <2>8 DEF TypeOK
<1>4. CASE OpenFailed(c)
  BY <1>1, <1>4, ClosedCausal DEF OpenFailed, TypeOK
<1> QED BY <1>2, <1>3, <1>4

LEMMA SendsCausal ==
  ASSUME TypeOK, KeepInv, Causal, NEW c \in Member,
         Send(c) \/ Saved(c) \/ Settled(c) \/ Failed(c) \/ Refused(c) \/ Archived(c)
  PROVE  EditorCausal(c)
<1> USE DEF EditorCausal
<1>1. /\ state[c] \in States /\ ScopeOfState(state[c]) /\ CausalOfState(state[c])
      /\ journal[c] \in Journals /\ CausalOfJournal(journal[c])
      /\ state[c].at \in Bound <=> state[c].epoch # 0
  BY CausalHas
<1>2. CASE Send(c)
  <2> DEFINE s == [state[c] EXCEPT !.inFlight = state[c].pending, !.pending = {}]
  <2>1. s \in States /\ Own(s) = Own(state[c]) /\ s.epoch = state[c].epoch /\ s.doc = state[c].doc
        /\ s.pending = {}
    BY <1>1, <1>2 DEF Send, States, EditSet, Own, ScopeOfState
  <2>2. GivenBeside(state[c].epoch, state[c].doc, Own(state[c]))
    BY <1>1, <1>2 DEF Send, CausalOfState, Bound
  <2>3. state'[c] = Persist(s, "saving") /\ journal'[c] = journal[c]
    BY <1>2 DEF Send, TypeOK
  <2> HIDE DEF s
  <2> QED BY <1>1, <2>1, <2>2, <2>3, PersistCausal DEF Bound
<1>3. CASE Saved(c) \/ Settled(c) \/ Failed(c)
  <2>1. /\ journal'[c] = state[c].saved /\ state[c].at \in Bound
    BY <1>3 DEF Saved, Settled, Failed, WriteJournal, TypeOK, Bound
  <2>2. state'[c].epoch = state[c].epoch /\ state'[c].doc = state[c].doc
        /\ state'[c].pending = state[c].pending /\ state'[c].inFlight = state[c].inFlight
        /\ state'[c].saved = state[c].saved
    <3>1. CASE Saved(c)
      BY <1>1, <3>1 DEF Saved, TypeOK, States
    <3>2. CASE Settled(c)
      BY <1>1, <3>2 DEF Settled, TypeOK, States
    <3>3. CASE Failed(c)
      BY <1>1, <3>3 DEF Failed, TypeOK, States
    <3> QED BY <1>3, <3>1, <3>2, <3>3
  <2> QED BY <1>1, <2>1, <2>2 DEF CausalOfState, Own
<1>4. CASE Refused(c)
  <2>1. /\ journal'[c] = state[c].saved /\ state[c].at \in Bound
        /\ state'[c] = Persist(state[c], "archiving")
    BY <1>4 DEF Refused, WriteJournal, TypeOK, Bound
  <2> QED BY <1>1, <2>1, PersistCausal DEF CausalOfState, Bound
<1>5. CASE Archived(c)
  BY <1>5, ClosedCausal DEF Archived, TypeOK
<1> QED BY <1>2, <1>3, <1>4, <1>5

LEMMA AnswersCausal ==
  ASSUME TypeOK, KeepInv, Causal, NEW c \in Member, Acknowledged(c) \/ Rejected(c)
  PROVE  EditorCausal(c)
<1> USE DEF EditorCausal
<1>1. /\ state[c] \in States /\ CausalOfState(state[c]) /\ CausalOfJournal(journal[c])
      /\ state[c].at = "calling" => GivenBeside(state[c].epoch, state[c].doc, Own(state[c]))
  BY CausalHas DEF CausalOfState, Bound
<1>2. CASE Acknowledged(c)
  <2>1. PICK r \in replies : Acknowledged(c)!(r)
    BY <1>2, Zenon DEF Acknowledged
  <2> DEFINE s == [state[c] EXCEPT !.doc = @ \cup r.edits, !.inFlight = {}, !.missed = FALSE]
  <2>2. /\ r \in Replies /\ Given(r.epoch, r.edits) /\ r.epoch = state[c].epoch
        /\ state[c].inFlight \subseteq r.edits
    <3>1. OneCall(c, "edit") /\ r \in AnswersTo(c, "edit")
      BY <2>1 DEF KeepInv, CallInv, AllKinds, AnswersTo
    <3> QED BY <2>1, <3>1 DEF OneCall, Causal, TypeOK
  <2>3. /\ s \in States /\ s.epoch = state[c].epoch /\ s.doc = state[c].doc \cup r.edits
        /\ Own(s) = state[c].pending /\ s.inFlight = {}
    BY <1>1, <2>2 DEF States, Replies, EditSet, Own
  <2>4. GivenBeside(state[c].epoch, state[c].doc \cup r.edits, state[c].pending)
    <3>1. state[c].pending \subseteq Own(state[c]) /\ Own(state[c]) \ state[c].pending \subseteq r.edits
      BY <2>2 DEF Own
    <3> QED BY <1>1, <2>1, <2>2, <3>1, BesideGrows
  <2>5. state' = [state EXCEPT ![c] = Persist(s, "acked")] /\ journal' = journal
    BY <2>1
  <2> HIDE DEF s
  <2>6. CausalOfState(Persist(s, "acked"))
    BY <2>3, <2>4, PersistCausal DEF Bound
  <2> QED BY <1>1, <2>5, <2>6 DEF TypeOK
<1>3. CASE Rejected(c)
  <2>1. PICK r \in replies : Rejected(c)!(r)
    BY <1>3, Zenon DEF Rejected
  <2> DEFINE s == [state[c] EXCEPT !.pending = @ \cup state[c].inFlight, !.inFlight = {}]
             at == IF r.status = "failed" THEN "failed" ELSE "refused"
  <2>2. /\ s \in States /\ s.epoch = state[c].epoch /\ s.doc = state[c].doc
        /\ Own(s) = Own(state[c]) /\ s.inFlight = {} /\ at \in Bound
    BY <1>1 DEF States, EditSet, Own, Bound
  <2>3. state' = [state EXCEPT ![c] = Persist(s, at)] /\ journal' = journal
    BY <2>1
  <2> HIDE DEF s, at
  <2>4. CausalOfState(Persist(s, at))
    BY <1>1, <2>1, <2>2, PersistCausal
  <2> QED BY <1>1, <2>3, <2>4 DEF TypeOK
<1> QED BY <1>2, <1>3

LEMMA HearsCausal ==
  ASSUME TypeOK, KeepInv, Causal, NEW c \in Member,
         Receive(c) \/ Refresh(c) \/ Refreshed(c) \/ Leave(c) \/ Reload(c)
  PROVE  EditorCausal(c)
<1> USE DEF EditorCausal
<1>1. /\ state[c] \in States /\ ScopeOfState(state[c]) /\ CausalOfState(state[c])
      /\ CausalOfJournal(journal[c])
      /\ state[c].at \in Bound <=> state[c].epoch # 0
  BY CausalHas
\* The document has received what was given out, the rest is as it was.
<1>2. ASSUME NEW edits, Given(state[c].epoch, edits), state'[c].doc \in {state[c].doc, state[c].doc \cup edits},
             state'[c].at = state[c].at, state'[c].epoch = state[c].epoch,
             state'[c].pending = state[c].pending, state'[c].inFlight = state[c].inFlight,
             state'[c].saved = state[c].saved
      PROVE  CausalOfState(state'[c])
  <2>1. Own(state'[c]) = Own(state[c])
    BY <1>2 DEF Own
  <2>2. state[c].at \in Bound => GivenBeside(state[c].epoch, state'[c].doc, Own(state[c]))
    <3>1. state[c].at \in Bound => GivenBeside(state[c].epoch, state[c].doc, Own(state[c]))
      BY <1>1 DEF CausalOfState
    <3>2. state[c].at \in Bound => GivenBeside(state[c].epoch, state[c].doc \cup edits, Own(state[c]))
      BY <1>2, <3>1, BesideGrows
    <3> QED BY <1>2, <3>1, <3>2
  <2> QED BY <1>1, <1>2, <2>1, <2>2 DEF CausalOfState
<1>3. CASE Receive(c)
  <2> DEFINE e == Head(events[c])
  <2>1. e.kind = "text" => Given(e.epoch, e.edits)
    <3>1. events[c] \in Seq(Events) /\ events[c] # <<>>
      BY <1>3 DEF TypeOK, Receive
    <3>2. e = events[c][1] /\ 1 \in 1..Len(events[c])
      BY <3>1
    <3> HIDE DEF e
    <3> QED BY <3>2 DEF Causal, CausalOfEvent
  <2>2. /\ state'[c].at = state[c].at /\ state'[c].epoch = state[c].epoch
        /\ state'[c].pending = state[c].pending /\ state'[c].inFlight = state[c].inFlight
        /\ state'[c].saved = state[c].saved /\ journal'[c] = journal[c]
    BY <1>1, <1>3 DEF Receive, TypeOK, States
  <2>3. \/ state'[c].doc = state[c].doc
        \/ e.kind = "text" /\ e.epoch = state[c].epoch /\ state'[c].doc = state[c].doc \cup e.edits
    <3>1. CASE state' = [state EXCEPT ![c].refresh = "wanted"]
      BY <1>1, <3>1 DEF TypeOK, States
    <3>2. CASE /\ e.kind = "text"
               /\ state' = [state EXCEPT ![c].doc =
                              IF state[c].epoch = e.epoch THEN @ \cup e.edits ELSE @,
                            ![c].missed = @ \/ state[c].at = "opening"]
      <4> HIDE DEF e
      <4> QED BY <1>1, <3>2 DEF TypeOK, States
    <3> QED BY <1>3, <3>1, <3>2 DEF Receive
  <2> HIDE DEF e
  <2>4. Given(state[c].epoch, {})
    BY DEF Given
  <2>5. CASE state'[c].doc = state[c].doc
    BY <1>1, <1>2, <2>2, <2>4, <2>5
  <2>6. CASE e.kind = "text" /\ e.epoch = state[c].epoch /\ state'[c].doc = state[c].doc \cup e.edits
    BY <1>1, <1>2, <2>1, <2>2, <2>6
  <2> QED BY <2>3, <2>5, <2>6
<1>4. CASE Refresh(c)
  <2>1. /\ state'[c].at = state[c].at /\ state'[c].epoch = state[c].epoch
        /\ state'[c].pending = state[c].pending /\ state'[c].inFlight = state[c].inFlight
        /\ state'[c].saved = state[c].saved /\ journal'[c] = journal[c] /\ state'[c].doc = state[c].doc
    BY <1>1, <1>4 DEF Refresh, TypeOK, States
  <2>2. Given(state[c].epoch, {})
    BY DEF Given
  <2> QED BY <1>1, <1>2, <2>1, <2>2
<1>5. CASE Refreshed(c)
  <2>1. PICK r \in replies : Refreshed(c)!(r)
    BY <1>5, Zenon DEF Refreshed
  <2>2. r.status = "ok" => Given(state[c].epoch, r.edits)
    <3>1. OneCall(c, "refresh") /\ r \in AnswersTo(c, "refresh") /\ "refresh" # "open"
      BY <2>1 DEF KeepInv, CallInv, AllKinds, AnswersTo
    <3> QED BY <2>1, <3>1 DEF OneCall, Causal
  <2>3. Given(state[c].epoch, {}) /\ state \in [Member -> States] /\ journal'[c] = journal[c]
    BY <2>1 DEF Given, TypeOK
  <2>4. CASE /\ r.status = "ok"
             /\ state' = [state EXCEPT ![c].doc = @ \cup r.edits, ![c].refresh = "none",
                            ![c].missed = FALSE]
    <3>1. /\ state'[c].at = state[c].at /\ state'[c].epoch = state[c].epoch
          /\ state'[c].pending = state[c].pending /\ state'[c].inFlight = state[c].inFlight
          /\ state'[c].saved = state[c].saved /\ state'[c].doc = state[c].doc \cup r.edits
      BY <1>1, <2>3, <2>4 DEF States
    <3> QED BY <1>1, <1>2, <2>2, <2>3, <2>4, <3>1
  <2>5. CASE state' = [state EXCEPT ![c].refresh = "none", ![c].missed = TRUE]
    <3>1. /\ state'[c].at = state[c].at /\ state'[c].epoch = state[c].epoch
          /\ state'[c].pending = state[c].pending /\ state'[c].inFlight = state[c].inFlight
          /\ state'[c].saved = state[c].saved /\ state'[c].doc = state[c].doc
      BY <1>1, <2>3, <2>5 DEF States
    <3> QED BY <1>1, <1>2, <2>3, <3>1
  <2>6. CASE state' = [state EXCEPT ![c] = [Persist(@, "archiving") EXCEPT !.refresh = "none"]]
    <3> DEFINE s == Persist(state[c], "archiving")
    <3>1. state[c].at \in Bound
      BY <1>1, <2>1 DEF ScopeOfState
    <3>2. CausalOfState(s)
      BY <1>1, <3>1, PersistCausal DEF CausalOfState, Bound
    <3>3. state'[c] = [s EXCEPT !.refresh = "none"]
      BY <2>3, <2>6
    <3>4. s.at = "archiving" /\ s \in States
      <4>1. "archiving" \in Bound /\ s \in States
        BY <1>1, PersistTypes DEF Bound
      <4> QED BY <1>1, <4>1 DEF Persist, States
    <3> HIDE DEF s
    <3>5. state'[c].at = s.at /\ state'[c].epoch = s.epoch /\ state'[c].pending = s.pending
          /\ state'[c].inFlight = s.inFlight /\ state'[c].saved = s.saved /\ state'[c].doc = s.doc
      BY <3>3, <3>4 DEF States
    <3> QED BY <1>1, <2>3, <3>2, <3>5 DEF CausalOfState, Own
  <2> QED BY <2>1, <2>4, <2>5, <2>6
<1>6. CASE Leave(c)
  <2>1. state'[c] = Closed
    BY <1>6 DEF Leave, TypeOK
  <2>2. CausalOfJournal(journal'[c])
    <3>1. CASE state[c].at = "opening"
      BY <1>1, <1>6, <3>1 DEF Leave, TypeOK
    <3>2. CASE state[c].at # "opening"
      <4>1. state[c].at \in Bound /\ journal'[c] = Snapshot(state[c])
        BY <1>1, <1>6, <3>2 DEF Leave, TypeOK, States
      <4> QED BY <1>1, <4>1, PersistCausal DEF CausalOfState
    <3> QED BY <3>1, <3>2
  <2> QED BY <2>1, <2>2, ClosedCausal
<1>7. CASE Reload(c)
  BY <1>1, <1>7, ClosedCausal DEF Reload, TypeOK
<1> QED BY <1>3, <1>4, <1>5, <1>6, <1>7

\* A new edit is typed next to edits that the document has in effect.
LEMMA TypeCausal ==
  ASSUME TypeOK, KeepInv, Causal, Grows, NEW c \in Member, Type(c)
  PROVE  CausalOfState(state[c])'
<1> DEFINE n == Len(edit) + 1
           s == state[c]
           t == state'[c]
<1>1. PICK base \in {{}} \cup {{m} \cup edit[m].needs : m \in Integrated(s.doc)} :
        edit' = Append(edit, [epoch |-> s.epoch, needs |-> base])
  BY DEF Type
<1>2. /\ s \in States /\ ScopeOfState(s) /\ CausalOfState(s) /\ s.at \in Bound /\ Len(edit) \in Nat
      /\ UNCHANGED <<replica, file, root>>
  BY CausalHas DEF Type, disk, TypeOK
<1>3. /\ t.doc = s.doc \cup {n} /\ t.pending = s.pending \cup {n} /\ t.inFlight = s.inFlight
      /\ t.epoch = s.epoch /\ t.saved = s.saved /\ t.at = s.at
  BY <1>2 DEF Type, TypeOK, States
<1>4. base \subseteq s.doc
  BY DEF Integrated
<1>5. edit'[n].needs = base /\ \A m \in 1..Len(edit) : edit'[m] = edit[m]
  <2>1. edit \in Seq([epoch : Nat, needs : SUBSET Nat])
    BY DEF TypeOK
  <2> QED BY <1>1, <2>1
<1>6. /\ s.doc \subseteq 1..Len(edit) /\ s.inFlight \subseteq 1..Len(edit) /\ s.pending \subseteq 1..Len(edit)
      /\ \A m \in 1..Len(edit) : edit[m].needs \subseteq 1..Len(edit)
      /\ n \notin 1..Len(edit)
  BY <1>2 DEF States, EditSet, TypeOK
<1>7. \A epoch \in 1..Len(root) : \A edits : Given(epoch, edits) => Given(epoch, edits)'
  <2> SUFFICES ASSUME NEW epoch \in 1..Len(root), NEW edits, Given(epoch, edits)
               PROVE  Given(epoch, edits)'
    OBVIOUS
  <2>1. replica.previous.epoch # 0 => TextOf(replica.previous)' = TextOf(replica.previous)
    BY <1>2, ReplicaTexts DEF KeepInv
  <2> QED BY <1>2, <2>1 DEF Given
<1>8. s.epoch \in 1..Len(root)
  BY <1>2, CausalHas DEF ScopeOfState, States, TypeOK
<1>9. GivenBeside(s.epoch, s.doc, Own(s)) /\ Own(t) = Own(s) \cup {n} /\ Own(s) \subseteq 1..Len(edit)
  BY <1>2, <1>3, <1>6 DEF CausalOfState, Own
<1>10. PICK e, d : e = t.epoch /\ d = t.doc \ Own(t)
  OBVIOUS
<1>11. Given(e, d)'
  <2>1. t.doc \ Own(t) = s.doc \ Own(s)
    BY <1>3, <1>6, <1>9
  <2>2. Given(s.epoch, s.doc \ Own(s))
    BY <1>9 DEF GivenBeside
  <2> QED BY <1>3, <1>7, <1>8, <1>10, <2>1, <2>2
<1>12. \A m \in Own(t) : edit'[m].needs \subseteq t.doc
  BY <1>3, <1>4, <1>5, <1>9 DEF GivenBeside
<1>13. Own(t) \subseteq t.doc
  BY <1>3, <1>9 DEF GivenBeside
<1>14. \A m \in t.inFlight : edit'[m].needs \cap t.pending \subseteq t.inFlight
  BY <1>2, <1>3, <1>5, <1>6 DEF CausalOfState
<1>15. PICK j : j = t.saved
  OBVIOUS
<1>16. CausalOfJournal(j)'
  <2>1. j \in Journals /\ j.epoch <= Len(root) /\ CausalOfJournal(j) /\ Len(root) \in Nat
    BY <1>2, <1>3, <1>15 DEF States, ScopeOfState, CausalOfState, ScopeOfJournal, TypeOK
  <2>2. \A m \in j.pending : edit'[m] = edit[m]
    BY <1>5, <2>1 DEF Journals, EditSet
  <2>3. j.epoch # 0 => Given(j.epoch, j.doc \ j.pending)'
    BY <1>7, <2>1 DEF Journals, CausalOfJournal, GivenBeside
  <2> QED BY <2>1, <2>2, <2>3 DEF CausalOfJournal, GivenBeside
<1> HIDE DEF n
<1>17. Own(state[c])' = Own(t)
  BY DEF Own
<1> QED BY <1>10, <1>11, <1>12, <1>13, <1>14, <1>15, <1>16, <1>17 DEF CausalOfState, GivenBeside

-----------------------------------------------------------------------------
(* No edit waits for a lost one: the server and the messages.              *)

\* The edits under way stay those of the answer until it is taken.
LEMMA InFlightStays ==
  ASSUME TypeOK, KeepInv, NEW c \in Member, EditorActs(c),
         NEW r \in AnswersTo(c, "edit"), r \in replies'
  PROVE  state'[c].inFlight = state[c].inFlight
<1>1. /\ state[c] \in States /\ state[c].at \in {"calling", "archiving"}
      /\ \A q \in AnswersTo(c, "edit") : q = r
  BY JournalHas DEF KeepInv, CallInv, AllKinds, OneCall, Awaits
<1>2. ~(Open(c) \/ Send(c) \/ Saved(c) \/ Settled(c) \/ Failed(c) \/ Refused(c))
  BY <1>1 DEF Open, Send, Saved, Settled, Failed, Refused
<1>3. ~(Opened(c) \/ OpenFailed(c))
  <2>1. OneCall(c, "open") /\ "open" \in AllKinds
    BY DEF KeepInv, CallInv, AllKinds
  <2> QED BY <1>1, <2>1, AnswerTaken DEF OneCall, Awaits
<1>4. ~(Acknowledged(c) \/ Rejected(c))
  BY <1>1, AnswerTaken DEF AllKinds
<1>5. ~(Archived(c) \/ Leave(c) \/ Reload(c))
  BY ForgetFollows DEF Archived, Leave, Reload, AnswersTo, AllKinds
<1>6. CASE Type(c) \/ Refresh(c)
  BY <1>1, <1>6 DEF Type, Refresh, TypeOK, States
<1>7. CASE Receive(c)
  BY <1>1, <1>7 DEF Receive, TypeOK, States
<1>8. CASE Refreshed(c)
  <2>1. PICK q \in replies : Refreshed(c)!(q)
    BY <1>8, Zenon DEF Refreshed
  <2>2. state \in [Member -> States]
    BY DEF TypeOK
  <2>3. CASE state' = [state EXCEPT ![c] = [Persist(@, "archiving") EXCEPT !.refresh = "none"]]
    <3>1. state'[c] = [Persist(state[c], "archiving") EXCEPT !.refresh = "none"]
      BY <2>2, <2>3
    <3> QED BY <1>1, <3>1 DEF States, Persist
  <2>4. CASE state' = [state EXCEPT ![c].refresh = "none", ![c].missed = TRUE]
    BY <1>1, <2>2, <2>4 DEF States
  <2>5. CASE state' = [state EXCEPT ![c].doc = @ \cup q.edits, ![c].refresh = "none",
                          ![c].missed = FALSE]
    BY <1>1, <2>2, <2>5 DEF States
  <2> QED BY <2>1, <2>3, <2>4, <2>5
<1> QED BY <1>2, <1>3, <1>4, <1>5, <1>6, <1>7, <1>8 DEF EditorActs, Editor

LEMMA RepliesCausal ==
  ASSUME TypeOK, KeepInv, Causal, Grows, [Next]_vars, ~restored', NEW r \in replies', r.status = "ok"
  PROVE  /\ Given(r.epoch, r.edits)'
         /\ r.kind = "edit" => state'[r.to].inFlight \subseteq written'
<1>1. CASE r \in replies
  <2>1. /\ r.epoch \in 1..Len(root) /\ Given(r.epoch, r.edits) /\ r.to \in Member
        /\ r.kind = "edit" => state[r.to].inFlight \subseteq written
    BY <1>1 DEF KeepInv, ScopeInv, Causal, TypeOK, Replies
  <2>2. r.kind = "edit" => state'[r.to].inFlight = state[r.to].inFlight
    <3>1. r.kind = "edit" => r \in AnswersTo(r.to, "edit")
      BY <1>1 DEF AnswersTo
    <3> QED BY <2>1, <3>1, OneEditorActs, InFlightStays DEF EditorRests
  <2>3. written \subseteq written'
    BY StepServer
  <2> QED BY <2>1, <2>2, <2>3, GivenStays
<1>2. ASSUME NEW q \in requests, Answers(q, r)
      PROVE  /\ Given(r.epoch, r.edits)'
             /\ r.kind = "edit" => state'[r.to].inFlight \subseteq written'
  <2>1. /\ Commit /\ q.started /\ q.live /\ file' = TextOf(replica)
        /\ r.to = q.from /\ r.kind = q.kind /\ r.epoch = replica.epoch /\ r.edits = replica.edits
    BY <1>2 DEF Answers
  <2>2. UNCHANGED <<state, replica, root>> /\ written' = written \cup file'.edits /\ Writes
    BY <2>1 DEF Commit, client, Writes
  <2>3. ScopeInv /\ WriteInv /\ replica.epoch \in 1..Len(root)
    BY <2>1, StartedText DEF KeepInv
  <2>4. Given(r.epoch, r.edits)'
    <3>1. CASE replica.previous.epoch # 0
      <4>1. TextOf(replica.previous)' = TextOf(replica.previous)
        BY <2>2, <2>3, <3>1, ReplicaTexts
      <4>2. Given(replica.epoch, replica.edits)'
        BY <2>2, <4>1, WritesGive
      <4> QED BY <2>1, <2>2, <4>2 DEF Given
    <3>2. CASE replica.previous.epoch = 0
      BY <2>1, <2>2, <2>3, <3>2 DEF Given
    <3> QED BY <3>1, <3>2
  <2>5. r.kind = "edit" => state[r.to].inFlight \subseteq replica.edits
    <3>1. r.kind = "edit" => q \in CallsOf(q.from, "edit") /\ q.from \in Member
      BY <2>1 DEF CallsOf, TypeOK, Requests
    <3> QED BY <2>1, <3>1 DEF KeepInv, CallInv, OneCall, AllKinds, WriteInv
  <2>6. replica.edits \subseteq written'
    <3>1. root[replica.epoch] \in Texts /\ replica.edits = Integrated(replica.edits)
      BY <2>3 DEF TypeOK, Causal, Whole, Integrated
    <3> QED BY <2>1, <2>2, <3>1 DEF TextOf, Texts
  <2> QED BY <2>2, <2>4, <2>5, <2>6
<1> QED BY <1>1, <1>2, StepReplies DEF RepliesFollow

\* A write of the file goes with no other step of the server.
LEMMA WritesAlone == ASSUME TypeOK, [Next]_vars, Writes PROVE UNCHANGED <<replica, root>>
<1>1. Busy
  BY DEF Writes, Busy
<1> QED BY <1>1, StepServer DEF ServerActs, Starts, Replace, Restore, Change

LEMMA LiveGiven ==
  ASSUME TypeOK, KeepInv, Causal, Grows, [Next]_vars, Writes, NEW edits, edits \subseteq replica.edits
  PROVE  Given(replica.epoch, edits)' /\ replica'.epoch = replica.epoch
<1>1. UNCHANGED <<replica, root>> /\ ScopeInv /\ replica.epoch # 0
  BY WritesAlone DEF Writes, KeepInv, WriteInv
<1>2. CASE replica.previous.epoch # 0
  BY <1>1, <1>2, ReplicaTexts, WritesGive
<1>3. CASE replica.previous.epoch = 0
  BY <1>1, <1>3 DEF Given
<1> QED BY <1>1, <1>2, <1>3

LEMMA EventsCausal ==
  ASSUME TypeOK, KeepInv, Causal, Grows, [Next]_vars, ~restored',
         NEW c \in Member, NEW k \in 1..Len(events'[c])
  PROVE  CausalOfEvent(events[c][k])'
<1>1. PICK e : e = events'[c][k]
  OBVIOUS
<1>2. ASSUME NEW i \in 1..Len(events[c]), e = events[c][i], e.kind = "text" PROVE Given(e.epoch, e.edits)'
  <2>1. e.epoch \in 1..Len(root) /\ Given(e.epoch, e.edits)
    BY <1>2 DEF KeepInv, ScopeInv, Causal, CausalOfEvent
  <2> QED BY <2>1, GivenStays
<1>3. ASSUME e = LiveEvent, Writes PROVE Given(e.epoch, e.edits)'
  <2>1. e.epoch = replica.epoch /\ e.edits \subseteq replica.edits
    BY <1>3 DEF LiveEvent, Delta
  <2>2. Given(replica.epoch, e.edits)' /\ replica'.epoch = replica.epoch
    BY <1>3, <2>1, LiveGiven
  <2> QED BY <2>1, <2>2 DEF Given
<1>4. e = SyncEvent => e.kind # "text"
  BY DEF SyncEvent
<1>5. e.kind = "text" => Given(e.epoch, e.edits)'
  BY <1>1, <1>2, <1>3, <1>4, StepEvents DEF EventsFollow
<1> QED BY <1>1, <1>5 DEF CausalOfEvent

LEMMA CallsCausal ==
  ASSUME TypeOK, KeepInv, Causal, Grows, [Next]_vars, ~restored', NEW r \in requests'
  PROVE  CausalOfCall(r)'
<1> SUFFICES ASSUME NEW n \in r.update PROVE Given(r.epoch, edit[n].needs \ r.update)'
  BY DEF CausalOfCall
<1>1. PICK d : d = edit'[n].needs \ r.update
  OBVIOUS
<1>2. ASSUME NEW q \in requests, SameCall(r, q) PROVE Given(r.epoch, d)'
  <2>1. q \in Requests /\ ScopeOfCall(q) /\ CausalOfCall(q) /\ r.epoch = q.epoch /\ r.update = q.update
    BY <1>2 DEF TypeOK, KeepInv, ScopeInv, Causal, SameCall
  <2>2. n \in 1..Len(edit) /\ edit'[n] = edit[n]
    BY <2>1 DEF Requests, EditSet, Grows
  <2>3. r.epoch \in 1..Len(root)
    BY <2>1, <2>2 DEF ScopeOfCall, OfEpoch, KeepInv, ScopeInv, ScopeOfServer
  <2>4. Given(r.epoch, d)
    BY <1>1, <2>1, <2>2 DEF CausalOfCall
  <2> QED BY <2>3, <2>4, GivenStays
<1>3. ASSUME NEW c \in Member, Calls(c, r) PROVE Given(r.epoch, d)'
  <2>1. Saved(c) /\ r.epoch = state[c].epoch /\ r.update = state[c].inFlight
    BY <1>3 DEF Calls, Request
  <2>2. /\ state[c] \in States /\ ScopeOfState(state[c]) /\ CausalOfState(state[c])
        /\ state[c].at \in Bound
        /\ state[c].epoch # 0
    BY <2>1, CausalHas DEF Saved, Bound
  <2>3. state[c].epoch \in 1..Len(root) /\ edit' = edit
    BY <2>1, <2>2 DEF ScopeOfState, States, Saved, TypeOK
  <2>4. d \subseteq state[c].doc \ Own(state[c]) /\ Given(state[c].epoch, state[c].doc \ Own(state[c]))
    BY <1>1, <2>1, <2>2, <2>3 DEF CausalOfState, GivenBeside, Own
  <2>5. Given(r.epoch, d)
    BY <2>1, <2>4 DEF Given
  <2> QED BY <2>1, <2>3, <2>5, GivenStays
<1>4. Given(r.epoch, d)'
  BY <1>2, <1>3, StepCalls DEF CallsFollow
<1> QED BY <1>1, <1>4

\* What a call adds to the replica waits for nothing that is lost.
LEMMA StartsWhole ==
  ASSUME TypeOK, KeepInv, Causal, Grows, [Next]_vars, ~restored', NEW r \in requests, Starts(r)
  PROVE  Whole(replica.edits)' /\ Whole(replica.previous.edits)'
<1> DEFINE copy == Selected
           epoch == IF copy.epoch # 0 THEN copy.epoch ELSE Len(root) + 1
<1>1. /\ ~Replaced(r, epoch) /\ replica' = Saves(epoch, copy.edits \cup r.update, copy) /\ edit' = edit
      /\ r \in Requests /\ ScopeOfCall(r) /\ CausalOfCall(r)
  BY DEF Starts, TypeOK, KeepInv, ScopeInv, Causal
<1>2. Whole(copy.edits) /\ copy.edits \in EditSet
  BY SelectedIs DEF Causal, NoCopy, Whole, Copies
<1> HIDE DEF copy, epoch
<1>3. replica'.epoch = epoch /\ replica'.edits = copy.edits \cup r.update /\ replica'.previous = copy
  BY <1>1 DEF Saves
<1>4. ASSUME NEW n \in r.update PROVE edit[n].needs \subseteq copy.edits \cup r.update
  <2>1. PICK d : d = edit[n].needs \ r.update
    OBVIOUS
  <2>2. r.epoch \in 1..Len(root)
    BY <1>1 DEF ScopeOfCall, OfEpoch, KeepInv, ScopeInv, ScopeOfServer, Requests, EditSet
  <2>3. Given(r.epoch, d)'
    BY <1>1, <2>1, <2>2, GivenStays DEF CausalOfCall
  <2>4. r.epoch = epoch
    BY <1>1, <2>2 DEF Replaced
  <2>5. d \subseteq replica'.edits
    BY <1>3, <2>3, <2>4 DEF Given
  <2> QED BY <1>3, <2>1, <2>5
<1>5. \A n \in copy.edits : edit[n].needs \subseteq copy.edits
  BY <1>2 DEF Whole
<1> QED BY <1>1, <1>3, <1>4, <1>5 DEF Whole

LEMMA CausalKept == ASSUME TypeOK, TypeOK', KeepInv, CausalInv, [Next]_vars PROVE CausalInv'
<1>1. Grows /\ ServerActs /\ written \subseteq written' /\ (restored => restored') /\ troubles <= troubles'
      /\ (Writes \/ UNCHANGED file \/ Replace \/ Restore)
  BY StepGrows, StepServer
<1> SUFFICES ASSUME Causal, ~restored' PROVE Causal'
  BY <1>1 DEF CausalInv
<1>2. Whole(replica.edits)' /\ Whole(replica.previous.edits)'
  <2>1. CASE UNCHANGED replica
    <3>1. \A edits \in EditSet : Whole(edits) => Whole(edits)'
      BY <1>1, CausalStays
    <3> QED BY <2>1, <3>1, ReplicaHas DEF Causal
  <2> QED BY <1>1, <2>1, StartsWhole DEF ServerActs, Replace, Restore, Change
<1>3. ASSUME NEW c \in Member PROVE CausalOfState(state[c])' /\ CausalOfJournal(journal[c])'
  <2>1. /\ \A j \in Journals : ScopeOfJournal(j) /\ CausalOfJournal(j) => CausalOfJournal(j)'
        /\ \A s \in States : ScopeOfState(s) /\ CausalOfState(s) => CausalOfState(s)'
    BY <1>1, CausalStays
  <2>2. /\ state[c] \in States /\ ScopeOfState(state[c]) /\ CausalOfState(state[c])
        /\ journal[c] \in Journals /\ CausalOfJournal(journal[c]) /\ ScopeOfJournal(journal[c])
    BY CausalHas, EditorHas DEF KeepInv
  <2>3. CASE EditorRests(c)
    BY <2>1, <2>2, <2>3 DEF EditorRests
  <2>4. CASE Editor(c) \/ Leave(c) \/ Reload(c)
    <3>1. EditorCausal(c)
      BY <2>4, OpensCausal, SendsCausal, AnswersCausal, HearsCausal DEF Editor
    <3>2. EditorScope(c)
      BY <2>4, OpensScope, SendsScope, HearsScope DEF Editor
    <3>3. edit' = edit
      BY <2>4, EditorDisk DEF Leave, Reload
    <3>4. state'[c] \in States /\ journal'[c] \in Journals
      BY <3>3, TypesStay DEF TypeOK
    <3> QED BY <2>1, <3>1, <3>2, <3>4 DEF EditorCausal, EditorScope
  <2>5. CASE Type(c)
    <3>1. journal'[c] = journal[c]
      BY <2>5 DEF Type
    <3> QED BY <1>1, <2>1, <2>2, <2>5, <3>1, TypeCausal
  <2> QED BY <2>3, <2>4, <2>5, OneEditorActs DEF EditorActs
<1>4. \A c \in Member : \A k \in 1..Len(events'[c]) : CausalOfEvent(events[c][k])'
  BY <1>1, EventsCausal
<1>5. \A r \in requests' : CausalOfCall(r)'
  BY <1>1, CallsCausal
<1>6. \A r \in replies' : r.status = "ok" =>
        /\ Given(r.epoch, r.edits)'
        /\ r.kind = "edit" => state'[r.to].inFlight \subseteq written'
  BY <1>1, RepliesCausal
<1>7. acked' \subseteq written'
  <2>1. CASE acked' = acked
    BY <1>1, <2>1 DEF Causal
  <2>2. ASSUME NEW c \in Member, Acknowledged(c) PROVE acked' \subseteq written'
    <3>1. PICK r \in replies : Acknowledged(c)!(r)
      BY <2>2, Zenon DEF Acknowledged
    <3>2. state[c].inFlight \subseteq written
      BY <3>1 DEF Causal
    <3> QED BY <1>1, <3>1, <3>2 DEF Causal
  <2>3. ASSUME NEW c \in Member, Editor(c), ~Acknowledged(c) PROVE acked' = acked
    <3>1. CASE Open(c)
      BY <3>1 DEF Open, history
    <3>4. CASE Opened(c)
      BY <3>4 DEF Opened, history
    <3>5. CASE OpenFailed(c)
      BY <3>5 DEF OpenFailed, history
    <3>2. CASE Send(c) \/ Saved(c) \/ Settled(c) \/ Failed(c) \/ Refused(c) \/ Archived(c)
      BY <3>2 DEF Send, Saved, Settled, Failed, Refused, Archived, WriteJournal, history
    <3>3. CASE Receive(c) \/ Refresh(c)
      BY <3>3 DEF Receive, Refresh, history
    <3>6. CASE Rejected(c)
      BY <3>6 DEF Rejected, history
    <3>7. CASE Refreshed(c)
      BY <3>7 DEF Refreshed, history
    <3> QED BY <2>3, <3>1, <3>2, <3>3, <3>4, <3>5, <3>6, <3>7 DEF Editor
  <2>4. ASSUME NEW c \in Member, Type(c) \/ Leave(c) \/ Reload(c) \/ Revoke(c) \/ Timeout(c) \/ Reconnect(c)
        PROVE  acked' = acked
    BY <2>4 DEF Type, Leave, Reload, Revoke, Change, Timeout, Reconnect, history
  <2>5. ASSUME NEW r \in requests, TextSync(r) PROVE acked' = acked
    BY <2>5 DEF TextSync, history
  <2>6. ASSUME Commit \/ Restart \/ Replace \/ Restore \/ ChangeVisibility PROVE acked' = acked
    BY <2>6 DEF Commit, Restart, Replace, Restore, ChangeVisibility
  <2>7. ASSUME CommitFails PROVE acked' = acked
    BY <2>7 DEF CommitFails, history
  <2>8. CASE UNCHANGED vars
    BY <2>1, <2>8 DEF vars, history
  <2> QED BY <2>1, <2>2, <2>3, <2>4, <2>5, <2>6, <2>7, <2>8 DEF Next, Environment, Serve
<1>8. file'.origin <= troubles' /\ \A e \in 1..Len(root') : root'[e].origin <= troubles'
  <2>1. /\ file.origin <= troubles /\ \A e \in 1..Len(root) : root[e].origin <= troubles
        /\ file \in Texts /\ root \in Seq(Texts) /\ file' \in Texts' /\ troubles \in Nat /\ troubles' \in Nat
        /\ file.origin \in Nat /\ \A e \in 1..Len(root) : root[e].origin \in Nat
    <3>1. /\ file.origin <= troubles /\ \A e \in 1..Len(root) : root[e].origin <= troubles
          /\ file \in Texts /\ root \in Seq(Texts) /\ file' \in Texts' /\ troubles \in Nat /\ troubles' \in Nat
      BY DEF Causal, TypeOK
    <3>2. \A e \in 1..Len(root) : root[e] \in Texts
      BY <3>1
    <3> QED BY <3>1, <3>2 DEF Texts
  <2>2. file'.origin <= troubles'
    <3>1. CASE file' = file
      BY <1>1, <2>1, <3>1
    <3>2. CASE Writes
      <4>1. replica.epoch \in 1..Len(root) /\ file' = TextOf(replica)
        BY <3>2, StartedText DEF Writes, KeepInv
      <4>2. file'.origin = root[replica.epoch].origin
        BY <2>1, <4>1 DEF TextOf, Texts
      <4>3. PICK o \in Nat : o = root[replica.epoch].origin /\ o <= troubles
        BY <2>1, <4>1
      <4> QED BY <1>1, <2>1, <4>2, <4>3
    <3>3. CASE Replace
      BY <2>1, <3>3 DEF Replace, Change, Trouble, Fresh
    <3> QED BY <1>1, <3>1, <3>2, <3>3 DEF Restore
  <2>3. ASSUME NEW e \in 1..Len(root') PROVE root'[e].origin <= troubles'
    <3>1. CASE root' = root
      <4>1. PICK o \in Nat : o = root[e].origin /\ o <= troubles
        BY <2>1, <3>1
      <4> QED BY <1>1, <2>1, <3>1, <4>1
    <3>2. CASE root' = Append(root, file)
      <4>1. root'[e] = file \/ (e \in 1..Len(root) /\ root'[e] = root[e])
        BY <2>1, <3>2
      <4>2. PICK o \in Nat : o = root'[e].origin /\ o <= troubles
        BY <2>1, <4>1
      <4> QED BY <1>1, <2>1, <4>2
    <3> QED BY <1>1, <3>1, <3>2 DEF ServerActs, Starts, Replace, Restore, Change
  <2> QED BY <2>2, <2>3
<1> QED BY <1>2, <1>3, <1>4, <1>5, <1>6, <1>7, <1>8 DEF Causal

LEMMA InitCausal == Init => CausalInv
<1> SUFFICES ASSUME Init PROVE Causal
  BY DEF CausalInv
<1>1. /\ root = <<>> /\ requests = {} /\ replies = {} /\ acked = {} /\ troubles = 0 /\ file = Fresh(0)
      /\ replica = NoReplica
  BY DEF Init
<1>2. \A c \in Member : state[c] = Closed /\ journal[c] = NoJournal /\ events[c] = <<>>
  BY DEF Init
<1>3. Whole(replica.edits) /\ Whole(replica.previous.edits) /\ file.origin <= troubles
  BY <1>1 DEF NoReplica, NoCopy, Whole, Fresh
<1>4. Len(root) = 0 /\ \A c \in Member : Len(events[c]) = 0
  BY <1>1, <1>2
<1> QED BY <1>1, <1>2, <1>3, <1>4, ClosedCausal DEF Causal

-----------------------------------------------------------------------------
(* AgreeInv is kept.                                                       *)

LEMMA ContentStays ==
  ASSUME TypeOK, Grows, file' = file, NEW epoch
  PROVE  Content(epoch)' = Content(epoch)
<1>1. file.edits \subseteq 1..Len(edit)
  BY DEF TypeOK, Texts, EditSet
<1> QED BY <1>1 DEF Content, Grows

\* The editor goes on, and shows what it showed.
GoesOn(c) ==
  /\ Shown(c, replica.epoch) \subseteq Shown(c, replica.epoch)'
  /\ Told(c) => Told(c)'
  /\ state[c].missed => state'[c].missed

LEMMA RestAgrees ==
  ASSUME NEW c, state'[c] = state[c], events'[c] = events[c], NEW epoch
  PROVE  Shown(c, epoch)' = Shown(c, epoch) /\ Told(c)' = Told(c)
BY DEF Shown, Coming, Told

LEMMA EditorStays ==
  ASSUME TypeOK, Grows, file' = file, replica'.epoch = replica.epoch, NEW c, UpToDate(c), GoesOn(c),
         state'[c].epoch = state[c].epoch, state'[c].refresh = "none" => state[c].refresh = "none",
         state'[c].at \in Bound \ {"archiving"} => state[c].at \in Bound \ {"archiving"}
  PROVE  UpToDate(c)'
<1>1. Content(replica.epoch)' = Content(replica.epoch)
  BY ContentStays DEF Content
<1> QED BY <1>1 DEF UpToDate, GoesOn

LEMMA ReplyStays ==
  ASSUME TypeOK, Grows, file' = file, replica'.epoch = replica.epoch, NEW r, BringsUpToDate(r),
         GoesOn(r.to)
  PROVE  BringsUpToDate(r)'
<1>1. Content(replica.epoch)' = Content(replica.epoch)
  BY ContentStays DEF Content
<1> QED BY <1>1 DEF BringsUpToDate, GoesOn

\* Nothing happens to the member, nor to the file.
LEMMA MemberRests ==
  ASSUME TypeOK, Grows, AgreeInv, file' = file, replica'.epoch = replica.epoch, replica.epoch \in Nat,
         NEW c \in Member, state'[c] = state[c], events'[c] = events[c]
  PROVE  UpToDate(c)' /\ \A r \in replies : r.to = c => BringsUpToDate(r)'
<1>1. GoesOn(c)
  BY RestAgrees DEF GoesOn
<1> QED BY <1>1, EditorStays, ReplyStays DEF AgreeInv

\* Whoever waits for an answer, or has an epoch, is not closed.
LEMMA NotClosed ==
  ASSUME TypeOK, KeepInv
  PROVE  /\ \A r \in replies : r \in Replies /\ r.to \in Member /\ state[r.to].at # "closed"
         /\ \A c \in Member : UpToDate(c) \/ state[c].at # "closed"
<1>1. ASSUME NEW r \in replies PROVE r \in Replies /\ r.to \in Member /\ state[r.to].at # "closed"
  <2>1. r \in Replies /\ r.to \in Member /\ r.kind \in AllKinds
    BY DEF TypeOK, Replies
  <2>2. r \in AnswersTo(r.to, r.kind)
    BY DEF AnswersTo
  <2>3. Awaits(state[r.to], r.kind) /\ ScopeOfState(state[r.to])
    BY <2>1, <2>2 DEF KeepInv, CallInv, OneCall, ScopeInv
  <2>4. state[r.to].at = "closed" => state[r.to].epoch = 0
    BY <2>3 DEF ScopeOfState
  <2> QED BY <2>1, <2>3, <2>4 DEF Awaits, ScopeOfState, AllKinds
<1>2. \A c \in Member : UpToDate(c) \/ state[c].at # "closed"
  BY DEF UpToDate, Bound
<1> QED BY <1>1, <1>2

\* Told to ask, an editor need not be up to date.
LEMMA ToldAgrees ==
  ASSUME NEW c, Told(c)'
  PROVE  UpToDate(c)' /\ \A r : r.to = c => BringsUpToDate(r)'
BY DEF UpToDate, BringsUpToDate

LEMMA BroadcastTells ==
  ASSUME TypeOK, Broadcast(SyncEvent), UNCHANGED state, NEW c \in Member, state[c].at # "closed"
  PROVE  Told(c)'
<1>1. events'[c] = Append(events[c], SyncEvent) /\ events[c] \in Seq(Events)
  BY DEF Broadcast, TypeOK
<1>2. Len(events'[c]) = Len(events[c]) + 1 /\ events'[c][Len(events[c]) + 1] = SyncEvent /\ Len(events[c]) \in Nat
  BY <1>1
<1>3. SyncEvent.kind = "sync" /\ Len(events[c]) + 1 \in 1..Len(events'[c])
  BY <1>2 DEF SyncEvent
<1> QED BY <1>2, <1>3 DEF Told

LEMMA ClosedAgrees ==
  ASSUME NEW c, state'[c].at = "closed" PROVE UpToDate(c)'
BY DEF UpToDate, Bound

LEMMA ChangeAgrees ==
  ASSUME TypeOK, KeepInv, Change PROVE AgreeInv'
<1>1. Broadcast(SyncEvent) /\ UNCHANGED <<state, replies>>
  BY DEF Change, client
<1>2. ASSUME NEW c \in Member PROVE UpToDate(c)'
  BY <1>1, BroadcastTells, ToldAgrees, ClosedAgrees
<1>3. ASSUME NEW r \in replies PROVE BringsUpToDate(r)'
  BY <1>1, NotClosed, BroadcastTells, ToldAgrees
<1> QED BY <1>1, <1>2, <1>3 DEF AgreeInv

LEMMA RestartAgrees ==
  ASSUME TypeOK, KeepInv, Restart PROVE AgreeInv'
<1>1. UNCHANGED state /\ \A r \in replies' : r \in replies \/ r.status # "ok"
  BY DEF Restart, client
<1>2. ASSUME NEW c \in Member, state[c].at # "closed" PROVE Told(c)'
  <2>1. events'[c] = <<SyncEvent>>
    BY <1>2 DEF Restart
  <2>2. 1 \in 1..Len(events'[c]) /\ events'[c][1].kind = "sync"
    BY <2>1 DEF SyncEvent
  <2> QED BY <2>2 DEF Told
<1>3. ASSUME NEW c \in Member PROVE UpToDate(c)'
  BY <1>1, <1>2, ToldAgrees, ClosedAgrees
<1>4. ASSUME NEW r \in replies' PROVE BringsUpToDate(r)'
  <2>1. CASE r \in replies
    BY <1>2, <2>1, NotClosed, ToldAgrees
  <2>2. CASE r.status # "ok"
    BY <2>2 DEF BringsUpToDate
  <2> QED BY <1>1, <2>1, <2>2
<1> QED BY <1>3, <1>4 DEF AgreeInv

\* The replica is written, and a replica of a new epoch is nobody's yet.
LEMMA StartsAgrees ==
  ASSUME TypeOK, KeepInv, AgreeInv, Grows, NEW r \in requests, Starts(r) PROVE AgreeInv'
<1>1. UNCHANGED <<state, events, replies, file, edit>>
  BY DEF Starts, client
<1>2. CASE replica'.epoch = replica.epoch
  BY <1>1, <1>2, MemberRests, NotClosed DEF AgreeInv, TypeOK
<1>3. CASE replica'.epoch # replica.epoch
  <2>1. replica'.epoch = Len(root) + 1 /\ Len(root) \in Nat
    BY <1>3, SelectedIs DEF Starts, Saves, TypeOK
  <2>2. ASSUME NEW c \in Member PROVE UpToDate(c)'
    <3>1. state[c].epoch <= Len(root) /\ state[c].epoch \in Nat
      BY EditorHas DEF KeepInv, ScopeOfState, States
    <3> QED BY <1>1, <2>1, <3>1 DEF UpToDate
  <2>3. ASSUME NEW q \in replies PROVE BringsUpToDate(q)'
    <3>1. q.status = "ok" => q.epoch \in 1..Len(root)
      BY DEF KeepInv, ScopeInv
    <3> QED BY <2>1, <3>1 DEF BringsUpToDate
  <2> QED BY <1>1, <2>2, <2>3 DEF AgreeInv
<1> QED BY <1>2, <1>3

\* Answers other than "ok", and calls given up.
LEMMA FailsAgrees ==
  ASSUME TypeOK, KeepInv, AgreeInv, Grows, UNCHANGED <<state, events, file, replica>>,
         \A r \in replies' : r \in replies \/ r.status # "ok"
  PROVE  AgreeInv'
<1>1. \A c \in Member : UpToDate(c)' /\ \A r \in replies : r.to = c => BringsUpToDate(r)'
  BY MemberRests DEF TypeOK
<1>2. \A r : r.status # "ok" => BringsUpToDate(r)'
  BY DEF BringsUpToDate
<1> QED BY <1>1, <1>2, NotClosed DEF AgreeInv

\* The text that is written and the one before differ by the live event.
LEMMA WrittenContent ==
  ASSUME TypeOK, KeepInv, Commit
  PROVE  /\ replica.epoch \in 1..Len(root) /\ UNCHANGED <<edit, replica, state>>
         /\ Content(replica.epoch)' \subseteq replica.edits
         /\ Content(replica.epoch)' \subseteq Content(replica.epoch) \cup Delta(replica.previous.edits)
<1>1. PICK r \in requests : r.started
  BY DEF Commit
<1>2. /\ replica.epoch \in 1..Len(root) /\ file' = TextOf(replica)
      /\ UNCHANGED <<edit, replica, state>> /\ ScopeInv
  BY <1>1, StartedText DEF Commit, KeepInv, client
<1>3. Content(replica.epoch)' \subseteq Integrated(replica.edits)
  <2> SUFFICES ASSUME NEW n \in TextOf(replica).edits, edit[n].epoch = replica.epoch
               PROVE  n \in Integrated(replica.edits)
    BY <1>2 DEF Content
  <2> QED BY <1>2, ReplicaHas, TextOfEpoch
<1>4. Integrated(replica.previous.edits) \subseteq Content(replica.epoch)
  <2>1. CASE replica.previous.epoch = 0
    BY <2>1, <1>2, ReplicaHas DEF NoCopy, Integrated
  <2>2. CASE replica.previous.epoch # 0
    <3>1. TextOf(replica.previous) = file /\ replica.previous.epoch = replica.epoch
      BY <1>1, <2>2, ReplicaHas DEF KeepInv, WriteInv, NoCopy
    <3>2. root[replica.epoch] \in Texts
      BY <1>2 DEF TypeOK
    <3>3. Integrated(replica.previous.edits) \subseteq file.edits
      BY <3>1, <3>2 DEF TextOf, Texts
    <3>4. OfEpoch(replica.epoch, replica.previous.edits)
      BY <1>2 DEF ScopeInv, ScopeOfServer
    <3> QED BY <3>3, <3>4 DEF Integrated, OfEpoch, Content
  <2> QED BY <2>1, <2>2
<1>5. Integrated(replica.edits) \subseteq replica.edits
  BY DEF Integrated
<1> QED BY <1>2, <1>3, <1>4, <1>5 DEF Delta

\* An event more on its way.
LEMMA ComingGrows ==
  ASSUME TypeOK, NEW c \in Member, NEW e \in Events, e.kind = "text", Broadcast(e), UNCHANGED state,
         NEW epoch
  PROVE  /\ Coming(c, epoch) \subseteq Coming(c, epoch)'
         /\ Told(c) => Told(c)'
         /\ state[c].at # "closed" /\ e.epoch = epoch => e.edits \subseteq Coming(c, epoch)'
<1>1. events[c] \in Seq(Events) /\ (events'[c] = events[c] \/ events'[c] = Append(events[c], e))
  BY DEF Broadcast, TypeOK
<1>2. \A k \in 1..Len(events[c]) : k \in 1..Len(events'[c]) /\ events'[c][k] = events[c][k]
  <2>1. CASE events'[c] = events[c]
    BY <2>1
  <2>2. CASE events'[c] = Append(events[c], e)
    BY <1>1, <2>2
  <2> QED BY <1>1, <2>1, <2>2
<1>3. Coming(c, epoch) \subseteq Coming(c, epoch)' /\ (Told(c) => Told(c)')
  BY <1>2 DEF Coming, Told
<1>4. ASSUME state[c].at # "closed", e.epoch = epoch PROVE e.edits \subseteq Coming(c, epoch)'
  <2>1. events'[c] = Append(events[c], e)
    BY <1>4 DEF Broadcast
  <2>2. Len(events[c]) + 1 \in 1..Len(events'[c]) /\ events'[c][Len(events[c]) + 1] = e
    BY <1>1, <2>1
  <2> QED BY <1>4, <2>2 DEF Coming
<1> QED BY <1>3, <1>4

LEMMA CommitAgrees ==
  ASSUME TypeOK, KeepInv, AgreeInv, Grows, Commit PROVE AgreeInv'
<1>1. /\ replica.epoch \in 1..Len(root) /\ UNCHANGED <<edit, replica, state>>
      /\ Content(replica.epoch)' \subseteq replica.edits
      /\ Content(replica.epoch)' \subseteq Content(replica.epoch) \cup Delta(replica.previous.edits)
  BY WrittenContent
<1>2. ASSUME NEW r \in replies'
      PROVE  \/ r \in replies
             \/ BringsUpToDate(r)'
  <2>1. r \in replies \/ r.status # "ok" \/ r.edits = replica.edits
    BY DEF Commit, Answer
  <2> QED BY <1>1, <2>1 DEF BringsUpToDate
<1>3. CASE file' = file
  <2>1. UNCHANGED events
    BY <1>3 DEF Commit
  <2> QED BY <1>1, <1>2, <1>3, <2>1, MemberRests, NotClosed DEF AgreeInv, TypeOK
<1>4. CASE file' # file
  <2>1. PICK e : e = [kind |-> "text", epoch |-> replica.epoch, edits |-> Delta(replica.previous.edits)]
    OBVIOUS
  <2>2. e \in Events /\ e.kind = "text" /\ Broadcast(e)
    BY <1>4, <2>1, ReplicaHas DEF Commit, Events, Delta, EditSet, TypeOK
  <2>3. ASSUME NEW c \in Member, state[c].at # "closed"
        PROVE  /\ Told(c) => Told(c)'
               /\ \A edits : Content(replica.epoch) \subseteq edits \cup Shown(c, replica.epoch)
                    => Content(replica.epoch)' \subseteq edits \cup Shown(c, replica.epoch)'
    <3>1. /\ Coming(c, replica.epoch) \subseteq Coming(c, replica.epoch)' /\ (Told(c) => Told(c)')
          /\ e.edits \subseteq Coming(c, replica.epoch)'
      <4>1. PICK epoch : epoch = replica.epoch
        OBVIOUS
      <4>2. /\ Coming(c, epoch) \subseteq Coming(c, epoch)' /\ (Told(c) => Told(c)')
            /\ e.edits \subseteq Coming(c, epoch)'
        BY <1>1, <2>1, <2>2, <2>3, <4>1, ComingGrows
      <4> QED BY <1>1, <4>1, <4>2 DEF Coming
    <3>2. Content(replica.epoch)' \subseteq Content(replica.epoch) \cup e.edits
      BY <1>1, <2>1
    <3> QED BY <1>1, <3>1, <3>2 DEF Shown
  <2>4. ASSUME NEW c \in Member PROVE UpToDate(c)'
    <3>1. CASE state[c].at = "closed"
      BY <1>1, <3>1, ClosedAgrees
    <3>2. CASE state[c].at # "closed"
      <4>1. UpToDate(c)
        BY DEF AgreeInv
      <4>2. Content(replica.epoch) \subseteq Shown(c, replica.epoch)
              => Content(replica.epoch)' \subseteq Shown(c, replica.epoch)'
        BY <2>3, <3>2
      <4> QED BY <1>1, <2>3, <3>2, <4>1, <4>2 DEF UpToDate
    <3> QED BY <3>1, <3>2
  <2>5. ASSUME NEW r \in replies PROVE BringsUpToDate(r)'
    <3>1. r.to \in Member /\ state[r.to].at # "closed" /\ BringsUpToDate(r)
      BY NotClosed DEF AgreeInv
    <3>2. Content(replica.epoch) \subseteq r.edits \cup Shown(r.to, replica.epoch)
            => Content(replica.epoch)' \subseteq r.edits \cup Shown(r.to, replica.epoch)'
      BY <2>3, <3>1
    <3> QED BY <1>1, <2>3, <3>1, <3>2 DEF BringsUpToDate
  <2> QED BY <1>2, <2>4, <2>5 DEF AgreeInv
<1> QED BY <1>3, <1>4

\* What the editor c does keeps what it shows up to date.
EditorAgrees(c) == UpToDate(c)' /\ \A r \in replies' : r.to = c => BringsUpToDate(r)'

\* What it needs beside the frame of the step.
LEMMA GoingOnAgrees ==
  ASSUME TypeOK, Grows, AgreeInv, file' = file, replica'.epoch = replica.epoch, replies' \subseteq replies,
         NEW c \in Member, GoesOn(c), state'[c].epoch = state[c].epoch,
         state'[c].refresh = "none" => state[c].refresh = "none",
         state'[c].at \in Bound \ {"archiving"} => state[c].at \in Bound \ {"archiving"}
  PROVE  EditorAgrees(c)
BY EditorStays, ReplyStays DEF AgreeInv, EditorAgrees

\* Nobody answers the editor any more.
LEMMA AloneAgrees ==
  ASSUME NEW c, \A r \in replies' : r.to # c, state'[c].at \notin Bound \ {"archiving"}
  PROVE  EditorAgrees(c)
BY DEF UpToDate, EditorAgrees

LEMMA NoAnswers ==
  ASSUME TypeOK, KeepInv, NEW c \in Member, NEW r \in replies, r.to = c
  PROVE  /\ r.kind \in AllKinds /\ Awaits(state[c], r.kind)
         /\ r.status = "ok" /\ r.kind # "open" => r.epoch = state[c].epoch
         /\ \A q \in replies : q.to = c /\ q.kind = r.kind => q = r
<1>1. r.kind \in AllKinds /\ r \in AnswersTo(c, r.kind)
  BY DEF TypeOK, Replies, AnswersTo
<1>2. OneCall(c, r.kind)
  BY <1>1 DEF KeepInv, CallInv
<1> QED BY <1>1, <1>2 DEF OneCall, AnswersTo

LEMMA OpensAgree ==
  ASSUME TypeOK, KeepInv, AgreeInv, Grows, NEW c \in Member, Open(c) \/ OpenFailed(c) \/ Opened(c)
  PROVE  EditorAgrees(c)
<1>1. UNCHANGED <<file, replica, edit, events>>
  <2>1. UNCHANGED <<file, replica, edit>>
    BY EditorDisk DEF Editor, disk
  <2>2. Open(c) => UNCHANGED events
    BY DEF Open
  <2>3. ASSUME Opened(c) PROVE UNCHANGED events
    <3>1. PICK r \in replies : Opened(c)!(r)
      BY <2>3, Zenon DEF Opened
    <3> QED BY <3>1
  <2>4. OpenFailed(c) => UNCHANGED events
    BY DEF OpenFailed
  <2> QED BY <2>1, <2>2, <2>3, <2>4
<1>2. state[c] \in States /\ ScopeOfState(state[c]) /\ state \in [Member -> States]
  BY EditorHas DEF KeepInv, TypeOK
<1>3. CASE Open(c)
  <2>1. state[c].at = "closed" /\ state'[c].at = "opening"
    BY <1>2, <1>3 DEF Open, States
  <2>2. \A r \in replies' : r.to # c
    BY <1>3, <2>1, NotClosed DEF Open
  <2> QED BY <1>1, <2>1, <2>2, AloneAgrees DEF Bound
<1>4. CASE OpenFailed(c)
  <2>1. PICK r \in replies : OpenFailed(c)!(r)
    BY <1>4, Zenon DEF OpenFailed
  <2>2. state[c].at = "opening" /\ state[c].epoch = 0 /\ state[c].refresh # "calling"
    BY <1>2, <2>1, NoAnswers DEF Awaits, ScopeOfState
  <2>3. ASSUME NEW q \in replies', q.to = c PROVE FALSE
    <3>1. q \in replies /\ q # r
      BY <2>1
    <3>2. q.kind \in AllKinds /\ Awaits(state[c], q.kind)
      BY <2>3, <3>1, NoAnswers
    <3>3. q.kind = "open"
      BY <2>2, <3>2 DEF Awaits, AllKinds
    <3> QED BY <2>1, <2>3, <3>1, <3>3, NoAnswers
  <2>4. state'[c].at = "closed"
    BY <1>2, <2>1 DEF Closed
  <2> QED BY <2>3, <2>4, AloneAgrees DEF Bound
<1>5. CASE Opened(c)
  <2>1. PICK r \in replies : Opened(c)!(r)
    BY <1>5, Zenon DEF Opened
  <2>2. state[c].at = "opening" /\ state[c].epoch = 0 /\ state[c].refresh # "calling" /\ state[c].doc = {}
    BY <1>2, <2>1, NoAnswers DEF Awaits, ScopeOfState
  <2>3. ASSUME NEW q \in replies', q.to = c PROVE FALSE
    <3>1. q \in replies /\ q # r
      BY <2>1
    <3>2. q.kind \in AllKinds /\ Awaits(state[c], q.kind)
      BY <2>3, <3>1, NoAnswers
    <3>3. q.kind = "open"
      BY <2>2, <3>2 DEF Awaits, AllKinds
    <3> QED BY <2>1, <2>3, <3>1, <3>3, NoAnswers
  <2>4. /\ state'[c].epoch = r.epoch /\ r.edits \subseteq state'[c].doc
        /\ state'[c].refresh = state[c].refresh /\ state'[c].missed = state[c].missed
    BY <1>2, <2>1 DEF Persist, States
  <2>5. UpToDate(c)'
    <3>1. Content(replica.epoch)' = Content(replica.epoch)
      BY <1>1, ContentStays DEF Content
    <3>2. Shown(c, replica.epoch)' = state'[c].doc \cup Coming(c, replica.epoch)
      BY <1>1 DEF Shown, Coming
    <3>3. Shown(c, replica.epoch) = Coming(c, replica.epoch)
      BY <2>2 DEF Shown
    <3>4. Told(c)' <=> Told(c)
      BY <1>1, <2>4 DEF Told
    <3>5. BringsUpToDate(r)
      BY DEF AgreeInv
    <3> QED BY <1>1, <2>1, <2>4, <3>1, <3>2, <3>3, <3>4, <3>5 DEF BringsUpToDate, UpToDate
  <2> QED BY <2>3, <2>5 DEF EditorAgrees
<1> QED BY <1>3, <1>4, <1>5

\* An editor whose events and calls are left alone.
LEMMA DocAgrees ==
  ASSUME TypeOK, Grows, AgreeInv, UNCHANGED <<file, replica, events>>, replies' \subseteq replies,
         NEW c \in Member, state[c].doc \subseteq state'[c].doc,
         state'[c].epoch = state[c].epoch, state'[c].refresh = state[c].refresh,
         state'[c].missed = state[c].missed,
         state'[c].at \in Bound \ {"archiving"} => state[c].at \in Bound \ {"archiving"}
  PROVE  EditorAgrees(c)
<1>1. Shown(c, replica.epoch) \subseteq Shown(c, replica.epoch)' /\ (Told(c)' <=> Told(c))
  BY DEF Shown, Coming, Told
<1>2. GoesOn(c)
  BY <1>1 DEF GoesOn
<1> QED BY <1>2, GoingOnAgrees

LEMMA SendsAgree ==
  ASSUME TypeOK, KeepInv, AgreeInv, Grows, NEW c \in Member,
         Type(c) \/ Send(c) \/ Saved(c) \/ Settled(c) \/ Refused(c) \/ Rejected(c)
  PROVE  EditorAgrees(c)
<1>1. UNCHANGED <<file, replica>>
  BY EditorDisk DEF Editor, disk, Type
<1>2. state[c] \in States /\ state \in [Member -> States]
  BY DEF TypeOK
<1>3. CASE Type(c)
  <2>1. UNCHANGED events /\ replies' = replies
    BY <1>3 DEF Type, net
  <2>2. /\ state[c].doc \subseteq state'[c].doc /\ state'[c].epoch = state[c].epoch
        /\ state'[c].refresh = state[c].refresh /\ state'[c].missed = state[c].missed
        /\ state'[c].at = state[c].at
    BY <1>2, <1>3 DEF Type, States
  <2> QED BY <1>1, <2>1, <2>2, DocAgrees
<1>4. CASE Send(c) \/ Saved(c) \/ Settled(c) \/ Refused(c)
  <2>1. UNCHANGED events /\ replies' = replies
    BY <1>4 DEF Send, Saved, Settled, Refused, net
  <2>2. /\ state'[c].doc = state[c].doc /\ state'[c].epoch = state[c].epoch
        /\ state'[c].refresh = state[c].refresh /\ state'[c].missed = state[c].missed
        /\ state'[c].at = "archiving" \/ (state[c].at \in Bound \ {"archiving"})
    <3>1. CASE Send(c)
      BY <1>2, <3>1 DEF Send, States, Persist, Bound
    <3>2. CASE Saved(c) \/ Settled(c)
      BY <1>2, <3>2 DEF Saved, Settled, States, Bound
    <3>3. CASE Refused(c)
      BY <1>2, <3>3 DEF Refused, States, Persist, Bound
    <3> QED BY <1>4, <3>1, <3>2, <3>3
  <2> QED BY <1>1, <2>1, <2>2, DocAgrees
<1>5. CASE Rejected(c)
  <2>1. PICK r \in replies : Rejected(c)!(r)
    BY <1>5, Zenon DEF Rejected
  <2>2. UNCHANGED events /\ replies' \subseteq replies
    BY <2>1
  <2>3. /\ state'[c].doc = state[c].doc /\ state'[c].epoch = state[c].epoch
        /\ state'[c].refresh = state[c].refresh /\ state'[c].missed = state[c].missed
        /\ state[c].at \in Bound \ {"archiving"}
    BY <1>2, <2>1 DEF Persist, States, Bound
  <2> QED BY <1>1, <2>2, <2>3, DocAgrees
<1> QED BY <1>3, <1>4, <1>5

\* What an answer brings is shown.
LEMMA AnswerShown ==
  ASSUME TypeOK, Grows, AgreeInv, UNCHANGED <<file, replica, events>>,
         NEW c \in Member, NEW r \in replies, r.to = c, r.status = "ok",
         state'[c].epoch = r.epoch, r.kind # "open", state'[c].refresh = "wanted" <=> state[c].refresh = "wanted",
         state'[c].doc = state[c].doc \cup r.edits
  PROVE  UpToDate(c)'
<1>1. BringsUpToDate(r)
  BY DEF AgreeInv
<1>2. Content(replica.epoch)' = Content(replica.epoch)
  BY ContentStays DEF Content
<1>3. Shown(c, replica.epoch)' = r.edits \cup Shown(c, replica.epoch)
  BY DEF Shown, Coming
<1>4. Told(c)' <=> Told(c)
  BY DEF Told
<1> QED BY <1>1, <1>2, <1>3, <1>4 DEF UpToDate, BringsUpToDate

LEMMA AnswersAgree ==
  ASSUME TypeOK, KeepInv, AgreeInv, Grows, NEW c \in Member, Acknowledged(c)
  PROVE  EditorAgrees(c)
<1>1. UNCHANGED <<file, replica>>
  BY EditorDisk DEF Editor, disk
<1>2. state[c] \in States /\ ScopeOfState(state[c]) /\ state \in [Member -> States]
  BY EditorHas DEF KeepInv, TypeOK
<1>3. PICK r \in replies : Acknowledged(c)!(r)
  BY Zenon DEF Acknowledged
<1>4. /\ UNCHANGED events /\ replies' \subseteq replies /\ r.to = c /\ r.status = "ok" /\ r.kind = "edit"
      /\ state[c].at = "calling" /\ r.epoch = state[c].epoch
  BY <1>3, NoAnswers
<1>5. /\ state'[c].doc = state[c].doc \cup r.edits /\ state'[c].epoch = state[c].epoch
      /\ state'[c].refresh = state[c].refresh
  BY <1>2, <1>3 DEF Persist, States
<1>6. UpToDate(c)'
  BY <1>1, <1>4, <1>5, AnswerShown
<1>7. ASSUME NEW q \in replies', q.to = c PROVE BringsUpToDate(q)'
  <2>1. q \in replies /\ q.kind # "open"
    BY <1>4, <1>7, NoAnswers DEF Awaits
  <2>2. Shown(c, replica.epoch) \subseteq Shown(c, replica.epoch)' /\ (Told(c)' <=> Told(c))
    BY <1>1, <1>4, <1>5 DEF Shown, Coming, Told
  <2>3. Content(replica.epoch)' = Content(replica.epoch)
    BY <1>1, ContentStays DEF Content
  <2> QED BY <1>1, <1>7, <2>1, <2>2, <2>3 DEF AgreeInv, BringsUpToDate
<1> QED BY <1>6, <1>7 DEF EditorAgrees

LEMMA LeavesAgree ==
  ASSUME TypeOK, KeepInv, NEW c \in Member, Archived(c) \/ Leave(c) \/ Reload(c)
  PROVE  EditorAgrees(c)
<1>1. Forget(c, AllKinds) /\ state' = [state EXCEPT ![c] = Closed] /\ state \in [Member -> States]
  BY DEF Archived, Leave, Reload, TypeOK
<1>2. state'[c].at = "closed"
  BY <1>1 DEF Closed
<1>3. ASSUME NEW r \in replies' PROVE r.to # c
  BY <1>1 DEF Forget, TypeOK, Replies
<1> QED BY <1>2, <1>3, AloneAgrees DEF Bound

\* A failed call takes the refresh that was asked for with it.
LEMMA FailedAgrees ==
  ASSUME TypeOK, KeepInv, AgreeInv, Grows, NEW c \in Member, Failed(c)
  PROVE  EditorAgrees(c)
<1>1. UNCHANGED <<file, replica, events>> /\ replies' = replies /\ state[c].at = "failed"
  BY DEF Failed, disk, net
<1>2. state[c] \in States /\ ScopeOfState(state[c]) /\ state \in [Member -> States]
  BY EditorHas DEF KeepInv, TypeOK
<1>3. /\ state'[c].doc = state[c].doc /\ state'[c].epoch = state[c].epoch
      /\ state'[c].refresh = IF state[c].refresh = "wanted" THEN "none" ELSE state[c].refresh
      /\ state'[c].missed = (state[c].missed \/ state[c].refresh = "wanted")
  BY <1>2 DEF Failed, States
<1>4. CASE state[c].refresh # "wanted"
  <2>1. state'[c].refresh = state[c].refresh /\ state'[c].missed = state[c].missed
    BY <1>2, <1>3, <1>4 DEF States
  <2> QED BY <1>1, <1>3, <2>1, DocAgrees DEF Bound
<1>5. CASE state[c].refresh = "wanted"
  <2>1. UpToDate(c)'
    BY <1>3, <1>5 DEF UpToDate
  <2>2. ASSUME NEW r \in replies, r.to = c PROVE FALSE
    BY <1>1, <1>5, <2>2, NoAnswers DEF Awaits, AllKinds
  <2> QED BY <1>1, <2>1, <2>2 DEF EditorAgrees
<1> QED BY <1>4, <1>5

LEMMA RefreshAgrees ==
  ASSUME TypeOK, KeepInv, AgreeInv, Grows, NEW c \in Member, Refresh(c)
  PROVE  EditorAgrees(c)
<1>1. replies' = replies /\ state[c].at = "idle" /\ state[c].refresh = "wanted"
  BY DEF Refresh
<1>2. state'[c].refresh = "calling"
  BY DEF Refresh, TypeOK, States
<1>3. ASSUME NEW r \in replies, r.to = c PROVE FALSE
  BY <1>1, <1>3, NoAnswers DEF Awaits, AllKinds
<1> QED BY <1>1, <1>2, <1>3 DEF EditorAgrees, UpToDate

LEMMA RefreshedAgrees ==
  ASSUME TypeOK, KeepInv, AgreeInv, Grows, NEW c \in Member, Refreshed(c)
  PROVE  EditorAgrees(c)
<1>1. UNCHANGED <<file, replica>>
  BY EditorDisk DEF Editor, disk
<1>2. state[c] \in States /\ ScopeOfState(state[c]) /\ state \in [Member -> States]
  BY EditorHas DEF KeepInv, TypeOK
<1>3. PICK r \in replies : Refreshed(c)!(r)
  BY Zenon DEF Refreshed
<1>4. /\ UNCHANGED events /\ replies' = replies \ {r} /\ r.to = c /\ r.kind = "refresh"
      /\ state[c].refresh = "calling" /\ state[c].at # "opening"
  BY <1>2, <1>3 DEF ScopeOfState
<1>5. /\ state'[c].epoch = state[c].epoch /\ state'[c].refresh = "none"
      /\ state[c].doc \subseteq state'[c].doc
      /\ \/ r.status = "ok" /\ state'[c].doc = state[c].doc \cup r.edits
         \/ r.status # "ok" /\ (state'[c].missed \/ state'[c].at = "archiving")
  <2>1. CASE r.status = "ok"
    BY <1>2, <1>3, <2>1 DEF States
  <2>2. CASE r.status = "failed"
    BY <1>2, <1>3, <2>2 DEF States
  <2>3. CASE r.status = "replaced"
    <3>1. state'[c] = [Persist(state[c], "archiving") EXCEPT !.refresh = "none"]
      BY <1>2, <1>3, <2>3
    <3> QED BY <1>2, <2>3, <3>1 DEF States, Persist
  <2> QED BY <1>3, <2>1, <2>2, <2>3
<1>6. UpToDate(c)'
  <2>1. CASE r.status = "ok"
    <3>1. r.epoch = state[c].epoch
      BY <1>4, <2>1, NoAnswers
    <3> QED BY <1>1, <1>4, <1>5, <2>1, <3>1, AnswerShown
  <2>2. CASE r.status # "ok"
    BY <1>5, <2>2 DEF UpToDate
  <2> QED BY <2>1, <2>2
<1>7. ASSUME NEW q \in replies', q.to = c PROVE BringsUpToDate(q)'
  <2>1. q \in replies /\ q.kind # "open"
    BY <1>4, <1>7, NoAnswers DEF Awaits
  <2>2. Shown(c, replica.epoch) \subseteq Shown(c, replica.epoch)' /\ (Told(c)' <=> Told(c))
    BY <1>1, <1>4, <1>5 DEF Shown, Coming, Told
  <2>3. Content(replica.epoch)' = Content(replica.epoch)
    BY <1>1, ContentStays DEF Content
  <2> QED BY <1>1, <1>7, <2>1, <2>2, <2>3 DEF AgreeInv, BringsUpToDate
<1> QED BY <1>6, <1>7 DEF EditorAgrees

\* An event taken from the queue is applied, noted as missed or asks for all.
LEMMA ReceiveAgrees ==
  ASSUME TypeOK, KeepInv, AgreeInv, Grows, NEW c \in Member, Receive(c)
  PROVE  EditorAgrees(c)
<1>1. UNCHANGED <<file, replica>>
  BY EditorDisk DEF Editor, disk
<1>2. state[c] \in States /\ ScopeOfState(state[c]) /\ state \in [Member -> States]
  BY EditorHas DEF KeepInv, TypeOK
<1>3. /\ events[c] \in Seq(Events) /\ events[c] # <<>> /\ events'[c] = Tail(events[c])
      /\ Head(events[c]) = events[c][1]
  BY DEF Receive, TypeOK
<1>4. PICK e \in Events : e = events[c][1]
  BY <1>3
<1>5. \A k \in 1..Len(events[c]) :
        k = 1 \/ (k - 1 \in 1..Len(events'[c]) /\ events'[c][k - 1] = events[c][k])
  BY <1>3
<1>6. CASE e.kind = "sync"
  <2>1. state' = [state EXCEPT ![c].refresh = "wanted"]
    BY <1>3, <1>4, <1>6 DEF Receive
  <2>2. state'[c].refresh = "wanted"
    BY <1>2, <2>1 DEF States
  <2> QED BY <2>2, ToldAgrees DEF Told, EditorAgrees
<1>7. CASE e.kind = "text"
  <2>1. /\ state' = [state EXCEPT ![c].doc = IF state[c].epoch = e.epoch THEN @ \cup e.edits ELSE @,
                                  ![c].missed = @ \/ state[c].at = "opening"]
        /\ replies' = replies
    BY <1>3, <1>4, <1>7 DEF Receive
  <2>2. /\ state'[c].doc = IF state[c].epoch = e.epoch THEN state[c].doc \cup e.edits ELSE state[c].doc
        /\ state'[c].missed = (state[c].missed \/ state[c].at = "opening")
        /\ state'[c].epoch = state[c].epoch /\ state'[c].refresh = state[c].refresh
        /\ state'[c].at = state[c].at
    BY <1>2, <2>1 DEF States
  <2>3. Told(c) => Told(c)'
    BY <1>4, <1>5, <1>7, <2>2 DEF Told
  <2>4. ASSUME state[c].epoch = replica.epoch
        PROVE  Shown(c, replica.epoch) \subseteq Shown(c, replica.epoch)'
    <3> SUFFICES ASSUME NEW n \in Coming(c, replica.epoch), n \notin state'[c].doc
                 PROVE  n \in Coming(c, replica.epoch)'
      BY <2>2 DEF Shown
    <3>1. PICK k \in 1..Len(events[c]) :
            n \in events[c][k].edits /\ events[c][k].kind = "text" /\ events[c][k].epoch = replica.epoch
      BY DEF Coming
    <3>2. k # 1
      BY <1>4, <2>2, <2>4, <3>1
    <3>3. k - 1 \in 1..Len(events'[c]) /\ events'[c][k - 1] = events[c][k]
      BY <1>5, <3>2
    <3> QED BY <1>1, <3>1, <3>3 DEF Coming
  <2>5. UpToDate(c)'
    <3>1. CASE state[c].epoch = replica.epoch
      <4>1. GoesOn(c)
        BY <2>2, <2>3, <2>4, <3>1 DEF GoesOn
      <4> QED BY <1>1, <2>2, <4>1, EditorStays DEF AgreeInv
    <3>2. CASE state[c].epoch # replica.epoch
      BY <1>1, <2>2, <3>2 DEF UpToDate
    <3> QED BY <3>1, <3>2
  <2>6. ASSUME NEW r \in replies, r.to = c PROVE BringsUpToDate(r)'
    <3>1. CASE r.kind = "open"
      BY <1>7, <2>2, <2>6, <3>1, NoAnswers DEF Awaits, BringsUpToDate
    <3>2. CASE r.kind # "open" /\ r.status = "ok" /\ r.epoch = replica.epoch
      <4>1. state[c].epoch = replica.epoch
        BY <2>6, <3>2, NoAnswers
      <4>2. Content(replica.epoch)' = Content(replica.epoch)
        BY <1>1, ContentStays DEF Content
      <4> QED BY <1>1, <2>3, <2>4, <2>6, <3>2, <4>1, <4>2 DEF AgreeInv, BringsUpToDate
    <3>3. CASE ~(r.status = "ok" /\ r.epoch = replica.epoch)
      BY <1>1, <3>3 DEF BringsUpToDate
    <3> QED BY <3>1, <3>2, <3>3
  <2> QED BY <2>1, <2>5, <2>6 DEF EditorAgrees
<1> QED BY <1>4, <1>6, <1>7 DEF Events

LEMMA AgreeKept ==
  ASSUME TypeOK, KeepInv, AgreeInv, [Next]_vars
  PROVE  AgreeInv'
<1>1. Grows
  BY StepGrows
<1>2. ASSUME NEW c \in Member, EditorActs(c) PROVE AgreeInv'
  <2>1. EditorAgrees(c)
    BY <1>1, <1>2, OpensAgree, SendsAgree, AnswersAgree, LeavesAgree, FailedAgrees, RefreshAgrees,
       RefreshedAgrees, ReceiveAgrees DEF EditorActs, Editor
  <2>2. UNCHANGED <<file, replica>>
    BY <1>2, EditorDisk DEF EditorActs, disk, Type, Leave, Reload
  <2>3. replies' \subseteq replies
    <3>1. CASE Archived(c) \/ Leave(c) \/ Reload(c)
      BY <3>1 DEF Archived, Leave, Reload, Forget
    <3>2. CASE Receive(c)
      BY <3>2 DEF Receive, Forget
    <3>3. CASE Opened(c) \/ OpenFailed(c) \/ Acknowledged(c) \/ Rejected(c) \/ Refreshed(c)
      <4>1. PICK kind \in AllKinds : \E r \in AnswersTo(c, kind) : replies' = replies \ {r}
        BY <3>3, AnswerTaken DEF AllKinds
      <4> QED BY <4>1
    <3>4. CASE Open(c) \/ Type(c) \/ Send(c) \/ Saved(c) \/ Settled(c) \/ Failed(c) \/ Refused(c) \/ Refresh(c)
      BY <3>4 DEF Open, Type, Send, Saved, Settled, Failed, Refused, Refresh, net
    <3> QED BY <1>2, <3>1, <3>2, <3>3, <3>4 DEF EditorActs, Editor
  <2>4. ASSUME NEW d \in Member \ {c} PROVE state'[d] = state[d] /\ events'[d] = events[d]
    <3>1. state'[d] = state[d]
      BY <1>2, <2>4, OtherRests DEF EditorRests
    <3>2. CASE Leave(c) \/ Reload(c)
      BY <3>1, <3>2 DEF Leave, Reload, TypeOK
    <3>3. CASE Receive(c)
      BY <3>1, <3>3 DEF Receive, TypeOK
    <3>4. CASE Type(c)
      BY <3>1, <3>4 DEF Type, net
    <3>5. CASE Editor(c) /\ ~Receive(c)
      BY <3>1, <3>5, EditorEvents
    <3> QED BY <1>2, <3>2, <3>3, <3>4, <3>5 DEF EditorActs
  <2>5. ASSUME NEW d \in Member, d # c PROVE UpToDate(d)' /\ \A r \in replies : r.to = d => BringsUpToDate(r)'
    BY <1>1, <2>2, <2>4, <2>5, MemberRests DEF TypeOK
  <2> QED BY <2>1, <2>3, <2>5, NotClosed DEF EditorAgrees, AgreeInv
<1>3. ASSUME NEW c \in Member, Reconnect(c) PROVE AgreeInv'
  <2>1. UNCHANGED <<file, replica, state, replies>> /\ events' = [events EXCEPT ![c] = <<SyncEvent>>]
    BY <1>3 DEF Reconnect, disk, client
  <2>2. Told(c)'
    <3>1. events'[c] = <<SyncEvent>>
      BY <2>1 DEF TypeOK
    <3>2. 1 \in 1..Len(events'[c]) /\ events'[c][1].kind = "sync"
      BY <3>1 DEF SyncEvent
    <3> QED BY <3>2 DEF Told
  <2>3. ASSUME NEW d \in Member, d # c PROVE UpToDate(d)' /\ \A r \in replies : r.to = d => BringsUpToDate(r)'
    <3>1. events'[d] = events[d]
      BY <2>1, <2>3 DEF TypeOK
    <3> QED BY <1>1, <2>1, <3>1, MemberRests DEF TypeOK
  <2> QED BY <2>1, <2>2, <2>3, ToldAgrees, NotClosed DEF AgreeInv
<1>4. ASSUME NEW c \in Member, Timeout(c) PROVE AgreeInv'
  <2>1. UNCHANGED <<state, events, file, replica>> /\ \A r \in replies' : r \in replies \/ r.status # "ok"
    BY <1>4 DEF Timeout, disk, client
  <2> QED BY <1>1, <2>1, FailsAgrees
<1>5. CASE Replace \/ Restore \/ ChangeVisibility \/ \E c \in Member : Revoke(c)
  BY <1>5, ChangeAgrees DEF Replace, Restore, ChangeVisibility, Revoke
<1>6. ASSUME NEW r \in requests, TextSync(r) PROVE AgreeInv'
  <2>1. CASE Refuses(r)
    <3>1. UNCHANGED <<state, events, file, replica>> /\ \A q \in replies' : q \in replies \/ q.status # "ok"
      BY <2>1 DEF Refuses, Answer, disk, client
    <3> QED BY <1>1, <3>1, FailsAgrees
  <2> QED BY <1>1, <1>6, <2>1, TextSyncDoes, StartsAgrees
<1>7. CASE CommitFails
  <2>1. UNCHANGED <<state, events, file, replica>> /\ \A q \in replies' : q \in replies \/ q.status # "ok"
    BY <1>7 DEF CommitFails, Answer, disk, client
  <2> QED BY <1>1, <2>1, FailsAgrees
<1>8. CASE UNCHANGED vars
  BY <1>1, <1>8, FailsAgrees DEF vars, disk, net, client
<1> QED BY <1>1, <1>2, <1>3, <1>4, <1>5, <1>6, <1>7, <1>8, CommitAgrees, RestartAgrees
        DEF Next, Environment, Serve, EditorActs

LEMMA InitAgree == Init => AgreeInv
BY DEF Init, AgreeInv, UpToDate, Closed, Bound

\* An editor at rest shows the replica that textSync finds.
LEMMA AgreeShows == ASSUME TypeOK, KeepInv, AgreeInv PROVE EditorsAgree
<1> SUFFICES ASSUME NEW c \in Member,
                    state[c].at = "idle", state[c].refresh = "none", events[c] = <<>>,
                    ~state[c].missed, state[c].epoch = Selected.epoch
             PROVE  Integrated(Selected.edits) \subseteq state[c].doc
  BY DEF EditorsAgree
<1>1. state[c].epoch # 0 /\ state[c].at \in Bound \ {"archiving"}
  BY EditorHas DEF KeepInv, Bound
<1>2. /\ Selected.epoch = replica.epoch /\ Selected.epoch \in 1..Len(root)
      /\ TextOf(Selected) = file /\ OfEpoch(Selected.epoch, Selected.edits)
  BY <1>1, SelectedIs
<1>3. root[Selected.epoch] \in Texts
  BY <1>2 DEF TypeOK
<1>4. Integrated(Selected.edits) \subseteq Content(replica.epoch)
  BY <1>2, <1>3 DEF TextOf, Texts, Integrated, OfEpoch, Content
<1>5. Len(events[c]) = 0
  OBVIOUS
<1>6. ~Told(c) /\ Coming(c, replica.epoch) = {}
  BY <1>5 DEF Told, Coming
<1> QED BY <1>1, <1>2, <1>4, <1>6 DEF AgreeInv, UpToDate, Shown

-----------------------------------------------------------------------------
(* The theorems.                                                           *)

LEMMA InitInv == Init => TextInv
BY InitType, InitKeep, InitCausal, InitAgree DEF TextInv

LEMMA NextInv == TextInv /\ [Next]_vars => TextInv'
BY NextKeep, CausalKept, AgreeKept DEF TextInv

\* The inductive invariant: what each step of editors, server and their
\* surroundings keeps, for any number of members, edits and troubles.
THEOREM TextInductive == Spec => []TextInv
BY InitInv, NextInv, PTL DEF Spec

\* The variables keep their types.
THEOREM TypeCorrect == Spec => []TypeOK
<1>1. TextInv => TypeOK
  BY DEF TextInv
<1> QED BY <1>1, TextInductive, PTL

\* An edit that a journal has held is pending, set aside or acknowledged; what
\* is acknowledged has been in the file; textSync finds the replica it answered
\* with after every kill and failed write; nothing typed in one epoch gets into
\* another (PersistentTextSynchronizer, and textSync of persistentServer.ts).
THEOREM TroubleIsRecovered == Spec => []RecoversFromTrouble
<1>1. TextInv => RecoversFromTrouble
  <2> SUFFICES ASSUME TextInv PROVE RecoversFromTrouble
    OBVIOUS
  <2>1. TypeOK /\ KeepInv /\ AcknowledgedReachesFile
    BY DEF TextInv, CausalInv, Causal, AcknowledgedReachesFile
  <2> QED BY <2>1, KeepUnacknowledged, KeepSelects, KeepScopes DEF RecoversFromTrouble
<1> QED BY <1>1, TextInductive, PTL

\* An editor at rest that has missed nothing shows every edit in effect in the
\* replica that it edits (receive and flushAll of persistentTextSync.ts, and
\* the live events of persistentLive.ts).
THEOREM EditorsAgreeAlways == Spec => []EditorsAgree
<1>1. TextInv => EditorsAgree
  BY AgreeShows DEF TextInv
<1> QED BY <1>1, TextInductive, PTL

=============================================================================
