--------------------------- MODULE PersistentText ---------------------------
(***************************************************************************)
(* One text file of a persistent session, edited by several members: the   *)
(* replica and the journal of each editor                                  *)
(* (src/src/vscode/persistentTextSync.ts), the write-ahead replica of the  *)
(* server (operation textSync of src/src/vps/persistentServer.ts) and the  *)
(* live events between them (src/src/vps/persistentLive.ts).               *)
(*                                                                         *)
(* A Yjs document is the set of the edits it has received.  An edit needs  *)
(* the edits it was typed next to and takes effect when these are there;   *)
(* until then Yjs keeps it.  The text is that of the file when the epoch   *)
(* of the document began, with the edits in effect, so different sets of   *)
(* edits have different texts and different hashes.                        *)
(*                                                                         *)
(* The server handles one operation after the other.  It writes its        *)
(* replica, then the file, and may be killed in between.  The file can     *)
(* also be replaced by an ordinary write, and the rights on it can change. *)
(* An editor can be reloaded, losing its memory; calls and live            *)
(* connections can break, and a call that the editor has given up may      *)
(* still be handled.  The store of the files is PersistentWorkspace; here  *)
(* a commit of the file is one step.  Left out are damaged journals and    *)
(* replicas, the answer that comes after its replica was set aside, and the *)
(* unsaved buffer of the editor: text that it publishes when a document is *)
(* opened again is typed text like any other.                              *)
(***************************************************************************)
EXTENDS Naturals, Sequences, FiniteSets

CONSTANTS Member,       \* editors, one document each
          MaxEdits,     \* bound on edits typed
          MaxTroubles   \* bound on everything that can go wrong: other writes
                        \* of the file, changes of rights, calls lost, live
                        \* connections broken, failed writes, kills and leaves

VARIABLES edit,      \* edit[n]: the epoch it was typed in, and what it needs
          file,      \* the text of the file, on the server's disk
          replica,   \* the replica beside it, on the server's disk
          acl,       \* aclEpoch of the session
          root,      \* root[e]: the text with which epoch e began
          readers,   \* members who may no longer edit the file
          requests,  \* calls on their way to the server
          replies,   \* answers on their way back
          events,    \* live events on their way to each editor
          state,     \* the State of each editor, in memory
          journal,   \* its journal, on its disk
          archive,   \* edits in the journals it has set aside
          troubles,  \* what has gone wrong so far, for the bound
          kept,      \* history: edits that a journal has held as pending
          acked,     \* history: edits that the server has acknowledged
          written,   \* history: edits that were in the file
          issued,    \* history: the epoch the server answered with, 0 when the
                     \* file or its rights were changed since
          restored   \* history: a write has brought an earlier text back

history == <<kept, acked, written, issued, restored>>
disk == <<file, replica, acl, root, readers>>
net == <<requests, replies, events>>
client == <<state, journal, archive>>
vars == <<edit, disk, net, client, troubles, history>>

-----------------------------------------------------------------------------
(* Documents *)

\* The edits of a document that are in effect.
Integrated(edits) == {n \in edits : edit[n].needs \subseteq edits}

NoCopy == [epoch |-> 0, edits |-> {}]
NoReplica == [epoch |-> 0, edits |-> {}, acl |-> 0, previous |-> NoCopy]

TextOf(copy) ==
  [root[copy.epoch] EXCEPT !.edits = @ \cup Integrated(copy.edits)]

\* The text of an ordinary write: the k-th, never seen before.
Fresh(k) == [origin |-> k, edits |-> {}]

-----------------------------------------------------------------------------
(* State of an editor.  "at" is the place it awaits at:                    *)
(*   opening   the first textSync call      binding   the first journal    *)
(*   idle      nothing                                                     *)
(*   saving    the journal before a call    calling   the call             *)
(*   acked     the journal after an answer  failed    ... after an error   *)
(*   refused   ... after an error that retires the replica                 *)
(*   archiving the journal before it is set aside                          *)
(* "missed" is history: an event came while the document was opening, or   *)
(* the refresh was given up, and no answer has come since.                 *)
Bound == {"binding", "idle", "saving", "calling", "acked", "failed", "refused", "archiving"}

NoJournal == [epoch |-> 0, doc |-> {}, pending |-> {}]
Closed == [at |-> "closed", epoch |-> 0, doc |-> {}, pending |-> {}, inFlight |-> {},
           saved |-> NoJournal, refresh |-> "none", missed |-> FALSE]

\* persist: what it captures of a state, to be written later
Snapshot(s) == [epoch |-> s.epoch, doc |-> s.doc, pending |-> s.inFlight \cup s.pending]
Persist(s, at) == [s EXCEPT !.at = at, !.saved = Snapshot(s)]

Request(c, kind, epoch, update) ==
  [from |-> c, kind |-> kind, epoch |-> epoch, update |-> update,
   live |-> TRUE, started |-> FALSE]

\* Calls of c of these kinds nobody waits for any more.
Forget(c, kinds) ==
  /\ requests' = {IF r.from = c /\ r.kind \in kinds THEN [r EXCEPT !.live = FALSE] ELSE r
                  : r \in requests}
  /\ replies' = {r \in replies : ~(r.to = c /\ r.kind \in kinds)}

AllKinds == {"open", "edit", "refresh"}

Trouble == troubles < MaxTroubles /\ troubles' = troubles + 1

-----------------------------------------------------------------------------
Init ==
  /\ edit = <<>>
  /\ file = Fresh(0) /\ replica = NoReplica /\ acl = 1 /\ root = <<>> /\ readers = {}
  /\ requests = {} /\ replies = {} /\ events = [c \in Member |-> <<>>]
  /\ state = [c \in Member |-> Closed]
  /\ journal = [c \in Member |-> NoJournal]
  /\ archive = [c \in Member |-> {}]
  /\ troubles = 0
  /\ kept = {} /\ acked = {} /\ written = {} /\ issued = 0 /\ restored = FALSE

-----------------------------------------------------------------------------
(* The editor: PersistentTextSynchronizer *)

\* ensure and the first part of initialize.  An editor that knows it may no
\* longer edit sets its journal aside.
Open(c) ==
  /\ state[c].at = "closed"
  /\ requests' = requests \cup {Request(c, "open", 0, {})}
  /\ \/ /\ state' = [state EXCEPT ![c].at = "opening", ![c].saved = journal[c]]
        /\ UNCHANGED <<journal, archive>>
     \/ /\ c \in readers /\ journal[c] # NoJournal
        /\ state' = [state EXCEPT ![c].at = "opening"]
        /\ journal' = [journal EXCEPT ![c] = NoJournal]
        /\ archive' = [archive EXCEPT ![c] = @ \cup journal[c].pending]
  /\ UNCHANGED <<edit, disk, replies, events, troubles, history>>

\* The rest of initialize: a journal of the same epoch is resumed, one of
\* another epoch set aside.
Resumes(saved, reply) == saved.epoch = reply.epoch

Opened(c) ==
  \E r \in replies :
    /\ r.to = c /\ r.kind = "open" /\ r.status = "ok"
    /\ replies' = replies \ {r}
    /\ LET saved == state[c].saved
           same == Resumes(saved, r)
           s == [state[c] EXCEPT !.epoch = r.epoch,
                   !.doc = r.edits \cup (IF same THEN saved.doc ELSE {}),
                   !.pending = IF same THEN saved.pending ELSE {}]
       IN /\ state' = [state EXCEPT ![c] = Persist(s, "binding")]
          /\ journal' = [journal EXCEPT ![c] = IF same THEN @ ELSE NoJournal]
          /\ archive' = [archive EXCEPT ![c] = @ \cup (IF same THEN {} ELSE saved.pending)]
    /\ UNCHANGED <<edit, disk, requests, events, troubles, history>>

OpenFailed(c) ==
  \E r \in replies :
    /\ r.to = c /\ r.kind = "open" /\ r.status # "ok"
    /\ replies' = replies \ {r}
    /\ state' = [state EXCEPT ![c] = Closed]
    /\ UNCHANGED <<edit, disk, requests, events, journal, archive, troubles, history>>

\* The user types: anywhere, or next to an edit that is displayed.
Type(c) ==
  /\ state[c].at \in Bound /\ Len(edit) < MaxEdits
  /\ \E base \in {{}} \cup {{n} \cup edit[n].needs : n \in Integrated(state[c].doc)} :
       edit' = Append(edit, [epoch |-> state[c].epoch, needs |-> base])
  /\ state' = [state EXCEPT ![c].doc = @ \cup {Len(edit) + 1},
                            ![c].pending = @ \cup {Len(edit) + 1}]
  /\ UNCHANGED <<disk, net, journal, archive, troubles, history>>

\* send: the pending edits are journalled before they are sent.  It is
\* started by the update event and, for what has failed, every second.
Send(c) ==
  /\ state[c].at = "idle" /\ state[c].pending # {}
  /\ state' = [state EXCEPT ![c] =
                 Persist([state[c] EXCEPT !.inFlight = state[c].pending, !.pending = {}], "saving")]
  /\ UNCHANGED <<edit, disk, net, journal, archive, troubles, history>>

\* A journal has been written, and send or initialize goes on.
WriteJournal(c) ==
  /\ journal' = [journal EXCEPT ![c] = state[c].saved]
  /\ kept' = kept \cup state[c].saved.pending
  /\ UNCHANGED <<acked, written, issued, restored>>

Saved(c) ==
  /\ state[c].at = "saving"
  /\ WriteJournal(c)
  /\ state' = [state EXCEPT ![c].at = "calling"]
  /\ requests' = requests \cup {Request(c, "edit", state[c].epoch, state[c].inFlight)}
  /\ UNCHANGED <<edit, disk, replies, events, archive, troubles>>

Settled(c) ==
  /\ state[c].at \in {"binding", "acked"}
  /\ WriteJournal(c)
  /\ state' = [state EXCEPT ![c].at = "idle"]
  /\ UNCHANGED <<edit, disk, net, archive, troubles>>

\* The rejected send also ends the flushAll that asked for a refresh.
Failed(c) ==
  /\ state[c].at = "failed"
  /\ WriteJournal(c)
  /\ state' = [state EXCEPT ![c].at = "idle",
                            ![c].refresh = IF @ = "wanted" THEN "none" ELSE @,
                            ![c].missed = @ \/ state[c].refresh = "wanted"]
  /\ UNCHANGED <<edit, disk, net, archive, troubles>>

\* recoverReplacement: the journal is written again, then set aside.
Refused(c) ==
  /\ state[c].at = "refused"
  /\ WriteJournal(c)
  /\ state' = [state EXCEPT ![c] = Persist(@, "archiving")]
  /\ UNCHANGED <<edit, disk, net, archive, troubles>>

Archived(c) ==
  /\ state[c].at = "archiving"
  /\ kept' = kept \cup state[c].saved.pending
  /\ archive' = [archive EXCEPT ![c] = @ \cup state[c].saved.pending]
  /\ journal' = [journal EXCEPT ![c] = NoJournal]
  /\ state' = [state EXCEPT ![c] = Closed]
  /\ Forget(c, AllKinds)
  /\ UNCHANGED <<edit, disk, events, troubles, acked, written, issued, restored>>

\* The answer to a call of send.
Acknowledged(c) ==
  \E r \in replies :
    /\ r.to = c /\ r.kind = "edit" /\ r.status = "ok" /\ state[c].at = "calling"
    /\ replies' = replies \ {r}
    /\ acked' = acked \cup state[c].inFlight
    /\ state' = [state EXCEPT ![c] =
                   Persist([state[c] EXCEPT !.doc = @ \cup r.edits, !.inFlight = {}, !.missed = FALSE],
                           "acked")]
    /\ UNCHANGED <<edit, disk, requests, events, journal, archive, troubles,
                   kept, written, issued, restored>>

Rejected(c) ==
  \E r \in replies :
    /\ r.to = c /\ r.kind = "edit" /\ r.status # "ok" /\ state[c].at = "calling"
    /\ replies' = replies \ {r}
    /\ state' = [state EXCEPT ![c] =
                   Persist([state[c] EXCEPT !.pending = @ \cup state[c].inFlight, !.inFlight = {}],
                           IF r.status = "failed" THEN "failed" ELSE "refused")]
    /\ UNCHANGED <<edit, disk, requests, events, journal, archive, troubles, history>>

-----------------------------------------------------------------------------
(* Live events and the refresh they cause *)

\* receive: an edit of another member is applied, unless the replica has no
\* epoch yet; an invalidation asks for a refresh.
Receive(c) ==
  /\ events[c] # <<>> /\ state[c].at # "closed"
  /\ events' = [events EXCEPT ![c] = Tail(@)]
  /\ LET e == Head(events[c]) IN
     \/ /\ e.kind = "text"
        /\ state' = [state EXCEPT ![c].doc =
                       IF state[c].epoch = e.epoch THEN @ \cup e.edits ELSE @,
                     ![c].missed = @ \/ state[c].at = "opening"]
        /\ UNCHANGED <<requests, replies>>
     \/ /\ e.kind = "sync"
        /\ state' = [state EXCEPT ![c].refresh = "wanted"]
        /\ Forget(c, {"refresh"})
  /\ UNCHANGED <<edit, disk, journal, archive, troubles, history>>

\* flushAll with refresh: once nothing is pending, the state is asked for.
Refresh(c) ==
  /\ state[c].at = "idle" /\ state[c].pending = {} /\ state[c].refresh = "wanted"
  /\ state' = [state EXCEPT ![c].refresh = "calling"]
  /\ requests' = requests \cup {Request(c, "refresh", state[c].epoch, {})}
  /\ UNCHANGED <<edit, disk, replies, events, journal, archive, troubles, history>>

Refreshed(c) ==
  \E r \in replies :
    /\ r.to = c /\ r.kind = "refresh" /\ state[c].refresh = "calling"
    /\ replies' = replies \ {r}
    /\ \/ /\ r.status = "ok"
          /\ state' = [state EXCEPT ![c].doc = @ \cup r.edits, ![c].refresh = "none",
                            ![c].missed = FALSE]
       \/ /\ r.status = "failed"
          /\ state' = [state EXCEPT ![c].refresh = "none", ![c].missed = TRUE]
       \/ /\ r.status = "replaced"
          /\ state' = [state EXCEPT ![c] = [Persist(@, "archiving") EXCEPT !.refresh = "none"]]
    /\ UNCHANGED <<edit, disk, requests, events, journal, archive, troubles, history>>

-----------------------------------------------------------------------------
(* The editor stops *)

\* A closed document and a left session write the journal before the state
\* goes; without an epoch there is nothing to write.
Leave(c) ==
  /\ state[c].at # "closed"
  /\ Trouble
  /\ journal' = [journal EXCEPT ![c] =
                   IF state[c].at = "opening" THEN @ ELSE Snapshot(state[c])]
  /\ kept' = kept \cup (IF state[c].at = "opening" THEN {} ELSE Snapshot(state[c]).pending)
  /\ state' = [state EXCEPT ![c] = Closed]
  /\ events' = [events EXCEPT ![c] = <<>>]
  /\ Forget(c, AllKinds)
  /\ UNCHANGED <<edit, disk, archive, acked, written, issued, restored>>

\* The extension host dies.
Reload(c) ==
  /\ state[c].at # "closed"
  /\ Trouble
  /\ state' = [state EXCEPT ![c] = Closed]
  /\ events' = [events EXCEPT ![c] = <<>>]
  /\ Forget(c, AllKinds)
  /\ UNCHANGED <<edit, disk, journal, archive, history>>

-----------------------------------------------------------------------------
(* The server: textSync *)

Answer(r, status, epoch, edits) ==
  /\ requests' = requests \ {r}
  /\ replies' = replies \cup
       IF r.live THEN {[to |-> r.from, kind |-> r.kind, status |-> status,
                        epoch |-> epoch, edits |-> edits]}
       ELSE {}

Broadcast(e) ==
  events' = [c \in Member |-> IF state[c].at = "closed" THEN events[c] ELSE Append(events[c], e)]

SyncEvent == [kind |-> "sync", epoch |-> 0, edits |-> {}]

\* The saved replica whose hash is that of the file: the last one, or the one
\* before, in case the file was not written after it.
Selected ==
  IF replica.acl # acl THEN NoCopy
  ELSE IF TextOf(replica) = file THEN [epoch |-> replica.epoch, edits |-> replica.edits]
  ELSE IF replica.previous.epoch # 0 /\ TextOf(replica.previous) = file
       THEN replica.previous
  ELSE NoCopy

\* A call is between its two writes.
Busy == \E r \in requests : r.started

\* What textSync answers with an error, before it has written anything.
Replaced(r, epoch) == r.epoch # 0 /\ r.epoch # epoch
Denied(r) == r.update # {} /\ r.from \in readers

Saves(epoch, edits, previous) ==
  [epoch |-> epoch, edits |-> edits, acl |-> acl, previous |-> previous]

TextSync(r) ==
  /\ ~Busy
  /\ LET copy == Selected
         epoch == IF copy.epoch # 0 THEN copy.epoch ELSE Len(root) + 1
     IN \/ /\ Replaced(r, epoch)
           /\ Answer(r, "replaced", 0, {})
           /\ UNCHANGED <<replica, root>>
        \/ /\ ~Replaced(r, epoch) /\ Denied(r)
           /\ Answer(r, "refused", 0, {})
           /\ UNCHANGED <<replica, root>>
        \/ /\ ~Replaced(r, epoch) /\ ~Denied(r)
           /\ root' = IF copy.epoch # 0 THEN root ELSE Append(root, file)
           /\ replica' = Saves(epoch, copy.edits \cup r.update, copy)
           /\ requests' = (requests \ {r}) \cup {[r EXCEPT !.started = TRUE]}
           /\ UNCHANGED replies
  /\ UNCHANGED <<edit, file, acl, readers, events, client, troubles, history>>

\* What the live event carries.
\* Mutant: the state vector is taken after the update is applied.
DeltaTooLate(before) == replica.edits \ Integrated(replica.edits)

Delta(before) == replica.edits \ Integrated(before)

\* The second write, the live event and the answer.  No write and no event
\* when the text is what it was.
Commit ==
  \E r \in requests :
    /\ r.started
    /\ file' = TextOf(replica)
    /\ written' = written \cup file'.edits
    /\ issued' = replica.epoch
    /\ IF file' = file THEN UNCHANGED events
       ELSE Broadcast([kind |-> "text", epoch |-> replica.epoch,
                       edits |-> Delta(replica.previous.edits)])
    /\ Answer(r, "ok", replica.epoch, replica.edits)
    /\ UNCHANGED <<edit, replica, acl, root, readers, client, troubles, kept, acked, restored>>

\* The file cannot be written: the quota is reached, or the disk fails.
CommitFails ==
  \E r \in requests, status \in {"refused", "failed"} :
    /\ r.started
    /\ TextOf(replica) # file
    /\ Trouble
    /\ Answer(r, status, 0, {})
    /\ UNCHANGED <<edit, disk, events, client, history>>

\* The server is killed and started again; the write of the file that was
\* under way is there or not.  Live connections are made again and start with
\* "ready".
Restart ==
  /\ Trouble
  /\ file' \in {file} \cup {TextOf(replica) : r \in {q \in requests : q.started}}
  /\ written' = written \cup file'.edits
  /\ requests' = {}
  /\ replies' = replies \cup
       {[to |-> r.from, kind |-> r.kind, status |-> "failed", epoch |-> 0, edits |-> {}]
        : r \in {q \in requests : q.live}}
  /\ events' = [c \in Member |-> IF state[c].at = "closed" THEN <<>> ELSE <<SyncEvent>>]
  /\ UNCHANGED <<edit, replica, acl, root, readers, client, kept, acked, issued, restored>>

-----------------------------------------------------------------------------
(* Around them *)

Change ==
  /\ ~Busy
  /\ Trouble
  /\ Broadcast(SyncEvent)
  /\ UNCHANGED <<edit, replica, root, requests, replies, client>>

\* An ordinary write, the commit of a run or a folder synchronised puts
\* another text in place.
Replace ==
  /\ Change
  /\ file' = Fresh(troubles + 1)
  /\ issued' = 0
  /\ UNCHANGED <<acl, readers, kept, acked, written, restored>>

\* Such a write happens to put back the text before the last edit.
Restore ==
  /\ Change
  /\ replica.previous.epoch # 0 /\ TextOf(replica.previous) # file
  /\ file' = TextOf(replica.previous)
  /\ issued' = 0 /\ restored' = TRUE
  /\ UNCHANGED <<acl, readers, kept, acked, written>>

\* The file is made private, or public again.
ChangeVisibility ==
  /\ Change
  /\ acl' = acl + 1
  /\ issued' = 0
  /\ UNCHANGED <<file, readers, kept, acked, written, restored>>

\* The owner makes a member a reader.
Revoke(c) ==
  /\ c \notin readers
  /\ Change
  /\ readers' = readers \cup {c}
  /\ UNCHANGED <<file, acl, history>>

\* A call is given up after its deadline; it may be handled all the same.
Timeout(c) ==
  /\ Trouble
  /\ \E kind \in AllKinds :
       /\ \/ \E r \in requests : r.from = c /\ r.kind = kind /\ r.live
          \/ \E r \in replies : r.to = c /\ r.kind = kind /\ r.status = "ok"
       /\ requests' = {IF r.from = c /\ r.kind = kind THEN [r EXCEPT !.live = FALSE] ELSE r
                       : r \in requests}
       /\ replies' = {r \in replies : ~(r.to = c /\ r.kind = kind)} \cup
            {[to |-> c, kind |-> kind, status |-> "failed", epoch |-> 0, edits |-> {}]}
  /\ UNCHANGED <<edit, disk, events, client, history>>

\* A live connection breaks and is made again.
Reconnect(c) ==
  /\ state[c].at # "closed"
  /\ Trouble
  /\ events' = [events EXCEPT ![c] = <<SyncEvent>>]
  /\ UNCHANGED <<edit, disk, requests, replies, client, history>>

-----------------------------------------------------------------------------
Editor(c) ==
  \/ Open(c) \/ Opened(c) \/ OpenFailed(c)
  \/ Send(c) \/ Saved(c) \/ Settled(c) \/ Failed(c) \/ Refused(c) \/ Archived(c)
  \/ Acknowledged(c) \/ Rejected(c)
  \/ Receive(c) \/ Refresh(c) \/ Refreshed(c)

Serve == (\E r \in requests : TextSync(r)) \/ Commit

Environment ==
  \/ \E c \in Member : Type(c) \/ Leave(c) \/ Reload(c) \/ Revoke(c) \/ Timeout(c) \/ Reconnect(c)
  \/ CommitFails \/ Restart \/ Replace \/ Restore \/ ChangeVisibility

Next == (\E c \in Member : Editor(c)) \/ Serve \/ Environment

Spec == Init /\ [][Next]_vars

\* The timer of a second and the answers of calls keep an open document going,
\* the queue of the server is worked off, and a document that was closed is
\* opened again.  Nobody is obliged to type, and nothing has to fail.
Fairness ==
  /\ \A c \in Member : WF_vars(Editor(c))
  /\ WF_vars(Serve)

FairSpec == Spec /\ Fairness

-----------------------------------------------------------------------------
EditSet == SUBSET (1..Len(edit))
Copies == [epoch : Nat, edits : EditSet]
Texts == [origin : Nat, edits : EditSet]
Journals == [epoch : Nat, doc : EditSet, pending : EditSet]
States == [at : Bound \cup {"closed", "opening"}, epoch : Nat, doc : EditSet,
           pending : EditSet, inFlight : EditSet, saved : Journals,
           refresh : {"none", "wanted", "calling"}, missed : BOOLEAN]
Requests == [from : Member, kind : AllKinds, epoch : Nat, update : EditSet,
             live : BOOLEAN, started : BOOLEAN]
Replies == [to : Member, kind : AllKinds, status : {"ok", "replaced", "refused", "failed"},
            epoch : Nat, edits : EditSet]
Events == [kind : {"text", "sync"}, epoch : Nat, edits : EditSet]

\* Types of the variables.
TypeOK ==
  /\ edit \in Seq([epoch : Nat, needs : SUBSET Nat])
  /\ \A n \in 1..Len(edit) : edit[n].needs \in EditSet
  /\ file \in Texts /\ root \in Seq(Texts) /\ acl \in Nat \ {0} /\ readers \subseteq Member
  /\ replica \in [epoch : Nat, edits : EditSet, acl : Nat, previous : Copies]
  /\ state \in [Member -> States]
  /\ journal \in [Member -> Journals] /\ archive \in [Member -> EditSet]
  /\ {kept, acked, written} \subseteq EditSet /\ issued \in Nat /\ restored \in BOOLEAN
  /\ requests \subseteq Requests /\ replies \subseteq Replies
  /\ events \in [Member -> Seq(Events)] /\ troubles \in Nat

Pending(c) == journal[c].pending
SetAside == UNION {archive[c] : c \in Member}

\* An edit that a journal has once held as pending is pending in a journal,
\* set aside in an archive or acknowledged, through lost answers, retries, kills
\* of either side and replaced files (docs/PERSISTENT_VPS.md:63: "Pending
\* updates remain in a local journal until acknowledgement").
UnacknowledgedIsKept ==
  kept \subseteq acked \cup SetAside \cup UNION {Pending(c) : c \in Member}

\* What the server acknowledges has been in the file, although the replica is
\* written first and either write can be the last before a kill.  (Not after
\* a write that puts an earlier text back: its hash selects the replica before,
\* and an edit typed next to one that is lost waits for it.)
AcknowledgedReachesFile == restored \/ acked \subseteq written

\* The saved replica is of use after every kill and failed write: as long as
\* nobody else has written the file and its rights are the same, textSync
\* finds the epoch it has answered with, and in it every edit of that epoch
\* that it has put in the file (the comment at
\* src/src/vps/persistentServer.ts:574).
WriteAheadSelects ==
  issued # 0 /\ ~Busy =>
    /\ Selected.epoch = issued
    /\ {n \in file.edits : edit[n].epoch = issued} \subseteq Selected.edits

\* Edits typed in one epoch get neither into the server's replica of another
\* nor into a journal that will be resumed in another
\* (docs/PERSISTENT_VPS.md:67: text from an old scope is not republished).
OldScopeStaysOut ==
  /\ \A n \in replica.edits : edit[n].epoch = replica.epoch
  /\ \A c \in Member : \A n \in Pending(c) : edit[n].epoch = journal[c].epoch

\* The four together: also when one trouble meets the recovery from another,
\* a journal that a reload left behind a replaced file, a replica that a failed
\* write left ahead of the file a kill, and so on.
RecoversFromTrouble ==
  UnacknowledgedIsKept /\ AcknowledgedReachesFile /\ WriteAheadSelects /\ OldScopeStaysOut

\* An editor at rest, with no live event on its way, shows every edit that is
\* in effect in the replica it edits, although the events that carry them and
\* the answers race with its own edits, with lost connections and with kills
\* of the server.  (Not when it missed something: nothing repeats an event
\* dropped before the first answer, or a refresh that failed.)
EditorsAgree ==
  \A c \in Member :
    /\ state[c].at = "idle" /\ state[c].refresh = "none" /\ events[c] = <<>>
    /\ ~state[c].missed /\ ~Busy /\ state[c].epoch = Selected.epoch
    => Integrated(Selected.edits) \subseteq state[c].doc

-----------------------------------------------------------------------------
(* Why these hold: what every step keeps.                                  *)

OfEpoch(epoch, edits) == \A n \in edits : edit[n].epoch = epoch
Whole(edits) == \A n \in edits : edit[n].needs \subseteq edits
Own(s) == s.pending \cup s.inFlight

\* Nothing of one epoch is held as of another, and a replica is of the epoch of
\* the one before it.
ScopeOfServer ==
  /\ replica.epoch \in 0..Len(root)
  /\ replica.epoch = 0 => replica.acl = 0
  /\ replica.previous = NoCopy \/ replica.previous.epoch = replica.epoch
  /\ OfEpoch(replica.epoch, replica.edits) /\ OfEpoch(replica.epoch, replica.previous.edits)
  /\ \A n \in 1..Len(edit) : edit[n].epoch \in 1..Len(root)
  /\ \A e \in 1..Len(root) : \A n \in root[e].edits : edit[n].epoch < e

ScopeOfJournal(j) == j.epoch <= Len(root) /\ OfEpoch(j.epoch, j.pending)

\* Only a call has something under way, until it ends or the replica is set
\* aside, and only an answer gives an epoch.
ScopeOfState(s) ==
  /\ s.epoch <= Len(root) /\ OfEpoch(s.epoch, Own(s)) /\ ScopeOfJournal(s.saved)
  /\ s.inFlight # {} => s.at \in {"saving", "calling", "archiving"}
  /\ s.epoch = 0 <=> s.at \in {"closed", "opening"}
  /\ s.epoch = 0 => s.doc = {} /\ s.pending = {} /\ s.refresh # "calling"

ScopeOfCall(r) ==
  /\ r.epoch <= Len(root) /\ OfEpoch(r.epoch, r.update)
  /\ r.kind = "open" => r.epoch = 0
  /\ r.kind # "edit" => r.update = {}

ScopeInv ==
  /\ ScopeOfServer
  /\ \A c \in Member : ScopeOfState(state[c]) /\ ScopeOfJournal(journal[c])
  /\ \A r \in requests : ScopeOfCall(r)
  /\ \A r \in replies : r.status = "ok" => r.epoch \in 1..Len(root)
  /\ \A c \in Member : \A k \in 1..Len(events[c]) :
       events[c][k].kind = "text" => events[c][k].epoch \in 1..Len(root)

\* A call has at most one answer, which its editor is waiting for.
Awaits(s, kind) ==
  CASE kind = "open" -> s.at = "opening"
    [] kind = "edit" -> s.at \in {"calling", "archiving"}
    [] kind = "refresh" -> s.refresh = "calling"

CallsOf(c, kind) == {r \in requests : r.live /\ r.from = c /\ r.kind = kind}
AnswersTo(c, kind) == {r \in replies : r.to = c /\ r.kind = kind}

OneCall(c, kind) ==
  /\ CallsOf(c, kind) \cup AnswersTo(c, kind) # {} => Awaits(state[c], kind)
  /\ \A r, q \in CallsOf(c, kind) : r = q
  /\ \A r, q \in AnswersTo(c, kind) : r = q
  /\ CallsOf(c, kind) = {} \/ AnswersTo(c, kind) = {}
  /\ \A r \in CallsOf(c, kind) :
       r.epoch = state[c].epoch /\ (kind = "edit" => r.update = state[c].inFlight)
  /\ \A r \in AnswersTo(c, kind) : r.status = "ok" =>
       /\ kind # "open" => r.epoch = state[c].epoch
       /\ kind = "edit" => state[c].inFlight \subseteq r.edits

CallInv == \A c \in Member, kind \in AllKinds : OneCall(c, kind)

\* Between the two writes of a call the replica holds its edits, and the replica
\* before it has the text of the file.
WriteInv ==
  /\ \A r \in requests : r.started =>
       /\ replica.epoch # 0 /\ replica.acl = acl
       /\ r.epoch \in {0, replica.epoch} /\ r.update \subseteq replica.edits
       /\ replica.previous.epoch # 0 => TextOf(replica.previous) = file
       /\ \A q \in requests : q.started => q = r
  /\ issued # 0 =>
       /\ replica.acl = acl /\ replica.epoch = issued
       /\ \/ TextOf(replica) = file
          \/ replica.previous.epoch = issued /\ TextOf(replica.previous) = file

\* A journal to be written holds what the one before it holds and is neither
\* acknowledged nor set aside; an editor has in memory what its journal holds.
Safe == acked \cup SetAside

JournalOf(c) ==
  /\ state[c].at = "closed" => state[c].saved = NoJournal
  /\ state[c].at = "opening" => state[c].saved = journal[c]
  /\ state[c].at \in Bound => /\ Pending(c) \subseteq Safe \cup state[c].saved.pending
                              /\ state[c].saved.pending \subseteq Safe \cup Own(state[c])

JournalInv ==
  /\ \A c \in Member : JournalOf(c)
  /\ kept \subseteq Safe \cup UNION {Pending(c) : c \in Member}

KeepInv == ScopeInv /\ CallInv /\ WriteInv /\ JournalInv

\* What the server has given out of an epoch is in its replica of that epoch,
\* and in the one before as long as that one may be selected.
Given(epoch, edits) ==
  /\ epoch = replica.epoch => edits \subseteq replica.edits
  /\ epoch = replica.previous.epoch /\ TextOf(replica.previous) = file
     => edits \subseteq replica.previous.edits

\* What a copy holds beside its own edits was given out, and its own edits are
\* typed next to others it holds.
GivenBeside(epoch, doc, own) ==
  /\ own \subseteq doc /\ Given(epoch, doc \ own)
  /\ \A n \in own : edit[n].needs \subseteq doc

CausalOfJournal(j) == j.epoch # 0 => GivenBeside(j.epoch, j.doc, j.pending)

CausalOfState(s) ==
  /\ CausalOfJournal(s.saved)
  /\ s.at \in Bound =>
       /\ GivenBeside(s.epoch, s.doc, Own(s))
       /\ \A n \in s.inFlight : edit[n].needs \cap s.pending \subseteq s.inFlight

CausalOfEvent(e) == e.kind = "text" => Given(e.epoch, e.edits)

CausalOfCall(r) == \A n \in r.update : Given(r.epoch, edit[n].needs \ r.update)

\* Unless a write has put an earlier text back, no edit waits for one that is
\* lost, and what is acknowledged was in the file.
Causal ==
  /\ Whole(replica.edits) /\ Whole(replica.previous.edits)
  /\ \A c \in Member : CausalOfState(state[c]) /\ CausalOfJournal(journal[c])
  /\ \A c \in Member : \A k \in 1..Len(events[c]) : CausalOfEvent(events[c][k])
  /\ \A r \in requests : CausalOfCall(r)
  /\ \A r \in replies : r.status = "ok" =>
       /\ Given(r.epoch, r.edits)
       /\ r.kind = "edit" => state[r.to].inFlight \subseteq written
  /\ acked \subseteq written
  /\ file.origin <= troubles /\ \A e \in 1..Len(root) : root[e].origin <= troubles

CausalInv == restored \/ Causal

\* What an editor lacks of the file is on its way or in the answer it waits
\* for, until it is told to ask, has missed something or sets its journal aside.
Content(epoch) == {n \in file.edits : edit[n].epoch = epoch}
Coming(c, epoch) ==
  UNION {events[c][k].edits : k \in {i \in 1..Len(events[c]) : /\ events[c][i].kind = "text"
                                                               /\ events[c][i].epoch = epoch}}
Shown(c, epoch) == state[c].doc \cup Coming(c, epoch)
Told(c) ==
  state[c].refresh = "wanted" \/ \E k \in 1..Len(events[c]) : events[c][k].kind = "sync"

UpToDate(c) ==
  /\ state[c].at \in Bound \ {"archiving"} /\ state[c].epoch = replica.epoch
  /\ state[c].refresh = "none" /\ ~state[c].missed /\ ~Told(c)
  => Content(replica.epoch) \subseteq Shown(c, replica.epoch)

BringsUpToDate(r) ==
  /\ r.status = "ok" /\ r.epoch = replica.epoch /\ ~Told(r.to)
  /\ r.kind = "open" => ~state[r.to].missed
  => Content(replica.epoch) \subseteq r.edits \cup Shown(r.to, replica.epoch)

AgreeInv ==
  /\ \A c \in Member : UpToDate(c)
  /\ \A r \in replies : BringsUpToDate(r)

TextInv == TypeOK /\ KeepInv /\ CausalInv /\ AgreeInv

=============================================================================
