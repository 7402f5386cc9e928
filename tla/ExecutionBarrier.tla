--------------------------- MODULE ExecutionBarrier ---------------------------
(***************************************************************************)
(* The file barrier before a run on the Session Host                       *)
(* (src/runtime/session.ts): the requester sends a manifest of its         *)
(* project, the executor answers what it lacks, the requester sends that,  *)
(* and the executor compares everything once more before it says yes.      *)
(* A document is a set of edits and its own hash; all frames of one        *)
(* request carry its identifier and nothing that tells its attempts apart. *)
(*                                                                         *)
(* A frame may overtake another: bulk frames wait for realtime ones, and   *)
(* checks are handled in a queue of their own.                             *)
(***************************************************************************)
EXTENDS Naturals, Sequences, BarrierParameters

CONSTANTS
  MaxRetries,  \* bound: frames sent again before they are answered
  MaxFaults    \* bound: broken or replaced routes, lost frames, waits and
               \* authorizations that run out, refusals for another reason

VARIABLES
  docs,        \* the project of "requester" and "executor"
  net,         \* frames on their way to each, in the order they were sent
  disordered,  \* the route was replaced or lost a frame: they come in any order
  req,         \* synchronizeExecutionFiles and its sending loops
  exec,        \* what the executor keeps of the request
  used,        \* edits, retries and faults so far
  seen,        \* history: manifests the executor had exactly when it verified
  changed      \* history: somebody edited since the request

vars == <<docs, net, disordered, req, exec, used, seen, changed>>

Sides == {"requester", "executor"}
Other(s) == IF s = "requester" THEN "executor" ELSE "requester"
Nothing == <<>>

(* executionManifest *)
Manifest(s) == docs[s]
Has(s) == DOMAIN docs[s]
Merge(a, b) == [d \in DOMAIN a \cup DOMAIN b |->
                  (IF d \in DOMAIN a THEN a[d] ELSE {}) \cup (IF d \in DOMAIN b THEN b[d] ELSE {})]
Only(a, D) == [d \in D \cap DOMAIN a |-> a[d]]

(* The order of the frames to one side: which of two stays ahead.           *)
IsBulk(f) == f.type \in {"state", "stateEnd", "commit"}
InBackground(f) == f.type = "check"
StaysAhead(f, g) == (InBackground(f) <=> InBackground(g)) /\ (IsBulk(f) => IsBulk(g))
Ready(q) == {i \in 1 .. Len(q) : disordered \/ \A j \in 1 .. (i - 1) : ~StaysAhead(q[j], q[i])}
Without(q, i) == [j \in 1 .. (Len(q) - 1) |-> IF j < i THEN q[j] ELSE q[j + 1]]

Post(to, f) == net' = [net EXCEPT ![to] = Append(@, f)]

Init ==
  /\ docs = [s \in Sides |-> [d \in Initial |-> {}]]
  /\ net = [s \in Sides |-> <<>>] /\ disordered = FALSE
  /\ req = [st |-> "idle", attempt |-> 1, recovered |-> FALSE, fresh |-> FALSE,
            manifest |-> Nothing, checks |-> {}, commits |-> {}]
  /\ exec = [pending |-> {}, completed |-> {}, verifying |-> {}]
  /\ used = [edits |-> 0, retries |-> 0, faults |-> 0]
  /\ seen = {} /\ changed = FALSE

(* A user edits or creates a document; the update goes out at once.         *)
Edit(s, d) ==
  /\ used.edits < MaxChanges
  /\ used' = [used EXCEPT !.edits = @ + 1]
  /\ LET new == [x \in {d} |-> {used.edits + 1}]
     IN /\ docs' = [docs EXCEPT ![s] = Merge(@, new)]
        /\ Post(Other(s), [type |-> "update", docs |-> new])
  /\ changed' = (changed \/ req.st # "idle")
  /\ UNCHANGED <<disordered, req, exec, seen>>

-----------------------------------------------------------------------------
(* The requester.                                                           *)

(* An attempt makes a manifest and starts a loop that sends it.             *)
Attempt(n, recovered) ==
  req' = [req EXCEPT !.st = "status", !.attempt = n, !.recovered = recovered, !.fresh = TRUE,
                     !.manifest = Manifest("requester"), !.checks = @ \cup {Manifest("requester")}]

Begin ==
  /\ req.st = "idle" /\ Attempt(1, FALSE)
  /\ UNCHANGED <<docs, net, disordered, exec, used, seen, changed>>

(* The loops of dispatchExecutionBarrierFrame: each sends the manifest it   *)
(* was started with as long as the request waits for an answer of its phase, *)
(* whichever attempt that answer is for.                                    *)
Loops == IF req.st = "status" THEN req.checks ELSE req.commits

Send ==
  /\ req.st \in {"status", "ack"}
  /\ \E m \in Loops :
       /\ \/ req.fresh /\ m = req.manifest /\ req' = [req EXCEPT !.fresh = FALSE] /\ UNCHANGED used
          \/ /\ used.retries < MaxRetries /\ (m = req.manifest => ~req.fresh)
             /\ used' = [used EXCEPT !.retries = @ + 1] /\ UNCHANGED req
       /\ Post("executor", [type |-> IF req.st = "status" THEN "check" ELSE "commit", manifest |-> m])
  /\ UNCHANGED <<docs, disordered, exec, seen, changed>>

Ends(st) == req' = [req EXCEPT !.st = st]
IsLast == req.attempt = 2

(* What the requester does with a status or an acknowledgement it waits for. *)
OnStatus(f, rest) ==
  \/ /\ f.ok
     /\ req' = [req EXCEPT !.st = "ack", !.fresh = TRUE, !.commits = @ \cup {req.manifest}]
     /\ net' = IF f.missing = {} THEN rest
               ELSE [rest EXCEPT !["executor"] =
                       Append(@, [type |-> "state", docs |-> Only(Manifest("requester"), f.missing)])]
  \/ /\ ~f.ok /\ f.sync /\ ~req.recovered
     /\ req' = [req EXCEPT !.st = "recover", !.recovered = TRUE]
     /\ net' = [rest EXCEPT !["executor"] = Append(@, [type |-> "stateRequest"])]
  \/ ~f.ok /\ (~f.sync \/ req.recovered) /\ Ends("failed") /\ net' = rest

OnAck(f) ==
  \/ f.ok /\ Ends("done")
  \/ ~f.ok /\ IsLast /\ Ends("failed")
  \/ ~f.ok /\ ~IsLast /\ Attempt(2, req.recovered)

(* Frames are handled one at a time; answers nobody waits for are dropped.  *)
RequesterReceives ==
  \E i \in Ready(net["requester"]) :
    LET f == net["requester"][i]
        rest == [net EXCEPT !["requester"] = Without(@, i)]
    IN /\ \/ /\ f.type \in {"update", "state"} /\ net' = rest /\ UNCHANGED req
             /\ docs' = [docs EXCEPT !["requester"] = Merge(@, f.docs)]
          \/ f.type = "status" /\ req.st = "status" /\ OnStatus(f, rest) /\ UNCHANGED docs
          \/ f.type = "ack" /\ req.st = "ack" /\ OnAck(f) /\ net' = rest /\ UNCHANGED docs
          \/ /\ f.type = "stateEnd" /\ req.st = "recover" /\ Attempt(req.attempt, TRUE)
             /\ net' = rest /\ UNCHANGED docs
          \/ /\ f.type \in {"status", "ack", "stateEnd"} /\ net' = rest /\ UNCHANGED <<docs, req>>
             /\ req.st # (IF f.type = "stateEnd" THEN "recover" ELSE f.type)
       /\ UNCHANGED <<disordered, exec, used, seen, changed>>

-----------------------------------------------------------------------------
(* The executor.                                                            *)
Extra(m) == Has("executor") \ DOMAIN m
Missing(m) == {d \in DOMAIN m : d \notin Has("executor") \/ docs["executor"][d] # m[d]}

Status(ok, sync, missing) == [type |-> "status", ok |-> ok, sync |-> sync, missing |-> missing]
Ack(ok) == [type |-> "ack", ok |-> ok]
Answer(rest, f) == net' = [rest EXCEPT !["requester"] = Append(@, f)]

(* handleExecutionBarrierCheck                                              *)
OnCheck(m, rest) ==
  \/ Extra(m) # {} /\ Answer(rest, Status(FALSE, TRUE, {})) /\ UNCHANGED exec
  \/ /\ Extra(m) = {} /\ Answer(rest, Status(TRUE, FALSE, Missing(m)))
     /\ exec' = [exec EXCEPT !.pending = {m}, !.completed = {}]

(* handleExecutionBarrierCommit up to the flush.                            *)
OnCommit(m, rest) ==
  \/ m \in exec.completed /\ Answer(rest, Ack(TRUE)) /\ UNCHANGED exec
  \/ m \notin exec.completed \cup exec.pending /\ Answer(rest, Ack(FALSE)) /\ UNCHANGED exec
  \/ /\ m \in exec.pending \ exec.completed /\ net' = rest
     /\ exec' = [exec EXCEPT !.pending = {}, !.verifying = {m}]

(* mutant of IsExact: what the requester does not have is not looked at     *)
IsIncluded(m) == Missing(m) = {}

(* After the flush everything is compared again.                            *)
IsExact(m) == Missing(m) = {} /\ Extra(m) = {}

Verify ==
  /\ \E m \in exec.verifying :
       /\ exec' = [exec EXCEPT !.verifying = {}, !.completed = IF IsExact(m) THEN {m} ELSE @]
       /\ Post("requester", Ack(IsExact(m)))
       /\ seen' = IF docs["executor"] = m THEN seen \cup {m} ELSE seen
  /\ UNCHANGED <<docs, disordered, req, used, changed>>

(* Checks are handled in the background, the rest one at a time: nothing    *)
(* but a check is handled during the flush.  A stateRequest is answered     *)
(* with the whole project and an end that names the request.                *)
ExecutorReceives ==
  \E i \in Ready(net["executor"]) :
    LET f == net["executor"][i]
        rest == [net EXCEPT !["executor"] = Without(@, i)]
    IN /\ InBackground(f) \/ exec.verifying = {}
       /\ \/ /\ f.type \in {"update", "state"} /\ net' = rest /\ UNCHANGED exec
             /\ docs' = [docs EXCEPT !["executor"] = Merge(@, f.docs)]
          \/ f.type = "check" /\ OnCheck(f.manifest, rest) /\ UNCHANGED docs
          \/ f.type = "commit" /\ OnCommit(f.manifest, rest) /\ UNCHANGED docs
          \/ /\ f.type = "stateRequest" /\ UNCHANGED <<docs, exec>>
             /\ net' = [rest EXCEPT !["requester"] = @ \o
                  <<[type |-> "state", docs |-> docs["executor"]], [type |-> "stateEnd"]>>]
       /\ UNCHANGED <<disordered, req, used, seen, changed>>

-----------------------------------------------------------------------------
(* Faults.                                                                  *)
Fault == used.faults < MaxFaults /\ used' = [used EXCEPT !.faults = @ + 1]

(* waitForBarrierReply and recoverExecutionProject give up, or the          *)
(* requester loses the executor.                                            *)
GiveUp ==
  /\ req.st \in {"status", "ack", "recover"} /\ Ends("failed") /\ Fault
  /\ UNCHANGED <<docs, net, disordered, exec, seen, changed>>

(* BARRIER_AUTHORIZATION_TIMEOUT_MS, COMPLETED_BARRIER_TIMEOUT_MS, or the   *)
(* executor loses the requester.                                            *)
Lapse ==
  /\ exec.pending \cup exec.completed # {} /\ Fault
  /\ exec' = [exec EXCEPT !.pending = {}, !.completed = {}]
  /\ UNCHANGED <<docs, net, disordered, req, seen, changed>>

(* The executor refuses: no permission, another target, or too many         *)
(* authorizations, those of other requests included.                        *)
Refuse ==
  /\ \E i \in Ready(net["executor"]) :
       LET f == net["executor"][i]
           rest == [net EXCEPT !["executor"] = Without(@, i)]
       IN \/ f.type = "check" /\ Answer(rest, Status(FALSE, FALSE, {}))
          \/ f.type = "commit" /\ exec.verifying = {} /\ Answer(rest, Ack(FALSE))
  /\ Fault
  /\ UNCHANGED <<docs, disordered, req, exec, seen, changed>>

(* The route breaks: what has not arrived is lost, and both exchange their  *)
(* documents over the next one.                                             *)
Break ==
  /\ Fault /\ disordered' = TRUE
  /\ \E x \in 0 .. Len(net["executor"]), y \in 0 .. Len(net["requester"]) :
       net' = [net EXCEPT
         !["executor"]  = Append(SubSeq(@, 1, x), [type |-> "state", docs |-> docs["requester"]]),
         !["requester"] = Append(SubSeq(@, 1, y), [type |-> "state", docs |-> docs["executor"]])]
  /\ UNCHANGED <<docs, req, exec, seen, changed>>

(* A better route takes over: frames of the old one are still on their way. *)
Upgrade ==
  /\ ~disordered /\ disordered' = TRUE /\ Fault
  /\ UNCHANGED <<docs, net, req, exec, seen, changed>>

(* A relay loses a frame.                                                   *)
Drop ==
  /\ disordered' = TRUE /\ Fault
  /\ \E s \in Sides : \E i \in 1 .. Len(net[s]) : net' = [net EXCEPT ![s] = Without(@, i)]
  /\ UNCHANGED <<docs, req, exec, seen, changed>>

Next ==
  \/ \E s \in Sides, d \in Docs : Edit(s, d)
  \/ Begin \/ Send \/ RequesterReceives
  \/ ExecutorReceives \/ Verify
  \/ GiveUp \/ Lapse \/ Refuse \/ Break \/ Upgrade \/ Drop

Spec == Init /\ [][Next]_vars

-----------------------------------------------------------------------------
Projects == UNION {[D -> SUBSET (1 .. MaxChanges)] : D \in SUBSET Docs}
Frame ==
  [type : {"update", "state"}, docs : Projects]
    \cup [type : {"check", "commit"}, manifest : Projects]
    \cup [type : {"status"}, ok : BOOLEAN, sync : BOOLEAN, missing : SUBSET Docs]
    \cup [type : {"ack"}, ok : BOOLEAN] \cup [type : {"stateRequest", "stateEnd"}]
Requests == [st : {"idle", "status", "ack", "recover", "done", "failed"}, attempt : 1 .. 2,
             recovered : BOOLEAN, fresh : BOOLEAN, manifest : Projects,
             checks : SUBSET Projects, commits : SUBSET Projects]
Authorizations == [pending : SUBSET Projects, completed : SUBSET Projects,
                   verifying : SUBSET Projects]

(* Types of the state.                                                      *)
TypeOK ==
  /\ docs \in [Sides -> Projects] /\ net \in [Sides -> Seq(Frame)]
  /\ req \in Requests /\ exec \in Authorizations
  /\ used \in [edits : Nat, retries : Nat, faults : Nat]
  /\ seen \subseteq Projects /\ disordered \in BOOLEAN /\ changed \in BOOLEAN

Interfered == changed \/ used.faults > 0

(* A run starts only when the executor had exactly a project the requester  *)
(* committed this request to (5493-5499), whatever is lost, repeated or     *)
(* overtaken.  In its first attempt that is the manifest itself.            *)
StartsOnACommitment ==
  req.st = "done" => /\ req.commits \cap seen # {}
                     /\ req.attempt = 1 => req.manifest \in seen

(* In a second attempt the answer may be to the first manifest, whose loop  *)
(* goes on (5714-5732), but not unless somebody edited, a route or an       *)
(* authorization was lost, or a call was refused meanwhile.                 *)
LastIsExact == req.st = "done" /\ ~Interfered => req.manifest \in seen

(* A run is refused only when somebody interferes, or when frames were sent *)
(* again: a late check of an earlier attempt, or the answer to one, is not  *)
(* told from that of this attempt (5425-5430, 5734-5746).                   *)
RefusalHasAReason == req.st = "failed" => Interfered \/ used.retries > 0

\* A project as the set of its documents and of the edits in them.
Known(a) == UNION {{d} \X (a[d] \cup {0}) : d \in DOMAIN a}

(* "The barrier commit must remain behind the stateDocument/binary frames   *)
(* that satisfy it" (mesh.ts:3484-3486): as long as a route lasts, what a   *)
(* commit names is there when it is verified.                               *)
CommitComesBehind ==
  ~disordered => \A m \in exec.verifying : Known(m) \subseteq Known(docs["executor"])

(* What the barrier before a run promises (synchronizeExecutionFiles).      *)
BarrierIsExact == StartsOnACommitment /\ LastIsExact /\ RefusalHasAReason /\ CommitComesBehind

-----------------------------------------------------------------------------
(* Why a run starts on a commitment, in whatever order frames come.         *)
X == net["executor"]
Q == net["requester"]
InFlight(q) == {q[i] : i \in 1 .. Len(q)}

\* Only what the requester committed to is verified or acknowledged, and in
\* the first attempt that is one manifest.
CommitInv ==
  /\ req.st = "ack" => req.manifest \in req.commits
  /\ req.attempt = 1 => req.commits \subseteq {req.manifest}
  /\ req.st = "idle" \/ (req.attempt = 1 /\ req.st \in {"status", "recover"}) => req.commits = {}
  /\ \A f \in InFlight(X) : f.type = "commit" => f.manifest \in req.commits
  /\ exec.verifying \subseteq req.commits
  /\ exec.completed \subseteq req.commits \cap seen
  /\ \A f \in InFlight(Q) : f.type = "ack" /\ f.ok => req.commits \cap seen # {}

(* Why a commit comes behind all it names.                                  *)

\* What the updates among the first frames of a queue bring.
News(q, n) == UNION {Known(q[i].docs) : i \in {j \in 1 .. n : q[j].type = "update"}}

\* What the requester has is with the executor or in an update to it, and of
\* what a commit names, in an update ahead of it; the executor sends what it has.
NewsInv ==
  /\ \A f \in InFlight(Q) : f.type \in {"update", "state"} => Known(f.docs) \subseteq Known(docs["executor"])
  /\ \A m \in req.commits \cup {req.manifest} : Known(m) \subseteq Known(docs["requester"])
  /\ ~disordered =>
       /\ Known(docs["requester"]) \subseteq Known(docs["executor"]) \cup News(X, Len(X))
       /\ \A i \in 1 .. Len(X) :
            X[i].type = "commit" => Known(X[i].manifest) \subseteq Known(docs["executor"]) \cup News(X, i)

BarrierInv == TypeOK /\ CommitInv /\ NewsInv /\ StartsOnACommitment /\ CommitComesBehind
=============================================================================
