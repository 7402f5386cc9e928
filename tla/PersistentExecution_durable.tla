-------------------- MODULE PersistentExecution_durable --------------------
(***************************************************************************)
(* What clients and the agent were told of a run is on the server's disk,  *)
(* and its results are written to the project once.                        *)
(*                                                                         *)
(* The invariant is about three copies of every run: the record in memory, *)
(* the record on the disk and the archived result.  A change that cannot   *)
(* be saved is taken back, so the copies may differ in only a few ways,    *)
(* which Agree lists; each step is shown to keep them for each run.        *)
(***************************************************************************)
EXTENDS PersistentExecution_proofs

-----------------------------------------------------------------------------
(* Runs that tell the same.                                                *)

\* Two copies of a run that do not differ in what the invariant is about.
Alike(a, b) ==
  /\ a = None <=> b = None
  /\ a # None => /\ b.state = a.state /\ b.merge = a.merge /\ b.reports = a.reports
                 /\ b.offset = a.offset /\ (b.published # 0 <=> a.published # 0)

\* A queued run is started, or ends.
Dequeued(a, b) ==
  /\ a # None /\ b # None /\ a.state = "queued"
  /\ b.state \in {"running"} \cup Terminal /\ b.merge = a.merge /\ b.reports = a.reports
  /\ b.offset = a.offset /\ b.published = a.published

LEMMA AlikeRuns ==
  ASSUME NEW a, NEW b, Alike(a, b)
  PROVE  /\ a # None => (HasFinal(a) <=> HasFinal(b)) /\ (Over(a) <=> Over(b)) /\ (Done(a) <=> Done(b))
         /\ Sound(a) <=> Sound(b)
         /\ Settled(a) <=> Settled(b)
         /\ \A r : TellsAll(r, a) <=> TellsAll(r, b)
         /\ \A p, id, k : Remembers(p, a, id, k) <=> Remembers(p, b, id, k)
<1>1. CASE a = None
  BY <1>1 DEF Alike, Sound, Settled, TellsAll, Remembers
<1>2. CASE a # None
  <2>1. b # None /\ b.state = a.state /\ b.merge = a.merge /\ b.reports = a.reports
        /\ b.offset = a.offset /\ (b.published # 0 <=> a.published # 0)
    BY <1>2 DEF Alike
  <2>2. (HasFinal(a) <=> HasFinal(b)) /\ (Over(a) <=> Over(b))
    BY <2>1 DEF HasFinal, Over
  <2>3. Done(a) <=> Done(b)
    BY <2>2 DEF Done
  <2>4. Sound(a) <=> Sound(b)
    BY <1>2, <2>1, <2>2 DEF Sound
  <2>5. Settled(a) <=> Settled(b)
    BY <1>2, <2>1, <2>3 DEF Settled
  <2>6. \A r : TellsAll(r, a) <=> TellsAll(r, b)
    BY <1>2, <2>1 DEF TellsAll
  <2>7. \A p, id, k : Remembers(p, a, id, k) <=> Remembers(p, b, id, k)
    BY <1>2, <2>1, <2>2 DEF Remembers
  <2> QED BY <1>2, <2>2, <2>3, <2>4, <2>5, <2>6, <2>7
<1> QED BY <1>1, <1>2

LEMMA DequeuedRuns ==
  ASSUME NEW a, NEW b, Dequeued(a, b), Sound(a)
  PROVE  /\ ~HasFinal(a) /\ ~HasFinal(b) /\ ~Over(a) /\ ~Done(a) /\ ~Done(b)
         /\ Sound(b) /\ ~Settled(a)
         /\ \A r : TellsAll(r, b)
         /\ \A p, id, k : ~Remembers(p, a, id, k)
<1>1. /\ a # None /\ b # None /\ a.state = "queued" /\ b.state \in {"running"} \cup Terminal
      /\ b.merge = a.merge /\ b.reports = {} /\ a.reports = {} /\ ~a.merge
  BY DEF Dequeued, Sound
<1>2. ~HasFinal(a) /\ ~HasFinal(b) /\ ~Over(a)
  BY <1>1 DEF HasFinal, Over, Terminal
<1>3. ~Done(a) /\ ~Done(b) /\ ~Settled(a)
  BY <1>1, <1>2 DEF Done, Settled
<1>4. Sound(b)
  BY <1>1, <1>2 DEF Sound, Terminal
<1>5. \A r : TellsAll(r, b)
  BY <1>1 DEF TellsAll
<1>6. \A p, id, k : ~Remembers(p, a, id, k)
  BY <1>1, <1>2 DEF Remembers
<1> QED BY <1>2, <1>3, <1>4, <1>5, <1>6

\* A run that a step leaves alone, or takes from the queue.
Kept(a, b) == Alike(a, b) \/ Dequeued(a, b)

LEMMA AgreeKept ==
  ASSUME NEW M, NEW N, NEW D, NEW F, Agree(FALSE, FALSE, M, D, F), Kept(M, N)
  PROVE  Agree(FALSE, FALSE, N, D, F)
<1>1. /\ Sound(M) /\ Sound(D) /\ Sound(F)
      /\ F # None => /\ Over(F) /\ (M = None \/ Over(M)) /\ (D = None \/ Over(D) \/ D.state = "queued")
                     /\ HasFinal(F) => (M = None \/ Done(M)) /\ (D = None \/ Done(D))
      /\ M = None /\ D # None => F # None
      /\ D # None => /\ D.state = "running" => M # None /\ M.state = "running"
                     /\ D.merge => M # None /\ (M.merge \/ M.state = "running")
      /\ M # None => /\ HasFinal(M) => D # None /\ D.state \in Terminal /\ HasFinal(D)
                     /\ Done(M) => Over(D)
  BY DEF Agree
<1>2. CASE Alike(M, N)
  <2>1. /\ M = None <=> N = None
        /\ M # None => /\ (HasFinal(M) <=> HasFinal(N)) /\ (Over(M) <=> Over(N)) /\ (Done(M) <=> Done(N))
                       /\ N.state = M.state /\ N.merge = M.merge
        /\ Sound(N)
    BY <1>1, <1>2, AlikeRuns DEF Alike
  <2> QED BY <1>1, <2>1 DEF Agree
<1>3. CASE Dequeued(M, N)
  <2>1. /\ M # None /\ N # None /\ M.state = "queued" /\ N.merge = M.merge /\ ~M.merge
        /\ ~HasFinal(N) /\ ~Over(M) /\ ~Done(N) /\ Sound(N)
    BY <1>1, <1>3, DequeuedRuns DEF Dequeued, Sound
  <2> QED BY <1>1, <2>1 DEF Agree
<1> QED BY <1>2, <1>3 DEF Kept

-----------------------------------------------------------------------------
(* Steps that leave what was saved and published alone.                    *)

\* Nothing that the invariant is about is written.
SameSaved ==
  /\ disk'.session.runs = disk.session.runs /\ disk'.executions = disk.executions
  /\ disk'.publications = disk.publications
  /\ disk.notebook.version > 0 => disk'.notebook.version > 0
  /\ applied' = applied

LEMMA KeptRecords ==
  ASSUME TypeOK, StartInv, DurableInv, SameSaved, UNCHANGED acked,
         \A id \in Ids : Kept(mem.runs[id], mem'.runs[id]),
         call.undo = None, call'.undo = None, IsUp,
         {"publish", "deliver"} \cap Left(todo') # {} =>
           /\ {"publish", "deliver"} \cap Left(todo') \subseteq Left(todo)
           /\ call'.id = call.id /\ Alike(mem.runs[call.id], mem'.runs[call.id])
  PROVE  AgreeInv' /\ AckInv' /\ AppliedInv'
<1>1. \A id : ~Changed(id) /\ ~Changed(id)' /\ Final(id)' = Final(id)
  BY DEF Changed, Final, SameSaved
<1>2. AgreeInv'
  <2>1. ASSUME NEW id \in Ids
        PROVE  Agree(~IsUp, Changed(id), mem.runs[id], disk.session.runs[id], Final(id))'
    <3>1. Agree(~IsUp, Changed(id), mem.runs[id], disk.session.runs[id], Final(id))
      BY DEF DurableInv, AgreeInv
    <3>2. Agree(FALSE, FALSE, mem.runs[id], disk.session.runs[id], Final(id))
      BY <1>1, <3>1 DEF Agree
    <3>3. Agree(FALSE, FALSE, mem'.runs[id], disk.session.runs[id], Final(id))
      BY <3>2, AgreeKept
    <3> QED BY <1>1, <3>3 DEF SameSaved, Agree
  <2> QED BY <2>1 DEF AgreeInv
<1>3. ASSUME NEW id \in Ids
      PROVE  /\ Settled(mem.runs[id]) => Settled(mem'.runs[id]) /\ (mem'.runs[id] = None => mem.runs[id] = None)
             /\ \A p, k : Remembers(p, mem.runs[id], id, k) => Remembers(p, mem'.runs[id], id, k)
  <2>1. Sound(mem.runs[id])
    BY DEF DurableInv, AgreeInv, Agree
  <2>2. CASE Alike(mem.runs[id], mem'.runs[id])
    BY <2>2, AlikeRuns DEF Alike
  <2>3. CASE Dequeued(mem.runs[id], mem'.runs[id])
    BY <2>1, <2>3, DequeuedRuns
  <2> QED BY <2>2, <2>3 DEF Kept
<1>4. AckInv'
  <2>1. ASSUME NEW id \in acked'
        PROVE  /\ Settled(mem'.runs[id]) /\ Settled(disk'.session.runs[id]) /\ ~Changed(id)'
               /\ mem'.runs[id] = None \/ disk'.session.runs[id] = None =>
                    Final(id)' # None /\ Done(Final(id)')
    <3>1. id \in Ids /\ id \in acked
      BY DEF TypeOK, GhostTypes
    <3> QED BY <1>1, <1>3, <3>1 DEF DurableInv, AckInv, SameSaved
  <2> QED BY <2>1 DEF AckInv, Settled, Done, Over, HasFinal
<1>5. AppliedInv'
  <2>1. ASSUME NEW id \in Ids, NEW k \in Results
        PROVE  /\ applied'[id][k] \in {0, 1}
               /\ applied'[id][k] = 1 =>
                    /\ disk'.executions[id] # None
                    /\ Remembers(disk'.publications, mem'.runs[id], id, k)
                    /\ Remembers(disk'.publications, disk'.session.runs[id], id, k)
    BY <1>3 DEF DurableInv, AppliedInv, SameSaved
  <2>2. /\ "publish" \in Left(todo') => "publish" \in Left(todo)
        /\ "deliver" \in Left(todo') => "deliver" \in Left(todo)
        /\ {"publish", "deliver"} \cap Left(todo') # {} => call'.id = call.id
    OBVIOUS
  <2>3. "publish" \in Left(todo') =>
           /\ applied'[call'.id]["outputs"] = 0 /\ mem'.runs[call'.id].published # 0
           /\ disk'.session.runs[call'.id] # None
           /\ disk'.session.runs[call'.id].merge /\ disk'.session.runs[call'.id].published # 0
    <3>1. "publish" \in Left(todo') => call.id \in Ids /\ mem.runs[call.id] # None
      BY <2>2 DEF StartInv, CallInv, MergingInv, MergeSteps
    <3> QED BY <2>2, <3>1 DEF Alike, DurableInv, AppliedInv, SameSaved
  <2> QED BY <1>1, <2>1, <2>2, <2>3 DEF DurableInv, AppliedInv, SameSaved
<1> QED BY <1>2, <1>4, <1>5

LEMMA KeptBodies ==
  ASSUME TypeOK, DurableInv, SameSaved, UNCHANGED <<receipts, agent>>, late' \subseteq late,
         \A id \in Ids : Kept(mem.runs[id], mem'.runs[id]),
         call'.undo = None,
         call'.op = "report" => Tells(receipts[call'.id], call'.body)
  PROVE  BodyInv'
<1>1. ASSUME NEW id \in Ids PROVE TellsAll(receipts[id], mem'.runs[id])
  <2>1. Sound(mem.runs[id]) /\ TellsAll(receipts[id], mem.runs[id])
    BY DEF DurableInv, AgreeInv, BodyInv, Agree
  <2>2. CASE Alike(mem.runs[id], mem'.runs[id])
    BY <2>1, <2>2, AlikeRuns
  <2>3. CASE Dequeued(mem.runs[id], mem'.runs[id])
    BY <2>1, <2>3, DequeuedRuns
  <2> QED BY <2>2, <2>3 DEF Kept
<1>2. \A id : Final(id)' = Final(id)
  BY DEF Final, SameSaved
<1> QED BY <1>1, <1>2 DEF DurableInv, BodyInv, SameSaved

\* A step of the server that saves nothing.
LEMMA KeptAll ==
  ASSUME TypeOK, StartInv, DurableInv, SameSaved, UNCHANGED <<receipts, agent, acked>>,
         late' \subseteq late,
         \A id \in Ids : Kept(mem.runs[id], mem'.runs[id]),
         call.undo = None, call'.undo = None, IsUp,
         call'.op = "report" => Tells(receipts[call'.id], call'.body) /\ ReplyInv',
         {"publish", "deliver"} \cap Left(todo') # {} =>
           /\ {"publish", "deliver"} \cap Left(todo') \subseteq Left(todo)
           /\ call'.id = call.id /\ Alike(mem.runs[call.id], mem'.runs[call.id])
  PROVE  DurableInv'
<1>1. ReplyInv'
  BY DEF ReplyInv
<1> QED BY <1>1, KeptRecords, KeptBodies DEF DurableInv

LEMMA Unchanged == \A run : Kept(run, run) /\ Alike(run, run)
BY DEF Kept, Alike

\* A call that ends, or only saves, leaves nothing to be told.
LEMMA CallEndsKept ==
  ASSUME TypeOK, StartInv, DurableInv, SameSaved, UNCHANGED <<receipts, agent, acked>>,
         late' \subseteq late,
         \A id \in Ids : Kept(mem.runs[id], mem'.runs[id]),
         call.undo = None, IsUp, call' = NoCall, todo' \in {<<>>, <<"down">>, <<"save">>}
  PROVE  DurableInv'
<1>1. {"publish", "deliver"} \cap Left(todo') = {}
  BY Lists DEF IsList
<1> QED BY <1>1, NoCallTypes, KeptAll

\* Nothing is changed between two calls.
LEMMA BetweenCalls ==
  ASSUME TypeOK, StartInv, Idle
  PROVE  call.undo = None /\ IsUp /\ Left(todo) = {}
<1>1. call.undo = None /\ Left(todo) = {}
  BY Lists DEF StartInv, CallInv, UndoInv, At, Ahead, Idle, IsList
<1>2. IsUp
  BY DEF IsUp, Idle
<1> QED BY <1>1, <1>2

LEMMA StepUndo ==
  ASSUME TypeOK, StartInv, NEW step, At(step), step \notin {"none", "save"}
  PROVE  call.undo = None /\ (step # "down" => IsUp)
<1>1. todo # <<>> /\ Head(todo) = step
  BY AtStep DEF TypeOK
<1> QED BY <1>1 DEF StartInv, CallInv, UndoInv, At, Ahead, Idle, IsUp

LEMMA ExecuteKept ==
  ASSUME TypeOK, StartInv, DurableInv, NEW p \in Paths, Execute(p)
  PROVE  DurableInv'
<1>1. /\ Idle /\ UNCHANGED <<mem, disk, late, agentVars, used, applied, acked>>
      /\ todo' = <<"trim", "admit">>
  BY DEF Execute, Begins
<1> DEFINE q == CHOOSE r \in Requests : ~IsKnown(r)
<1>2. call' = [NoCall EXCEPT !.op = "execute", !.path = p, !.id = disk.created + 1, !.req = q]
  BY DEF Execute, Begins
<1> HIDE DEF q
<1>3. call'.op = "execute" /\ call'.undo = None
  BY <1>2 DEF NoCall
<1>4. {"publish", "deliver"} \cap Left(todo') = {}
  BY <1>1, Lists DEF IsList
<1> QED BY <1>1, <1>3, <1>4, BetweenCalls, Unchanged, KeptAll DEF SameSaved, agentVars

LEMMA ClaimKept ==
  ASSUME TypeOK, StartInv, DurableInv, UNCHANGED <<mem, disk, agentVars, used, applied, acked>>,
         late' \subseteq late, NEW c \in Calls, c.op = "claim", c.undo = None, HandleClaim(c), Idle
  PROVE  DurableInv'
<1>1. /\ call'.op \in {"claim", "recover"} /\ call'.undo = None
      /\ todo' \in {<<"scan">>, <<"reply">>}
  BY DEF HandleClaim, Begins, Calls
<1>2. {"publish", "deliver"} \cap Left(todo') = {}
  BY <1>1, Lists DEF IsList
<1> QED BY <1>1, <1>2, BetweenCalls, Unchanged, KeptAll DEF SameSaved, agentVars

\* A report that was taken before is answered once its merge has ended.
LEMMA ReportKept ==
  ASSUME TypeOK, StartInv, DurableInv, UNCHANGED <<mem, disk, agentVars, used, applied, acked>>,
         late' \subseteq late, NEW c \in Calls, c.op = "report", c.undo = None, c.id \in Ids,
         Tells(receipts[c.id], c.body), HandleReport(c), Idle
  PROVE  DurableInv'
<1> DEFINE run == ReportedRun(c.id)
<1>1. /\ call' = c
      /\ \/ Repeated(run, c.body) /\ todo' = IF run.merge THEN <<"merge", "reply">> ELSE <<"reply">>
         \/ todo' \in {<<"trim", "results", "apply">>, <<"trim", "apply">>}
  BY DEF HandleReport, Begins
<1>2. {"publish", "deliver"} \cap Left(todo') = {}
  BY <1>1, Lists DEF IsList
<1>3. ReplyInv'
  <2>1. CASE todo' \in {<<"trim", "results", "apply">>, <<"trim", "apply">>}
    <3>1. "apply" \in Left(todo')
      BY <2>1, Lists DEF IsList
    <3> QED BY <3>1 DEF ReplyInv
  <2>2. CASE Repeated(run, c.body) /\ todo' = IF run.merge THEN <<"merge", "reply">> ELSE <<"reply">>
    <3>1. run # None /\ c.body \in run.reports
      BY <2>2 DEF Repeated
    <3>2. CASE mem.runs[c.id] = None
      BY <1>1, <3>1, <3>2 DEF ReportedRun, ReplyInv, Final
    <3>3. CASE mem.runs[c.id] # None
      <4>1. run = mem.runs[c.id]
        BY <3>3 DEF ReportedRun
      <4>2. run.merge => "merge" \in Left(todo')
        BY <2>2, Lists DEF IsList
      <4> QED BY <1>1, <3>1, <3>3, <4>1, <4>2 DEF ReplyInv
    <3> QED BY <3>2, <3>3
  <2> QED BY <1>1, <2>1, <2>2
<1> HIDE DEF run
<1> QED BY <1>1, <1>2, <1>3, BetweenCalls, Unchanged, KeptAll DEF SameSaved, agentVars

LEMMA TrimOneKept ==
  ASSUME TypeOK, StartInv, DurableInv, TrimOne
  PROVE  DurableInv'
<1> DEFINE id == Least(Trimmable)
<1>1. /\ id \in Ids /\ mem.runs[id] # None
      /\ mem.runs[id] \in Runs
  <2>1. Trimmable # {} /\ Trimmable \in SUBSET Ids
    BY DEF TrimOne, Trimmable, Known
  <2>2. id \in Trimmable
    BY <2>1, LeastIn
  <2> QED BY <2>2, KnownRun DEF Trimmable, Known
<1>2. /\ mem' = [mem EXCEPT !.runs[id] = Noted(id)]
      /\ UNCHANGED <<disk, late, agentVars, applied, acked>>
      /\ IF Refuses(Noted(id), disk.executions[id]) THEN Abort
         ELSE Begins([call EXCEPT !.victim = id, !.undo = None],
                     <<"archive", "save", "unlink">> \o todo)
  BY DEF TrimOne
<1>3. At("trim") /\ call.undo = None /\ IsUp
  BY StepUndo DEF TrimOne
<1> HIDE DEF id
<1>4. Noted(id) \in Runs /\ Alike(mem.runs[id], Noted(id))
  <2>1. Noted(id) = [mem.runs[id] EXCEPT !.notes = Noted(id).notes] /\ Noted(id).notes \in Nat
    BY <1>1 DEF Noted, Runs
  <2> HIDE DEF Noted
  <2>2. \A n \in Nat : LET r == [mem.runs[id] EXCEPT !.notes = n] IN
          /\ r \in Runs /\ r.state = mem.runs[id].state /\ r.merge = mem.runs[id].merge
          /\ r.reports = mem.runs[id].reports /\ r.offset = mem.runs[id].offset
          /\ r.published = mem.runs[id].published
    BY <1>1 DEF Runs
  <2> QED BY <1>1, <2>1, <2>2, NoneAssumption DEF Alike
<1>5. \A other \in Ids : Alike(mem.runs[other], mem'.runs[other])
  <2>1. /\ mem'.runs[id] = Noted(id)
        /\ \A other \in Ids \ {id} : mem'.runs[other] = mem.runs[other]
    BY <1>1, <1>2, <1>4, RunSet DEF TypeOK, ServerTypes
  <2> QED BY <1>4, <2>1, Unchanged
<1>6. CASE Abort
  <2>1. call' = NoCall /\ todo' \in {<<>>, <<"down">>}
    BY <1>6 DEF Abort
  <2> QED BY <1>2, <1>3, <1>5, <2>1, CallEndsKept DEF SameSaved, Kept, agentVars
<1>7. CASE Begins([call EXCEPT !.victim = id, !.undo = None],
                  <<"archive", "save", "unlink">> \o todo)
  <2>1. /\ call'.op = call.op /\ call'.id = call.id /\ call'.body = call.body /\ call'.undo = None
    BY <1>7 DEF TypeOK, ServerTypes, Calls, Begins
  <2>2. Left(todo') = {"archive", "save", "unlink"} \cup Left(todo) /\ todo # <<>>
    <3>1. todo \in Seq(Plan) /\ todo # <<>>
      BY <1>3, AtStep DEF TypeOK, ServerTypes
    <3>2. IsList(<<"archive", "save", "unlink">>, {"archive", "save", "unlink"})
      BY Lists
    <3> QED BY <1>7, <3>1, <3>2, LeftConcat DEF IsList, Begins
  <2>3. ReplyInv'
    <3>1. SUFFICES ASSUME call'.op = "report", "apply" \notin Left(todo') PROVE ReplyInv'
      BY DEF ReplyInv
    <3>2. call.id \in Ids
      BY <2>1, <3>1 DEF StartInv, CallInv, CallsInv, ReportOf
    <3>3. Alike(mem.runs[call.id], mem'.runs[call.id])
      BY <1>5, <3>2
    <3>4. Final(call.id)' = Final(call.id)
      BY <1>2, <2>1 DEF Final
    <3>5. {"merge", "finish"} \cap Left(todo) = {"merge", "finish"} \cap Left(todo')
      BY <2>2
    <3> QED BY <2>1, <2>2, <3>1, <3>3, <3>4, <3>5 DEF DurableInv, ReplyInv, Alike
  <2>4. call.op = "report" => call.id \in Ids /\ Tells(receipts[call.id], call.body)
    BY DEF StartInv, CallInv, CallsInv, ReportOf, DurableInv, BodyInv
  <2>5. {"publish", "deliver"} \cap Left(todo') # {} => Alike(mem.runs[call.id], mem'.runs[call.id])
    <3>1. {"publish", "deliver"} \cap Left(todo') # {} => Left(todo) \cap MergeSteps # {}
      BY <2>2 DEF MergeSteps
    <3> QED BY <1>5, <3>1 DEF StartInv, CallInv, MergingInv
  <2> QED BY <1>2, <1>3, <1>5, <2>1, <2>2, <2>3, <2>4, <2>5, KeptAll DEF SameSaved, Kept, agentVars
<1> QED BY <1>2, <1>6, <1>7

LEMMA TrimEndsKept ==
  ASSUME TypeOK, StartInv, DurableInv, TrimEnds
  PROVE  DurableInv'
<1>1. At("trim") /\ todo' = Tail(todo)
      /\ UNCHANGED <<mem, disk, call, late, agentVars, used, applied, acked>>
  BY DEF TrimEnds
<1>2. /\ todo # <<>> /\ Left(todo) = {"trim"} \cup Left(todo')
  BY <1>1, AtStep DEF TypeOK
<1>3. call.undo = None /\ IsUp
  BY <1>1, StepUndo
<1>4. call.op = "report" => Tells(receipts[call.id], call.body)
  BY DEF DurableInv, BodyInv
<1>5. ReplyInv'
  BY <1>1, <1>2 DEF DurableInv, ReplyInv, Final
<1> QED BY <1>1, <1>2, <1>3, <1>4, <1>5, Unchanged, KeptAll DEF SameSaved, agentVars

LEMMA AdmitKept ==
  ASSUME TypeOK, StartInv, DurableInv, Admit
  PROVE  DurableInv'
<1>1. At("admit") /\ UNCHANGED <<mem, disk, late, agentVars, used, applied, acked>>
  BY DEF Admit
<1>2. call.undo = None /\ IsUp /\ call.op = "execute"
  BY <1>1, StepUndo, OpAt DEF TypeOK, StartInv, CallInv
<1>3. CASE todo' = <<"reserve", "register", "save", "reply">> /\ UNCHANGED call
  <2>1. {"publish", "deliver"} \cap Left(todo') = {}
    BY <1>3, Lists DEF IsList
  <2> QED BY <1>1, <1>2, <1>3, <2>1, Unchanged, KeptAll DEF SameSaved, agentVars
<1>4. CASE Abort
  <2>1. call' = NoCall /\ todo' = <<>>
    BY <1>2, <1>4 DEF Abort
  <2> QED BY <1>1, <1>2, <2>1, Unchanged, CallEndsKept DEF SameSaved, agentVars
<1> QED BY <1>3, <1>4 DEF Admit

LEMMA ScanKept ==
  ASSUME TypeOK, StartInv, DurableInv, Scan
  PROVE  DurableInv'
<1>1. At("scan") /\ UNCHANGED <<disk, late, agentVars, used, applied, acked>>
  BY DEF Scan
<1>2. call.undo = None /\ IsUp /\ call.op = "claim"
  BY <1>1, StepUndo, OpAt DEF TypeOK, StartInv, CallInv
<1> DEFINE id == Least(Queued)
<1>3. CASE Queued = {}
  <2>1. call' = NoCall /\ todo' = <<>> /\ mem' = mem
    BY <1>2, <1>3 DEF Abort, Scan
  <2> QED BY <1>1, <1>2, <2>1, Unchanged, CallEndsKept DEF SameSaved, agentVars
<1>4. CASE Queued # {}
  <2>1. id \in Ids /\ id \in 0..MaxRuns /\ mem.runs[id] \in Runs /\ mem.runs[id].state = "queued"
    <3>1. Queued \in SUBSET Ids
      BY DEF Queued, Known
    <3>2. id \in Queued
      BY <1>4, <3>1, LeastIn
    <3> QED BY <3>2, IdsNat, KnownRun DEF Queued, Known
  <2>2. \/ /\ mem' = [mem EXCEPT !.runs[id].state = "running"]
           /\ todo' = <<"save", "reply">> /\ call' = [call EXCEPT !.id = id]
        \/ /\ mem' = [mem EXCEPT !.runs[id].state = "failed", !.runs[id].error = TRUE]
           /\ todo' = <<"save", "scan">> /\ UNCHANGED call
    BY <1>4 DEF Scan
  <2> HIDE DEF id
  <2>3. PICK r \in Runs : mem' = [mem EXCEPT !.runs[id] = r] /\ Dequeued(mem.runs[id], r)
    <3>1. /\ [mem.runs[id] EXCEPT !.state = "running"] \in Runs
          /\ Dequeued(mem.runs[id], [mem.runs[id] EXCEPT !.state = "running"])
      BY <2>1, NoneAssumption DEF Runs, Dequeued
    <3>2. /\ [mem.runs[id] EXCEPT !.state = "failed", !.error = TRUE] \in Runs
          /\ Dequeued(mem.runs[id], [mem.runs[id] EXCEPT !.state = "failed", !.error = TRUE])
      BY <2>1, NoneAssumption, ZenonT(60) DEF Runs, Terminal, Dequeued
    <3>3. mem \in Sessions
      BY DEF TypeOK, ServerTypes
    <3>4. CASE mem' = [mem EXCEPT !.runs[id].state = "running"]
      <4>1. mem' = [mem EXCEPT !.runs[id] = [mem.runs[id] EXCEPT !.state = "running"]]
        BY <3>4
      <4> QED BY <3>1, <4>1
    <3>5. CASE mem' = [mem EXCEPT !.runs[id].state = "failed", !.runs[id].error = TRUE]
      <4>1. mem' = [mem EXCEPT !.runs[id] = [mem.runs[id] EXCEPT !.state = "failed", !.error = TRUE]]
        BY <2>1, <3>3, <3>5 DEF Sessions, Runs
      <4> QED BY <3>2, <4>1
    <3> QED BY <2>2, <3>4, <3>5
  <2>4. \A other \in Ids : Kept(mem.runs[other], mem'.runs[other])
    <3>1. /\ mem'.runs[id] = r
          /\ \A other \in Ids \ {id} : mem'.runs[other] = mem.runs[other]
      BY <2>1, <2>3, RunSet DEF TypeOK, ServerTypes
    <3> QED BY <2>3, <3>1, Unchanged DEF Kept
  <2>5. call'.op = "claim" /\ call'.undo = None
    BY <1>2, <2>1, <2>2 DEF TypeOK, ServerTypes, Calls
  <2>6. {"publish", "deliver"} \cap Left(todo') = {}
    BY <2>2, Lists DEF IsList
  <2> QED BY <1>1, <1>2, <2>4, <2>5, <2>6, KeptAll DEF SameSaved, agentVars
<1> QED BY <1>3, <1>4

LEMMA BootMergesKept ==
  ASSUME TypeOK, StartInv, DurableInv, BootMerges
  PROVE  DurableInv'
<1>1. At("merges") /\ UNCHANGED <<mem, disk, late, agentVars, used, applied, acked>>
  BY DEF BootMerges
<1>2. call.undo = None /\ IsUp /\ call.op = "boot"
  BY <1>1, StepUndo, OpAt DEF TypeOK, StartInv, CallInv
<1>3. /\ todo \in Seq(Plan) /\ todo # <<>> /\ Head(todo) = "merges"
      /\ Left(todo) = {"merges"} \cup Left(Tail(todo)) /\ Tail(todo) \in Seq(Plan)
  BY <1>1, AtStep DEF TypeOK, ServerTypes
<1>4. Left(todo) \cap {"publish", "deliver"} = {}
  <2>1. Left(Tail(todo)) \cap MergeSteps = {}
    BY <1>3, StraightTail DEF StartInv, CallInv, PlanInv
  <2> QED BY <1>3, <2>1 DEF MergeSteps
<1>5. CASE Goes(<<>>) /\ UNCHANGED call
  <2>1. IsList(<<>>, {})
    BY Lists
  <2>2. Left(todo') = Left(Tail(todo))
    BY <1>3, <1>5, <2>1, LeftConcat DEF IsList, Goes
  <2> QED BY <1>1, <1>2, <1>3, <1>4, <1>5, <2>2, Unchanged, KeptAll DEF SameSaved, agentVars
<1>6. CASE todo' = <<"merge">> \o todo /\ call' = [call EXCEPT !.id = Least(ToMerge)]
  <2>1. IsList(<<"merge">>, {"merge"})
    BY Lists
  <2>2. Left(todo') = {"merge"} \cup Left(todo)
    BY <1>3, <1>6, <2>1, LeftConcat DEF IsList
  <2>3. call'.op = "boot" /\ call'.undo = None
    BY <1>2, <1>6 DEF TypeOK, ServerTypes, Calls
  <2> QED BY <1>1, <1>2, <1>4, <2>2, <2>3, Unchanged, KeptAll DEF SameSaved, agentVars
<1> QED BY <1>5, <1>6 DEF BootMerges

-----------------------------------------------------------------------------
(* Steps that change a run and save it next, or take the change back.      *)

LEMMA ChangeKept ==
  ASSUME TypeOK, StartInv, DurableInv, call.undo = None, IsUp, IsUp', call.id \in Ids,
         UNCHANGED <<disk, late, agentVars, applied, acked>>,
         \A other \in Ids \ {call.id} : mem'.runs[other] = mem.runs[other],
         call'.op = call.op, call'.id = call.id, call'.body = call.body, call'.undo # None,
         Agree(FALSE, TRUE, mem'.runs[call.id], disk.session.runs[call.id], Final(call.id)),
         Sound(call'.undo), Final(call.id) = None,
         \/ call'.undo.state = "running"
         \/ /\ call'.undo.merge /\ call'.undo.reports = mem'.runs[call.id].reports
            /\ disk.session.runs[call.id] # None
            /\ disk.session.runs[call.id].state \in Terminal
            /\ HasFinal(disk.session.runs[call.id]),
         TellsAll(receipts[call.id], mem'.runs[call.id]), TellsAll(receipts[call.id], call'.undo),
         call.id \notin acked,
         \A k \in Results : applied[call.id][k] = 1 =>
           /\ Remembers(disk.publications, mem'.runs[call.id], call.id, k)
           /\ Remembers(disk.publications, call'.undo, call.id, k),
         "publish" \in Left(todo') =>
           applied[call.id]["outputs"] = 0 /\ mem'.runs[call.id].published # 0,
         "deliver" \notin Left(todo'), ReplyInv'
  PROVE  DurableInv'
<1>1. \A id : ~Changed(id) /\ (Changed(id)' <=> id = call.id) /\ Final(id)' = Final(id)
  BY DEF Changed, Final
<1>2. AgreeInv'
  <2>1. ASSUME NEW id \in Ids
        PROVE  Agree(~IsUp, Changed(id), mem.runs[id], disk.session.runs[id], Final(id))'
    <3>1. CASE id = call.id
      BY <1>1, <3>1 DEF Agree
    <3>2. CASE id # call.id
      <4>1. Agree(~IsUp, Changed(id), mem.runs[id], disk.session.runs[id], Final(id))
        BY DEF DurableInv, AgreeInv
      <4> QED BY <1>1, <3>2, <4>1 DEF Agree
    <3> QED BY <3>1, <3>2
  <2> QED BY <1>1, <2>1 DEF AgreeInv
<1>3. BodyInv'
  <2>1. ASSUME NEW id \in Ids
        PROVE  TellsAll(receipts[id], mem'.runs[id])
    BY DEF DurableInv, BodyInv
  <2> QED BY <1>1, <2>1 DEF DurableInv, BodyInv, agentVars
<1>4. AckInv'
  <2>1. ASSUME NEW id \in acked'
        PROVE  /\ Settled(mem'.runs[id]) /\ Settled(disk'.session.runs[id]) /\ ~Changed(id)'
               /\ mem'.runs[id] = None \/ disk'.session.runs[id] = None =>
                    Final(id)' # None /\ Done(Final(id)')
    <3>1. id \in Ids \ {call.id} /\ id \in acked
      BY DEF TypeOK, GhostTypes
    <3> QED BY <1>1, <3>1 DEF DurableInv, AckInv
  <2> QED BY <2>1 DEF AckInv, Settled, Done, Over, HasFinal
<1>5. AppliedInv'
  BY <1>1 DEF DurableInv, AppliedInv
<1> QED BY <1>2, <1>3, <1>4, <1>5 DEF DurableInv

\* A run that is running has published nothing and was not acknowledged.
LEMMA RunningRun ==
  ASSUME TypeOK, DurableInv, NEW id \in Ids, call.undo = None, IsUp,
         mem.runs[id] # None, mem.runs[id].state = "running"
  PROVE  /\ Final(id) = None /\ id \notin acked
         /\ \A k \in Results : applied[id][k] = 0
         /\ ~mem.runs[id].merge
         /\ \A body \in mem.runs[id].reports : body.state \notin Terminal
<1>1. Agree(~IsUp, Changed(id), mem.runs[id], disk.session.runs[id], Final(id))
  BY DEF DurableInv, AgreeInv
<1>2. ~mem.runs[id].merge /\ \A body \in mem.runs[id].reports : body.state \notin Terminal
  BY <1>1 DEF Agree, Sound, Terminal
<1>3. Final(id) = None
  BY <1>1 DEF Agree, Over, Terminal
<1>4. id \notin acked
  BY DEF DurableInv, AckInv, Settled, Done, Over, Terminal
<1>5. ASSUME NEW k \in Results PROVE applied[id][k] = 0
  BY <1>2 DEF DurableInv, AppliedInv, Remembers, Over, Terminal
<1> QED BY <1>2, <1>3, <1>4, <1>5

\* A run that is merged has not been archived nor acknowledged, is over on the
\* disk with all its reports, and what of it was published is remembered.
LEMMA MergingRun ==
  ASSUME TypeOK, DurableInv, NEW id \in Ids, call.undo = None, IsUp,
         mem.runs[id] # None, mem.runs[id].merge
  PROVE  /\ Sound(mem.runs[id]) /\ Final(id) = None /\ id \notin acked
         /\ disk.session.runs[id] # None /\ disk.session.runs[id].state \in Terminal
         /\ HasFinal(disk.session.runs[id]) /\ Sound(disk.session.runs[id])
         /\ mem.runs[id].state \in {"completed", "failed"} /\ HasFinal(mem.runs[id])
         /\ \A k \in Results : /\ applied[id][k] \in {0, 1}
                               /\ applied[id][k] = 1 => /\ <<id, k>> \in disk.publications
                                                        /\ k = "outputs" => mem.runs[id].published # 0
<1>1. Agree(~IsUp, Changed(id), mem.runs[id], disk.session.runs[id], Final(id)) /\ ~Changed(id)
  BY DEF DurableInv, AgreeInv, Changed
<1>2. mem.runs[id].state \in {"completed", "failed"} /\ HasFinal(mem.runs[id])
  BY <1>1 DEF Agree, Sound
<1>3. Final(id) = None
  BY <1>1, <1>2 DEF Agree, Over
<1>4. id \notin acked
  BY DEF DurableInv, AckInv, Settled, Done, Over
<1>5. ASSUME NEW k \in Results
      PROVE  /\ applied[id][k] \in {0, 1}
             /\ applied[id][k] = 1 => /\ <<id, k>> \in disk.publications
                                      /\ k = "outputs" => mem.runs[id].published # 0
  BY DEF DurableInv, AppliedInv, Remembers, Over
<1> QED BY <1>1, <1>2, <1>3, <1>4, <1>5 DEF Agree

LEMMA ApplyKept ==
  ASSUME TypeOK, StartInv, DurableInv, Apply
  PROVE  DurableInv'
<1> DEFINE M == mem.runs[call.id]
           r == Reported(M, call.body)
<1>1. /\ At("apply") /\ UNCHANGED <<disk, late, agentVars, used, applied, acked>>
      /\ mem' = [mem EXCEPT !.runs[call.id] = r]
      /\ call' = [call EXCEPT !.undo = M]
  BY DEF Apply, Current
<1>2. todo' = IF mem'.runs[call.id].merge THEN <<"save", "merge", "trim", "save", "reply">>
              ELSE <<"save", "trim", "save", "reply">>
  BY DEF Apply
<1>3. call.undo = None /\ IsUp /\ "apply" \in Left(todo)
  BY <1>1, StepUndo, AtStep DEF TypeOK
<1>4. /\ call.op = "report" /\ call.id \in Ids /\ call.body \in Bodies
      /\ M # None /\ M.state = "running"
  BY <1>3 DEF StartInv, CallInv, ApplyingInv, CallsInv, ReportOf
<1>5. M \in Runs
  BY <1>4, KnownRun
<1>6. /\ Final(call.id) = None /\ call.id \notin acked
      /\ \A k \in Results : applied[call.id][k] = 0
      /\ ~M.merge /\ \A body \in M.reports : body.state \notin Terminal
  BY <1>3, <1>4, RunningRun
<1>7. Agree(~IsUp, Changed(call.id), M, disk.session.runs[call.id], Final(call.id))
  BY <1>4 DEF DurableInv, AgreeInv
<1>8. /\ r \in Runs /\ r.state = call.body.state /\ r.offset = call.body.end
      /\ r.reports = M.reports \cup {call.body}
      /\ r.merge <=> call.body.state \in {"completed", "failed"}
  BY <1>4, <1>5, ReportedRuns
<1>9. /\ Tells(receipts[call.id], call.body) /\ TellsAll(receipts[call.id], M)
  BY <1>4 DEF DurableInv, BodyInv
<1> HIDE DEF r
<1>10. /\ mem'.runs[call.id] = r /\ r # None
       /\ \A other \in Ids \ {call.id} : mem'.runs[other] = mem.runs[other]
  BY <1>1, <1>4, <1>8, RunSet, NoneAssumption DEF TypeOK, ServerTypes
<1>11. /\ call'.op = call.op /\ call'.undo = M /\ call'.id = call.id /\ call'.body = call.body
  BY <1>1, <1>4, <1>5 DEF TypeOK, ServerTypes, Calls
<1>12. Sound(r)
  BY <1>4, <1>6, <1>8 DEF Sound, HasFinal, Bodies, Terminal
<1>13. Agree(FALSE, TRUE, r, disk.session.runs[call.id], Final(call.id))
  BY <1>6, <1>7, <1>10, <1>12 DEF Agree
<1>14. TellsAll(receipts[call.id], r)
  BY <1>4, <1>8, <1>9 DEF TellsAll
<1>15. /\ IsUp' /\ "publish" \notin Left(todo') /\ "deliver" \notin Left(todo')
       /\ r.merge => "merge" \in Left(todo')
  <2>1. CASE r.merge
    <3>1. todo' = <<"save", "merge", "trim", "save", "reply">>
      BY <1>2, <1>10, <2>1
    <3> QED BY <3>1, Lists DEF IsList, IsUp
  <2>2. CASE ~r.merge
    <3>1. todo' = <<"save", "trim", "save", "reply">>
      BY <1>2, <1>10, <2>2
    <3> QED BY <2>2, <3>1, Lists DEF IsList, IsUp
  <2> QED BY <2>1, <2>2
<1>16. ReplyInv'
  BY <1>8, <1>10, <1>11, <1>15 DEF ReplyInv
<1>17. Sound(M)
  BY <1>7 DEF Agree
<1>18. /\ Agree(FALSE, TRUE, mem'.runs[call.id], disk.session.runs[call.id], Final(call.id))
       /\ call'.undo # None /\ Sound(call'.undo) /\ call'.undo.state = "running"
       /\ TellsAll(receipts[call.id], mem'.runs[call.id]) /\ TellsAll(receipts[call.id], call'.undo)
  BY <1>4, <1>9, <1>10, <1>11, <1>13, <1>14, <1>17
<1>19. \A k \in Results : applied[call.id][k] = 1 =>
           /\ Remembers(disk.publications, mem'.runs[call.id], call.id, k)
           /\ Remembers(disk.publications, call'.undo, call.id, k)
  BY <1>6
<1> HIDE DEF M
<1> QED BY <1>1, <1>3, <1>4, <1>6, <1>10, <1>11, <1>15, <1>16, <1>18, <1>19, ChangeKept

\* A step of a merge that only notes a conflict, or nothing.
LEMMA MergeNotes ==
  ASSUME TypeOK, StartInv, DurableInv, NEW step \in MergeSteps, At(step),
         UNCHANGED <<disk, call, late, agentVars, applied, acked>>,
         NEW steps, NEW left, IsList(steps, left), todo' = steps \o Tail(todo),
         left \subseteq {"files", "finish"},
         step # "files" => "finish" \in left,
         mem' = mem \/ \E e \in BOOLEAN : mem' = [mem EXCEPT !.runs[call.id].error = e]
  PROVE  DurableInv'
<1>1. /\ call.op \in {"report", "boot"} /\ call.id \in Ids
      /\ mem.runs[call.id] \in Runs /\ mem.runs[call.id] # None /\ mem.runs[call.id].merge
      /\ call.undo = None
  BY MergeAt
<1>2. /\ IsUp /\ todo \in Seq(Plan) /\ todo # <<>> /\ Left(todo) = {step} \cup Left(Tail(todo))
      /\ Tail(todo) \in Seq(Plan)
  BY StepUndo, AtStep DEF TypeOK, ServerTypes, MergeSteps
<1>3. Left(todo') = left \cup Left(Tail(todo))
  BY <1>2, LeftConcat DEF IsList
<1>4. \A id \in Ids : Alike(mem.runs[id], mem'.runs[id])
  <2>1. CASE mem' = mem
    BY <2>1, Unchanged
  <2>2. ASSUME NEW e \in BOOLEAN, mem' = [mem EXCEPT !.runs[call.id].error = e]
        PROVE  \A id \in Ids : Alike(mem.runs[id], mem'.runs[id])
    <3> DEFINE r == [mem.runs[call.id] EXCEPT !.error = e]
    <3>1. r \in Runs /\ Alike(mem.runs[call.id], r)
      BY <1>1, NoneAssumption DEF Runs, Alike
    <3>2. mem' = [mem EXCEPT !.runs[call.id] = r]
      BY <2>2
    <3> HIDE DEF r
    <3>3. /\ mem'.runs[call.id] = r
          /\ \A other \in Ids \ {call.id} : mem'.runs[other] = mem.runs[other]
      BY <1>1, <3>1, <3>2, RunSet DEF TypeOK, ServerTypes
    <3> QED BY <3>1, <3>3, Unchanged
  <2> QED BY <2>1, <2>2
<1>5. /\ {"publish", "deliver"} \cap Left(todo') # {} =>
           /\ {"publish", "deliver"} \cap Left(todo') \subseteq Left(todo)
           /\ call'.id = call.id /\ Alike(mem.runs[call.id], mem'.runs[call.id])
  BY <1>1, <1>2, <1>3, <1>4
<1>6. call.op = "report" => Tells(receipts[call.id], call.body)
  BY DEF DurableInv, BodyInv
<1>7. ReplyInv'
  <2>1. SUFFICES ASSUME call.op = "report"
                 PROVE  /\ mem'.runs[call.id] # None /\ call.body \in mem'.runs[call.id].reports
                        /\ Left(todo') \cap {"merge", "finish"} # {}
    BY DEF ReplyInv
  <2>2. "apply" \notin Left(todo)
    BY <1>2 DEF StartInv, CallInv, ApplyingInv
  <2>3. call.body \in mem.runs[call.id].reports /\ Left(todo) \cap {"merge", "finish"} # {}
    BY <1>1, <1>2, <2>1, <2>2 DEF DurableInv, ReplyInv
  <2>4. mem'.runs[call.id] # None /\ mem'.runs[call.id].reports = mem.runs[call.id].reports
    BY <1>1, <1>4 DEF Alike
  <2>5. step = "files" => Left(Tail(todo)) \cap {"merge", "finish"} # {}
    BY <1>2, <2>3
  <2> QED BY <1>3, <2>3, <2>4, <2>5
<1>8. SameSaved /\ (call'.op = "report" => Tells(receipts[call'.id], call'.body) /\ ReplyInv')
      /\ UNCHANGED <<receipts, agent, acked>> /\ late' \subseteq late /\ call'.undo = None
      /\ \A id \in Ids : Kept(mem.runs[id], mem'.runs[id])
  BY <1>1, <1>4, <1>6, <1>7 DEF SameSaved, Kept, agentVars
<1> QED BY <1>1, <1>2, <1>5, <1>8, KeptAll

LEMMA MergeKept ==
  ASSUME TypeOK, StartInv, DurableInv, Merge
  PROVE  DurableInv'
<1> DEFINE M == mem.runs[call.id]
<1>1. At("merge") /\ "merge" \in MergeSteps /\ UNCHANGED <<disk, late, agentVars, used, applied, acked>>
  BY DEF Merge, MergeSteps
<1>2. /\ call.op \in {"report", "boot"} /\ call.id \in Ids /\ call \in Calls
      /\ M \in Runs /\ M # None /\ M.merge /\ call.undo = None
      /\ Left(Tail(todo)) \cap MergeSteps = {}
  BY <1>1, MergeAt
<1>3. IsUp /\ "merge" \in Left(todo) /\ Tail(todo) \in Seq(Plan)
  BY <1>1, StepUndo, AtStep DEF TypeOK
<1>4. CASE Goes(<<"finish">>) /\ UNCHANGED <<mem, call>>
  <2>1. IsList(<<"finish">>, {"finish"})
    BY Lists
  <2> QED BY <1>1, <1>4, <2>1, MergeNotes DEF Goes
<1>5. CASE Abort /\ UNCHANGED mem
  <2>1. call' = NoCall /\ todo' \in {<<>>, <<"down">>}
    BY <1>5 DEF Abort
  <2> QED BY <1>1, <1>2, <1>3, <1>5, <2>1, Unchanged, CallEndsKept DEF SameSaved, agentVars
<1>6. IsList(<<"files", "finish">>, {"files", "finish"})
  BY Lists
<1>7. CASE Goes(<<"files", "finish">>) /\ UNCHANGED <<mem, call>>
  BY <1>1, <1>6, <1>7, MergeNotes DEF Goes
<1>8. CASE /\ mem' = [mem EXCEPT !.runs[call.id].error = TRUE]
           /\ Goes(<<"files", "finish">>) /\ UNCHANGED call
  BY <1>1, <1>6, <1>8, MergeNotes DEF Goes
<1>9. CASE /\ ~(M.published # 0 /\ <<call.id, "outputs">> \in disk.publications)
           /\ mem' = [mem EXCEPT !.runs[call.id].published = disk.notebook.version]
           /\ call' = [call EXCEPT !.undo = M]
           /\ Goes(<<"save", "publish", "files", "finish">>)
  <2> DEFINE r == [M EXCEPT !.published = disk.notebook.version]
  <2>1. /\ r \in Runs /\ r.state = M.state /\ r.merge = M.merge /\ r.reports = M.reports
        /\ r.offset = M.offset /\ r.published = disk.notebook.version
    BY <1>2 DEF Runs, TypeOK, ServerTypes, Disks
  <2>2. mem' = [mem EXCEPT !.runs[call.id] = r]
    BY <1>9
  <2> HIDE DEF r
  <2>3. /\ call'.op = call.op /\ call'.id = call.id /\ call'.body = call.body /\ call'.undo = M
    BY <1>2, <1>9 DEF Calls
  <2>4. /\ mem'.runs[call.id] = r /\ r # None
        /\ \A other \in Ids \ {call.id} : mem'.runs[other] = mem.runs[other]
    BY <1>2, <2>1, <2>2, RunSet, NoneAssumption DEF TypeOK, ServerTypes
  <2>5. /\ Sound(M) /\ Final(call.id) = None /\ call.id \notin acked
        /\ disk.session.runs[call.id] # None /\ disk.session.runs[call.id].state \in Terminal
        /\ HasFinal(disk.session.runs[call.id]) /\ Sound(disk.session.runs[call.id])
        /\ M.state \in {"completed", "failed"} /\ HasFinal(M)
        /\ \A k \in Results : /\ applied[call.id][k] \in {0, 1}
                              /\ applied[call.id][k] = 1 =>
                                   /\ <<call.id, k>> \in disk.publications
                                   /\ k = "outputs" => M.published # 0
    BY <1>2, <1>3, MergingRun
  <2>6. Sound(r) /\ HasFinal(r)
    BY <1>2, <2>1, <2>5 DEF Sound, HasFinal
  <2>7. Agree(FALSE, TRUE, r, disk.session.runs[call.id], Final(call.id))
    BY <2>4, <2>5, <2>6 DEF Agree, Sound, Terminal
  <2>8. applied[call.id]["outputs"] = 0 /\ r.published # 0
    <3>1. disk.notebook.version > 0 /\ disk.notebook.version \in Nat
      BY DEF DurableInv, AppliedInv, TypeOK, ServerTypes, Disks
    <3> QED BY <1>9, <2>1, <2>5, <3>1 DEF Results
  <2>9. \A k \in Results : applied[call.id][k] = 1 =>
           /\ Remembers(disk.publications, r, call.id, k)
           /\ Remembers(disk.publications, M, call.id, k)
    BY <1>2, <2>1, <2>5, <2>8 DEF Remembers, Results
  <2>10. TellsAll(receipts[call.id], M) /\ TellsAll(receipts[call.id], r)
    BY <1>2, <2>1 DEF DurableInv, BodyInv, TellsAll
  <2>11. /\ Left(todo') = {"save", "publish", "files", "finish"} \cup Left(Tail(todo))
         /\ todo' # <<>> /\ Head(todo') = "save"
    <3> DEFINE steps == <<"save", "publish", "files", "finish">>
    <3>1. IsList(steps, {"save", "publish", "files", "finish"})
      BY Lists
    <3>2. steps # <<>> /\ Head(steps) = "save"
      OBVIOUS
    <3>3. todo' = steps \o Tail(todo)
      BY <1>9 DEF Goes
    <3> HIDE DEF steps
    <3> QED BY <1>3, <3>1, <3>2, <3>3, LeftConcat, HeadConcat DEF IsList
  <2>12. IsUp' /\ "deliver" \notin Left(todo')
    <3>1. todo' # <<"down">>
      BY <2>11
    <3> QED BY <1>2, <2>11, <3>1 DEF IsUp, MergeSteps
  <2>13. ReplyInv'
    <3>1. call.op = "report" => call.body \in M.reports
      BY <1>2, <1>3 DEF StartInv, CallInv, ApplyingInv, DurableInv, ReplyInv, MergeSteps
    <3> QED BY <2>1, <2>3, <2>4, <2>11, <3>1 DEF ReplyInv
  <2>14. /\ Agree(FALSE, TRUE, mem'.runs[call.id], disk.session.runs[call.id], Final(call.id))
         /\ call'.undo # None /\ Sound(call'.undo) /\ call'.undo.merge
         /\ call'.undo.reports = mem'.runs[call.id].reports
         /\ TellsAll(receipts[call.id], mem'.runs[call.id]) /\ TellsAll(receipts[call.id], call'.undo)
    BY <1>2, <2>1, <2>3, <2>4, <2>5, <2>7, <2>10
  <2>15. \A k \in Results : applied[call.id][k] = 1 =>
           /\ Remembers(disk.publications, mem'.runs[call.id], call.id, k)
           /\ Remembers(disk.publications, call'.undo, call.id, k)
    BY <2>3, <2>4, <2>9
  <2>16. mem'.runs[call.id].published # 0
    BY <2>4, <2>8
  <2> HIDE DEF M
  <2> QED BY <1>1, <1>2, <1>3, <2>3, <2>4, <2>5, <2>8, <2>12, <2>13, <2>14, <2>15, <2>16, ChangeKept
<1> QED BY <1>4, <1>5, <1>7, <1>8, <1>9 DEF Merge, Current

LEMMA FilesKept ==
  ASSUME TypeOK, StartInv, DurableInv, Files
  PROVE  DurableInv'
<1> DEFINE M == mem.runs[call.id]
<1>1. At("files") /\ "files" \in MergeSteps /\ UNCHANGED <<disk, call, late, agentVars, used, applied, acked>>
  BY DEF Files, MergeSteps
<1>2. /\ call.op \in {"report", "boot"} /\ call.id \in Ids /\ call \in Calls
      /\ M \in Runs /\ M # None /\ M.merge /\ call.undo = None
  BY <1>1, MergeAt
<1>3. IsUp /\ Left(todo) = {"files"} \cup Left(Tail(todo)) /\ Tail(todo) \in Seq(Plan)
  BY <1>1, StepUndo, AtStep DEF TypeOK
<1>4. CASE Goes(<<"deliver">>) /\ UNCHANGED mem /\ <<call.id, "file">> \notin disk.publications
  <2>1. Left(todo') = {"deliver"} \cup Left(Tail(todo)) /\ IsUp'
    <3>1. IsList(<<"deliver">>, {"deliver"})
      BY Lists
    <3>2. <<"deliver">> # <<>> /\ Head(<<"deliver">>) = "deliver"
      OBVIOUS
    <3>3. Left(todo') = {"deliver"} \cup Left(Tail(todo)) /\ Head(todo') = "deliver"
      BY <1>3, <1>4, <3>1, <3>2, LeftConcat, HeadConcat DEF IsList, Goes
    <3> QED BY <3>3 DEF IsUp
  <2>2. applied[call.id]["file"] = 0
    BY <1>2, <1>3, <1>4, MergingRun DEF Results
  <2>3. \A id : Changed(id)' = Changed(id) /\ Final(id)' = Final(id)
    BY <1>1 DEF Changed, Final
  <2>4. AgreeInv'
    BY <1>1, <1>2, <1>3, <1>4, <2>1, <2>3 DEF DurableInv, AgreeInv, Agree
  <2>5. BodyInv' /\ AckInv'
    BY <1>1, <1>4, <2>3 DEF DurableInv, BodyInv, AckInv, agentVars
  <2>6. ReplyInv'
    <3>1. "apply" \notin Left(todo)
      BY <1>1, <1>3 DEF StartInv, CallInv, ApplyingInv
    <3>2. {"merge", "finish"} \cap Left(todo') = {"merge", "finish"} \cap Left(todo) /\ todo # <<>>
      BY <1>1, <1>3, <2>1, AtStep DEF TypeOK
    <3> QED BY <1>1, <1>2, <1>4, <2>3, <3>1, <3>2 DEF DurableInv, ReplyInv
  <2>7. AppliedInv'
    <3>1. "publish" \in Left(todo') => "publish" \in Left(todo)
      BY <1>3, <2>1
    <3> QED BY <1>1, <1>4, <2>2, <2>3, <3>1 DEF DurableInv, AppliedInv
  <2> QED BY <2>4, <2>5, <2>6, <2>7 DEF DurableInv
<1>5. CASE /\ Goes(<<>>)
           /\ mem' = [mem EXCEPT !.runs[call.id].error = @ \/ disk.file.by # call.id]
  <2> DEFINE e == M.error \/ disk.file.by # call.id
  <2>1. e \in BOOLEAN /\ mem' = [mem EXCEPT !.runs[call.id].error = e]
    BY <1>5
  <2> HIDE DEF e
  <2>2. IsList(<<>>, {})
    BY Lists
  <2> QED BY <1>1, <1>5, <2>1, <2>2, MergeNotes DEF Goes
<1> QED BY <1>4, <1>5 DEF Files

LEMMA FinishKept ==
  ASSUME TypeOK, StartInv, DurableInv, Finish
  PROVE  DurableInv'
<1> DEFINE M == mem.runs[call.id]
           r == Merged(M)
           u == [Merged(M) EXCEPT !.merge = TRUE]
<1>1. /\ At("finish") /\ "finish" \in MergeSteps /\ UNCHANGED <<disk, late, agentVars, used, applied, acked>>
      /\ mem' = [mem EXCEPT !.runs[call.id] = r] /\ call' = [call EXCEPT !.undo = u]
      /\ todo' = <<"save", "retain">> \o Tail(todo)
  BY DEF Finish, MergeSteps, Goes, Current
<1>2. /\ call.op \in {"report", "boot"} /\ call.id \in Ids /\ call \in Calls
      /\ M \in Runs /\ M # None /\ M.merge /\ call.undo = None
      /\ Left(Tail(todo)) \cap MergeSteps = {}
  BY <1>1, MergeAt
<1>3. IsUp /\ "finish" \in Left(todo) /\ Tail(todo) \in Seq(Plan)
  BY <1>1, StepUndo, AtStep DEF TypeOK
<1>4. /\ r \in Runs /\ ~r.merge /\ r.reports = M.reports /\ r.offset = M.offset
      /\ r.state = M.state \/ (r.state = "failed" /\ M.state = "completed")
      /\ u \in Runs /\ u.merge /\ u.state = r.state /\ u.reports = M.reports
      /\ u.offset = M.offset /\ u.published = M.published
  BY <1>2, MergedRuns
<1> HIDE DEF r, u
<1>5. /\ call'.op = call.op /\ call'.id = call.id /\ call'.body = call.body /\ call'.undo = u
      /\ u # None /\ r # None
  BY <1>1, <1>2, <1>4, NoneAssumption DEF Calls
<1>6. /\ mem'.runs[call.id] = r
      /\ \A other \in Ids \ {call.id} : mem'.runs[other] = mem.runs[other]
  BY <1>1, <1>2, <1>4, RunSet DEF TypeOK, ServerTypes
<1>7. /\ Sound(M) /\ Final(call.id) = None /\ call.id \notin acked
      /\ disk.session.runs[call.id] # None /\ disk.session.runs[call.id].state \in Terminal
      /\ HasFinal(disk.session.runs[call.id]) /\ Sound(disk.session.runs[call.id])
      /\ M.state \in {"completed", "failed"} /\ HasFinal(M)
      /\ \A k \in Results : /\ applied[call.id][k] \in {0, 1}
                            /\ applied[call.id][k] = 1 =>
                                 /\ <<call.id, k>> \in disk.publications
                                 /\ k = "outputs" => M.published # 0
  BY <1>2, <1>3, MergingRun
<1>8. /\ HasFinal(r) /\ HasFinal(u) /\ r.state \in {"completed", "failed"}
      /\ Sound(r) /\ Sound(u)
  BY <1>2, <1>4, <1>7 DEF Sound, HasFinal, Terminal
<1>9. Agree(FALSE, TRUE, r, disk.session.runs[call.id], Final(call.id))
  BY <1>5, <1>7, <1>8 DEF Agree, Sound, Terminal
<1>10. \A k \in Results : applied[call.id][k] = 1 =>
           /\ Remembers(disk.publications, r, call.id, k)
           /\ Remembers(disk.publications, u, call.id, k)
  BY <1>4, <1>7, <1>8 DEF Remembers, Over, Terminal
<1>11. TellsAll(receipts[call.id], r) /\ TellsAll(receipts[call.id], u)
  BY <1>2, <1>4 DEF DurableInv, BodyInv, TellsAll
<1>12. /\ Left(todo') = {"save", "retain"} \cup Left(Tail(todo))
       /\ todo' # <<>> /\ Head(todo') = "save"
  <2>1. IsList(<<"save", "retain">>, {"save", "retain"})
    BY Lists
  <2>2. <<"save", "retain">> # <<>> /\ Head(<<"save", "retain">>) = "save"
    OBVIOUS
  <2> QED BY <1>1, <1>3, <2>1, <2>2, LeftConcat, HeadConcat DEF IsList
<1>13. IsUp' /\ "publish" \notin Left(todo') /\ "deliver" \notin Left(todo')
  <2>1. todo' # <<"down">>
    BY <1>12
  <2> QED BY <1>2, <1>12, <2>1 DEF IsUp, MergeSteps
<1>14. ReplyInv'
  <2>1. call.op = "report" => call.body \in M.reports
    BY <1>2, <1>3 DEF StartInv, CallInv, ApplyingInv, DurableInv, ReplyInv, MergeSteps
  <2> QED BY <1>4, <1>5, <1>6, <2>1 DEF ReplyInv
<1>15. /\ Agree(FALSE, TRUE, mem'.runs[call.id], disk.session.runs[call.id], Final(call.id))
       /\ call'.undo # None /\ Sound(call'.undo) /\ call'.undo.merge
       /\ call'.undo.reports = mem'.runs[call.id].reports
       /\ TellsAll(receipts[call.id], mem'.runs[call.id]) /\ TellsAll(receipts[call.id], call'.undo)
  BY <1>4, <1>5, <1>6, <1>8, <1>9, <1>11
<1>16. \A k \in Results : applied[call.id][k] = 1 =>
           /\ Remembers(disk.publications, mem'.runs[call.id], call.id, k)
           /\ Remembers(disk.publications, call'.undo, call.id, k)
  BY <1>5, <1>6, <1>10
<1> HIDE DEF M
<1> QED BY <1>1, <1>2, <1>3, <1>5, <1>6, <1>7, <1>13, <1>14, <1>15, <1>16, ChangeKept

\* What was published is forgotten only for runs that are not merged any more.
LEMMA RetainKept ==
  ASSUME TypeOK, StartInv, DurableInv, Retain
  PROVE  DurableInv'
<1>1. At("retain") /\ UNCHANGED <<mem, late, agentVars, applied, acked>>
  BY DEF Retain
<1>2. /\ call.undo = None /\ IsUp /\ call.op \in {"report", "boot"}
      /\ todo # <<>> /\ Left(todo) = {"retain"} \cup Left(Tail(todo)) /\ Tail(todo) \in Seq(Plan)
  <2>1. todo # <<>> /\ Left(todo) = {"retain"} \cup Left(Tail(todo)) /\ Tail(todo) \in Seq(Plan)
    BY <1>1, AtStep DEF TypeOK
  <2> QED BY <1>1, <2>1, StepUndo, OpAt DEF TypeOK, StartInv, CallInv
<1>3. disk' \in {disk, [disk EXCEPT !.publications = Retained]}
  BY DEF Retain
<1>4. \/ Goes(<<>>) /\ UNCHANGED call
      \/ call' = NoCall /\ todo' \in {<<>>, <<"down">>}
  BY DEF Retain, Abort
<1>5. call'.undo = None
  BY <1>2, <1>4, NoCallTypes
<1>6. /\ disk'.session = disk.session /\ disk'.executions = disk.executions
      /\ disk'.notebook = disk.notebook
      /\ disk'.publications = disk.publications \/ disk'.publications = Retained
  BY <1>3 DEF TypeOK, ServerTypes, Disks
<1>7. \A id : ~Changed(id) /\ ~Changed(id)' /\ Final(id)' = Final(id)
  BY <1>2, <1>5, <1>6 DEF Changed, Final
<1>8. AgreeInv'
  <2>1. ASSUME NEW id \in Ids
        PROVE  Agree(~IsUp, Changed(id), mem.runs[id], disk.session.runs[id], Final(id))'
    <3>1. Agree(~IsUp, Changed(id), mem.runs[id], disk.session.runs[id], Final(id))
      BY DEF DurableInv, AgreeInv
    <3> QED BY <1>1, <1>2, <1>6, <1>7, <3>1 DEF Agree
  <2> QED BY <1>5, <2>1 DEF AgreeInv
<1>9. BodyInv' /\ AckInv'
  <2>1. call'.op = "report" => call'.id = call.id /\ call'.body = call.body /\ call.op = "report"
    BY <1>4, NoCallTypes
  <2> QED BY <1>1, <1>5, <1>6, <1>7, <2>1 DEF DurableInv, BodyInv, AckInv, agentVars
<1>10. /\ \A step \in Plan \ {"down"} : step \in Left(todo') => step \in Left(todo)
       /\ todo' # <<>> /\ call'.op = "report" => Left(todo') = Left(Tail(todo)) /\ call' = call
       /\ {"publish", "deliver"} \cap Left(todo') # {} => call' = call
  <2>1. CASE Goes(<<>>) /\ UNCHANGED call
    <3>1. IsList(<<>>, {})
      BY Lists
    <3>2. Left(todo') = Left(Tail(todo))
      BY <1>2, <2>1, <3>1, LeftConcat DEF IsList, Goes
    <3> QED BY <1>2, <2>1, <3>2
  <2>2. CASE call' = NoCall /\ todo' \in {<<>>, <<"down">>}
    <3>1. Left(todo') \subseteq {"down"}
      BY <2>2, Lists DEF IsList
    <3> QED BY <2>2, <3>1, NoCallTypes
  <2> QED BY <1>4, <2>1, <2>2
<1>11. ReplyInv'
  <2>1. SUFFICES ASSUME call'.op = "report", todo' # <<>>, "apply" \notin Left(todo')
                 PROVE  ReplyInv'
    BY DEF ReplyInv
  <2>2. /\ call' = call /\ Left(todo) = {"retain"} \cup Left(todo')
    BY <1>2, <1>10, <2>1
  <2> QED BY <1>1, <1>2, <1>7, <2>1, <2>2 DEF DurableInv, ReplyInv
<1>12. AppliedInv'
  <2>1. ASSUME NEW id \in Ids, NEW k \in Results, applied[id][k] = 1
        PROVE  /\ Remembers(disk'.publications, mem.runs[id], id, k)
               /\ Remembers(disk'.publications, disk.session.runs[id], id, k)
    <3>1. /\ Remembers(disk.publications, mem.runs[id], id, k)
          /\ Remembers(disk.publications, disk.session.runs[id], id, k)
      BY <2>1 DEF DurableInv, AppliedInv
    <3>2. mem.runs[id] # None /\ mem.runs[id].merge /\ <<id, k>> \in disk.publications =>
            <<id, k>> \in disk'.publications
      <4>1. <<id, k>>[1] = id
        OBVIOUS
      <4> QED BY <1>6, <4>1 DEF Retained, Known
    <3>3. disk.session.runs[id] # None /\ disk.session.runs[id].merge =>
            mem.runs[id] # None /\ (mem.runs[id].merge \/ mem.runs[id].state = "running")
      BY <1>7 DEF DurableInv, AgreeInv, Agree
    <3>4. ~(mem.runs[id] # None /\ mem.runs[id].state = "running" /\ ~mem.runs[id].merge)
      BY <3>1 DEF Remembers, Over, Terminal
    <3> QED BY <3>1, <3>2, <3>3, <3>4 DEF Remembers
  <2>2. /\ "publish" \in Plan \ {"down"} /\ "deliver" \in Plan \ {"down"}
    BY DEF Plan, MergeSteps
  <2>3. /\ "publish" \in Left(todo') => "publish" \in Left(todo) /\ call' = call
        /\ "deliver" \in Left(todo') => "deliver" \in Left(todo) /\ call' = call
    BY <1>10, <2>2
  <2>4. \A id \in Ids, k \in Results : applied[id][k] = 1 => disk.executions[id] # None
    BY DEF DurableInv, AppliedInv
  <2>5. \A id \in Ids, k \in Results : applied[id][k] \in {0, 1}
    BY DEF DurableInv, AppliedInv
  <2> QED BY <1>1, <1>2, <1>6, <1>7, <2>1, <2>3, <2>4, <2>5 DEF DurableInv, AppliedInv
<1> QED BY <1>8, <1>9, <1>11, <1>12 DEF DurableInv

-----------------------------------------------------------------------------
(* Writes.  What the invariant says of one run, of which M is the record in *)
(* memory, D the record on the disk, E its receipt there, R the agent's     *)
(* receipt and A how often its results were written.                        *)

Result(E) == IF E = None THEN None ELSE E.final
Rest(M, D, E, R, told, A, published, id) ==
  /\ TellsAll(R, M) /\ TellsAll(R, D) /\ TellsAll(R, Result(E))
  /\ id \in told => /\ Settled(M) /\ Settled(D)
                    /\ M = None \/ D = None => Result(E) # None /\ Done(Result(E))
  /\ \A k \in Results :
       /\ A[k] \in {0, 1}
       /\ A[k] = 1 => E # None /\ Remembers(published, M, id, k) /\ Remembers(published, D, id, k)
RunFine(M, D, E, R, told, A, published, id) ==
  Agree(FALSE, FALSE, M, D, Result(E)) /\ Rest(M, D, E, R, told, A, published, id)

LEMMA RunsAreFine ==
  ASSUME TypeOK, DurableInv, IsUp, NEW id \in Ids
  PROVE  /\ Agree(FALSE, TRUE, mem.runs[id], disk.session.runs[id], Result(disk.executions[id]))
         /\ Rest(mem.runs[id], disk.session.runs[id], disk.executions[id], receipts[id], acked,
                 applied[id], disk.publications, id)
         /\ call.undo = None \/ id # call.id =>
              RunFine(mem.runs[id], disk.session.runs[id], disk.executions[id], receipts[id], acked,
                      applied[id], disk.publications, id)
<1>1. Final(id) = Result(disk.executions[id])
  BY DEF Final, Result
<1>2. Agree(~IsUp, Changed(id), mem.runs[id], disk.session.runs[id], Final(id))
  BY DEF DurableInv, AgreeInv
<1>3. Agree(FALSE, TRUE, mem.runs[id], disk.session.runs[id], Result(disk.executions[id]))
  BY <1>1, <1>2 DEF Agree
<1>4. Rest(mem.runs[id], disk.session.runs[id], disk.executions[id], receipts[id], acked,
           applied[id], disk.publications, id)
  BY <1>1 DEF Rest, DurableInv, BodyInv, AckInv, AppliedInv
<1>5. call.undo = None \/ id # call.id =>
        Agree(FALSE, FALSE, mem.runs[id], disk.session.runs[id], Result(disk.executions[id]))
  BY <1>1, <1>2 DEF Agree, Changed
<1> QED BY <1>3, <1>4, <1>5 DEF RunFine

LEMMA FineRunsKept ==
  ASSUME TypeOK, DurableInv, UNCHANGED <<receipts, agent, acked>>, late' \subseteq late,
         \A id \in Ids : RunFine(mem'.runs[id], disk'.session.runs[id], disk'.executions[id],
                                 receipts[id], acked, applied'[id], disk'.publications, id),
         call'.undo = None, disk'.notebook.version > 0,
         call'.op = "report" => Tells(receipts[call'.id], call'.body) /\ ReplyInv',
         "publish" \in Left(todo') =>
           /\ applied'[call'.id]["outputs"] = 0 /\ mem'.runs[call'.id].published # 0
           /\ disk'.session.runs[call'.id] # None
           /\ disk'.session.runs[call'.id].merge /\ disk'.session.runs[call'.id].published # 0,
         "deliver" \in Left(todo') => applied'[call'.id]["file"] = 0
  PROVE  DurableInv'
<1>1. \A id : ~Changed(id)' /\ Final(id)' = Result(disk'.executions[id])
  BY DEF Changed, Final, Result
<1>2. AgreeInv'
  <2>1. ASSUME NEW id \in Ids
        PROVE  Agree(~IsUp, Changed(id), mem.runs[id], disk.session.runs[id], Final(id))'
    <3>1. Agree(FALSE, FALSE, mem'.runs[id], disk'.session.runs[id], Result(disk'.executions[id]))
      BY DEF RunFine
    <3> QED BY <1>1, <3>1 DEF Agree
  <2> QED BY <2>1 DEF AgreeInv
<1>3. \A id \in Ids : Rest(mem'.runs[id], disk'.session.runs[id], disk'.executions[id],
                           receipts[id], acked, applied'[id], disk'.publications, id)
  BY DEF RunFine
<1>4. BodyInv'
  <2>1. ASSUME NEW id \in Ids
        PROVE  /\ TellsAll(receipts[id], mem'.runs[id]) /\ TellsAll(receipts[id], disk'.session.runs[id])
               /\ TellsAll(receipts[id], Final(id)')
    BY <1>1, <1>3 DEF Rest
  <2> QED BY <2>1 DEF DurableInv, BodyInv
<1>5. AckInv'
  <2>1. ASSUME NEW id \in acked'
        PROVE  /\ Settled(mem'.runs[id]) /\ Settled(disk'.session.runs[id]) /\ ~Changed(id)'
               /\ mem'.runs[id] = None \/ disk'.session.runs[id] = None =>
                    Final(id)' # None /\ Done(Final(id)')
    <3>1. id \in Ids /\ id \in acked
      BY DEF TypeOK, GhostTypes
    <3> QED BY <1>1, <1>3, <3>1 DEF Rest
  <2> QED BY <2>1 DEF AckInv, Settled, Done, Over, HasFinal
<1>6. AppliedInv'
  <2>1. ASSUME NEW id \in Ids, NEW k \in Results
        PROVE  /\ applied'[id][k] \in {0, 1}
               /\ applied'[id][k] = 1 =>
                    /\ disk'.executions[id] # None
                    /\ Remembers(disk'.publications, mem'.runs[id], id, k)
                    /\ Remembers(disk'.publications, disk'.session.runs[id], id, k)
    BY <1>3 DEF Rest
  <2> QED BY <1>1, <2>1 DEF AppliedInv
<1>7. ReplyInv'
  BY DEF ReplyInv
<1> QED BY <1>2, <1>4, <1>5, <1>6, <1>7 DEF DurableInv

\* The record is saved.
LEMMA SavedFine ==
  ASSUME NEW M, NEW D, NEW E, NEW R, NEW told, NEW A, NEW published, NEW id,
         Agree(FALSE, TRUE, M, D, Result(E)), Rest(M, D, E, R, told, A, published, id)
  PROVE  RunFine(M, M, E, R, told, A, published, id)
<1>1. HasFinal(M) /\ M # None => M.state \in Terminal
  BY DEF Agree, Sound, HasFinal
<1>2. Agree(FALSE, FALSE, M, M, Result(E))
  BY <1>1 DEF Agree, Done
<1>3. Rest(M, M, E, R, told, A, published, id)
  BY DEF Rest
<1> QED BY <1>2, <1>3 DEF RunFine

\* A run that is over is archived, and then taken out of the record or not.
LEMMA ArchivedFine ==
  ASSUME NEW M, NEW D, NEW E, NEW R, NEW told, NEW A, NEW published, NEW id,
         RunFine(M, D, E, R, told, A, published, id), M # None, Over(M),
         D # None => D.state \in {"queued", "running"} \cup Terminal,
         NEW N \in {M, None}, NEW C, C # None, C.final = M
  PROVE  RunFine(N, D, C, R, told, A, published, id)
<1>1. Agree(FALSE, FALSE, M, D, Result(E)) /\ Rest(M, D, E, R, told, A, published, id)
  BY DEF RunFine
<1>2. Result(C) = M
  BY DEF Result
<1>3. M.state # "running" /\ ~M.merge /\ M.state \in Terminal
  BY DEF Over, Terminal
<1>4. D # None => /\ D.state # "running" /\ ~D.merge
                  /\ Over(D) \/ D.state = "queued"
  BY <1>1, <1>3 DEF Agree, Over
<1>5. HasFinal(M) => D # None /\ D.state \in Terminal /\ HasFinal(D)
  BY <1>1 DEF Agree
<1>6. HasFinal(M) => Done(M) /\ Done(D)
  BY <1>4, <1>5 DEF Done, Over
<1>7. Agree(FALSE, FALSE, N, D, M)
  <2>1. CASE N = M
    BY <1>1, <1>3, <1>4, <1>5, <1>6, <2>1 DEF Agree
  <2>2. CASE N = None
    BY <1>1, <1>3, <1>4, <1>5, <1>6, <2>2 DEF Agree, Sound
  <2> QED BY <2>1, <2>2
<1>8. Rest(N, D, C, R, told, A, published, id)
  BY <1>1, <1>2 DEF Rest, TellsAll, Settled, Remembers
<1> QED BY <1>2, <1>7, <1>8 DEF RunFine

\* A run gets its receipt, and then its record or not.
LEMMA RegisteredFine ==
  ASSUME NEW E, NEW R, NEW told, NEW A, NEW published, NEW id, E = None,
         RunFine(None, None, E, R, told, A, published, id),
         NEW N, N = None \/ (N.state = "queued" /\ N.reports = {} /\ ~N.merge),
         NEW C, C # None, C.final = None
  PROVE  RunFine(N, None, C, R, told, A, published, id)
<1>1. Agree(FALSE, FALSE, None, None, Result(E)) /\ Rest(None, None, E, R, told, A, published, id)
  BY DEF RunFine
<1>2. Result(C) = None /\ Result(E) = None
  BY DEF Result
<1>3. N # None => ~HasFinal(N) /\ ~Over(N) /\ ~Done(N)
  BY DEF HasFinal, Over, Done, Terminal
<1>4. Agree(FALSE, FALSE, N, None, None)
  BY <1>1, <1>2, <1>3 DEF Agree, Sound
<1>5. id \notin told /\ \A k \in Results : A[k] = 0
  BY <1>1, <1>2 DEF Rest
<1>6. Rest(N, None, C, R, told, A, published, id)
  BY <1>1, <1>2, <1>5 DEF Rest, TellsAll
<1> QED BY <1>2, <1>4, <1>6 DEF RunFine

\* A result is written to the project, of this run or of another.
LEMMA PublishedFine ==
  ASSUME NEW M, NEW D, NEW E, NEW R, NEW told, NEW A, NEW B, NEW id,
         NEW old, NEW new, old \subseteq new,
         RunFine(M, D, E, R, told, A, old, id),
         \A k \in Results : \/ B[k] = A[k]
                            \/ B[k] = 1 /\ E # None /\ Remembers(new, M, id, k) /\ Remembers(new, D, id, k)
  PROVE  RunFine(M, D, E, R, told, B, new, id)
<1>1. Rest(M, D, E, R, told, A, old, id)
  BY DEF RunFine
<1>2. \A k, run : Remembers(old, run, id, k) => Remembers(new, run, id, k)
  BY DEF Remembers
<1>3. Rest(M, D, E, R, told, B, new, id)
  BY <1>1, <1>2 DEF Rest
<1> QED BY <1>3 DEF RunFine

\* A change of what the invariant is not about.
LEMMA AlikeFine ==
  ASSUME NEW M, NEW D, NEW E, NEW R, NEW told, NEW A, NEW published, NEW id,
         RunFine(M, D, E, R, told, A, published, id), NEW N, Alike(M, N)
  PROVE  RunFine(N, D, E, R, told, A, published, id)
<1>1. Agree(FALSE, FALSE, M, D, Result(E)) /\ Rest(M, D, E, R, told, A, published, id)
  BY DEF RunFine
<1>2. Agree(FALSE, FALSE, N, D, Result(E))
  BY <1>1, AgreeKept DEF Kept
<1>3. /\ M = None <=> N = None
      /\ Settled(M) <=> Settled(N)
      /\ TellsAll(R, M) <=> TellsAll(R, N)
      /\ \A p, k : Remembers(p, M, id, k) <=> Remembers(p, N, id, k)
  BY AlikeRuns DEF Alike
<1>4. Rest(N, D, E, R, told, A, published, id)
  BY <1>1, <1>3 DEF Rest
<1> QED BY <1>2, <1>4 DEF RunFine

\* What a write leaves of the publications and of the notebook.
LEMMA WrittenProject ==
  ASSUME TypeOK, Ahead \in Writes
  PROVE  LET d == Written(Ahead) IN
         /\ Ahead \notin {"publish", "deliver"} => d.publications = disk.publications
         /\ Ahead = "publish" => d.publications = disk.publications \cup {<<call.id, "outputs">>}
         /\ Ahead = "deliver" => d.publications = disk.publications \cup {<<call.id, "file">>}
         /\ disk.notebook.version > 0 => d.notebook.version > 0
<1>1. disk \in Disks
  BY DEF TypeOK, ServerTypes
<1>2. CASE Ahead \in {"save", "reserve", "unlink", "results"}
  <2>1. Written(Ahead) = [disk EXCEPT !.session = mem]
        \/ Written(Ahead) = [disk EXCEPT !.requests[call.req] = [id |-> call.id, path |-> call.path],
                                         !.created = call.id]
        \/ Written(Ahead) = [disk EXCEPT !.results = @ \ {call.victim}]
        \/ Written(Ahead) = [disk EXCEPT !.results = @ \cup {call.id}]
    BY <1>2 DEF Written
  <2>2. Written(Ahead).publications = disk.publications /\ Written(Ahead).notebook = disk.notebook
    BY <1>1, <2>1 DEF Disks
  <2> QED BY <1>2, <2>2
<1>3. CASE Ahead \in {"register", "archive"}
  <2>1. Written(Ahead) = [disk EXCEPT !.executions[call.id] = [path |-> call.path, final |-> None]]
        \/ Written(Ahead) = [disk EXCEPT !.executions[call.victim].final = mem.runs[call.victim]]
    BY <1>3 DEF Written
  <2>2. Written(Ahead).publications = disk.publications /\ Written(Ahead).notebook = disk.notebook
    BY <1>1, <2>1 DEF Disks
  <2> QED BY <1>3, <2>2
<1>4. CASE Ahead = "publish"
  <2> DEFINE more == disk.publications \cup {<<call.id, "outputs">>}
             note == [disk.notebook EXCEPT !.version = disk.notebook.version + 1]
  <2>1. Written(Ahead) = [disk EXCEPT !.notebook = note, !.publications = more]
    BY <1>1, <1>4 DEF Written, Disks
  <2>2. note.version = disk.notebook.version + 1 /\ disk.notebook.version \in Nat
    BY <1>1 DEF Disks
  <2> HIDE DEF note, more
  <2>3. Written(Ahead).publications = more /\ Written(Ahead).notebook = note
    BY <1>1, <2>1 DEF Disks
  <2> QED BY <1>4, <2>2, <2>3 DEF more
<1>5. CASE Ahead = "deliver"
  <2> DEFINE more == disk.publications \cup {<<call.id, "file">>}
             f == [version |-> disk.file.version + 1, by |-> call.id]
  <2>1. Written(Ahead) = [disk EXCEPT !.file = f, !.publications = more]
    BY <1>1, <1>5 DEF Written, Disks
  <2> HIDE DEF f, more
  <2>2. Written(Ahead).publications = more /\ Written(Ahead).notebook = disk.notebook
    BY <1>1, <2>1 DEF Disks
  <2> QED BY <1>5, <2>2 DEF more
<1>6. CASE Ahead = "rename"
  <2> DEFINE note == [path |-> call.path, version |-> disk.notebook.version + 1]
  <2>1. Written(Ahead) = [disk EXCEPT !.notebook = note]
    BY <1>1, <1>6 DEF Written, Disks
  <2>2. note.version = disk.notebook.version + 1 /\ disk.notebook.version \in Nat
    BY <1>1 DEF Disks
  <2> HIDE DEF note
  <2>3. Written(Ahead).publications = disk.publications /\ Written(Ahead).notebook = note
    BY <1>1, <2>1 DEF Disks
  <2> QED BY <1>6, <2>2, <2>3
<1> QED BY <1>2, <1>3, <1>4, <1>5, <1>6 DEF Writes

\* Only what is published is counted, at the run that is merged.
LEMMA Counted ==
  ASSUME TypeOK, StartInv, Ahead \in Writes, NEW written \in BOOLEAN, Count(written)
  PROVE  /\ ~written \/ Ahead \notin {"publish", "deliver"} => applied' = applied
         /\ written /\ Ahead = "publish" => \A id \in Ids, k \in Results :
              applied'[id][k] = IF id = call.id /\ k = "outputs" THEN applied[id][k] + 1 ELSE applied[id][k]
         /\ written /\ Ahead = "deliver" => \A id \in Ids, k \in Results :
              applied'[id][k] = IF id = call.id /\ k = "file" THEN applied[id][k] + 1 ELSE applied[id][k]
<1>1. applied \in [Ids -> [Results -> Nat]]
  BY DEF TypeOK, GhostTypes
<1>2. ~written \/ Ahead \notin {"publish", "deliver"} => applied' = applied
  BY DEF Count
<1>3. Ahead \in {"publish", "deliver"} => call.id \in Ids
  <2>1. Ahead \in {"publish", "deliver"} => Left(todo) \cap MergeSteps # {}
    BY WriteAt DEF MergeSteps
  <2> QED BY <2>1 DEF StartInv, CallInv, MergingInv
<1>4. CASE written /\ Ahead = "publish"
  <2>1. applied' = [applied EXCEPT ![call.id]["outputs"] = applied[call.id]["outputs"] + 1]
    BY <1>4 DEF Count
  <2> QED BY <1>1, <1>3, <1>4, <2>1 DEF Results
<1>5. CASE written /\ Ahead = "deliver"
  <2>1. applied' = [applied EXCEPT ![call.id]["file"] = applied[call.id]["file"] + 1]
    BY <1>5 DEF Count
  <2> QED BY <1>1, <1>3, <1>5, <2>1 DEF Results
<1> QED BY <1>2, <1>4, <1>5

\* The runs after a write, in memory as they were or as the code leaves them.
LEMMA WrittenFine ==
  ASSUME TypeOK, StartInv, DurableInv, Ahead \in Writes, disk' = Written(Ahead), Count(TRUE),
         call.undo = None \/ Ahead = "save",
         \A id \in Ids :
           \/ mem'.runs[id] = mem.runs[id]
           \/ Ahead = "rename" /\ Alike(mem.runs[id], mem'.runs[id])
           \/ Ahead = "archive" /\ id = call.victim /\ mem'.runs[id] = None
           \/ /\ Ahead = "register" /\ id = call.id /\ mem'.runs[id].state = "queued"
              /\ mem'.runs[id].reports = {} /\ ~mem'.runs[id].merge
  PROVE  /\ disk'.notebook.version > 0
         /\ \A id \in Ids : RunFine(mem'.runs[id], disk'.session.runs[id], disk'.executions[id],
                                    receipts[id], acked, applied'[id], disk'.publications, id)
<1>1. /\ At(Ahead) /\ Left(todo) = {Ahead} \cup Left(Tail(todo)) /\ IsUp
  BY WriteAt DEF IsUp, Ahead, Idle, Writes
<1>2. disk'.notebook.version > 0
  BY WrittenProject DEF DurableInv, AppliedInv
<1>3. ASSUME NEW id \in Ids
      PROVE  RunFine(mem'.runs[id], disk'.session.runs[id], disk'.executions[id],
                     receipts[id], acked, applied'[id], disk'.publications, id)
  <2> DEFINE M == mem.runs[id]
             D == disk.session.runs[id]
             E == disk.executions[id]
  <2>1. /\ Agree(FALSE, TRUE, M, D, Result(E))
        /\ Rest(M, D, E, receipts[id], acked, applied[id], disk.publications, id)
        /\ call.undo = None => RunFine(M, D, E, receipts[id], acked, applied[id], disk.publications, id)
    BY <1>1, RunsAreFine
  <2>2. CASE Ahead = "save"
    <3>1. /\ disk'.session = mem /\ disk'.executions = disk.executions
          /\ disk'.publications = disk.publications /\ applied' = applied /\ mem'.runs[id] = M
      BY <2>2, WrittenDisk, WrittenProject, Counted
    <3>2. RunFine(M, M, E, receipts[id], acked, applied[id], disk.publications, id)
      BY <2>1, SavedFine
    <3> QED BY <3>1, <3>2
  <2>3. ASSUME Ahead \in {"reserve", "unlink", "results", "rename"}
        PROVE  RunFine(mem'.runs[id], disk'.session.runs[id], disk'.executions[id],
                       receipts[id], acked, applied'[id], disk'.publications, id)
    <3>1. /\ disk'.session = disk.session /\ disk'.executions = disk.executions
          /\ disk'.publications = disk.publications /\ applied' = applied
      BY <2>3, WrittenDisk, WrittenProject, Counted
    <3>2. RunFine(M, D, E, receipts[id], acked, applied[id], disk.publications, id)
      BY <2>1, <2>3
    <3>3. Alike(M, mem'.runs[id])
      BY <2>3, Unchanged
    <3>4. RunFine(mem'.runs[id], D, E, receipts[id], acked, applied[id], disk.publications, id)
      BY <3>2, <3>3, AlikeFine
    <3> QED BY <3>1, <3>4
  <2>4. CASE Ahead = "register"
    <3>1. /\ disk'.session = disk.session
          /\ disk'.executions = [disk.executions EXCEPT ![call.id] = [path |-> call.path, final |-> None]]
          /\ disk'.publications = disk.publications /\ applied' = applied
      BY <2>4, WrittenDisk, WrittenProject, Counted
    <3>2. RunFine(M, D, E, receipts[id], acked, applied[id], disk.publications, id)
      BY <2>1, <2>4
    <3>3. CASE id # call.id
      <4>1. disk'.executions[id] = E
        BY <3>1, <3>3 DEF TypeOK, ServerTypes, Disks
      <4>2. mem'.runs[id] = M
        BY <2>4, <3>3
      <4> QED BY <3>1, <3>2, <4>1, <4>2
    <3>4. CASE id = call.id
      <4>1. call.path \in Paths /\ disk.executions[call.id] = None
        <5>1. call.op = "execute" /\ todo = <<"register", "save", "reply">>
          BY <1>1, <2>4, OpAt DEF TypeOK, StartInv, CallInv
        <5> QED BY <5>1 DEF StartInv, CallInv, PlanInv, AdmittingInv
      <4>2. M = None /\ D = None /\ E = None
        BY <3>4, <4>1 DEF StartInv, RecordsInv
      <4>3. disk'.executions[id] = [path |-> call.path, final |-> None]
        BY <3>1, <3>4 DEF TypeOK, ServerTypes, Disks
      <4> DEFINE C == [path |-> call.path, final |-> None]
      <4>4. C # None /\ C.final = None
        BY <4>1, NoneAssumption DEF Records
      <4>5. mem'.runs[id] = None \/ (mem'.runs[id].state = "queued" /\ mem'.runs[id].reports = {}
                                     /\ ~mem'.runs[id].merge)
        BY <2>4, <4>2
      <4> HIDE DEF C
      <4>6. RunFine(mem'.runs[id], None, C, receipts[id], acked, applied[id], disk.publications, id)
        BY <3>2, <4>2, <4>4, <4>5, RegisteredFine
      <4> QED BY <3>1, <4>2, <4>3, <4>6 DEF C
    <3> QED BY <3>3, <3>4
  <2>5. CASE Ahead = "archive"
    <3>1. /\ disk'.session = disk.session
          /\ disk'.executions = [disk.executions EXCEPT ![call.victim] =
                                   [disk.executions[call.victim] EXCEPT !.final = mem.runs[call.victim]]]
          /\ disk'.publications = disk.publications /\ applied' = applied
      BY <2>5, WrittenDisk, WrittenProject, Counted
    <3>2. RunFine(M, D, E, receipts[id], acked, applied[id], disk.publications, id)
      BY <2>1, <2>5
    <3>3. CASE id # call.victim
      <4>1. disk'.executions[id] = E
        BY <3>1, <3>3 DEF TypeOK, ServerTypes, Disks
      <4>2. mem'.runs[id] = M
        BY <2>5, <3>3
      <4> QED BY <3>1, <3>2, <4>1, <4>2
    <3>4. CASE id = call.victim
      <4>1. M # None /\ Over(M)
        BY <1>1, <2>5, <3>4 DEF StartInv, CallInv, VictimInv, Over
      <4>2. M \in Runs /\ E \in Records
        BY <4>1, KnownRun DEF StartInv, RecordsInv, TypeOK, ServerTypes, Disks
      <4> DEFINE C == [E EXCEPT !.final = M]
      <4>3. C \in Records /\ C.final = M
        BY <4>2 DEF Records
      <4>4. disk'.executions[id] = C
        BY <3>1, <3>4 DEF TypeOK, ServerTypes, Disks
      <4>5. C # None /\ mem'.runs[id] \in {M, None}
        BY <2>5, <4>3, NoneAssumption
      <4>6. D # None => D.state \in {"queued", "running"} \cup Terminal
        BY DEF TypeOK, ServerTypes, Disks, Sessions, Runs
      <4> HIDE DEF C, M, D, E
      <4>7. RunFine(mem'.runs[id], D, C, receipts[id], acked, applied[id], disk.publications, id)
        BY <3>2, <4>1, <4>3, <4>5, <4>6, ArchivedFine
      <4> QED BY <3>1, <4>4, <4>7 DEF D
    <3> QED BY <3>3, <3>4
  <2>6. ASSUME Ahead \in {"publish", "deliver"}
        PROVE  RunFine(mem'.runs[id], disk'.session.runs[id], disk'.executions[id],
                       receipts[id], acked, applied'[id], disk'.publications, id)
    <3> DEFINE what == IF Ahead = "publish" THEN "outputs" ELSE "file"
    <3>1. /\ disk'.session = disk.session /\ disk'.executions = disk.executions
          /\ disk'.publications = disk.publications \cup {<<call.id, what>>}
          /\ mem'.runs[id] = M /\ call.undo = None
          /\ \A k \in Results : applied'[id][k] = IF id = call.id /\ k = what THEN applied[id][k] + 1
                                                  ELSE applied[id][k]
      <4>1. disk'.session = disk.session /\ disk'.executions = disk.executions
        BY <2>6, WrittenDisk
      <4>2. disk'.publications = disk.publications \cup {<<call.id, what>>}
        BY <2>6, WrittenProject
      <4>3. mem'.runs[id] = M /\ call.undo = None
        BY <2>6
      <4>4. \A k \in Results : applied'[id][k] = IF id = call.id /\ k = what THEN applied[id][k] + 1
                                                ELSE applied[id][k]
        <5>1. CASE Ahead = "publish"
          BY <5>1, Counted
        <5>2. CASE Ahead = "deliver"
          BY <5>2, Counted
        <5> QED BY <2>6, <5>1, <5>2
      <4> QED BY <4>1, <4>2, <4>3, <4>4
    <3>2. RunFine(M, D, E, receipts[id], acked, applied[id], disk.publications, id)
      BY <2>1, <3>1
    <3>3. /\ call.id \in Ids /\ mem.runs[call.id] # None /\ mem.runs[call.id].merge
      BY <1>1, <2>6, MergeAt DEF MergeSteps
    <3>4. /\ disk.session.runs[call.id] # None /\ disk.session.runs[call.id].state \in Terminal
      BY <1>1, <3>1, <3>3, MergingRun
    <3>5. applied[call.id][what] = 0
      BY <1>1, <2>6 DEF DurableInv, AppliedInv
    <3>6. id = call.id =>
            /\ E # None
            /\ Remembers(disk'.publications, M, id, what) /\ Remembers(disk'.publications, D, id, what)
      <4>1. SUFFICES ASSUME id = call.id
                     PROVE  /\ E # None
                            /\ Remembers(disk'.publications, M, id, what)
                            /\ Remembers(disk'.publications, D, id, what)
        OBVIOUS
      <4>2. E # None
        BY <3>3, <4>1 DEF StartInv, RecordsInv
      <4>3. <<id, what>> \in disk'.publications
        BY <3>1, <4>1
      <4>4. what = "outputs" => M.published # 0 /\ D.merge /\ D.published # 0
        BY <1>1, <2>6, <3>1, <4>1 DEF DurableInv, AppliedInv
      <4>5. D # None => Over(D) \/ D.merge
        BY <3>4, <4>1 DEF Over
      <4> HIDE DEF what
      <4> QED BY <3>3, <4>1, <4>2, <4>3, <4>4, <4>5 DEF Remembers
    <3>7. \A k \in Results : \/ applied'[id][k] = applied[id][k]
                             \/ /\ applied'[id][k] = 1 /\ E # None
                                /\ Remembers(disk'.publications, M, id, k)
                                /\ Remembers(disk'.publications, D, id, k)
      BY <3>1, <3>5, <3>6
    <3>8. disk.publications \subseteq disk'.publications
      BY <3>1
    <3> HIDE DEF what, M, D, E
    <3>9. RunFine(M, D, E, receipts[id], acked, applied'[id], disk'.publications, id)
      BY <3>2, <3>7, <3>8, PublishedFine
    <3> QED BY <3>1, <3>9 DEF D, E
  <2> QED BY <2>2, <2>3, <2>4, <2>5, <2>6 DEF Writes
<1> QED BY <1>2, <1>3

\* What a write that succeeds leaves in memory.
LEMMA WrittenMemory ==
  ASSUME TypeOK, StartInv, Ahead \in Writes, AfterWrite(Ahead)
  PROVE  \A id \in Ids :
           \/ mem'.runs[id] = mem.runs[id]
           \/ Ahead = "rename" /\ Alike(mem.runs[id], mem'.runs[id])
           \/ Ahead = "archive" /\ id = call.victim /\ mem'.runs[id] = None
           \/ /\ Ahead = "register" /\ id = call.id /\ mem'.runs[id].state = "queued"
              /\ mem'.runs[id].reports = {} /\ ~mem'.runs[id].merge
<1>1. CASE Ahead = "register"
  BY <1>1, RegisteredRun
<1>2. CASE Ahead = "archive"
  <2>1. call.victim \in Ids /\ mem' = [mem EXCEPT !.runs[call.victim] = None]
    <3>1. At("archive")
      BY <1>2, WriteAt
    <3> QED BY <1>2, <3>1 DEF AfterWrite, StartInv, CallInv, VictimInv
  <2>2. /\ mem'.runs[call.victim] = None
        /\ \A other \in Ids \ {call.victim} : mem'.runs[other] = mem.runs[other]
    BY <2>1, RunSet DEF TypeOK, ServerTypes
  <2> QED BY <1>2, <2>2
<1>3. CASE Ahead = "rename"
  <2>1. ASSUME NEW id \in Ids PROVE Alike(mem.runs[id], mem'.runs[id])
    <3>1. /\ mem'.runs[id] = None <=> mem.runs[id] = None
          /\ mem.runs[id] # None =>
               \E p \in Paths : mem'.runs[id] = [mem.runs[id] EXCEPT !.path = p]
      BY <1>3, RenamedRuns
    <3>2. CASE mem.runs[id] = None
      BY <3>1, <3>2 DEF Alike
    <3>3. CASE mem.runs[id] # None
      <4>1. mem.runs[id] \in Runs
        BY <3>3, KnownRun
      <4> QED BY <3>1, <3>3, <4>1 DEF Alike, Runs
    <3> QED BY <3>2, <3>3
  <2> QED BY <1>3, <2>1
<1>4. CASE Ahead \notin {"register", "archive", "rename"}
  BY <1>4 DEF AfterWrite
<1> QED BY <1>1, <1>2, <1>3, <1>4

LEMMA WriteKept ==
  ASSUME TypeOK, StartInv, DurableInv, Write
  PROVE  DurableInv'
<1>1. /\ Ahead \in Writes /\ disk' = Written(Ahead) /\ AfterWrite(Ahead) /\ Count(TRUE)
      /\ todo' = Tail(todo) /\ UNCHANGED <<late, agentVars, used, acked>>
      /\ call' = IF Tail(todo) = <<>> THEN NoCall ELSE [call EXCEPT !.undo = None]
  BY DEF Write
<1>2. /\ At(Ahead) /\ Left(todo) = {Ahead} \cup Left(todo') /\ todo # <<>> /\ Head(todo) = Ahead
      /\ todo \in Seq(Plan) /\ Barred(Ahead) \cap Left(todo') = {}
  <2>1. todo \in Seq(Plan) /\ Straight(todo)
    BY DEF TypeOK, ServerTypes, StartInv, CallInv, PlanInv
  <2>2. At(Ahead) /\ Left(todo) = {Ahead} \cup Left(todo') /\ todo # <<>> /\ Head(todo) = Ahead
    BY <1>1, WriteAt
  <2> QED BY <1>1, <2>1, <2>2, StraightTail
<1>3. call.undo = None \/ Ahead = "save"
  BY <1>2 DEF StartInv, CallInv, UndoInv, At
<1>4. \A id \in Ids :
        \/ mem'.runs[id] = mem.runs[id]
        \/ Ahead = "rename" /\ Alike(mem.runs[id], mem'.runs[id])
        \/ Ahead = "archive" /\ id = call.victim /\ mem'.runs[id] = None
        \/ /\ Ahead = "register" /\ id = call.id /\ mem'.runs[id].state = "queued"
           /\ mem'.runs[id].reports = {} /\ ~mem'.runs[id].merge
  BY <1>1, WrittenMemory
<1>5. /\ disk'.notebook.version > 0
      /\ \A id \in Ids : RunFine(mem'.runs[id], disk'.session.runs[id], disk'.executions[id],
                                 receipts[id], acked, applied'[id], disk'.publications, id)
  BY <1>1, <1>3, <1>4, WrittenFine
<1>6. /\ call'.undo = None
      /\ todo' = <<>> => call'.op = "none" /\ Left(todo') = {}
      /\ todo' # <<>> => call'.op = call.op /\ call'.id = call.id /\ call'.body = call.body
  <2>1. CASE Tail(todo) = <<>>
    <3>1. todo' = <<>>
      BY <1>1, <2>1
    <3> QED BY <1>1, <2>1, <3>1, NoCallTypes, Lists DEF IsList
  <2>2. CASE Tail(todo) # <<>>
    BY <1>1, <2>2 DEF TypeOK, ServerTypes, Calls
  <2> QED BY <2>1, <2>2
<1>7. /\ Ahead = "register" => call.op = "execute"
      /\ Ahead = "rename" => call.op = "none"
      /\ Ahead = "archive" => /\ call.victim \in Ids /\ mem.runs[call.victim] # None
                              /\ ~mem.runs[call.victim].merge
  BY <1>2, OpAt DEF TypeOK, StartInv, CallInv, VictimInv
<1>8. Left(todo) \cap MergeSteps # {} =>
        /\ call.op \in {"report", "boot"} /\ mem'.runs[call.id] = mem.runs[call.id]
        /\ mem.runs[call.id] # None /\ mem.runs[call.id].merge
  <2>1. SUFFICES ASSUME Left(todo) \cap MergeSteps # {}
                 PROVE  /\ call.op \in {"report", "boot"} /\ mem'.runs[call.id] = mem.runs[call.id]
                        /\ mem.runs[call.id] # None /\ mem.runs[call.id].merge
    OBVIOUS
  <2>2. call.id \in Ids /\ mem.runs[call.id] # None /\ mem.runs[call.id].merge
    BY <2>1 DEF StartInv, CallInv, MergingInv
  <2>3. call.op \in {"report", "boot"}
    <3>1. call.op \in {"none", "execute", "claim", "recover", "report", "boot"}
      BY DEF TypeOK, ServerTypes, Calls
    <3>2. call.op \notin {"none", "claim", "recover"}
      BY <2>1, Lists DEF StartInv, CallInv, PlanInv, IsList, MergeSteps
    <3>3. call.op # "execute"
      BY <2>1, Lists DEF StartInv, CallInv, PlanInv, IsList, MergeSteps, TrimSteps
    <3> QED BY <3>1, <3>2, <3>3
  <2> QED BY <1>4, <1>7, <2>2, <2>3
<1>9. "publish" \in Left(todo') =>
        /\ applied'[call'.id]["outputs"] = 0 /\ mem'.runs[call'.id].published # 0
        /\ disk'.session.runs[call'.id] # None
        /\ disk'.session.runs[call'.id].merge /\ disk'.session.runs[call'.id].published # 0
  <2>1. SUFFICES ASSUME "publish" \in Left(todo')
                 PROVE  /\ applied'[call'.id]["outputs"] = 0 /\ mem'.runs[call'.id].published # 0
                        /\ disk'.session.runs[call'.id] # None
                        /\ disk'.session.runs[call'.id].merge /\ disk'.session.runs[call'.id].published # 0
    OBVIOUS
  <2>2. /\ "publish" \in Left(todo) /\ Ahead \notin {"publish", "deliver"} /\ call'.id = call.id
        /\ mem'.runs[call.id] = mem.runs[call.id]
        /\ mem.runs[call.id] # None /\ mem.runs[call.id].merge
    BY <1>2, <1>6, <1>8, <2>1 DEF Barred, MergeSteps
  <2>3. applied' = applied /\ disk'.session = IF Ahead = "save" THEN mem ELSE disk.session
    BY <1>1, <2>2, Counted, WrittenDisk
  <2>4. /\ applied[call.id]["outputs"] = 0 /\ mem.runs[call.id].published # 0
        /\ \/ call.undo # None
           \/ /\ disk.session.runs[call.id] # None
              /\ disk.session.runs[call.id].merge /\ disk.session.runs[call.id].published # 0
    BY <2>2 DEF DurableInv, AppliedInv
  <2> QED BY <1>3, <2>2, <2>3, <2>4
<1>10. "deliver" \in Left(todo') => applied'[call'.id]["file"] = 0
  <2>1. SUFFICES ASSUME "deliver" \in Left(todo') PROVE applied'[call'.id]["file"] = 0
    OBVIOUS
  <2>2. "deliver" \in Left(todo) /\ Ahead # "deliver" /\ call'.id = call.id
    BY <1>2, <1>6, <2>1 DEF Barred, MergeSteps
  <2>3. call.id \in Ids /\ "file" \in Results
    BY <2>2 DEF StartInv, CallInv, MergingInv, MergeSteps, Results
  <2>4. applied'[call.id]["file"] = applied[call.id]["file"]
    BY <1>1, <2>2, <2>3, Counted
  <2> QED BY <2>2, <2>4 DEF DurableInv, AppliedInv
<1>11. call'.op = "report" => Tells(receipts[call'.id], call'.body)
  BY <1>6 DEF DurableInv, BodyInv
<1>12. ReplyInv'
  <2>1. SUFFICES ASSUME call'.op = "report", todo' # <<>>, "apply" \notin Left(todo')
                 PROVE  ReplyInv'
    BY DEF ReplyInv
  <2>2. /\ call.op = "report" /\ call'.id = call.id /\ call'.body = call.body
        /\ "apply" \notin Left(todo) /\ todo # <<>>
        /\ {"merge", "finish"} \cap Left(todo') = {"merge", "finish"} \cap Left(todo)
        /\ Ahead # "register" /\ Ahead # "rename"
    <3>1. Ahead \notin {"merge", "finish", "apply"}
      BY <1>1 DEF Writes
    <3>2. /\ "apply" \notin Left(todo)
          /\ {"merge", "finish"} \cap Left(todo') = {"merge", "finish"} \cap Left(todo)
      BY <1>2, <2>1, <3>1
    <3>3. call'.op = call.op /\ call'.id = call.id /\ call'.body = call.body
      BY <1>6, <2>1
    <3> QED BY <1>2, <1>7, <2>1, <3>2, <3>3
  <2>3. call.id \in Ids
    BY <2>2 DEF StartInv, CallInv, CallsInv, ReportOf
  <2>4. IF mem.runs[call.id] = None
        THEN Final(call.id) # None /\ call.body \in Final(call.id).reports
        ELSE /\ call.body \in mem.runs[call.id].reports
             /\ mem.runs[call.id].merge => Left(todo) \cap {"merge", "finish"} # {}
    BY <2>2 DEF DurableInv, ReplyInv
  <2>5. CASE Ahead = "archive" /\ call.victim = call.id
    <3>1. mem.runs[call.id] # None /\ disk.executions[call.id] # None
      BY <1>7, <2>5 DEF StartInv, RecordsInv
    <3>2. disk.executions \in [Ids -> Records \cup {None}]
      BY DEF TypeOK, ServerTypes, Disks
    <3> DEFINE C == [disk.executions[call.id] EXCEPT !.final = mem.runs[call.id]]
    <3>3. C \in Records /\ C.final = mem.runs[call.id]
      BY <2>3, <3>1, <3>2, KnownRun DEF Records
    <3>4. disk'.executions[call.id] = C
      BY <1>1, <2>3, <2>5, <3>2, WrittenDisk
    <3> HIDE DEF C
    <3>5. Final(call.id)' = mem.runs[call.id]
      BY <2>2, <3>3, <3>4, NoneAssumption DEF Final
    <3>6. mem'.runs[call.id] = None
      <4>1. mem' = [mem EXCEPT !.runs[call.id] = None]
        BY <1>1, <2>5 DEF AfterWrite
      <4> QED BY <2>3, <4>1, RunSet DEF TypeOK, ServerTypes
    <3> QED BY <2>2, <2>4, <3>1, <3>5, <3>6 DEF ReplyInv
  <2>6. CASE ~(Ahead = "archive" /\ call.victim = call.id)
    <3>1. mem'.runs[call.id] = mem.runs[call.id]
      BY <1>4, <2>2, <2>3, <2>6
    <3>2. Final(call.id)' = Final(call.id)
      <4>1. disk'.executions[call.id] = disk.executions[call.id]
        <5>1. CASE Ahead # "archive"
          BY <1>1, <2>2, <5>1, WrittenDisk
        <5>2. CASE Ahead = "archive"
          BY <1>1, <2>3, <2>6, <5>2, WrittenDisk DEF TypeOK, ServerTypes, Disks
        <5> QED BY <5>1, <5>2
      <4> QED BY <2>2, <4>1 DEF Final
    <3> QED BY <2>2, <2>4, <3>1, <3>2 DEF ReplyInv
  <2> QED BY <2>5, <2>6
<1> QED BY <1>1, <1>5, <1>6, <1>9, <1>10, <1>11, <1>12, FineRunsKept DEF agentVars

\* A change is taken back, whether it was saved or not.
LEMMA UndoneFine ==
  ASSUME NEW U, NEW M, NEW D, NEW E, NEW R, NEW told, NEW A, NEW published, NEW id,
         Agree(FALSE, TRUE, M, D, Result(E)), Rest(M, D, E, R, told, A, published, id),
         U # None, M # None, Sound(U), Result(E) = None, TellsAll(R, U), id \notin told,
         \/ U.state = "running"
         \/ /\ U.merge /\ U.reports = M.reports
            /\ D # None /\ D.state \in Terminal /\ HasFinal(D),
         \A k \in Results : A[k] = 1 => Remembers(published, U, id, k)
  PROVE  RunFine(U, D, E, R, told, A, published, id) /\ RunFine(U, M, E, R, told, A, published, id)
<1>1. Sound(M) /\ Sound(D)
  BY DEF Agree
<1>2. HasFinal(M) => M.state \in Terminal
  BY <1>1 DEF Sound, HasFinal
<1>3. /\ U.state = "running" => ~HasFinal(U) /\ ~U.merge
      /\ ~Done(U)
      /\ U.merge => HasFinal(U)
  BY DEF Sound, HasFinal, Done, Over, Terminal
<1>4. U.state = "running" \/ (U.merge /\ HasFinal(M) /\ M.state \in Terminal)
  BY <1>2, <1>3 DEF HasFinal
<1>5. Agree(FALSE, FALSE, U, D, Result(E))
  BY <1>1, <1>3 DEF Agree, Terminal
<1>6. Agree(FALSE, FALSE, U, M, Result(E))
  BY <1>1, <1>3, <1>4 DEF Agree, Terminal
<1>7. Rest(U, D, E, R, told, A, published, id) /\ Rest(U, M, E, R, told, A, published, id)
  BY DEF Rest
<1> QED BY <1>5, <1>6, <1>7 DEF RunFine

LEMMA WriteFailsKept ==
  ASSUME TypeOK, StartInv, DurableInv, WriteFails
  PROVE  DurableInv'
<1>1. PICK written \in BOOLEAN : disk' = (IF written THEN Written(Ahead) ELSE disk) /\ Count(written)
  BY DEF WriteFails
<1>2. /\ Ahead \in Writes
      /\ mem' = IF call.undo = None THEN mem ELSE [mem EXCEPT !.runs[call.id] = call.undo]
      /\ call' = NoCall /\ todo' \in {<<>>, <<"down">>}
      /\ UNCHANGED <<late, agentVars, acked>>
  BY DEF WriteFails, Abort
<1>3. At(Ahead) /\ IsUp
  BY <1>2, WriteAt DEF IsUp, Ahead, Idle, Writes
<1>4. /\ {"publish", "deliver"} \cap Left(todo') = {}
      /\ call'.undo = None /\ call'.op = "none"
  BY <1>2, Lists, NoCallTypes DEF IsList
<1>5. disk.notebook.version > 0
  BY DEF DurableInv, AppliedInv
<1>6. ASSUME disk'.notebook.version > 0,
             \A id \in Ids : RunFine(mem'.runs[id], disk'.session.runs[id], disk'.executions[id],
                                     receipts[id], acked, applied'[id], disk'.publications, id)
      PROVE  DurableInv'
  BY <1>2, <1>4, <1>6, FineRunsKept DEF agentVars
<1>7. CASE call.undo = None /\ written
  <2>1. mem' = mem /\ disk' = Written(Ahead) /\ Count(TRUE)
    BY <1>1, <1>2, <1>7
  <2> QED BY <1>2, <1>6, <1>7, <2>1, WrittenFine
<1>8. CASE call.undo = None /\ ~written
  <2>1. mem' = mem /\ disk' = disk /\ applied' = applied
    BY <1>1, <1>2, <1>8, Counted
  <2> QED BY <1>3, <1>5, <1>6, <1>8, <2>1, RunsAreFine
<1>9. CASE call.undo # None
  <2>1. Ahead = "save" /\ call.id \in Ids /\ mem.runs[call.id] # None
    BY <1>9 DEF StartInv, CallInv, UndoInv, At
  <2>2. /\ disk'.session = (IF written THEN mem ELSE disk.session)
        /\ disk'.executions = disk.executions /\ disk'.publications = disk.publications
        /\ applied' = applied /\ disk'.notebook.version > 0
    BY <1>1, <1>2, <1>5, <2>1, WrittenDisk, WrittenProject, Counted
  <2>3. /\ mem'.runs[call.id] = call.undo
        /\ \A other \in Ids \ {call.id} : mem'.runs[other] = mem.runs[other]
    BY <1>2, <1>9, <2>1, TakenBack
  <2>4. ASSUME NEW id \in Ids
        PROVE  RunFine(mem'.runs[id], disk'.session.runs[id], disk'.executions[id],
                       receipts[id], acked, applied'[id], disk'.publications, id)
    <3> DEFINE M == mem.runs[id]
               D == disk.session.runs[id]
               E == disk.executions[id]
    <3>1. /\ Agree(FALSE, TRUE, M, D, Result(E))
          /\ Rest(M, D, E, receipts[id], acked, applied[id], disk.publications, id)
          /\ call.undo = None \/ id # call.id =>
               RunFine(M, D, E, receipts[id], acked, applied[id], disk.publications, id)
      BY <1>3, RunsAreFine
    <3>2. CASE id # call.id
      <4>1. RunFine(M, M, E, receipts[id], acked, applied[id], disk.publications, id)
        BY <3>1, SavedFine
      <4> QED BY <2>2, <2>3, <3>1, <3>2, <4>1
    <3>3. CASE id = call.id
      <4> DEFINE U == call.undo
      <4>1. /\ Sound(U) /\ Result(E) = None
            /\ \/ U.state = "running"
               \/ /\ U.merge /\ U.reports = M.reports
                  /\ D # None /\ D.state \in Terminal /\ HasFinal(D)
        BY <1>9, <3>3 DEF DurableInv, AgreeInv, Final, Result
      <4>2. TellsAll(receipts[id], U)
        BY <1>9, <3>3 DEF DurableInv, BodyInv
      <4>3. id \notin acked
        BY <1>9, <3>3 DEF DurableInv, AckInv, Changed
      <4>4. \A k \in Results : applied[id][k] = 1 => Remembers(disk.publications, U, id, k)
        BY <1>9, <3>3 DEF DurableInv, AppliedInv, Changed
      <4>5. M # None /\ U # None
        BY <1>9, <2>1, <3>3
      <4> HIDE DEF M, D, E, U
      <4>6. /\ RunFine(U, D, E, receipts[id], acked, applied[id], disk.publications, id)
            /\ RunFine(U, M, E, receipts[id], acked, applied[id], disk.publications, id)
        BY <3>1, <4>1, <4>2, <4>3, <4>4, <4>5, UndoneFine
      <4> QED BY <2>2, <2>3, <3>3, <4>6 DEF M, D, E, U
    <3> QED BY <3>2, <3>3
  <2> QED BY <1>6, <2>2, <2>4
<1> QED BY <1>7, <1>8, <1>9

-----------------------------------------------------------------------------
(* The users.                                                              *)

LEMMA SavesKept ==
  ASSUME TypeOK, StartInv, DurableInv, NEW m, Saves(m),
         \A id \in Ids : Kept(mem.runs[id], m.runs[id])
  PROVE  DurableInv'
<1>1. call.undo = None /\ IsUp
  BY BetweenCalls DEF Saves
<1>2. SameSaved
  BY DEF SameSaved, Saves
<1>3. /\ UNCHANGED <<receipts, agent, acked>> /\ late' \subseteq late
      /\ call' = NoCall /\ todo' = <<"save">>
      /\ \A id \in Ids : Kept(mem.runs[id], mem'.runs[id])
  BY DEF Saves, Begins, agentVars
<1> QED BY <1>1, <1>2, <1>3, CallEndsKept

\* A queued run that is interrupted.
LEMMA InterruptedRun ==
  ASSUME NEW run \in Runs, run.state = "queued"
  PROVE  Kept(run, [run EXCEPT !.state = "interrupted"])
<1>1. /\ [run EXCEPT !.state = "interrupted"].state = "interrupted"
      /\ [run EXCEPT !.state = "interrupted"].merge = run.merge
      /\ [run EXCEPT !.state = "interrupted"].reports = run.reports
      /\ [run EXCEPT !.state = "interrupted"].offset = run.offset
      /\ [run EXCEPT !.state = "interrupted"].published = run.published
      /\ [run EXCEPT !.state = "interrupted"] \in Runs
  BY DEF Runs, Terminal
<1>2. run # None /\ [run EXCEPT !.state = "interrupted"] # None
  BY <1>1, NoneAssumption
<1> QED BY <1>1, <1>2 DEF Kept, Dequeued, Terminal

LEMMA UserKept ==
  ASSUME TypeOK, StartInv, DurableInv,
         Hide \/ Stop \/ Start \/ Edit \/ (\E id \in Ids : Cancel(id))
  PROVE  DurableInv'
<1>t. mem \in Sessions
  BY DEF TypeOK, ServerTypes
<1>1. CASE Hide
  <2> DEFINE m == [mem EXCEPT !.epoch = @ + 1, !.generation = @ + 1]
  <2>1. m.runs = mem.runs /\ Saves(m)
    BY <1>1, <1>t DEF Hide, Sessions
  <2> HIDE DEF m
  <2> QED BY <2>1, SavesKept, Unchanged
<1>2. CASE Stop
  <2> DEFINE Ended(id) == IF id \in Queued
                          THEN [mem.runs[id] EXCEPT !.state = "interrupted"] ELSE mem.runs[id]
             m == [mem EXCEPT !.open = FALSE, !.generation = @ + 1,
                     !.runs = [id \in Ids |-> Ended(id)]]
  <2>1. Saves(m) /\ \A id \in Ids : m.runs[id] = Ended(id)
    BY <1>2, <1>t DEF Stop, Sessions
  <2>2. \A id \in Ids : Kept(mem.runs[id], Ended(id))
    <3> TAKE id \in Ids
    <3>1. CASE id \in Queued
      <4>1. mem.runs[id] \in Runs /\ mem.runs[id].state = "queued"
        BY <3>1, <1>t DEF Queued, Known, Sessions
      <4> QED BY <4>1, <3>1, InterruptedRun
    <3>2. CASE id \notin Queued
      BY <3>2, Unchanged
    <3> QED BY <3>1, <3>2
  <2>3. \A id \in Ids : Kept(mem.runs[id], m.runs[id])
    BY <2>1, <2>2
  <2> HIDE DEF m, Ended
  <2> QED BY <2>1, <2>3, SavesKept
<1>3. CASE Start
  <2> DEFINE m == [mem EXCEPT !.open = TRUE]
  <2>1. m.runs = mem.runs /\ Saves(m)
    BY <1>3, <1>t DEF Start, Sessions
  <2> HIDE DEF m
  <2> QED BY <2>1, SavesKept, Unchanged
<1>4. CASE Edit
  <2>1. Idle /\ UNCHANGED <<mem, todo, call, late, agentVars, applied, acked>>
        /\ disk' = [disk EXCEPT !.file = [version |-> @.version + 1, by |-> 0]]
    BY <1>4 DEF Edit
  <2>2. call.undo = None /\ IsUp /\ Left(todo) = {}
    BY <2>1, BetweenCalls
  <2>3. SameSaved
    <3>1. disk \in Disks
      BY DEF TypeOK, ServerTypes
    <3> QED BY <2>1, <3>1 DEF SameSaved, Disks
  <2>4. /\ UNCHANGED <<receipts, agent, acked>> /\ late' \subseteq late
        /\ \A id \in Ids : Kept(mem.runs[id], mem'.runs[id])
    BY <2>1, Unchanged DEF agentVars
  <2>5. call'.undo = None /\ Left(todo') = {}
    BY <2>1, <2>2
  <2>6. call'.op = "report" => Tells(receipts[call'.id], call'.body)
    BY <2>1 DEF DurableInv, BodyInv
  <2>7. ReplyInv'
    BY <2>1 DEF ReplyInv, Idle
  <2> QED BY <2>2, <2>3, <2>4, <2>5, <2>6, <2>7, KeptAll
<1>5. CASE \E id \in Ids : Cancel(id)
  <2>1. PICK id \in Ids : Cancel(id)
    BY <1>5
  <2> DEFINE m == [mem EXCEPT !.runs[id].state = "interrupted"]
  <2>2. Saves(m) /\ id \in Queued
    BY <2>1 DEF Cancel
  <2>3. mem.runs[id] \in Runs /\ mem.runs[id].state = "queued"
    BY <2>2, <1>t DEF Queued, Known, Sessions
  <2>4. /\ m.runs[id] = [mem.runs[id] EXCEPT !.state = "interrupted"]
        /\ \A other \in Ids \ {id} : m.runs[other] = mem.runs[other]
    BY <1>t DEF Sessions
  <2>5. \A other \in Ids : Kept(mem.runs[other], m.runs[other])
    BY <2>3, <2>4, InterruptedRun, Unchanged
  <2> HIDE DEF m
  <2> QED BY <2>2, <2>5, SavesKept
<1> QED BY <1>1, <1>2, <1>3, <1>4, <1>5

LEMMA RenameKept ==
  ASSUME TypeOK, StartInv, DurableInv, NEW p \in Paths, Rename(p)
  PROVE  DurableInv'
<1>1. /\ Idle /\ UNCHANGED <<mem, disk, late, agentVars, applied, acked>>
      /\ call' = [NoCall EXCEPT !.path = p] /\ todo' = <<"rename", "save">>
  BY DEF Rename, Begins
<1>2. call.undo = None /\ IsUp
  BY <1>1, BetweenCalls
<1>3. SameSaved
  BY <1>1 DEF SameSaved
<1>4. /\ UNCHANGED <<receipts, agent, acked>> /\ late' \subseteq late
      /\ \A id \in Ids : Kept(mem.runs[id], mem'.runs[id])
  BY <1>1, Unchanged DEF agentVars
<1>5. call'.undo = None /\ call'.op = "none"
  BY <1>1 DEF NoCall
<1>6. IsList(<<"rename", "save">>, {"rename", "save"})
  BY Lists
<1>7. Left(todo') = {"rename", "save"}
  BY <1>1, <1>6 DEF IsList
<1> QED BY <1>2, <1>3, <1>4, <1>5, <1>7, KeptAll

-----------------------------------------------------------------------------
(* Kills and restarts: memory is read back from the disk.                  *)

LEMMA AgreeDown ==
  ASSUME NEW M, NEW D, NEW F, Agree(FALSE, TRUE, M, D, F)
  PROVE  Agree(TRUE, FALSE, D, D, F)
<1>1. /\ Sound(D) /\ Sound(F)
      /\ F # None => /\ Over(F)
                     /\ D = None \/ Over(D) \/ D.state = "queued"
                     /\ HasFinal(F) => D = None \/ Done(D)
  BY DEF Agree
<1>2. D # None /\ HasFinal(D) => D.state \in Terminal
  BY <1>1 DEF Sound, HasFinal
<1>3. D # None /\ Done(D) => Over(D)
  BY DEF Done
<1> QED BY <1>1, <1>2, <1>3 DEF Agree

\* N is what a restart makes of D.
LEMMA AgreeUp ==
  ASSUME NEW M, NEW D, NEW F, Agree(TRUE, FALSE, M, D, F), NEW N,
         \/ N = D /\ (D = None \/ D.state # "queued")
         \/ Dequeued(D, N) /\ N.state = "interrupted"
  PROVE  Agree(FALSE, FALSE, N, D, F)
<1>1. /\ Sound(D) /\ Sound(F)
      /\ F # None => /\ Over(F)
                     /\ D = None \/ Over(D) \/ D.state = "queued"
                     /\ HasFinal(F) => D = None \/ Done(D)
  BY DEF Agree
<1>2. D # None /\ HasFinal(D) => D.state \in Terminal
  BY <1>1 DEF Sound, HasFinal
<1>3. D # None /\ Done(D) => Over(D)
  BY DEF Done
<1>4. CASE N = D /\ (D = None \/ D.state # "queued")
  BY <1>1, <1>2, <1>3, <1>4 DEF Agree
<1>5. CASE Dequeued(D, N) /\ N.state = "interrupted"
  <2>1. /\ ~HasFinal(D) /\ ~HasFinal(N) /\ ~Over(D) /\ ~Done(D) /\ ~Done(N) /\ Sound(N)
    BY <1>1, <1>5, DequeuedRuns
  <2>2. D # None /\ N # None /\ D.state = "queued" /\ ~D.merge /\ ~N.merge
    BY <1>1, <1>5 DEF Dequeued, Sound
  <2>3. Over(N)
    BY <1>5, <2>2 DEF Over, Terminal
  <2> QED BY <1>1, <2>1, <2>2, <2>3 DEF Agree
<1> QED BY <1>4, <1>5

\* What is read back, N, of what was saved, D.
LEMMA ReadKept ==
  ASSUME TypeOK, DurableInv, UNCHANGED <<disk, late, receipts, agent, applied, acked>>,
         call'.undo = None, call'.op # "report", {"publish", "deliver"} \cap Left(todo') = {},
         \A id \in Ids : \/ mem'.runs[id] = disk.session.runs[id]
                         \/ Dequeued(disk.session.runs[id], mem'.runs[id]),
         \A id \in Ids : Agree(~IsUp', FALSE, mem'.runs[id], disk.session.runs[id], Final(id))
  PROVE  DurableInv'
<1>1. \A id \in Ids : /\ ~Changed(id)' /\ Final(id)' = Final(id)
                      /\ disk'.session.runs[id] = disk.session.runs[id]
  BY DEF Changed, Final
<1>2. \A id \in Ids :
        /\ Settled(disk.session.runs[id]) => Settled(mem'.runs[id])
        /\ mem'.runs[id] = None <=> disk.session.runs[id] = None
        /\ TellsAll(receipts[id], disk.session.runs[id]) => TellsAll(receipts[id], mem'.runs[id])
        /\ \A p, k : Remembers(p, disk.session.runs[id], id, k) => Remembers(p, mem'.runs[id], id, k)
  <2> TAKE id \in Ids
  <2>1. CASE mem'.runs[id] = disk.session.runs[id]
    BY <2>1
  <2>2. CASE Dequeued(disk.session.runs[id], mem'.runs[id])
    <3>1. Sound(disk.session.runs[id])
      BY DEF DurableInv, AgreeInv, Agree
    <3> QED BY <2>2, <3>1, DequeuedRuns DEF Dequeued
  <2> QED BY <2>1, <2>2
<1>3. AgreeInv'
  <2>1. \A id \in Ids : Agree(~IsUp, Changed(id), mem.runs[id], disk.session.runs[id], Final(id))'
    BY <1>1 DEF Agree
  <2> QED BY <2>1 DEF AgreeInv
<1>4. BodyInv'
  BY <1>1, <1>2 DEF DurableInv, BodyInv
<1>5. ReplyInv'
  BY DEF ReplyInv
<1>6. AckInv'
  BY <1>1, <1>2 DEF DurableInv, AckInv, TypeOK, GhostTypes
<1>7. AppliedInv'
  <2>1. \A id \in Ids, k \in Results :
          /\ applied'[id][k] \in {0, 1}
          /\ applied'[id][k] = 1 =>
               /\ disk'.executions[id] # None
               /\ Remembers(disk'.publications, mem'.runs[id], id, k)
               /\ Remembers(disk'.publications, disk'.session.runs[id], id, k)
    BY <1>2 DEF DurableInv, AppliedInv
  <2>2. disk'.notebook.version > 0
    BY DEF DurableInv, AppliedInv
  <2> QED BY <1>1, <2>1, <2>2 DEF AppliedInv
<1> QED BY <1>3, <1>4, <1>5, <1>6, <1>7 DEF DurableInv

LEMMA ServerKilledKept ==
  ASSUME TypeOK, StartInv, DurableInv, ServerKilled
  PROVE  DurableInv'
<1>1. /\ call' = NoCall /\ todo' = <<"down">> /\ mem' = disk.session
      /\ UNCHANGED <<disk, late, agentVars, applied, acked>>
  BY DEF ServerKilled, Begins
<1>2. IsUp
  BY DEF ServerKilled, IsUp, Ahead, Idle, Writes
<1>3. \A id \in Ids : Agree(~IsUp', FALSE, mem'.runs[id], disk.session.runs[id], Final(id))
  <2> TAKE id \in Ids
  <2>1. Agree(FALSE, TRUE, mem.runs[id], disk.session.runs[id], Final(id))
    BY <1>2, RunsAreFine DEF Result, Final
  <2>2. Agree(TRUE, FALSE, disk.session.runs[id], disk.session.runs[id], Final(id))
    BY <2>1, AgreeDown
  <2>3. ~IsUp'
    BY <1>1 DEF IsUp
  <2> QED BY <1>1, <2>2, <2>3 DEF Agree
<1>4. IsList(<<"down">>, {"down"})
  BY Lists
<1>5. Left(todo') = {"down"}
  BY <1>1, <1>4 DEF IsList
<1>6. call'.undo = None /\ call'.op # "report"
  BY <1>1 DEF NoCall
<1> QED BY <1>1, <1>3, <1>5, <1>6, ReadKept DEF agentVars

LEMMA BootKept ==
  ASSUME TypeOK, StartInv, DurableInv, Boot
  PROVE  DurableInv'
<1> DEFINE D(id) == disk.session.runs[id]
           Read(id) == IF id \in Known(disk.session.runs) /\ D(id).state = "queued"
                       THEN [D(id) EXCEPT !.state = "interrupted"] ELSE D(id)
<1>1. /\ call' = [NoCall EXCEPT !.op = "boot"] /\ todo' = <<"merges", "retain", "save">>
      /\ mem' = [disk.session EXCEPT !.runs = [id \in Ids |-> Read(id)]]
      /\ UNCHANGED <<disk, late, agentVars, applied, acked>> /\ ~IsUp
  BY DEF Boot, Begins
<1>t. disk.session \in Sessions
  BY DEF TypeOK, ServerTypes, Disks
<1>2. \A id \in Ids : mem'.runs[id] = Read(id)
  BY <1>1, <1>t DEF Sessions
<1>3. \A id \in Ids : \/ Read(id) = D(id) /\ (D(id) = None \/ D(id).state # "queued")
                      \/ Dequeued(D(id), Read(id)) /\ Read(id).state = "interrupted"
  <2> TAKE id \in Ids
  <2>1. CASE D(id) # None /\ D(id).state = "queued"
    <3>1. D(id) \in Runs
      BY <2>1, <1>t DEF Sessions
    <3>2. Read(id) = [D(id) EXCEPT !.state = "interrupted"]
      BY <2>1 DEF Known
    <3>3. /\ Read(id).state = "interrupted" /\ Read(id).merge = D(id).merge
          /\ Read(id).reports = D(id).reports /\ Read(id).offset = D(id).offset
          /\ Read(id).published = D(id).published /\ Read(id) \in Runs
      BY <3>1, <3>2 DEF Runs, Terminal
    <3>4. Read(id) # None
      BY <3>3, NoneAssumption
    <3> QED BY <2>1, <3>3, <3>4 DEF Dequeued, Terminal
  <2>2. CASE ~(D(id) # None /\ D(id).state = "queued")
    BY <2>2 DEF Known
  <2> QED BY <2>1, <2>2
<1>4. ~IsUp'= FALSE
  BY <1>1 DEF IsUp
<1>5. \A id \in Ids : Agree(~IsUp', FALSE, mem'.runs[id], disk.session.runs[id], Final(id))
  <2> TAKE id \in Ids
  <2>1. ~Changed(id)
    BY <1>1, StepUndo DEF Changed, IsUp, At, Ahead, Idle
  <2>2. Agree(TRUE, FALSE, mem.runs[id], D(id), Final(id))
    BY <1>1, <2>1 DEF DurableInv, AgreeInv, Agree
  <2>3. Agree(FALSE, FALSE, Read(id), D(id), Final(id))
    <3> HIDE DEF D, Read
    <3> QED BY <2>2, <1>3, AgreeUp
  <2> QED BY <1>2, <1>4, <2>3 DEF Agree
<1>6. IsList(<<"merges", "retain", "save">>, {"merges", "retain", "save"})
  BY Lists
<1>7. Left(todo') = {"merges", "retain", "save"}
  BY <1>1, <1>6 DEF IsList
<1>8. call'.undo = None /\ call'.op # "report"
  BY <1>1 DEF NoCall
<1>9. \A id \in Ids : \/ mem'.runs[id] = disk.session.runs[id]
                      \/ Dequeued(disk.session.runs[id], mem'.runs[id])
  BY <1>2, <1>3
<1> QED BY <1>1, <1>5, <1>7, <1>8, <1>9, ReadKept DEF agentVars

-----------------------------------------------------------------------------
(* The agent: a final report is made only when the command is over, so what *)
(* the receipt of a command that runs becomes contradicts no report.        *)

LEMMA ReceiptTold ==
  ASSUME TypeOK, StartInv, DurableInv, UNCHANGED <<mem, disk>>, late' \subseteq late,
         NEW id \in Ids, NEW r \in Receipts, receipts' = [receipts EXCEPT ![id] = r],
         \/ receipts[id] = None \/ receipts[id].state = "running"
         \/ r.state = receipts[id].state /\ r.events = receipts[id].events,
         Tells(r, r.pending),
         call'.undo # None => call'.undo = call.undo /\ call'.id = call.id,
         call'.op = "report" => call.op = "report" /\ call'.id = call.id /\ call'.body = call.body,
         agent'.stage \in {"prepared", "running"} => receipts'[agent'.active].state = "running"
  PROVE  BodyInv'
<1>1. /\ receipts'[id] = r /\ \A other \in Ids \ {id} : receipts'[other] = receipts[other]
  BY DEF TypeOK, AgentTypes
<1>2. \A other \in Ids : \A body : Tells(receipts[other], body) => Tells(receipts'[other], body)
  <2>1. r # None
    BY NoneAssumption
  <2>2. \A body : Tells(receipts[id], body) => Tells(r, body)
    BY <2>1 DEF Tells, Terminal
  <2> QED BY <1>1, <2>2
<1>3. \A other \in Ids : \A run : TellsAll(receipts[other], run) => TellsAll(receipts'[other], run)
  BY <1>2 DEF TellsAll
<1>4. \A other \in Ids : Final(other)' = Final(other)
  BY DEF Final
<1>5. \A other \in Ids :
        /\ receipts'[other] # None => Tells(receipts'[other], receipts'[other].pending)
        /\ TellsAll(receipts'[other], mem'.runs[other])
        /\ TellsAll(receipts'[other], disk'.session.runs[other])
        /\ TellsAll(receipts'[other], Final(other)')
  <2> TAKE other \in Ids
  <2>1. receipts'[other] # None => Tells(receipts'[other], receipts'[other].pending)
    BY <1>1 DEF DurableInv, BodyInv
  <2> QED BY <2>1, <1>3, <1>4 DEF DurableInv, BodyInv
<1>6. call'.op = "report" => Tells(receipts'[call'.id], call'.body)
  <2>1. call.op = "report" => call.id \in Ids /\ Tells(receipts[call.id], call.body)
    BY DEF DurableInv, BodyInv, StartInv, CallInv, CallsInv, ReportOf
  <2> QED BY <2>1, <1>2
<1>7. call'.undo # None => TellsAll(receipts'[call'.id], call'.undo)
  <2>1. call.undo # None => call.id \in Ids /\ TellsAll(receipts[call.id], call.undo)
    BY DEF DurableInv, BodyInv, StartInv, CallInv, UndoInv
  <2> QED BY <2>1, <1>3
<1>8. \A c \in late' : c.op = "report" => Tells(receipts'[c.id], c.body)
  BY <1>2 DEF DurableInv, BodyInv, StartInv, CallInv, CallsInv, ReportOf
<1> QED BY <1>5, <1>6, <1>7, <1>8 DEF BodyInv

\* The rest of the invariant is not about the agent.
LEMMA AgentKept ==
  ASSUME TypeOK, DurableInv, UNCHANGED <<mem, disk, todo, applied, acked>>, BodyInv',
         call' = call \/ call' = [call EXCEPT !.waiting = FALSE]
  PROVE  DurableInv'
<1>1. call'.undo = call.undo /\ call'.id = call.id /\ call'.op = call.op /\ call'.body = call.body
  BY DEF TypeOK, ServerTypes, Calls
<1>2. \A id \in Ids : Changed(id)' = Changed(id) /\ Final(id)' = Final(id)
  BY <1>1 DEF Changed, Final
<1>3. (IsUp <=> IsUp') /\ Left(todo)' = Left(todo)
  BY DEF IsUp, Left
<1>4. AgreeInv'
  <2>1. \A id \in Ids : Agree(~IsUp, Changed(id), mem.runs[id], disk.session.runs[id], Final(id))'
    BY <1>2, <1>3 DEF DurableInv, AgreeInv, Agree
  <2>2. Final(call.id)' = Final(call.id)
    BY <1>1 DEF Final
  <2> QED BY <1>1, <2>1, <2>2 DEF DurableInv, AgreeInv
<1>5. ReplyInv'
  <2>1. Final(call.id)' = Final(call.id)
    BY <1>1 DEF Final
  <2> QED BY <1>1, <1>3, <2>1 DEF DurableInv, ReplyInv
<1>6. AckInv'
  BY <1>2 DEF DurableInv, AckInv, TypeOK, GhostTypes
<1>7. AppliedInv'
  BY <1>1, <1>2, <1>3 DEF DurableInv, AppliedInv
<1> QED BY <1>4, <1>5, <1>6, <1>7 DEF DurableInv

LEMMA CommandKept ==
  ASSUME TypeOK, StartInv, DurableInv, Launch \/ NoKernel \/ Output \/ End \/ Prepare
  PROVE  DurableInv'
<1> DEFINE a == agent.active
           r == receipts[a]
<1>1. agent.stage # "free" /\ UNCHANGED <<mem, disk, todo, call, late, applied, acked>>
  BY DEF Launch, NoKernel, Output, End, Prepare, serverVars
<1>2. a \in Ids /\ r # None /\ r \in Receipts
  BY <1>1 DEF StartInv, CommandInv, TypeOK, AgentTypes
<1>3. Tells(r, r.pending)
  BY <1>2 DEF DurableInv, BodyInv
<1>4. agent.stage \in {"prepared", "running"} => r.state = "running"
  BY DEF DurableInv, BodyInv
<1>5. CASE Launch
  <2>1. receipts' = receipts /\ agent' = [agent EXCEPT !.stage = "running"]
        /\ agent.stage = "prepared"
    BY <1>5 DEF Launch
  <2>2. agent'.active = a
    BY <2>1 DEF TypeOK, AgentTypes
  <2>3. \A id \in Ids : Final(id)' = Final(id)
    BY <1>1 DEF Final
  <2>4. BodyInv'
    BY <1>1, <1>4, <2>1, <2>2, <2>3 DEF DurableInv, BodyInv
  <2> QED BY <1>1, <2>4, AgentKept
<1>6. CASE NoKernel \/ Output \/ End \/ Prepare
  <2>1. PICK n \in Receipts :
          /\ receipts' = [receipts EXCEPT ![a] = n]
          /\ r.state = "running" \/ (n.state = r.state /\ n.events = r.events)
          /\ Tells(n, n.pending)
          /\ \/ agent' = agent /\ n.state = r.state
             \/ agent'.stage = "over"
    <3>1. CASE NoKernel
      <4> DEFINE n == [r EXCEPT !.state = "failed"]
      <4>1. n \in Receipts /\ n.pending = r.pending
        BY <1>2 DEF Receipts, Terminal
      <4>2. receipts' = [receipts EXCEPT ![a] = n] /\ agent'.stage = "over"
            /\ r.state = "running"
        BY <3>1, <1>4 DEF NoKernel, TypeOK, AgentTypes
      <4>3. Tells(n, n.pending)
        BY <1>3, <4>1, <4>2 DEF Tells, Terminal
      <4> HIDE DEF n
      <4> QED BY <4>1, <4>2, <4>3
    <3>2. CASE Output
      <4> DEFINE n == [r EXCEPT !.events = @ + 1]
      <4>1. n \in Receipts /\ n.pending = r.pending /\ n.state = r.state
        BY <1>2 DEF Receipts
      <4>2. receipts' = [receipts EXCEPT ![a] = n] /\ agent' = agent /\ r.state = "running"
        BY <3>2, <1>4 DEF Output
      <4>3. Tells(n, n.pending)
        BY <1>3, <4>1, <4>2 DEF Tells, Terminal
      <4> HIDE DEF n
      <4> QED BY <4>1, <4>2, <4>3
    <3>3. CASE End
      <4>1. PICK s \in Terminal : receipts' = [receipts EXCEPT ![a].state = s]
        BY <3>3 DEF End
      <4> DEFINE n == [r EXCEPT !.state = s]
      <4>2. n \in Receipts /\ n.pending = r.pending
        BY <1>2 DEF Receipts
      <4>3. receipts' = [receipts EXCEPT ![a] = n] /\ agent'.stage = "over"
            /\ r.state = "running"
        BY <3>3, <4>1, <1>4 DEF End, TypeOK, AgentTypes
      <4>4. Tells(n, n.pending)
        BY <1>3, <4>2, <4>3 DEF Tells, Terminal
      <4> HIDE DEF n
      <4> QED BY <4>2, <4>3, <4>4
    <3>4. CASE Prepare
      <4> DEFINE b == [offset |-> r.offset, end |-> r.events, state |-> r.state]
                 n == [r EXCEPT !.pending = b]
      <4>1. b \in Bodies
        BY <1>2 DEF Receipts, Bodies
      <4>2. n \in Receipts /\ n.pending = b /\ n.state = r.state /\ n.events = r.events
        BY <1>2, <4>1 DEF Receipts
      <4>3. receipts' = [receipts EXCEPT ![a] = n] /\ agent' = agent
        BY <3>4 DEF Prepare, Active
      <4>4. n # None
        BY <4>2, NoneAssumption
      <4>5. Tells(n, n.pending)
        BY <4>2, <4>4 DEF Tells
      <4> HIDE DEF n, b
      <4> QED BY <4>2, <4>3, <4>5
    <3> QED BY <1>6, <3>1, <3>2, <3>3, <3>4
  <2>2. receipts'[a] = n
    BY <2>1, <1>2 DEF TypeOK, AgentTypes
  <2>3. agent'.stage \in {"prepared", "running"} => receipts'[agent'.active].state = "running"
    BY <2>1, <2>2, <1>4
  <2> HIDE DEF a, r
  <2>4. BodyInv'
    <3>1. \/ receipts[a].state = "running"
          \/ n.state = receipts[a].state /\ n.events = receipts[a].events
      BY <2>1 DEF r, a
    <3> QED BY <1>1, <1>2, <2>1, <2>3, <3>1, ReceiptTold
  <2> QED BY <1>1, <2>4, AgentKept
<1> QED BY <1>5, <1>6

-----------------------------------------------------------------------------
(* Replies, and calls that arrive or time out.                             *)

LEMMA RepliedKept ==
  ASSUME TypeOK, StartInv, DurableInv, todo = <<"reply">>, call' = NoCall, todo' = <<>>,
         UNCHANGED <<mem, disk, applied>>, BodyInv', AckInv'
  PROVE  DurableInv'
<1>1. At("reply")
  BY DEF At, Ahead, Idle
<1>2. call.undo = None /\ IsUp
  BY <1>1, StepUndo
<1>3. \A id \in Ids : ~Changed(id) /\ ~Changed(id)' /\ Final(id)' = Final(id)
  BY <1>2 DEF Changed, Final, NoCall
<1>4. IsUp' /\ Left(todo') = {}
  BY DEF IsUp, Left
<1>5. AgreeInv'
  <2>1. \A id \in Ids : Agree(~IsUp, Changed(id), mem.runs[id], disk.session.runs[id], Final(id))'
    BY <1>2, <1>3, <1>4 DEF DurableInv, AgreeInv, Agree
  <2> QED BY <2>1 DEF AgreeInv, NoCall
<1>6. ReplyInv'
  BY DEF ReplyInv
<1>7. AppliedInv'
  BY <1>3, <1>4 DEF DurableInv, AppliedInv
<1> QED BY <1>5, <1>6, <1>7 DEF DurableInv

\* The final report that is answered is in the archive, or in both records, and
\* the run is over there.
LEMMA AnsweredRun ==
  ASSUME TypeOK, StartInv, DurableInv, todo = <<"reply">>, call.op = "report",
         call.body.state # "running"
  PROVE  /\ call.id \in Ids
         /\ Settled(mem.runs[call.id]) /\ Settled(disk.session.runs[call.id])
         /\ mem.runs[call.id] = None \/ disk.session.runs[call.id] = None =>
              Final(call.id) # None /\ Done(Final(call.id))
<1> DEFINE M(id) == mem.runs[id]
           D(id) == disk.session.runs[id]
<1>1. call.id \in Ids /\ call.body \in Bodies
  BY DEF StartInv, CallInv, CallsInv, ReportOf
<1>2. call.body.state \in Terminal
  BY <1>1 DEF Bodies
<1>3. At("reply")
  BY DEF At, Ahead, Idle
<1>4. call.undo = None /\ IsUp
  BY <1>3, StepUndo
<1>5. Agree(FALSE, FALSE, M(call.id), D(call.id), Final(call.id))
  BY <1>1, <1>4 DEF DurableInv, AgreeInv, Changed, Agree
<1>6. IsList(<<"reply">>, {"reply"})
  BY Lists
<1>7. Left(todo) = {"reply"}
  BY <1>6 DEF IsList
<1>8. IF M(call.id) = None
      THEN Final(call.id) # None /\ call.body \in Final(call.id).reports
      ELSE call.body \in M(call.id).reports /\ ~M(call.id).merge
  BY <1>7 DEF DurableInv, ReplyInv
<1> HIDE DEF M, D
<1>9. /\ Settled(M(call.id)) /\ Settled(D(call.id))
      /\ M(call.id) = None \/ D(call.id) = None => Final(call.id) # None /\ Done(Final(call.id))
  <2>1. CASE M(call.id) = None
    <3>1. Final(call.id) # None /\ HasFinal(Final(call.id))
      BY <1>2, <1>8, <2>1 DEF HasFinal
    <3>2. Over(Final(call.id)) /\ (D(call.id) = None \/ Done(D(call.id)))
      BY <1>5, <3>1 DEF Agree
    <3> QED BY <2>1, <3>1, <3>2 DEF Settled, Done
  <2>2. CASE M(call.id) # None
    <3>1. HasFinal(M(call.id)) /\ ~M(call.id).merge
      BY <1>2, <1>8, <2>2 DEF HasFinal
    <3>2. Sound(M(call.id))
      BY <1>5 DEF Agree
    <3>3. Over(M(call.id))
      BY <3>1, <3>2, <2>2 DEF Sound, HasFinal, Over
    <3>4. Done(M(call.id))
      BY <3>1, <3>3 DEF Done
    <3>5. D(call.id) # None /\ HasFinal(D(call.id)) /\ Over(D(call.id))
      BY <1>5, <2>2, <3>1, <3>4 DEF Agree
    <3> QED BY <2>2, <3>4, <3>5 DEF Settled, Done
  <2> QED BY <2>1, <2>2
<1> QED BY <1>1, <1>9 DEF M, D

LEMMA AcknowledgedKept ==
  ASSUME TypeOK, StartInv, DurableInv, Reply, call.op = "report", Acknowledged
  PROVE  DurableInv'
<1> DEFINE r == receipts[call.id]
           n == [r EXCEPT !.offset = call.body.end, !.pending = None]
<1>1. /\ call' = NoCall /\ todo' = <<>> /\ todo = <<"reply">>
      /\ UNCHANGED <<mem, disk, late, used, launches, applied>>
  BY DEF Reply, Begins
<1>2. call.id \in Ids /\ r # None /\ call.body \in Bodies
  BY DEF StartInv, CallInv, CallsInv, ReportOf
<1>3. r \in Receipts /\ call.body.end \in Nat
  BY <1>2 DEF TypeOK, AgentTypes, Bodies
<1>4. n \in Receipts /\ n.state = r.state /\ n.events = r.events /\ n.pending = None
  BY <1>3 DEF Receipts
<1>5. /\ receipts' = [receipts EXCEPT ![call.id].offset = call.body.end, ![call.id].pending = None]
      /\ agent' = [stage |-> "free", active |-> 0] \/ agent' = agent
      /\ acked' = acked \/ (acked' = acked \cup {call.id} /\ call.body.state # "running")
  BY DEF Acknowledged
<1>6. receipts' = [receipts EXCEPT ![call.id] = n]
  BY <1>2, <1>3, <1>5 DEF TypeOK, AgentTypes, Receipts
<1>7. Tells(n, n.pending)
  BY <1>4 DEF Tells
<1>8. receipts'[call.id] = n /\ \A other \in Ids \ {call.id} : receipts'[other] = receipts[other]
  BY <1>2, <1>6 DEF TypeOK, AgentTypes
<1>9. agent'.stage \in {"prepared", "running"} => receipts'[agent'.active].state = "running"
  <2>1. CASE agent' = agent /\ agent.stage \in {"prepared", "running"}
    <3>1. agent.active \in Ids /\ receipts[agent.active].state = "running"
      BY <2>1 DEF DurableInv, BodyInv, StartInv, CommandInv
    <3> QED BY <1>4, <1>8, <2>1, <3>1
  <2> QED BY <1>5, <2>1
<1>10. call'.undo = None /\ call'.op # "report"
  BY <1>1 DEF NoCall
<1> HIDE DEF n
<1>11. BodyInv'
  <2>1. n.state = receipts[call.id].state /\ n.events = receipts[call.id].events
    BY <1>4
  <2> HIDE DEF r
  <2> QED BY <1>1, <1>2, <1>4, <1>6, <1>7, <1>9, <1>10, <2>1, ReceiptTold
<1>12. AckInv'
  <2>1. \A id \in Ids : ~Changed(id)' /\ Final(id)' = Final(id)
    BY <1>1, <1>10 DEF Changed, Final
  <2>2. \A id \in acked' :
          /\ Settled(mem.runs[id]) /\ Settled(disk.session.runs[id])
          /\ mem.runs[id] = None \/ disk.session.runs[id] = None =>
               Final(id) # None /\ Done(Final(id))
    BY <1>1, <1>5, AnsweredRun DEF DurableInv, AckInv
  <2>3. acked' \subseteq Ids
    BY <1>2, <1>5 DEF TypeOK, GhostTypes
  <2> QED BY <1>1, <2>1, <2>2, <2>3 DEF AckInv
<1> QED BY <1>1, <1>11, <1>12, RepliedKept

\* A command that is accepted has no receipt yet, or ran before.
LEMMA AcceptsKept ==
  ASSUME TypeOK, StartInv, DurableInv, Reply, call.op \in {"claim", "recover"}, Accepts,
         UNCHANGED acked
  PROVE  DurableInv'
<1> DEFINE known == receipts[call.id] # None
           fresh == [state |-> "running", events |-> 0, offset |-> 0, pending |-> None]
           given == IF known THEN receipts[call.id] ELSE fresh
           over == known \/ call.op = "recover"
           run == IF over /\ given.state = "running"
                  THEN [given EXCEPT !.state = "interrupted"] ELSE given
<1>1. /\ call' = NoCall /\ todo' = <<>> /\ todo = <<"reply">>
      /\ UNCHANGED <<mem, disk, late, used, launches, applied>>
  BY DEF Reply, Begins
<1>2. call.id \in Ids
  BY <1>1, IdsNat, Lists DEF StartInv, CallInv, PlanInv
<1>3. receipts' = [receipts EXCEPT ![call.id] = run]
      /\ agent' = [stage |-> IF over THEN "over" ELSE "prepared", active |-> call.id]
  BY DEF Accepts
<1>4. given \in Receipts
  BY <1>2 DEF TypeOK, AgentTypes, Receipts
<1>5. Tells(given, given.pending)
  <2>1. CASE known
    BY <1>2, <2>1 DEF DurableInv, BodyInv
  <2>2. CASE ~known
    <3>1. fresh.pending = None /\ given = fresh
      BY <2>2
    <3> QED BY <3>1 DEF Tells
  <2> QED BY <2>1, <2>2
<1>6. /\ ~known => given.state = "running"
      /\ known => given = receipts[call.id]
  OBVIOUS
<1> HIDE DEF given
<1>7. run \in Receipts /\ run.events = given.events /\ run.pending = given.pending
      /\ (given.state # "running" => run.state = given.state)
      /\ (~over => run.state = given.state)
  BY <1>4 DEF Receipts, Terminal
<1>8. Tells(run, run.pending)
  <2>1. run # None
    BY <1>7, NoneAssumption
  <2> QED BY <1>5, <1>7, <2>1 DEF Tells, Terminal
<1> HIDE DEF run
<1>9. \/ receipts[call.id] = None \/ receipts[call.id].state = "running"
      \/ run.state = receipts[call.id].state /\ run.events = receipts[call.id].events
  BY <1>6, <1>7
<1>10. agent'.stage \in {"prepared", "running"} => receipts'[agent'.active].state = "running"
  <2>1. CASE over
    BY <1>3, <2>1
  <2>2. CASE ~over
    <3>1. receipts'[call.id] = run
      BY <1>2, <1>3 DEF TypeOK, AgentTypes
    <3> QED BY <1>3, <1>6, <1>7, <2>2, <3>1
  <2> QED BY <2>1, <2>2
<1>11. call'.undo = None /\ call'.op # "report"
  BY <1>1 DEF NoCall
<1>12. BodyInv'
  BY <1>1, <1>2, <1>3, <1>7, <1>8, <1>9, <1>10, <1>11, ReceiptTold
<1>13. AckInv'
  <2>1. \A id \in Ids : ~Changed(id)' /\ Final(id)' = Final(id)
    BY <1>1, <1>11 DEF Changed, Final
  <2> QED BY <1>1, <2>1 DEF DurableInv, AckInv, TypeOK, GhostTypes
<1> QED BY <1>1, <1>12, <1>13, RepliedKept

LEMMA ReplyKept ==
  ASSUME TypeOK, StartInv, DurableInv, Reply
  PROVE  DurableInv'
<1>1. CASE UNCHANGED <<agent, receipts, acked>>
  <2>1. /\ call' = NoCall /\ todo' = <<>> /\ todo = <<"reply">>
        /\ UNCHANGED <<mem, disk, late, applied>>
    BY DEF Reply, Begins
  <2>2. \A id \in Ids : ~Changed(id)' /\ Final(id)' = Final(id)
    BY <2>1 DEF Changed, Final, NoCall
  <2>3. BodyInv'
    BY <1>1, <2>1, <2>2 DEF DurableInv, BodyInv, NoCall
  <2>4. AckInv'
    BY <1>1, <2>1, <2>2 DEF DurableInv, AckInv, TypeOK, GhostTypes
  <2> QED BY <2>1, <2>3, <2>4, RepliedKept
<1>2. CASE call.op = "report" /\ Acknowledged
  BY <1>2, AcknowledgedKept
<1>3. CASE call.op \in {"claim", "recover"} /\ Accepts /\ UNCHANGED acked
  BY <1>3, AcceptsKept
<1> QED BY <1>1, <1>2, <1>3 DEF Reply

LEMMA CallsKept ==
  ASSUME TypeOK, StartInv, DurableInv, Claim \/ Send \/ (\E c \in late : Arrive(c))
  PROVE  DurableInv'
<1>1. CASE Claim
  <2>1. /\ HandleClaim(ClaimCall) /\ Idle
        /\ UNCHANGED <<mem, disk, late, agentVars, used, applied, acked>>
    BY <1>1 DEF Claim
  <2> QED BY <2>1, ClaimCallTypes, ClaimKept
<1>2. CASE Send
  <2>1. /\ HandleReport(ReportCall) /\ UNCHANGED <<mem, disk, late, agentVars, used, applied, acked>>
        /\ agent.stage # "free" /\ Active.pending # None /\ Idle
    BY <1>2 DEF Send
  <2>2. agent.active \in Ids /\ receipts[agent.active] # None
    BY <2>1 DEF StartInv, CommandInv
  <2>3. Tells(receipts[agent.active], Active.pending)
    BY <2>2 DEF DurableInv, BodyInv, Active
  <2>4. ReportCall \in Calls /\ ReportCall.op = "report" /\ ReportCall.undo = None
        /\ ReportCall.id \in Ids /\ Tells(receipts[ReportCall.id], ReportCall.body)
    BY <2>1, <2>2, <2>3, ReportCallTypes
  <2> QED BY <2>1, <2>4, ReportKept
<1>3. ASSUME NEW c \in late, Arrive(c) PROVE DurableInv'
  <2>1. /\ UNCHANGED <<mem, disk, agentVars, used, applied, acked>> /\ late' \subseteq late
        /\ Idle /\ IF c.op = "claim" THEN HandleClaim(c) ELSE HandleReport(c)
    BY <1>3 DEF Arrive
  <2>2. c \in Calls /\ c.op \in {"claim", "report"} /\ c.undo = None
        /\ (c.op = "report" => c.id \in Ids)
    BY DEF TypeOK, ServerTypes, StartInv, CallInv, CallsInv, ReportOf
  <2>3. CASE c.op = "claim"
    BY <2>1, <2>2, <2>3, ClaimKept
  <2>4. CASE c.op = "report"
    <3>1. Tells(receipts[c.id], c.body)
      BY <2>4 DEF DurableInv, BodyInv
    <3> QED BY <2>1, <2>2, <2>4, <3>1, ReportKept
  <2> QED BY <2>2, <2>3, <2>4
<1> QED BY <1>1, <1>2, <1>3

LEMMA LostKept ==
  ASSUME TypeOK, StartInv, DurableInv, TimesOut \/ AgentRestarts
  PROVE  DurableInv'
<1>1. /\ UNCHANGED <<mem, disk, todo, receipts, launches, applied, acked>>
      /\ call' = call \/ call' = [call EXCEPT !.waiting = FALSE]
  BY DEF TimesOut, AgentRestarts, agentVars
<1>2. call'.undo = call.undo /\ call'.id = call.id /\ call'.op = call.op /\ call'.body = call.body
  BY <1>1 DEF TypeOK, ServerTypes, Calls
<1>3. agent' = agent \/ agent'.stage = "free"
  BY DEF TimesOut, AgentRestarts, agentVars
<1>4. \A c \in late' : c.op = "report" => Tells(receipts[c.id], c.body)
  <2>1. \/ late' = late \/ late' = late \cup {[ClaimCall EXCEPT !.waiting = FALSE]}
        \/ /\ late' = late \cup {[ReportCall EXCEPT !.waiting = FALSE]}
           /\ agent.stage # "free" /\ Active.pending # None
    BY DEF TimesOut, AgentRestarts
  <2>2. [ClaimCall EXCEPT !.waiting = FALSE].op # "report"
    BY ClaimCallTypes
  <2>3. agent.stage # "free" /\ Active.pending # None =>
          Tells(receipts[[ReportCall EXCEPT !.waiting = FALSE].id],
                [ReportCall EXCEPT !.waiting = FALSE].body)
    <3>1. agent.stage # "free" =>
            agent.active \in Ids /\ Tells(receipts[agent.active], Active.pending)
      BY DEF StartInv, CommandInv, DurableInv, BodyInv, Active
    <3> QED BY <3>1, ReportCallTypes
  <2>4. \A c \in late : c.op = "report" => Tells(receipts[c.id], c.body)
    BY DEF DurableInv, BodyInv
  <2> QED BY <2>1, <2>2, <2>3, <2>4
<1>5. \A id \in Ids : Final(id)' = Final(id)
  BY <1>1 DEF Final
<1>6. BodyInv'
  BY <1>1, <1>2, <1>3, <1>4, <1>5 DEF DurableInv, BodyInv
<1> QED BY <1>1, <1>6, AgentKept

-----------------------------------------------------------------------------
(* Every behaviour.                                                        *)

LEMMA NothingTold ==
  ASSUME Init
  PROVE  DurableInv
<1>1. /\ todo = <<>> /\ call = NoCall /\ late = {} /\ acked = {}
      /\ agent.stage = "free" /\ receipts = [id \in Ids |-> None]
      /\ applied = [id \in Ids |-> [k \in Results |-> 0]]
      /\ disk.notebook.version = 1
  BY DEF Init
<1>2. \A id \in Ids : /\ mem.runs[id] = None /\ disk.session.runs[id] = None
                      /\ disk.executions[id] = None
  BY DEF Init
<1>3. call.undo = None /\ call.op = "none" /\ IsUp /\ Left(todo) = {}
  BY <1>1 DEF NoCall, IsUp, Left
<1>4. \A id \in Ids : ~Changed(id) /\ Final(id) = None
  BY <1>2, <1>3 DEF Changed, Final
<1>5. AgreeInv
  BY <1>2, <1>3, <1>4 DEF AgreeInv, Agree, Sound
<1>6. BodyInv
  BY <1>1, <1>2, <1>3, <1>4 DEF BodyInv, TellsAll
<1>7. ReplyInv /\ AckInv
  BY <1>1, <1>3 DEF ReplyInv, AckInv
<1>8. AppliedInv
  BY <1>1, <1>2, <1>3 DEF AppliedInv
<1> QED BY <1>5, <1>6, <1>7, <1>8 DEF DurableInv

LEMMA StutterKept ==
  ASSUME DurableInv, UNCHANGED vars
  PROVE  DurableInv'
<1>1. /\ mem' = mem /\ disk' = disk /\ todo' = todo /\ call' = call /\ late' = late /\ agent' = agent
      /\ receipts' = receipts /\ applied' = applied /\ acked' = acked
  BY DEF vars, serverVars, agentVars
<1>2. AgreeInv'
  BY <1>1 DEF DurableInv, AgreeInv, Agree, IsUp, Changed, Final
<1>3. BodyInv' /\ ReplyInv'
  BY <1>1 DEF DurableInv, BodyInv, ReplyInv, Final, Left
<1>4. AckInv' /\ AppliedInv'
  BY <1>1 DEF DurableInv, AckInv, AppliedInv, Changed, Final, Left
<1> QED BY <1>2, <1>3, <1>4 DEF DurableInv

LEMMA EveryStepKept ==
  ASSUME TypeOK, StartInv, DurableInv, Next
  PROVE  DurableInv'
<1>1. CASE UserCalls
  BY <1>1, ExecuteKept, UserKept, RenameKept DEF UserCalls
<1>2. CASE Steps
  BY <1>2, WriteKept, TrimOneKept, TrimEndsKept, AdmitKept, ScanKept, ApplyKept, MergeKept, FilesKept,
     FinishKept, RetainKept, ReplyKept, BootMergesKept DEF Steps
<1>3. CASE AgentSteps \/ Output
  BY <1>3, CommandKept, CallsKept DEF AgentSteps
<1>4. CASE Failures
  BY <1>4, WriteFailsKept, LostKept, ServerKilledKept DEF Failures
<1>5. CASE Boot \/ \E c \in late : Arrive(c)
  BY <1>5, BootKept, CallsKept
<1> QED BY <1>1, <1>2, <1>3, <1>4, <1>5 DEF Next

\* The record in memory, the record on the disk, the archive and what was
\* published say the same of every run, but for a change that is being saved;
\* a final report tells the whole command, and what was acknowledged is over in
\* every copy.
THEOREM DurableInductive == Spec => [](TypeOK /\ StartInv /\ DurableInv)
<1>1. Init => TypeOK /\ StartInv /\ DurableInv
  BY StartsSound, NothingTold
<1>2. TypeOK /\ StartInv /\ DurableInv /\ [Next]_vars => (TypeOK /\ StartInv /\ DurableInv)'
  BY EveryStep, Stutter, EveryStepKept, StutterKept
<1> QED BY <1>1, <1>2, PTL DEF Spec

\* persistentServer.ts finishResultMerge: however often a merge fails, is cut
\* short and is repeated, a run's outputs and its file are written to the
\* project at most once.
THEOREM WrittenOnce == Spec => []AppliedOnce
<1>1. DurableInv => AppliedOnce
  BY DEF DurableInv, AppliedInv, AppliedOnce
<1> QED BY <1>1, DurableInductive, PTL

\* persistentServer.ts report: what the agent was told to forget, and what a
\* lookup says is over, is on the server's disk.
THEOREM ToldForGood == Spec => []ToldIsDurable
<1>1. ASSUME TypeOK, StartInv, DurableInv PROVE ToldIsDurable
  <2> DEFINE D(id) == disk.session.runs[id]
  <2>1. ASSUME NEW id \in acked
        PROVE  LET run == IF D(id) # None THEN D(id) ELSE disk.executions[id].final
               IN /\ run # None /\ run.state \in Terminal /\ ~run.merge
                  /\ run.offset = receipts[id].events
    <3> DEFINE run == IF D(id) # None THEN D(id) ELSE disk.executions[id].final
    <3>1. id \in Ids
      BY <1>1 DEF TypeOK, GhostTypes
    <3>2. Sound(D(id)) /\ Sound(Final(id))
      BY <1>1, <3>1 DEF DurableInv, AgreeInv, Agree
    <3>3. TellsAll(receipts[id], D(id)) /\ TellsAll(receipts[id], Final(id))
      BY <1>1, <3>1 DEF DurableInv, BodyInv
    <3>4. run # None /\ Done(run) /\ Sound(run) /\ TellsAll(receipts[id], run)
      <4>1. CASE D(id) # None
        BY <1>1, <3>2, <3>3, <4>1 DEF DurableInv, AckInv, Settled
      <4>2. CASE D(id) = None
        <5>1. Final(id) # None /\ Done(Final(id))
          BY <1>1, <4>2 DEF DurableInv, AckInv
        <5>2. run = Final(id)
          BY <4>2, <5>1 DEF Final
        <5> QED BY <3>2, <3>3, <5>1, <5>2
      <4> QED BY <4>1, <4>2
    <3> HIDE DEF run
    <3>5. PICK body \in run.reports : body.state \in Terminal
      BY <3>4 DEF Done, HasFinal
    <3>6. body # None /\ run.offset = body.end
      <4>1. Tells(receipts[id], body)
        BY <3>4, <3>5 DEF TellsAll
      <4>2. run \in Runs
        <5>1. D(id) \in Runs \cup {None} /\ (Final(id) \in Runs \cup {None})
          BY <1>1, <3>1 DEF TypeOK, ServerTypes, Disks, Sessions, Records, Final
        <5>2. run = D(id) \/ (run = disk.executions[id].final /\ D(id) = None)
          BY DEF run
        <5>3. D(id) = None => run = Final(id)
          BY <1>1, <5>2 DEF DurableInv, AckInv, Final, run
        <5> QED BY <3>4, <5>1, <5>2, <5>3
      <4>3. body \in Bodies
        BY <3>5, <4>2 DEF Runs
      <4> QED BY <3>4, <3>5, <4>3, NoneAssumption DEF Sound
    <3>7. body.end = receipts[id].events
      BY <3>4, <3>5, <3>6 DEF TellsAll, Tells
    <3>8. run.state \in Terminal /\ ~run.merge
      BY <3>4 DEF Done, Over
    <3> QED BY <3>4, <3>6, <3>7, <3>8 DEF run
  <2>2. ASSUME Idle, NEW id \in Known(mem.runs), mem.runs[id].state \in Terminal
        PROVE  D(id) = None \/ D(id).state # "running"
    <3>1. id \in Ids /\ ~Changed(id)
      BY <1>1, <2>2, BetweenCalls DEF Known, Changed
    <3> QED BY <1>1, <2>2, <3>1 DEF DurableInv, AgreeInv, Agree, Terminal
  <2> QED BY <2>1, <2>2 DEF ToldIsDurable
<1>2. TypeOK /\ StartInv /\ DurableInv => ToldIsDurable
  BY <1>1
<1> QED BY <1>2, DurableInductive, PTL

=============================================================================
