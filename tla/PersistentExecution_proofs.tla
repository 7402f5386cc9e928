--------------------- MODULE PersistentExecution_proofs ---------------------
(***************************************************************************)
(* The code of a request is started at most once, for every number of      *)
(* requests, runs and events and over any number of kills and failures.    *)
(***************************************************************************)
EXTENDS PersistentExecution, TLAPS, SequenceTheorems, FiniteSetTheorems

-----------------------------------------------------------------------------
(* The steps of a call.                                                    *)

LEMMA LeftTail ==
  ASSUME NEW s \in Seq(Plan), s # <<>>
  PROVE  /\ Tail(s) \in Seq(Plan) /\ Head(s) \in Plan
         /\ Left(s) = {Head(s)} \cup Left(Tail(s))
<1>1. /\ Tail(s) \in Seq(Plan) /\ Head(s) \in Plan /\ Head(s) = s[1]
      /\ Len(s) \in Nat /\ Len(s) > 0 /\ Len(Tail(s)) = Len(s) - 1
      /\ \A i \in 1..Len(Tail(s)) : Tail(s)[i] = s[i + 1]
      /\ DOMAIN s = 1..Len(s) /\ DOMAIN Tail(s) = 1..Len(Tail(s))
  OBVIOUS
<1>2. Left(Tail(s)) \subseteq Left(s) /\ Head(s) \in Left(s)
  BY <1>1 DEF Left
<1>3. ASSUME NEW i \in DOMAIN s PROVE s[i] \in {Head(s)} \cup Left(Tail(s))
  <2>1. CASE i = 1
    BY <1>1, <2>1
  <2>2. CASE i # 1
    <3>1. i - 1 \in DOMAIN Tail(s) /\ Tail(s)[i - 1] = s[i]
      BY <1>1, <2>2
    <3> QED BY <3>1 DEF Left
  <2> QED BY <2>1, <2>2
<1> QED BY <1>1, <1>2, <1>3 DEF Left

LEMMA StraightTail ==
  ASSUME NEW s \in Seq(Plan), s # <<>>, Straight(s)
  PROVE  /\ Straight(Tail(s)) /\ "archive" \notin Left(Tail(s))
         /\ Barred(Head(s)) \cap Left(Tail(s)) = {}
         /\ Head(s) \in {"merges", "merge", "finish"} => Left(Tail(s)) \cap MergeSteps = {}
<1>1. /\ Head(s) = s[1]
      /\ Len(s) \in Nat /\ Len(s) > 0 /\ Len(Tail(s)) = Len(s) - 1
      /\ \A i \in 1..Len(Tail(s)) : Tail(s)[i] = s[i + 1]
      /\ DOMAIN s = 1..Len(s) /\ DOMAIN Tail(s) = 1..Len(Tail(s))
  OBVIOUS
<1>2. Straight(Tail(s))
  BY <1>1 DEF Straight
<1>3. ASSUME NEW i \in DOMAIN Tail(s)
      PROVE  Tail(s)[i] \notin Barred(Head(s))
  <2>1. 1 \in DOMAIN s /\ i + 1 \in DOMAIN s /\ 1 < i + 1 /\ Tail(s)[i] = s[i + 1]
    BY <1>1
  <2> QED BY <1>1, <2>1 DEF Straight
<1>4. /\ "archive" \in Barred(Head(s))
      /\ Head(s) \in {"merges", "merge", "finish"} => MergeSteps \subseteq Barred(Head(s))
  BY DEF Barred
<1>5. Barred(Head(s)) \cap Left(Tail(s)) = {}
  BY <1>3 DEF Left
<1>6. Head(s) \in {"merges", "merge", "finish"} => Left(Tail(s)) \cap MergeSteps = {}
  BY <1>4, <1>5
<1> QED BY <1>2, <1>4, <1>5, <1>6

LEMMA LeftConcat ==
  ASSUME NEW s \in Seq(Plan), NEW t \in Seq(Plan)
  PROVE  s \o t \in Seq(Plan) /\ Left(s \o t) = Left(s) \cup Left(t)
<1>1. /\ s \o t \in Seq(Plan) /\ Len(s \o t) = Len(s) + Len(t)
      /\ \A i \in 1..Len(s) + Len(t) : (s \o t)[i] = IF i <= Len(s) THEN s[i] ELSE t[i - Len(s)]
      /\ Len(s) \in Nat /\ Len(t) \in Nat
      /\ DOMAIN s = 1..Len(s) /\ DOMAIN t = 1..Len(t) /\ DOMAIN (s \o t) = 1..Len(s) + Len(t)
  BY ConcatProperties
<1> HIDE DEF Plan
<1>2. ASSUME NEW i \in DOMAIN s PROVE s[i] \in Left(s \o t)
  <2>1. i \in DOMAIN (s \o t) /\ (s \o t)[i] = s[i]
    BY <1>1
  <2> QED BY <2>1 DEF Left
<1>3. ASSUME NEW i \in DOMAIN t PROVE t[i] \in Left(s \o t)
  <2>1. i + Len(s) \in DOMAIN (s \o t) /\ (s \o t)[i + Len(s)] = t[i]
    BY <1>1
  <2> QED BY <2>1 DEF Left
<1>4. ASSUME NEW i \in DOMAIN (s \o t) PROVE (s \o t)[i] \in Left(s) \cup Left(t)
  <2>1. (i \in DOMAIN s /\ (s \o t)[i] = s[i])
        \/ (i - Len(s) \in DOMAIN t /\ (s \o t)[i] = t[i - Len(s)])
    BY <1>1
  <2> QED BY <2>1 DEF Left
<1> QED BY <1>1, <1>2, <1>3, <1>4 DEF Left

LEMMA StraightConcat ==
  ASSUME NEW s \in Seq(Plan), NEW t \in Seq(Plan), Straight(s), Straight(t),
         \A step \in Left(s) : Barred(step) \cap Left(t) = {}
  PROVE  Straight(s \o t)
<1>1. /\ Len(s \o t) = Len(s) + Len(t)
      /\ \A i \in 1..Len(s) + Len(t) : (s \o t)[i] = IF i <= Len(s) THEN s[i] ELSE t[i - Len(s)]
      /\ Len(s) \in Nat /\ Len(t) \in Nat
      /\ DOMAIN s = 1..Len(s) /\ DOMAIN t = 1..Len(t) /\ DOMAIN (s \o t) = 1..Len(s) + Len(t)
  BY ConcatProperties
<1> SUFFICES ASSUME NEW i \in DOMAIN (s \o t), NEW j \in DOMAIN (s \o t), i < j
             PROVE  (s \o t)[j] \notin Barred((s \o t)[i])
  BY DEF Straight
<1>2. CASE j <= Len(s)
  <2>1. i \in DOMAIN s /\ j \in DOMAIN s /\ (s \o t)[i] = s[i] /\ (s \o t)[j] = s[j]
    BY <1>1, <1>2
  <2> QED BY <2>1 DEF Straight
<1>3. CASE i <= Len(s) /\ ~(j <= Len(s))
  <2>1. i \in DOMAIN s /\ j - Len(s) \in DOMAIN t
        /\ (s \o t)[i] = s[i] /\ (s \o t)[j] = t[j - Len(s)]
    BY <1>1, <1>3
  <2>2. s[i] \in Left(s) /\ t[j - Len(s)] \in Left(t)
    BY <2>1 DEF Left
  <2> QED BY <2>1, <2>2
<1>4. CASE ~(i <= Len(s))
  <2>1. i - Len(s) \in DOMAIN t /\ j - Len(s) \in DOMAIN t /\ i - Len(s) < j - Len(s)
        /\ (s \o t)[i] = t[i - Len(s)] /\ (s \o t)[j] = t[j - Len(s)]
    BY <1>1, <1>4
  <2> QED BY <2>1 DEF Straight
<1> QED BY <1>1, <1>2, <1>3, <1>4

\* What may come before the rest of a call.
LEMMA Following ==
  ASSUME NEW left, NEW rest, "archive" \notin rest,
         \/ left \cap MergeSteps = {} /\ "merges" \notin left
         \/ rest \cap MergeSteps = {}
         \/ left \subseteq {"deliver"} /\ Barred("files") \cap rest = {}
  PROVE  \A step \in left : Barred(step) \cap rest = {}
BY DEF Barred, MergeSteps

\* The lists of steps that the calls are made of.
IsList(steps, left) == steps \in Seq(Plan) /\ Left(steps) = left /\ Straight(steps)

LEMMA Lists ==
  /\ IsList(<<>>, {})
  /\ IsList(<<"down">>, {"down"})
  /\ IsList(<<"save">>, {"save"})
  /\ IsList(<<"reply">>, {"reply"})
  /\ IsList(<<"scan">>, {"scan"})
  /\ IsList(<<"finish">>, {"finish"})
  /\ IsList(<<"deliver">>, {"deliver"})
  /\ IsList(<<"merge">>, {"merge"})
  /\ IsList(<<"rename", "save">>, {"rename", "save"})
  /\ IsList(<<"trim", "admit">>, {"trim", "admit"})
  /\ IsList(<<"save", "reply">>, {"save", "reply"})
  /\ IsList(<<"save", "scan">>, {"save", "scan"})
  /\ IsList(<<"trim", "apply">>, {"trim", "apply"})
  /\ IsList(<<"merge", "reply">>, {"merge", "reply"})
  /\ IsList(<<"files", "finish">>, {"files", "finish"})
  /\ IsList(<<"save", "retain">>, {"save", "retain"})
  /\ IsList(<<"archive", "save", "unlink">>, {"archive", "save", "unlink"})
  /\ IsList(<<"register", "save", "reply">>, {"register", "save", "reply"})
  /\ IsList(<<"trim", "results", "apply">>, {"trim", "results", "apply"})
  /\ IsList(<<"merges", "retain", "save">>, {"merges", "retain", "save"})
  /\ IsList(<<"reserve", "register", "save", "reply">>, {"reserve", "register", "save", "reply"})
  /\ IsList(<<"save", "trim", "save", "reply">>, {"save", "trim", "reply"})
  /\ IsList(<<"save", "publish", "files", "finish">>, {"save", "publish", "files", "finish"})
  /\ IsList(<<"save", "merge", "trim", "save", "reply">>, {"save", "merge", "trim", "reply"})
<1>1. IsList(<<>>, {})
  BY DEF IsList, Left, Straight, Barred, Plan, MergeSteps, TrimSteps
<1>2. IsList(<<"down">>, {"down"})
  BY DEF IsList, Left, Straight, Barred, Plan, MergeSteps, TrimSteps
<1>3. IsList(<<"save">>, {"save"})
  BY DEF IsList, Left, Straight, Barred, Plan, MergeSteps, TrimSteps
<1>4. IsList(<<"reply">>, {"reply"})
  BY DEF IsList, Left, Straight, Barred, Plan, MergeSteps, TrimSteps
<1>5. IsList(<<"scan">>, {"scan"})
  BY DEF IsList, Left, Straight, Barred, Plan, MergeSteps, TrimSteps
<1>6. IsList(<<"finish">>, {"finish"})
  BY DEF IsList, Left, Straight, Barred, Plan, MergeSteps, TrimSteps
<1>7. IsList(<<"deliver">>, {"deliver"})
  BY DEF IsList, Left, Straight, Barred, Plan, MergeSteps, TrimSteps
<1>8. IsList(<<"merge">>, {"merge"})
  BY DEF IsList, Left, Straight, Barred, Plan, MergeSteps, TrimSteps
<1>9. IsList(<<"rename", "save">>, {"rename", "save"})
  BY DEF IsList, Left, Straight, Barred, Plan, MergeSteps, TrimSteps
<1>10. IsList(<<"trim", "admit">>, {"trim", "admit"})
  BY DEF IsList, Left, Straight, Barred, Plan, MergeSteps, TrimSteps
<1>11. IsList(<<"save", "reply">>, {"save", "reply"})
  BY DEF IsList, Left, Straight, Barred, Plan, MergeSteps, TrimSteps
<1>12. IsList(<<"save", "scan">>, {"save", "scan"})
  BY DEF IsList, Left, Straight, Barred, Plan, MergeSteps, TrimSteps
<1>13. IsList(<<"trim", "apply">>, {"trim", "apply"})
  BY DEF IsList, Left, Straight, Barred, Plan, MergeSteps, TrimSteps
<1>14. IsList(<<"merge", "reply">>, {"merge", "reply"})
  BY DEF IsList, Left, Straight, Barred, Plan, MergeSteps, TrimSteps
<1>15. IsList(<<"files", "finish">>, {"files", "finish"})
  BY DEF IsList, Left, Straight, Barred, Plan, MergeSteps, TrimSteps
<1>16. IsList(<<"save", "retain">>, {"save", "retain"})
  BY DEF IsList, Left, Straight, Barred, Plan, MergeSteps, TrimSteps
<1>17. IsList(<<"archive", "save", "unlink">>, {"archive", "save", "unlink"})
  BY DEF IsList, Left, Straight, Barred, Plan, MergeSteps, TrimSteps
<1>18. IsList(<<"register", "save", "reply">>, {"register", "save", "reply"})
  BY DEF IsList, Left, Straight, Barred, Plan, MergeSteps, TrimSteps
<1>19. IsList(<<"trim", "results", "apply">>, {"trim", "results", "apply"})
  BY DEF IsList, Left, Straight, Barred, Plan, MergeSteps, TrimSteps
<1>20. IsList(<<"merges", "retain", "save">>, {"merges", "retain", "save"})
  BY DEF IsList, Left, Straight, Barred, Plan, MergeSteps, TrimSteps
<1>21. IsList(<<"reserve", "register", "save", "reply">>, {"reserve", "register", "save", "reply"})
  BY DEF IsList, Left, Straight, Barred, Plan, MergeSteps, TrimSteps
<1>22. IsList(<<"save", "trim", "save", "reply">>, {"save", "trim", "reply"})
  BY DEF IsList, Left, Straight, Barred, Plan, MergeSteps, TrimSteps
<1>23. IsList(<<"save", "publish", "files", "finish">>, {"save", "publish", "files", "finish"})
  BY DEF IsList, Left, Straight, Barred, Plan, MergeSteps, TrimSteps
<1>24. IsList(<<"save", "merge", "trim", "save", "reply">>, {"save", "merge", "trim", "reply"})
  BY DEF IsList, Left, Straight, Barred, Plan, MergeSteps, TrimSteps
<1> QED BY <1>1, <1>2, <1>3, <1>4, <1>5, <1>6, <1>7, <1>8, <1>9, <1>10, <1>11, <1>12, <1>13, <1>14, <1>15, <1>16, <1>17, <1>18, <1>19, <1>20, <1>21, <1>22, <1>23, <1>24

LEMMA HeadConcat ==
  ASSUME NEW s \in Seq(Plan), NEW t \in Seq(Plan), s # <<>>
  PROVE  s \o t # <<>> /\ Head(s \o t) = Head(s)
<1>1. /\ Len(s \o t) = Len(s) + Len(t) /\ Len(s) \in Nat /\ Len(t) \in Nat /\ Len(s) > 0
      /\ (s \o t)[1] = s[1] /\ s \o t \in Seq(Plan)
  <2>1. Len(s) \in Nat /\ Len(s) > 0 /\ Len(t) \in Nat
    OBVIOUS
  <2> QED BY <2>1, ConcatProperties
<1> QED BY <1>1

-----------------------------------------------------------------------------
(* Numbers of runs.                                                        *)

LEMMA IdsNat == Ids \subseteq Nat /\ Ids \subseteq 0..MaxRuns /\ 0 \in 0..MaxRuns
BY PersistentAssumption DEF Ids

LEMMA LeastIn ==
  ASSUME NEW S \in SUBSET Ids, S # {}
  PROVE  Least(S) \in S /\ \A y \in S : Least(S) <= y
<1> DEFINE Below == {1..i : i \in S}
<1>0. MaxRuns \in Nat
  BY PersistentAssumption
<1>1. Below \subseteq SUBSET Ids /\ Below # {}
  <2>1. \A i \in S : 1..i \in SUBSET Ids
    BY <1>0 DEF Ids
  <2>2. PICK i \in S : TRUE
    OBVIOUS
  <2>3. 1..i \in Below
    OBVIOUS
  <2> QED BY <2>1, <2>3
<1>2. IsFiniteSet(Ids)
  BY <1>0, FS_Interval DEF Ids
<1>3. IsWellFoundedOn(StrictSubsetOrdering(Ids), SUBSET Ids)
  BY <1>2, FS_StrictSubsetOrderingWellFounded, FS_FiniteSubsetsOfFinite
<1>4. PICK b \in Below : \A c \in Below : ~ (<<c, b>> \in StrictSubsetOrdering(Ids))
  <2> HIDE DEF Below
  <2> QED BY <1>1, <1>3, WFMin
<1>5. PICK x \in S : b = 1..x
  OBVIOUS
<1>6. ASSUME NEW y \in S, y < x PROVE FALSE
  <2>0. x \in 1..MaxRuns /\ y \in 1..MaxRuns
    BY DEF Ids
  <2>1. 1..y \in Below /\ 1..y \in SUBSET Ids /\ 1..x \in SUBSET Ids
    BY <1>0 DEF Ids
  <2>2. x \in 1..x /\ x \notin 1..y
    BY <1>0, <1>6, <2>0
  <2>3. 1..y \subseteq 1..x /\ 1..y # 1..x
    BY <1>0, <1>6, <2>0, <2>2
  <2>4. <<1..y, 1..x>> \in StrictSubsetOrdering(Ids)
    BY <2>1, <2>3 DEF StrictSubsetOrdering
  <2> QED BY <1>4, <1>5, <2>1, <2>4
<1>7. \A y \in S : x <= y
  BY <1>0, <1>6 DEF Ids
<1> QED BY <1>7 DEF Least

-----------------------------------------------------------------------------
(* What a call does next tells which call it is.                           *)

LEMMA AtStep ==
  ASSUME ServerTypes, NEW step, At(step), step # "none"
  PROVE  /\ todo # <<>> /\ Head(todo) = step /\ step \in Left(todo) /\ step \in Plan
         /\ Tail(todo) \in Seq(Plan) /\ Left(todo) = {step} \cup Left(Tail(todo))
<1>1. todo \in Seq(Plan) /\ todo # <<>> /\ Head(todo) = step
  BY DEF ServerTypes, At, Ahead, Idle
<1> QED BY <1>1, LeftTail

LEMMA OpAt ==
  ASSUME ServerTypes, PlanInv
  PROVE  /\ At("trim") => call.op \in {"execute", "report"}
         /\ At("archive") => call.op \in {"execute", "report"}
         /\ At("unlink") => call.op \in {"execute", "report"}
         /\ At("admit") => call.op = "execute"
         /\ At("reserve") => call.op = "execute" /\ todo = <<"reserve", "register", "save", "reply">>
         /\ At("register") => call.op = "execute" /\ todo = <<"register", "save", "reply">>
         /\ At("scan") => call.op = "claim" /\ todo = <<"scan">>
         /\ At("apply") => call.op = "report"
         /\ At("results") => call.op = "report"
         /\ \A step \in MergeSteps \cup {"retain"} : At(step) => call.op \in {"report", "boot"}
         /\ At("merges") => call.op = "boot"
         /\ At("rename") => call.op = "none" /\ todo = <<"rename", "save">>
<1>1. \A step \in Plan : At(step) => step \in Left(todo) /\ Head(todo) = step /\ todo # <<>>
  BY AtStep DEF Plan, MergeSteps, TrimSteps
<1>2. call.op \in {"none", "execute", "claim", "recover", "report", "boot"}
  BY DEF ServerTypes, Calls
<1>3. /\ "trim" \in Plan /\ "archive" \in Plan /\ "unlink" \in Plan /\ "admit" \in Plan
      /\ "reserve" \in Plan /\ "register" \in Plan /\ "scan" \in Plan /\ "apply" \in Plan
      /\ "results" \in Plan /\ "retain" \in Plan /\ "merges" \in Plan /\ "rename" \in Plan
      /\ MergeSteps \subseteq Plan
  BY DEF Plan, MergeSteps, TrimSteps
<1>4. CASE call.op = "none"
  BY <1>1, <1>3, <1>4 DEF PlanInv, MergeSteps, TrimSteps
<1>5. CASE call.op = "execute"
  BY <1>1, <1>3, <1>5 DEF PlanInv, MergeSteps, TrimSteps
<1>6. CASE call.op = "claim"
  BY <1>1, <1>3, <1>6 DEF PlanInv, MergeSteps, TrimSteps
<1>7. CASE call.op = "recover"
  BY <1>1, <1>3, <1>7 DEF PlanInv, MergeSteps, TrimSteps
<1>8. CASE call.op = "report"
  BY <1>1, <1>3, <1>8 DEF PlanInv, MergeSteps, TrimSteps
<1>9. CASE call.op = "boot"
  BY <1>1, <1>3, <1>9 DEF PlanInv, MergeSteps, TrimSteps
<1> QED BY <1>2, <1>4, <1>5, <1>6, <1>7, <1>8, <1>9

-----------------------------------------------------------------------------
(* The steps that leave the disk and the agent alone.                      *)

\* What the disk holds of runs stays as it is.
SameRecords == /\ disk'.session = disk.session /\ disk'.requests = disk.requests
               /\ disk'.executions = disk.executions /\ disk'.created = disk.created

\* A change of the record in memory that adds and removes no run and queues
\* none keeps what is known of the receipts and of the started runs.
LEMMA RecordStep ==
  ASSUME StartInv, SameRecords, UNCHANGED agentVars,
         \A id \in Ids : /\ mem'.runs[id] = None <=> mem.runs[id] = None
                         /\ Unqueued(mem.runs[id]) => Unqueued(mem'.runs[id]),
         call'.undo = None \/ call'.undo = mem.runs[call'.id]
         \/ (call'.id = call.id /\ Unqueued(call'.undo))
  PROVE  RecordsInv' /\ CommandInv' /\ StartedInv'
<1>1. RecordsInv' /\ CommandInv'
  BY DEF StartInv, RecordsInv, CommandInv, agentVars, SameRecords
<1>2. ASSUME NEW id \in Ids PROVE Started(id)' = Started(id)
  BY DEF Started, agentVars, SameRecords
<1>3. Unqueued(None)
  BY DEF Unqueued
<1>4. StartedInv'
  BY <1>2, <1>3 DEF StartInv, StartedInv, agentVars, SameRecords
<1> QED BY <1>1, <1>4

LEMMA MemoryStep ==
  ASSUME StartInv, UNCHANGED <<disk, agentVars>>,
         \A id \in Ids : /\ mem'.runs[id] = None <=> mem.runs[id] = None
                         /\ Unqueued(mem.runs[id]) => Unqueued(mem'.runs[id]),
         call'.undo = None \/ call'.undo = mem.runs[call'.id]
         \/ (call'.id = call.id /\ Unqueued(call'.undo))
  PROVE  RecordsInv' /\ CommandInv' /\ StartedInv'
BY RecordStep DEF SameRecords

LEMMA NoCallTypes ==
  /\ NoCall \in Calls /\ NoCall.op = "none" /\ NoCall.undo = None /\ NoCall.id = 0
  /\ ReportOf(NoCall) /\ ~NoCall.waiting
<1>1. 0 \in 0..MaxRuns
  BY PersistentAssumption
<1> QED BY <1>1 DEF NoCall, Calls, ReportOf

\* A call that ends leaves nothing to be kept.
LEMMA CallEnds ==
  ASSUME StartInv, UNCHANGED late, \A id \in Ids : receipts[id] # None => receipts'[id] # None,
         call' = NoCall, todo' \in {<<>>, <<"down">>, <<"save">>}
  PROVE  CallInv' /\ AdmittingInv' /\ HandedInv' /\ todo' \in Seq(Plan) /\ call' \in Calls
<1>1. Left(todo') \subseteq {"down", "save"} /\ todo' \in Seq(Plan) /\ Straight(todo')
  BY Lists, ZenonT(60) DEF IsList
<1>2. At("archive")' => todo' # <<>> /\ Head(todo') = "archive"
  BY DEF At, Ahead, Idle
<1>3. PlanInv'
  BY <1>1, NoCallTypes DEF PlanInv
<1>4. CallsInv'
  BY NoCallTypes DEF StartInv, CallInv, CallsInv, ReportOf
<1>5. UndoInv' /\ VictimInv' /\ MergingInv' /\ ApplyingInv'
  BY <1>1, <1>2, NoCallTypes DEF UndoInv, VictimInv, MergingInv, ApplyingInv, MergeSteps
<1>6. AdmittingInv' /\ HandedInv'
  BY <1>1, NoCallTypes DEF AdmittingInv, HandedInv
<1> QED BY <1>1, <1>3, <1>4, <1>5, <1>6, NoCallTypes DEF CallInv

LEMMA ExecuteStep ==
  ASSUME TypeOK, StartInv, NEW p \in Paths, Execute(p)
  PROVE  TypeOK' /\ StartInv'
<1>1. /\ call.op = "none" \/ todo = <<>>
      /\ todo' = <<"trim", "admit">> /\ UNCHANGED <<mem, disk, late, agentVars, used, applied, acked>>
  BY DEF Execute, Begins, Idle
<1> DEFINE q == CHOOSE r \in Requests : ~IsKnown(r)
<1>2. q \in Requests /\ disk.requests[q] = None
  <2>1. \E r \in Requests : ~IsKnown(r)
    BY DEF Execute
  <2>2. q \in Requests /\ ~IsKnown(q)
    BY <2>1
  <2> QED BY <2>2 DEF IsKnown
<1>3. disk.created + 1 \in Ids /\ disk.created + 1 \in 0..MaxRuns
  BY PersistentAssumption DEF Execute, TypeOK, ServerTypes, Disks, Ids
<1>4. /\ call' \in Calls /\ call'.op = "execute" /\ call'.path = p /\ call'.id = disk.created + 1
      /\ call'.req = q /\ call'.undo = None
  <2>1. call' = [NoCall EXCEPT !.op = "execute", !.path = p, !.id = disk.created + 1, !.req = q]
    BY DEF Execute, Begins
  <2> HIDE DEF q
  <2> QED BY <1>2, <1>3, <2>1, NoCallTypes DEF Calls
<1> HIDE DEF q
<1>5. Left(todo') = {"trim", "admit"} /\ todo' \in Seq(Plan) /\ Straight(todo') /\ Head(todo') = "trim" /\ todo' # <<>>
  BY <1>1, Lists DEF IsList
<1>6. TypeOK'
  BY <1>1, <1>4, <1>5 DEF TypeOK, ServerTypes, AgentTypes, GhostTypes, agentVars
<1>7. PlanInv'
  BY <1>2, <1>3, <1>4, <1>5 DEF PlanInv, TrimSteps
<1>8. CallsInv'
  BY <1>1, <1>4 DEF StartInv, CallInv, CallsInv, ReportOf, agentVars
<1>9. UndoInv' /\ VictimInv' /\ MergingInv' /\ ApplyingInv'
  BY <1>4, <1>5 DEF UndoInv, VictimInv, MergingInv, ApplyingInv, MergeSteps, At, Ahead, Idle
<1>10. AdmittingInv' /\ HandedInv'
  BY <1>1, <1>2, <1>4, <1>5 DEF AdmittingInv, HandedInv
<1>11. RecordsInv' /\ CommandInv' /\ StartedInv'
  BY <1>1, <1>4, MemoryStep
<1> QED BY <1>6, <1>7, <1>8, <1>9, <1>10, <1>11 DEF StartInv, CallInv

LEMMA ClaimStep ==
  ASSUME TypeOK, StartInv, UNCHANGED <<mem, disk, agentVars, used, applied, acked>>,
         late' \subseteq late, NEW c \in Calls, c.op = "claim", c.undo = None, HandleClaim(c)
  PROVE  TypeOK' /\ StartInv'
<1>1. Running \in SUBSET Ids
  BY DEF Running, Known
<1>2. CASE Running # {}
  <2>1. Least(Running) \in Ids /\ Least(Running) \in 0..MaxRuns
    BY <1>1, <1>2, LeastIn, IdsNat
  <2>2. /\ todo' = <<"reply">> /\ call' \in Calls /\ call'.op = "recover" /\ call'.id \in Ids
        /\ call'.undo = None
    BY <1>2, <2>1, ZenonT(60) DEF HandleClaim, Begins, Calls
  <2>3. Left(todo') = {"reply"} /\ todo' \in Seq(Plan) /\ Straight(todo')
    BY <2>2, Lists DEF IsList
  <2>4. TypeOK'
    BY <2>2, <2>3 DEF TypeOK, ServerTypes, AgentTypes, GhostTypes, agentVars
  <2>5. PlanInv'
    BY <2>2, <2>3 DEF PlanInv
  <2>6. CallsInv'
    BY <2>2 DEF StartInv, CallInv, CallsInv, ReportOf, agentVars
  <2>7. UndoInv' /\ VictimInv' /\ MergingInv' /\ ApplyingInv'
    BY <2>2, <2>3 DEF UndoInv, VictimInv, MergingInv, ApplyingInv, MergeSteps, At, Ahead, Idle
  <2>8. AdmittingInv' /\ HandedInv'
    BY <2>2, <2>3 DEF AdmittingInv, HandedInv
  <2>9. RecordsInv' /\ CommandInv' /\ StartedInv'
    BY <2>2, MemoryStep
  <2> QED BY <2>4, <2>5, <2>6, <2>7, <2>8, <2>9 DEF StartInv, CallInv
<1>3. CASE Running = {}
  <2>2. todo' = <<"scan">> /\ call' = c
    BY <1>3 DEF HandleClaim, Begins
  <2>3. Left(todo') = {"scan"} /\ todo' \in Seq(Plan) /\ Straight(todo')
    BY <2>2, Lists DEF IsList
  <2>4. TypeOK'
    BY <2>2, <2>3 DEF TypeOK, ServerTypes, AgentTypes, GhostTypes, agentVars
  <2>5. PlanInv'
    BY <2>2, <2>3 DEF PlanInv
  <2>6. CallsInv'
    BY <2>2 DEF StartInv, CallInv, CallsInv, ReportOf, agentVars
  <2>7. UndoInv' /\ VictimInv' /\ MergingInv' /\ ApplyingInv'
    BY <2>2, <2>3 DEF UndoInv, VictimInv, MergingInv, ApplyingInv, MergeSteps, At, Ahead, Idle
  <2>8. AdmittingInv' /\ HandedInv'
    BY <2>2, <2>3 DEF AdmittingInv, HandedInv
  <2>9. RecordsInv' /\ CommandInv' /\ StartedInv'
    BY <2>2, MemoryStep
  <2> QED BY <2>4, <2>5, <2>6, <2>7, <2>8, <2>9 DEF StartInv, CallInv
<1> QED BY <1>2, <1>3

\* The run that a report is about is in memory if it can still change.
LEMMA ReportedInMemory ==
  ASSUME TypeOK, RecordsInv, NEW id \in Ids, ReportedRun(id) # None,
         ReportedRun(id).merge \/ ReportedRun(id).state = "running"
  PROVE  mem.runs[id] # None /\ ReportedRun(id) = mem.runs[id]
BY DEF ReportedRun, RecordsInv, Terminal

LEMMA ReportStep ==
  ASSUME TypeOK, StartInv, UNCHANGED <<mem, disk, agentVars, used, applied, acked>>,
         late' \subseteq late, NEW c \in Calls, c.op = "report", c.undo = None,
         ReportOf(c), HandleReport(c)
  PROVE  TypeOK' /\ StartInv'
<1>1. /\ call' = c /\ c.id \in Ids /\ c.body \in Bodies /\ receipts[c.id] # None
      /\ todo' \in {<<"merge", "reply">>, <<"reply">>, <<"trim", "results", "apply">>, <<"trim", "apply">>}
  BY DEF HandleReport, Begins, ReportOf
<1>2. todo' = <<"merge", "reply">> => mem.runs[c.id] # None /\ mem.runs[c.id].merge
  <2>1. todo' = <<"merge", "reply">> => ReportedRun(c.id) # None /\ ReportedRun(c.id).merge
    BY DEF HandleReport, Begins, Repeated
  <2> QED BY <1>1, <2>1, ReportedInMemory DEF StartInv
<1>3. todo' \in {<<"trim", "results", "apply">>, <<"trim", "apply">>} =>
        /\ mem.runs[c.id] # None /\ mem.runs[c.id].state = "running"
        /\ mem.runs[c.id].offset = c.body.offset
  <2>1. todo' \in {<<"trim", "results", "apply">>, <<"trim", "apply">>} =>
          /\ ReportedRun(c.id) # None /\ ReportedRun(c.id).state = "running"
          /\ ReportedRun(c.id).offset = c.body.offset
    BY DEF HandleReport, Begins, Expected
  <2> QED BY <1>1, <2>1, ReportedInMemory DEF StartInv
<1>4. /\ todo' \in Seq(Plan) /\ Straight(todo') /\ todo' # <<>>
      /\ Head(todo') \notin {"save", "archive"}
      /\ \/ todo' = <<"merge", "reply">> /\ Left(todo') = {"merge", "reply"}
         \/ todo' = <<"reply">> /\ Left(todo') = {"reply"}
         \/ /\ todo' \in {<<"trim", "results", "apply">>, <<"trim", "apply">>}
            /\ Left(todo') \subseteq {"trim", "results", "apply"}
  <2>1. CASE todo' = <<"merge", "reply">>
    BY <2>1, Lists DEF IsList
  <2>2. CASE todo' = <<"reply">>
    BY <2>2, Lists DEF IsList
  <2>3. CASE todo' = <<"trim", "results", "apply">>
    BY <2>3, Lists DEF IsList
  <2>4. CASE todo' = <<"trim", "apply">>
    BY <2>4, Lists DEF IsList
  <2> QED BY <1>1, <2>1, <2>2, <2>3, <2>4
<1>5. TypeOK'
  BY <1>1, <1>4 DEF TypeOK, ServerTypes, AgentTypes, GhostTypes, agentVars
<1>6. PlanInv'
  BY <1>1, <1>4 DEF PlanInv, TrimSteps, MergeSteps
<1>7. CallsInv'
  BY <1>1 DEF StartInv, CallInv, CallsInv, ReportOf, agentVars
<1>8. UndoInv' /\ VictimInv'
  BY <1>1, <1>4 DEF UndoInv, VictimInv, At, Ahead, Idle
<1>9. MergingInv' /\ ApplyingInv'
  BY <1>1, <1>2, <1>3, <1>4 DEF MergingInv, ApplyingInv, MergeSteps
<1>10. AdmittingInv' /\ HandedInv'
  BY <1>1, <1>4 DEF AdmittingInv, HandedInv
<1>11. RecordsInv' /\ CommandInv' /\ StartedInv'
  BY <1>1, MemoryStep
<1> QED BY <1>5, <1>6, <1>7, <1>8, <1>9, <1>10, <1>11 DEF StartInv, CallInv

-----------------------------------------------------------------------------
(* trimHistory, admission and scanning.                                    *)

\* One run of the record in memory is replaced by another.
LEMMA RunSet ==
  ASSUME mem \in Sessions, NEW id \in Ids, NEW r \in Runs \cup {None},
         mem' = [mem EXCEPT !.runs[id] = r]
  PROVE  /\ mem' \in Sessions /\ mem'.runs[id] = r
         /\ \A other \in Ids \ {id} : mem'.runs[other] = mem.runs[other]
         /\ mem'.epoch = mem.epoch /\ mem'.generation = mem.generation /\ mem'.open = mem.open
BY DEF Sessions

LEMMA KnownRun ==
  ASSUME TypeOK, NEW id \in Ids, mem.runs[id] # None
  PROVE  mem.runs[id] \in Runs
BY DEF TypeOK, ServerTypes, Sessions

LEMMA TrimOneStep ==
  ASSUME TypeOK, StartInv, TrimOne
  PROVE  TypeOK' /\ StartInv'
<1> DEFINE id == Least(Trimmable)
<1>1. /\ id \in Ids /\ mem.runs[id] # None /\ mem.runs[id].state \in Terminal /\ ~mem.runs[id].merge
      /\ id \in 0..MaxRuns
  <2>1. Trimmable # {} /\ Trimmable \in SUBSET Ids
    BY DEF TrimOne, Trimmable, Known
  <2>2. id \in Trimmable
    BY <2>1, LeastIn
  <2> QED BY <2>2, IdsNat DEF Trimmable, Known
<1>2. /\ mem' = [mem EXCEPT !.runs[id] = Noted(id)]
      /\ UNCHANGED <<disk, late, agentVars, applied, acked>>
      /\ IF Refuses(Noted(id), disk.executions[id]) THEN Abort
         ELSE Begins([call EXCEPT !.victim = id, !.undo = None],
                     <<"archive", "save", "unlink">> \o todo)
      /\ used' \in [failures : Nat, changes : Nat]
  BY DEF TrimOne, Change, TypeOK, GhostTypes
<1> HIDE DEF id
<1>3. Noted(id) \in Runs /\ Noted(id).state = mem.runs[id].state /\ Noted(id).merge = mem.runs[id].merge
      /\ Noted(id).offset = mem.runs[id].offset
  <2>1. mem.runs[id] \in Runs
    BY <1>1, KnownRun
  <2> QED BY <2>1 DEF Noted, Runs
<1>4. /\ mem' \in Sessions /\ mem'.runs[id] = Noted(id)
      /\ \A other \in Ids \ {id} : mem'.runs[other] = mem.runs[other]
  BY <1>1, <1>2, <1>3, RunSet DEF TypeOK, ServerTypes
<1>5. At("trim")
  BY DEF TrimOne
<1>6. /\ todo # <<>> /\ Head(todo) = "trim" /\ Left(todo) = {"trim"} \cup Left(Tail(todo))
      /\ todo \in Seq(Plan) /\ "archive" \notin Left(Tail(todo)) /\ Straight(todo)
  BY <1>5, AtStep, StraightTail DEF TypeOK, ServerTypes, StartInv, CallInv, PlanInv
<1>7. call.op \in {"execute", "report"} /\ call.undo = None
  BY <1>5, <1>6, OpAt DEF TypeOK, StartInv, CallInv, UndoInv, At, Ahead, Idle
<1>8. \A other \in Ids : /\ mem'.runs[other] = None <=> mem.runs[other] = None
                         /\ mem.runs[other] # None => /\ mem'.runs[other].state = mem.runs[other].state
                                                      /\ mem'.runs[other].merge = mem.runs[other].merge
                                                      /\ mem'.runs[other].offset = mem.runs[other].offset
  BY <1>1, <1>3, <1>4, NoneAssumption
<1>9. ASSUME Abort PROVE TypeOK' /\ StartInv'
  <2>1. call' = NoCall /\ todo' = <<>>
    BY <1>7, <1>9 DEF Abort
  <2>2. CallInv' /\ AdmittingInv' /\ HandedInv' /\ todo' \in Seq(Plan) /\ call' \in Calls
    BY <1>2, <2>1, CallEnds DEF agentVars
  <2>3. RecordsInv' /\ CommandInv' /\ StartedInv'
    BY <1>2, <1>8, <2>1, NoCallTypes, MemoryStep DEF Unqueued
  <2>4. TypeOK'
    BY <1>2, <1>4, <2>2 DEF TypeOK, ServerTypes, AgentTypes, GhostTypes, agentVars
  <2> QED BY <2>2, <2>3, <2>4 DEF StartInv
<1>10. ASSUME Begins([call EXCEPT !.victim = id, !.undo = None],
                     <<"archive", "save", "unlink">> \o todo)
       PROVE  TypeOK' /\ StartInv'
  <2>1. /\ call' \in Calls /\ call'.op = call.op /\ call'.id = call.id /\ call'.req = call.req
        /\ call'.path = call.path /\ call'.body = call.body /\ call'.undo = None /\ call'.victim = id
    BY <1>1, <1>10 DEF TypeOK, ServerTypes, Calls, Begins
  <2>2. IsList(<<"archive", "save", "unlink">>, {"archive", "save", "unlink"})
    BY Lists
  <2>3. /\ todo' \in Seq(Plan) /\ Left(todo') = {"archive", "save", "unlink"} \cup Left(todo)
        /\ todo' # <<>> /\ Head(todo') = "archive"
    <3>1. <<"archive", "save", "unlink">> # <<>> /\ Head(<<"archive", "save", "unlink">>) = "archive"
      OBVIOUS
    <3> QED BY <1>6, <1>10, <2>2, <3>1, LeftConcat, HeadConcat DEF Begins, IsList
  <2>4. Straight(todo')
    <3>1. \A step \in {"archive", "save", "unlink"} : Barred(step) \cap Left(todo) = {}
      BY <1>6, Following DEF MergeSteps
    <3> QED BY <1>6, <1>10, <2>2, <3>1, StraightConcat DEF Begins, IsList
  <2>5. TypeOK'
    BY <1>2, <1>4, <2>1, <2>3 DEF TypeOK, ServerTypes, AgentTypes, GhostTypes, agentVars
  <2>6. PlanInv'
    <3>1. call.op = "execute" => Left(todo) \subseteq TrimSteps \cup {"admit"}
      BY <1>6 DEF StartInv, CallInv, PlanInv
    <3>2. {"archive", "save", "unlink"} \subseteq TrimSteps
      BY DEF TrimSteps
    <3>3. call.op = "execute" => call.req \in Requests /\ call.path \in Paths /\ call.id \in Ids
      BY DEF StartInv, CallInv, PlanInv
    <3>4. call.op = "report" =>
            Left(todo) \subseteq TrimSteps \cup MergeSteps \cup {"results", "apply", "retain", "reply"}
      BY DEF StartInv, CallInv, PlanInv
    <3> QED BY <1>7, <2>1, <2>3, <2>4, <3>1, <3>2, <3>3, <3>4 DEF PlanInv
  <2>7. CallsInv'
    BY <1>2, <2>1 DEF StartInv, CallInv, CallsInv, ReportOf, agentVars
  <2>8. UndoInv' /\ VictimInv'
    BY <1>1, <1>8, <2>1, <2>3 DEF UndoInv, VictimInv, At, Ahead, Idle
  <2>9. MergingInv' /\ ApplyingInv'
    <3>1. call.op = "report" => call.id \in Ids
      BY DEF StartInv, CallInv, CallsInv, ReportOf
    <3>2. Left(todo') \cap MergeSteps = Left(todo) \cap MergeSteps
          /\ ("apply" \in Left(todo') <=> "apply" \in Left(todo))
      BY <2>3 DEF MergeSteps
    <3> QED BY <1>8, <2>1, <3>1, <3>2 DEF StartInv, CallInv, MergingInv, ApplyingInv
  <2>10. AdmittingInv' /\ HandedInv'
    BY <1>2, <1>7, <2>1, <2>3 DEF StartInv, AdmittingInv, HandedInv
  <2>11. RecordsInv' /\ CommandInv' /\ StartedInv'
    BY <1>2, <1>8, <2>1, MemoryStep DEF Unqueued
  <2> QED BY <2>5, <2>6, <2>7, <2>8, <2>9, <2>10, <2>11 DEF StartInv, CallInv
<1> QED BY <1>2, <1>9, <1>10

LEMMA Tails ==
  /\ Tail(<<"down">>) = <<>>
  /\ Tail(<<"save">>) = <<>>
  /\ Tail(<<"reply">>) = <<>>
  /\ Tail(<<"scan">>) = <<>>
  /\ Tail(<<"rename", "save">>) = <<"save">>
  /\ Tail(<<"save", "reply">>) = <<"reply">>
  /\ Tail(<<"save", "scan">>) = <<"scan">>
  /\ Tail(<<"register", "save", "reply">>) = <<"save", "reply">>
  /\ Tail(<<"reserve", "register", "save", "reply">>) = <<"register", "save", "reply">>
<1>1. Tail(<<"down">>) = <<>>
  OBVIOUS
<1>2. Tail(<<"save">>) = <<>>
  OBVIOUS
<1>3. Tail(<<"reply">>) = <<>>
  OBVIOUS
<1>4. Tail(<<"scan">>) = <<>>
  OBVIOUS
<1>5. Tail(<<"rename", "save">>) = <<"save">>
  OBVIOUS
<1>6. Tail(<<"save", "reply">>) = <<"reply">>
  OBVIOUS
<1>7. Tail(<<"save", "scan">>) = <<"scan">>
  OBVIOUS
<1>8. Tail(<<"register", "save", "reply">>) = <<"save", "reply">>
  OBVIOUS
<1>9. Tail(<<"reserve", "register", "save", "reply">>) = <<"register", "save", "reply">>
  OBVIOUS
<1> QED BY <1>1, <1>2, <1>3, <1>4, <1>5, <1>6, <1>7, <1>8, <1>9

\* A call that goes on to its next step.
LEMMA NextPlan ==
  ASSUME ServerTypes, PlanInv, todo # <<>>, Tail(todo) # <<>>, todo' = Tail(todo),
         call'.op = call.op, call'.req = call.req, call'.path = call.path, call'.id = call.id
  PROVE  PlanInv' /\ todo' \in Seq(Plan) /\ Left(todo') \subseteq Left(todo) /\ todo' # <<>>
         /\ "archive" \notin Left(todo') /\ Head(todo') \in Left(todo')
<1>1. /\ todo' \in Seq(Plan) /\ Left(todo') \subseteq Left(todo) /\ Straight(todo')
      /\ "archive" \notin Left(todo')
  BY LeftTail, StraightTail DEF ServerTypes, PlanInv
<1>2. Head(todo') \in Left(todo')
  <2>1. todo' # <<>>
    OBVIOUS
  <2>2. todo' \in Seq(Plan) /\ todo' # <<>> => Left(todo') = {Head(todo')} \cup Left(Tail(todo'))
    BY ONLY LeftTail
  <2> QED BY <1>1, <2>1, <2>2
<1>3. call.op = "none" => todo' \in {<<>>, <<"down">>, <<"save">>}
  <2> SUFFICES ASSUME call.op = "none" PROVE todo' \in {<<>>, <<"down">>, <<"save">>}
    OBVIOUS
  <2>1. todo = <<"down">> \/ todo = <<"save">> \/ todo = <<"rename", "save">>
    BY DEF PlanInv
  <2> QED BY <2>1, Tails
<1>4. call.op = "execute" =>
       \/ Left(todo') \subseteq TrimSteps \cup {"admit"}
       \/ todo' \in {<<"register", "save", "reply">>, <<"save", "reply">>, <<"reply">>}
  <2> SUFFICES ASSUME call.op = "execute", ~(Left(todo) \subseteq TrimSteps \cup {"admit"})
               PROVE todo' \in {<<"register", "save", "reply">>, <<"save", "reply">>, <<"reply">>}
    BY <1>1
  <2>1. \/ todo = <<"reserve", "register", "save", "reply">> \/ todo = <<"register", "save", "reply">>
        \/ todo = <<"save", "reply">> \/ todo = <<"reply">>
    BY DEF PlanInv
  <2> QED BY <2>1, Tails
<1>5. call.op = "claim" => todo' \in {<<"scan">>} \/ (todo' = <<"reply">> /\ call.id \in Ids)
  <2> SUFFICES ASSUME call.op = "claim" PROVE todo' \in {<<"scan">>} \/ (todo' = <<"reply">> /\ call.id \in Ids)
    OBVIOUS
  <2>1. \/ todo = <<"scan">> \/ todo = <<"save", "scan">>
        \/ (todo = <<"save", "reply">> /\ call.id \in Ids) \/ (todo = <<"reply">> /\ call.id \in Ids)
    BY DEF PlanInv
  <2> QED BY <2>1, Tails
<1>6. call.op # "recover"
  <2> SUFFICES ASSUME call.op = "recover" PROVE FALSE
    OBVIOUS
  <2>1. todo = <<"reply">>
    BY DEF PlanInv
  <2> QED BY <2>1, Tails
<1> QED BY <1>1, <1>2, <1>3, <1>4, <1>5, <1>6 DEF PlanInv

LEMMA TrimEndsStep ==
  ASSUME TypeOK, StartInv, TrimEnds
  PROVE  TypeOK' /\ StartInv'
<1>1. At("trim") /\ todo' = Tail(todo)
      /\ UNCHANGED <<mem, disk, call, late, agentVars, used, applied, acked>>
  BY DEF TrimEnds
<1>2. /\ todo # <<>> /\ Head(todo) = "trim" /\ Left(todo) = {"trim"} \cup Left(Tail(todo))
      /\ todo \in Seq(Plan) /\ Tail(todo) \in Seq(Plan)
      /\ "archive" \notin Left(Tail(todo)) /\ Straight(Tail(todo))
  BY <1>1, AtStep, StraightTail DEF TypeOK, ServerTypes, StartInv, CallInv, PlanInv
<1>3. call.op \in {"execute", "report"} /\ call.undo = None
  BY <1>1, <1>2, OpAt DEF TypeOK, StartInv, CallInv, UndoInv, At, Ahead, Idle
<1>4. TypeOK'
  BY <1>1, <1>2 DEF TypeOK, ServerTypes, AgentTypes, GhostTypes, agentVars
<1>5. PlanInv'
  <2>1. call.op = "execute" => Left(todo) \subseteq TrimSteps \cup {"admit"}
    BY <1>2 DEF StartInv, CallInv, PlanInv
  <2> QED BY <1>1, <1>2, <1>3, <2>1 DEF StartInv, CallInv, PlanInv
<1>6. CallsInv' /\ MergingInv' /\ ApplyingInv'
  BY <1>1, <1>2 DEF StartInv, CallInv, CallsInv, ReportOf, MergingInv, ApplyingInv, agentVars
<1>7. UndoInv' /\ VictimInv'
  <2>1. At("archive")' => FALSE
    <3>1. todo' \in Seq(Plan) /\ todo' # <<>> => Head(todo') \in Left(todo')
      BY LeftTail
    <3> QED BY <1>1, <1>2, <3>1 DEF At, Ahead, Idle
  <2> QED BY <1>1, <1>3, <2>1 DEF UndoInv, VictimInv
<1>8. AdmittingInv' /\ HandedInv'
  <2>1. call.op = "execute" => Left(todo') \subseteq TrimSteps \cup {"admit"}
    BY <1>1, <1>2 DEF StartInv, CallInv, PlanInv
  <2>2. todo' # <<"register", "save", "reply">>
    <3>1. call.op = "report" =>
            Left(todo) \subseteq TrimSteps \cup MergeSteps \cup {"results", "apply", "retain", "reply"}
      BY DEF StartInv, CallInv, PlanInv
    <3>2. "register" \notin Left(todo')
      BY <1>1, <1>2, <1>3, <2>1, <3>1 DEF TrimSteps, MergeSteps
    <3> QED BY <3>2, Lists DEF IsList
  <2>3. {"admit", "reserve"} \cap Left(todo') # {} => {"admit", "reserve"} \cap Left(todo) # {}
    BY <1>1, <1>2
  <2> QED BY <1>1, <1>2, <1>3, <2>1, <2>2, <2>3 DEF StartInv, AdmittingInv, HandedInv
<1>9. RecordsInv' /\ CommandInv' /\ StartedInv'
  BY <1>1, <1>3, MemoryStep
<1> QED BY <1>4, <1>5, <1>6, <1>7, <1>8, <1>9 DEF StartInv, CallInv

LEMMA AdmitStep ==
  ASSUME TypeOK, StartInv, Admit
  PROVE  TypeOK' /\ StartInv'
<1>1. At("admit") /\ UNCHANGED <<mem, disk, late, agentVars, used, applied, acked>>
  BY DEF Admit
<1>2. /\ todo # <<>> /\ Head(todo) = "admit" /\ "admit" \in Left(todo)
  BY <1>1, AtStep DEF TypeOK
<1>3. call.op = "execute" /\ call.undo = None
  BY <1>1, <1>2, OpAt DEF TypeOK, StartInv, CallInv, UndoInv, At, Ahead, Idle
<1>4. CASE todo' = <<"reserve", "register", "save", "reply">> /\ UNCHANGED call
  <2>1. Left(todo') = {"reserve", "register", "save", "reply"} /\ todo' \in Seq(Plan) /\ Straight(todo')
    BY <1>4, Lists DEF IsList
  <2>2. TypeOK'
    BY <1>1, <1>4, <2>1 DEF TypeOK, ServerTypes, AgentTypes, GhostTypes, agentVars
  <2>3. PlanInv'
    BY <1>3, <1>4, <2>1 DEF StartInv, CallInv, PlanInv
  <2>4. CallsInv' /\ UndoInv' /\ VictimInv' /\ MergingInv' /\ ApplyingInv'
    BY <1>1, <1>3, <1>4, <2>1 DEF StartInv, CallInv, CallsInv, ReportOf, UndoInv, VictimInv, MergingInv, ApplyingInv,
       MergeSteps, At, Ahead, Idle, agentVars
  <2>5. AdmittingInv' /\ HandedInv'
    BY <1>1, <1>2, <1>3, <1>4, <2>1 DEF StartInv, AdmittingInv, HandedInv
  <2>6. RecordsInv' /\ CommandInv' /\ StartedInv'
    BY <1>1, <1>3, <1>4, MemoryStep
  <2> QED BY <2>2, <2>3, <2>4, <2>5, <2>6 DEF StartInv, CallInv
<1>5. CASE Abort
  <2>1. call' = NoCall /\ todo' = <<>>
    BY <1>3, <1>5 DEF Abort
  <2>2. CallInv' /\ AdmittingInv' /\ HandedInv' /\ todo' \in Seq(Plan) /\ call' \in Calls
    BY <1>1, <2>1, CallEnds DEF agentVars
  <2>3. RecordsInv' /\ CommandInv' /\ StartedInv'
    BY <1>1, <2>1, NoCallTypes, MemoryStep
  <2>4. TypeOK'
    BY <1>1, <2>2 DEF TypeOK, ServerTypes, AgentTypes, GhostTypes, agentVars
  <2> QED BY <2>2, <2>3, <2>4 DEF StartInv
<1> QED BY <1>4, <1>5 DEF Admit

LEMMA ScanStep ==
  ASSUME TypeOK, StartInv, Scan
  PROVE  TypeOK' /\ StartInv'
<1>1. At("scan") /\ UNCHANGED <<disk, late, agentVars, used, applied, acked>>
  BY DEF Scan
<1>2. call.op = "claim" /\ call.undo = None /\ todo # <<>> /\ Head(todo) = "scan"
  BY <1>1, AtStep, OpAt DEF TypeOK, StartInv, CallInv, UndoInv, At, Ahead, Idle
<1> DEFINE id == Least(Queued)
<1>3. CASE Queued = {}
  <2>1. call' = NoCall /\ todo' = <<>> /\ mem' = mem
    BY <1>2, <1>3 DEF Abort, Scan
  <2>2. CallInv' /\ AdmittingInv' /\ HandedInv' /\ todo' \in Seq(Plan) /\ call' \in Calls
    BY <1>1, <2>1, CallEnds DEF agentVars
  <2>3. RecordsInv' /\ CommandInv' /\ StartedInv'
    BY <1>1, <2>1, NoCallTypes, MemoryStep
  <2>4. TypeOK'
    BY <1>1, <2>1, <2>2 DEF TypeOK, ServerTypes, AgentTypes, GhostTypes, agentVars
  <2> QED BY <2>2, <2>3, <2>4 DEF StartInv
<1>4. CASE Queued # {}
  <2>1. id \in Ids /\ id \in 0..MaxRuns /\ mem.runs[id] \in Runs /\ mem.runs[id] # None
    <3>1. Queued \in SUBSET Ids
      BY DEF Queued, Known
    <3>2. id \in Queued
      BY <1>4, <3>1, LeastIn
    <3> QED BY <3>2, IdsNat, KnownRun DEF Queued, Known
  <2>2. \/ /\ mem' = [mem EXCEPT !.runs[id].state = "running"]
           /\ todo' = <<"save", "reply">> /\ call' = [call EXCEPT !.id = id]
        \/ /\ mem' = [mem EXCEPT !.runs[id].state = "failed", !.runs[id].error = TRUE]
           /\ todo' = <<"save", "scan">> /\ UNCHANGED call
    BY <1>4 DEF Scan
  <2> HIDE DEF id
  <2>3. PICK r \in Runs : mem' = [mem EXCEPT !.runs[id] = r] /\ r.state \in {"running", "failed"}
    <3>1. [mem.runs[id] EXCEPT !.state = "running"] \in Runs
      BY <2>1 DEF Runs
    <3>2. [mem.runs[id] EXCEPT !.state = "failed", !.error = TRUE] \in Runs
      BY <2>1 DEF Runs, Terminal
    <3>3. /\ [mem.runs[id] EXCEPT !.state = "running"].state = "running"
          /\ [mem.runs[id] EXCEPT !.state = "failed", !.error = TRUE].state = "failed"
      BY <2>1 DEF Runs
    <3>4. mem \in Sessions
      BY DEF TypeOK, ServerTypes
    <3>5. CASE mem' = [mem EXCEPT !.runs[id].state = "running"]
      <4>1. mem' = [mem EXCEPT !.runs[id] = [mem.runs[id] EXCEPT !.state = "running"]]
        BY <3>5
      <4> QED BY <3>1, <3>3, <4>1
    <3>6. CASE mem' = [mem EXCEPT !.runs[id].state = "failed", !.runs[id].error = TRUE] /\ todo' = <<"save", "scan">>
      <4>1. mem' = [mem EXCEPT !.runs[id] = [mem.runs[id] EXCEPT !.state = "failed", !.error = TRUE]]
        BY <2>1, <3>4, <3>6 DEF Sessions, Runs
      <4> QED BY <3>2, <3>3, <3>6, <4>1
    <3> QED BY <2>2, <3>5, <3>6
  <2>4. /\ mem' \in Sessions /\ mem'.runs[id] = r
        /\ \A other \in Ids \ {id} : mem'.runs[other] = mem.runs[other]
    BY <2>1, <2>3, RunSet DEF TypeOK, ServerTypes
  <2>5. /\ call' \in Calls /\ call'.op = "claim" /\ call'.undo = None
        /\ todo' = <<"save", "reply">> => call'.id = id
    BY <1>2, <2>1, <2>2 DEF TypeOK, ServerTypes, Calls
  <2>6. Left(todo') \subseteq {"save", "reply", "scan"} /\ todo' \in Seq(Plan) /\ Straight(todo')
        /\ Head(todo') = "save" /\ todo' # <<"reply">>
        /\ (todo' = <<"save", "reply">> \/ todo' = <<"save", "scan">>)
    <3>1. CASE todo' = <<"save", "reply">>
      BY <3>1, Lists DEF IsList
    <3>2. CASE todo' = <<"save", "scan">>
      BY <3>2, Lists DEF IsList
    <3> QED BY <2>2, <3>1, <3>2
  <2>7. TypeOK'
    BY <1>1, <2>4, <2>5, <2>6 DEF TypeOK, ServerTypes, AgentTypes, GhostTypes, agentVars
  <2>8. PlanInv'
    BY <2>1, <2>5, <2>6 DEF PlanInv
  <2>9. CallsInv'
    BY <1>1, <2>5 DEF StartInv, CallInv, CallsInv, ReportOf, agentVars
  <2>10. UndoInv' /\ VictimInv' /\ MergingInv' /\ ApplyingInv'
    BY <2>5, <2>6 DEF UndoInv, VictimInv, MergingInv, ApplyingInv, MergeSteps, At, Ahead, Idle
  <2>11. AdmittingInv' /\ HandedInv'
    <3>1. todo' = <<"save", "reply">> => mem'.runs[id] # None /\ Unqueued(mem'.runs[id])
      BY <2>3, <2>4, NoneAssumption DEF Unqueued
    <3>2. "register" \notin Left(todo') /\ "admit" \notin Left(todo') /\ "reserve" \notin Left(todo')
      BY <2>6
    <3>3. todo' # <<"register", "save", "reply">>
      BY <3>2, Lists DEF IsList
    <3> QED BY <2>5, <2>6, <3>1, <3>2, <3>3 DEF AdmittingInv, HandedInv
  <2>12. RecordsInv' /\ CommandInv' /\ StartedInv'
    <3>1. \A other \in Ids : /\ mem'.runs[other] = None <=> mem.runs[other] = None
                             /\ Unqueued(mem.runs[other]) => Unqueued(mem'.runs[other])
      BY <2>1, <2>3, <2>4, NoneAssumption DEF Unqueued
    <3> QED BY <1>1, <2>5, <3>1, MemoryStep
  <2> QED BY <2>7, <2>8, <2>9, <2>10, <2>11, <2>12 DEF StartInv, CallInv
<1> QED BY <1>3, <1>4

-----------------------------------------------------------------------------
(* Applying a report and merging results.                                  *)

\* A report's call, or the start, goes on with some steps before the rest.
LEMMA GoesOn ==
  ASSUME TypeOK, StartInv, call.op \in {"report", "boot"}, todo # <<>>, NEW steps, NEW left,
         IsList(steps, left), left \subseteq MergeSteps \cup {"save", "retain"},
         \/ left \cap MergeSteps = {} \/ Left(Tail(todo)) \cap MergeSteps = {}
         \/ left \subseteq {"deliver"} /\ At("files"),
         todo' = steps \o Tail(todo),
         call'.op = call.op, call'.id = call.id, call'.body = call.body,
         UNCHANGED <<late, receipts>>
  PROVE  /\ PlanInv' /\ CallsInv' /\ VictimInv' /\ AdmittingInv' /\ HandedInv'
         /\ todo' \in Seq(Plan) /\ Left(todo') = left \cup Left(Tail(todo))
         /\ steps # <<>> => todo' # <<>> /\ Head(todo') = Head(steps)
<1>1. /\ todo \in Seq(Plan) /\ Straight(todo) /\ Tail(todo) \in Seq(Plan) /\ Straight(Tail(todo))
      /\ Left(Tail(todo)) \subseteq Left(todo) /\ "archive" \notin Left(Tail(todo))
  BY LeftTail, StraightTail DEF TypeOK, ServerTypes, StartInv, CallInv, PlanInv
<1>2. todo' \in Seq(Plan) /\ Left(todo') = left \cup Left(Tail(todo))
  BY <1>1, LeftConcat DEF IsList
<1>3. Straight(todo')
  <2>1. At("files") => Barred("files") \cap Left(Tail(todo)) = {}
    BY <1>1, StraightTail DEF At, Ahead, Idle
  <2>2. \A step \in left : Barred(step) \cap Left(Tail(todo)) = {}
    <3>1. "merges" \notin left
      BY DEF MergeSteps
    <3> QED BY <1>1, <2>1, <3>1, Following
  <2> QED BY <1>1, <2>2, StraightConcat DEF IsList
<1>4. steps # <<>> => todo' # <<>> /\ Head(todo') = Head(steps)
  BY <1>1, HeadConcat DEF IsList
<1>5. PlanInv'
  <2>1. call.op = "report" =>
          Left(todo) \subseteq TrimSteps \cup MergeSteps \cup {"results", "apply", "retain", "reply"}
    BY DEF StartInv, CallInv, PlanInv
  <2>2. call.op = "boot" => Left(todo) \subseteq MergeSteps \cup {"merges", "retain", "save"}
    BY DEF StartInv, CallInv, PlanInv
  <2>3. "save" \in TrimSteps
    BY DEF TrimSteps
  <2> QED BY <1>1, <1>2, <1>3, <2>1, <2>2, <2>3 DEF PlanInv
<1>6. CallsInv'
  BY DEF StartInv, CallInv, CallsInv, ReportOf
<1>7. VictimInv'
  <2>1. "archive" \notin Left(todo')
    BY <1>1, <1>2 DEF MergeSteps
  <2>2. todo' # <<>> => Head(todo') \in Left(todo')
    BY <1>2, LeftTail
  <2> QED BY <2>1, <2>2 DEF VictimInv, At, Ahead, Idle
<1>8. AdmittingInv' /\ HandedInv'
  <2>1. Left(todo) \cap {"admit", "reserve", "register"} = {}
    BY DEF StartInv, CallInv, PlanInv, TrimSteps, MergeSteps
  <2>2. Left(todo') \cap {"admit", "reserve", "register"} = {}
    BY <1>1, <1>2, <2>1 DEF MergeSteps
  <2>3. todo' # <<"register", "save", "reply">>
    BY <2>2, Lists DEF IsList
  <2> QED BY <2>2, <2>3 DEF AdmittingInv, HandedInv
<1> QED BY <1>2, <1>4, <1>5, <1>6, <1>7, <1>8

LEMMA ReportedRuns ==
  ASSUME NEW run \in Runs, NEW body \in Bodies
  PROVE  /\ Reported(run, body) \in Runs
         /\ Reported(run, body).state = body.state /\ Reported(run, body).offset = body.end
         /\ Reported(run, body).reports = run.reports \cup {body}
         /\ Reported(run, body).merge <=> body.state \in {"completed", "failed"}
         /\ Reported(run, body).published = run.published
<1> DEFINE m == body.state \in {"completed", "failed"}
           r == [run EXCEPT !.state = body.state, !.offset = body.end, !.merge = m,
                            !.reports = run.reports \cup {body}]
<1>1. m \in BOOLEAN /\ Reported(run, body) = r
  BY DEF Reported
<1> HIDE DEF m
<1>2. r \in Runs
  BY <1>1 DEF Runs, Bodies, Terminal
<1>3. /\ r.state = body.state /\ r.offset = body.end /\ r.published = run.published
      /\ r.reports = run.reports \cup {body} /\ r.merge = m
  BY DEF Runs
<1> QED BY <1>1, <1>2, <1>3 DEF m

LEMMA ApplyStep ==
  ASSUME TypeOK, StartInv, Apply
  PROVE  TypeOK' /\ StartInv'
<1> DEFINE r == Reported(mem.runs[call.id], call.body)
<1>1. /\ At("apply") /\ UNCHANGED <<disk, late, agentVars, used, applied, acked>>
      /\ mem' = [mem EXCEPT !.runs[call.id] = r]
      /\ call' = [call EXCEPT !.undo = mem.runs[call.id]]
  BY DEF Apply, Current
<1>2. todo' = IF mem'.runs[call.id].merge THEN <<"save", "merge", "trim", "save", "reply">>
              ELSE <<"save", "trim", "save", "reply">>
  BY DEF Apply
<1>3. /\ todo # <<>> /\ Head(todo) = "apply" /\ "apply" \in Left(todo)
  BY <1>1, AtStep DEF TypeOK
<1>4. /\ call.op = "report" /\ call.id \in Ids /\ call.body \in Bodies
      /\ mem.runs[call.id] # None /\ mem.runs[call.id].state = "running"
  BY <1>3 DEF StartInv, CallInv, ApplyingInv, CallsInv, ReportOf
<1>5. mem.runs[call.id] \in Runs
  BY <1>4, KnownRun
<1>6. r \in Runs /\ r.state # "queued"
  BY <1>4, <1>5, ReportedRuns DEF Bodies, Terminal
<1> HIDE DEF r
<1>7. /\ mem' \in Sessions /\ mem'.runs[call.id] = r
      /\ \A other \in Ids \ {call.id} : mem'.runs[other] = mem.runs[other]
  BY <1>1, <1>4, <1>6, RunSet DEF TypeOK, ServerTypes
<1>8. /\ call' \in Calls /\ call'.op = "report" /\ call'.undo = mem.runs[call.id]
      /\ call'.id = call.id /\ call'.body = call.body
  BY <1>1, <1>4, <1>5 DEF TypeOK, ServerTypes, Calls
<1>9. /\ todo' \in Seq(Plan) /\ Straight(todo') /\ todo' # <<>> /\ Head(todo') = "save"
      /\ Left(todo') \subseteq {"save", "merge", "trim", "reply"}
      /\ "merge" \in Left(todo') => r.merge
  <2>1. CASE r.merge
    <3>1. todo' = <<"save", "merge", "trim", "save", "reply">>
      BY <1>2, <1>7, <2>1
    <3> QED BY <2>1, <3>1, Lists DEF IsList
  <2>2. CASE ~r.merge
    <3>1. todo' = <<"save", "trim", "save", "reply">>
      BY <1>2, <1>7, <2>2
    <3> QED BY <2>2, <3>1, Lists DEF IsList
  <2> QED BY <2>1, <2>2
<1>10. TypeOK'
  BY <1>1, <1>7, <1>8, <1>9 DEF TypeOK, ServerTypes, AgentTypes, GhostTypes, agentVars
<1>11. PlanInv'
  BY <1>8, <1>9 DEF PlanInv, TrimSteps, MergeSteps
<1>12. CallsInv'
  BY <1>1, <1>8 DEF StartInv, CallInv, CallsInv, ReportOf, agentVars
<1>13. UndoInv' /\ VictimInv'
  BY <1>4, <1>6, <1>7, <1>8, <1>9, NoneAssumption DEF UndoInv, VictimInv, At, Ahead, Idle
<1>14. MergingInv' /\ ApplyingInv'
  BY <1>4, <1>6, <1>7, <1>8, <1>9, NoneAssumption DEF MergingInv, ApplyingInv, MergeSteps
<1>15. AdmittingInv' /\ HandedInv'
  <2>1. todo' # <<"register", "save", "reply">>
    BY <1>9
  <2> QED BY <1>8, <1>9, <2>1 DEF AdmittingInv, HandedInv
<1>16. RecordsInv' /\ CommandInv' /\ StartedInv'
  <2>1. \A id \in Ids : /\ mem'.runs[id] = None <=> mem.runs[id] = None
                        /\ Unqueued(mem.runs[id]) => Unqueued(mem'.runs[id])
    BY <1>4, <1>6, <1>7, NoneAssumption DEF Unqueued
  <2> QED BY <1>1, <1>8, <2>1, MemoryStep
<1> QED BY <1>10, <1>11, <1>12, <1>13, <1>14, <1>15, <1>16 DEF StartInv, CallInv

\* A step of a merge changes the run that is merged and goes on.
LEMMA MergeGoes ==
  ASSUME TypeOK, StartInv, NEW step \in MergeSteps, At(step), NEW steps, NEW left, NEW r \in Runs,
         IsList(steps, left), left \subseteq MergeSteps \cup {"save", "retain"},
         \/ left \cap MergeSteps = {} \/ Left(Tail(todo)) \cap MergeSteps = {}
         \/ left \subseteq {"deliver"} /\ At("files"),
         todo' = steps \o Tail(todo), mem' = [mem EXCEPT !.runs[call.id] = r],
         r.state # "queued" \/ r.state = mem.runs[call.id].state,
         r.merge \/ (left \cup Left(Tail(todo))) \cap MergeSteps = {},
         call' \in Calls, call'.op = call.op, call'.id = call.id, call'.body = call.body,
         \/ call'.undo = None
         \/ /\ steps # <<>> /\ Head(steps) = "save"
            /\ Unqueued(mem.runs[call.id]) => Unqueued(call'.undo),
         UNCHANGED <<disk, late, agentVars, used, applied, acked>>
  PROVE  TypeOK' /\ StartInv'
<1>1. /\ todo # <<>> /\ Head(todo) = step /\ step \in Left(todo)
      /\ Left(todo) = {step} \cup Left(Tail(todo))
  BY AtStep DEF TypeOK, MergeSteps
<1>2. /\ call.op \in {"report", "boot"} /\ call.id \in Ids /\ mem.runs[call.id] # None
      /\ "apply" \notin Left(todo)
  BY <1>1, OpAt DEF TypeOK, StartInv, CallInv, MergingInv, ApplyingInv
<1>3. /\ mem' \in Sessions /\ mem'.runs[call.id] = r
      /\ \A other \in Ids \ {call.id} : mem'.runs[other] = mem.runs[other]
  BY <1>2, RunSet DEF TypeOK, ServerTypes
<1>4. UNCHANGED <<late, receipts>>
  BY DEF agentVars
<1>5. /\ PlanInv' /\ CallsInv' /\ VictimInv' /\ AdmittingInv' /\ HandedInv'
      /\ todo' \in Seq(Plan) /\ Left(todo') = left \cup Left(Tail(todo))
      /\ steps # <<>> => todo' # <<>> /\ Head(todo') = Head(steps)
  BY <1>1, <1>2, <1>4, GoesOn
<1>6. TypeOK'
  BY <1>3, <1>5 DEF TypeOK, ServerTypes, AgentTypes, GhostTypes, agentVars
<1>7. r # None
  BY NoneAssumption
<1>8. MergingInv'
  BY <1>2, <1>3, <1>5, <1>7 DEF MergingInv
<1>9. ApplyingInv'
  <2>1. "apply" \notin Left(todo')
    BY <1>1, <1>2, <1>5 DEF MergeSteps
  <2> QED BY <2>1 DEF ApplyingInv
<1>10. UndoInv'
  BY <1>2, <1>3, <1>5, <1>7 DEF UndoInv, At, Ahead, Idle
<1>11. RecordsInv' /\ CommandInv' /\ StartedInv'
  <2>1. \A id \in Ids : /\ mem'.runs[id] = None <=> mem.runs[id] = None
                        /\ Unqueued(mem.runs[id]) => Unqueued(mem'.runs[id])
    BY <1>2, <1>3, <1>7 DEF Unqueued
  <2>2. RecordsInv' /\ CommandInv'
    BY <2>1 DEF StartInv, RecordsInv, CommandInv, agentVars
  <2>3. StartedInv'
    <3>1. ASSUME NEW id \in Ids PROVE Started(id)' = Started(id)
      BY DEF Started, agentVars
    <3>2. Unqueued(None)
      BY DEF Unqueued
    <3>3. ASSUME NEW id \in Ids, Started(id), call.id = id PROVE Unqueued(call'.undo)
      <4>1. Unqueued(mem.runs[id])
        BY <3>3 DEF StartInv, StartedInv
      <4> QED BY <3>2, <3>3, <4>1
    <3> QED BY <2>1, <3>1, <3>3 DEF StartInv, StartedInv, agentVars
  <2> QED BY <2>2, <2>3
<1> QED BY <1>5, <1>6, <1>8, <1>9, <1>10, <1>11 DEF StartInv, CallInv

\* A merge that is given up.
LEMMA GivenUp ==
  ASSUME TypeOK, StartInv, Abort, UNCHANGED <<mem, late, agentVars, acked, applied>>, disk' \in Disks,
         used' \in [failures : Nat, changes : Nat],
         disk'.session = disk.session, disk'.requests = disk.requests,
         disk'.executions = disk.executions, disk'.created = disk.created
  PROVE  TypeOK' /\ StartInv'
<1>1. call' = NoCall /\ todo' \in {<<>>, <<"down">>}
  BY DEF Abort
<1>2. CallInv' /\ AdmittingInv' /\ HandedInv' /\ todo' \in Seq(Plan) /\ call' \in Calls
  BY <1>1, CallEnds DEF agentVars
<1>3. TypeOK'
  BY <1>2 DEF TypeOK, ServerTypes, AgentTypes, GhostTypes, agentVars
<1>4. RecordsInv' /\ CommandInv'
  BY DEF StartInv, RecordsInv, CommandInv, agentVars
<1>5. ASSUME NEW id \in Ids PROVE Started(id)' = Started(id)
  BY DEF Started, agentVars
<1>6. StartedInv'
  BY <1>1, <1>5, NoCallTypes DEF StartInv, StartedInv, agentVars, Unqueued
<1> QED BY <1>2, <1>3, <1>4, <1>6 DEF StartInv

LEMMA SameRun ==
  ASSUME TypeOK, mem' = mem
  PROVE  mem' = [mem EXCEPT !.runs[call.id] = mem.runs[call.id]]
BY DEF TypeOK, ServerTypes, Sessions

LEMMA MergeAt ==
  ASSUME TypeOK, StartInv, NEW step \in MergeSteps, At(step)
  PROVE  /\ call.op \in {"report", "boot"} /\ call.id \in Ids /\ call \in Calls
         /\ mem.runs[call.id] \in Runs /\ mem.runs[call.id] # None /\ mem.runs[call.id].merge
         /\ call.undo = None
         /\ step \in {"merge", "finish"} => Left(Tail(todo)) \cap MergeSteps = {}
<1>1. todo # <<>> /\ Head(todo) = step /\ step \in Left(todo)
  BY AtStep DEF TypeOK, MergeSteps
<1>2. /\ call.op \in {"report", "boot"} /\ call.id \in Ids /\ mem.runs[call.id] # None
      /\ mem.runs[call.id].merge
  BY <1>1, OpAt DEF TypeOK, StartInv, CallInv, MergingInv
<1>3. call.undo = None
  BY <1>1 DEF StartInv, CallInv, UndoInv, At, Ahead, Idle, MergeSteps
<1>4. step \in {"merge", "finish"} => Left(Tail(todo)) \cap MergeSteps = {}
  BY <1>1, StraightTail DEF TypeOK, ServerTypes, StartInv, CallInv, PlanInv
<1> QED BY <1>2, <1>3, <1>4, KnownRun DEF TypeOK, ServerTypes

LEMMA MergeStep ==
  ASSUME TypeOK, StartInv, Merge
  PROVE  TypeOK' /\ StartInv'
<1> DEFINE M == mem.runs[call.id]
<1>1. At("merge") /\ "merge" \in MergeSteps /\ UNCHANGED <<disk, late, agentVars, used, applied, acked>>
  BY DEF Merge, MergeSteps
<1>2. /\ call.op \in {"report", "boot"} /\ call.id \in Ids /\ call \in Calls
      /\ M \in Runs /\ M # None /\ M.merge /\ call.undo = None
      /\ Left(Tail(todo)) \cap MergeSteps = {}
  BY <1>1, MergeAt
<1>3. CASE Goes(<<"finish">>) /\ UNCHANGED <<mem, call>>
  <2>1. IsList(<<"finish">>, {"finish"}) /\ {"finish"} \subseteq MergeSteps \cup {"save", "retain"}
    BY Lists DEF MergeSteps
  <2> QED BY <1>1, <1>2, <1>3, <2>1, SameRun, MergeGoes DEF Goes
<1>4. CASE Abort /\ UNCHANGED mem
  BY <1>1, <1>4, GivenUp DEF TypeOK, ServerTypes, GhostTypes
<1>5. IsList(<<"files", "finish">>, {"files", "finish"})
      /\ {"files", "finish"} \subseteq MergeSteps \cup {"save", "retain"}
  BY Lists DEF MergeSteps
<1>6. CASE Goes(<<"files", "finish">>) /\ UNCHANGED <<mem, call>>
  BY <1>1, <1>2, <1>5, <1>6, SameRun, MergeGoes DEF Goes
<1>7. CASE /\ mem' = [mem EXCEPT !.runs[call.id].error = TRUE]
           /\ Goes(<<"files", "finish">>) /\ UNCHANGED call
  <2>1. [M EXCEPT !.error = TRUE] \in Runs /\ [M EXCEPT !.error = TRUE].state = M.state
        /\ [M EXCEPT !.error = TRUE].merge = M.merge
    BY <1>2 DEF Runs
  <2>2. mem' = [mem EXCEPT !.runs[call.id] = [M EXCEPT !.error = TRUE]]
    BY <1>7
  <2> QED BY <1>1, <1>2, <1>5, <1>7, <2>1, <2>2, MergeGoes DEF Goes
<1>8. CASE /\ mem' = [mem EXCEPT !.runs[call.id].published = disk.notebook.version]
           /\ call' = [call EXCEPT !.undo = M]
           /\ Goes(<<"save", "publish", "files", "finish">>)
  <2> DEFINE r == [M EXCEPT !.published = disk.notebook.version]
  <2>1. r \in Runs /\ r.state = M.state /\ r.merge = M.merge
    BY <1>2 DEF Runs, TypeOK, ServerTypes, Disks
  <2>2. mem' = [mem EXCEPT !.runs[call.id] = r]
    BY <1>8
  <2>3. /\ call' \in Calls /\ call'.op = call.op /\ call'.id = call.id /\ call'.body = call.body
        /\ call'.undo = mem.runs[call.id]
    BY <1>2, <1>8 DEF Calls
  <2> HIDE DEF r
  <2> DEFINE steps == <<"save", "publish", "files", "finish">>
             left == {"save", "publish", "files", "finish"}
  <2>4. /\ IsList(steps, left) /\ left \subseteq MergeSteps \cup {"save", "retain"}
        /\ steps # <<>> /\ Head(steps) = "save"
    BY Lists DEF MergeSteps
  <2>5. /\ todo' = steps \o Tail(todo)
        /\ Unqueued(mem.runs[call.id]) => Unqueued(call'.undo)
    BY <1>8, <2>3 DEF Goes
  <2>6. r.merge /\ r.state = mem.runs[call.id].state
    BY <1>2, <2>1
  <2> HIDE DEF M, steps, left
  <2> QED BY <1>1, <1>2, <2>1, <2>2, <2>3, <2>4, <2>5, <2>6, MergeGoes
<1> QED BY <1>3, <1>4, <1>6, <1>7, <1>8 DEF Merge, Current

LEMMA FilesStep ==
  ASSUME TypeOK, StartInv, Files
  PROVE  TypeOK' /\ StartInv'
<1> DEFINE M == mem.runs[call.id]
<1>1. At("files") /\ "files" \in MergeSteps /\ UNCHANGED <<disk, call, late, agentVars, used, applied, acked>>
  BY DEF Files, MergeSteps
<1>2. /\ call.op \in {"report", "boot"} /\ call.id \in Ids /\ call \in Calls
      /\ M \in Runs /\ M # None /\ M.merge /\ call.undo = None
  BY <1>1, MergeAt
<1>3. CASE Goes(<<"deliver">>) /\ UNCHANGED mem
  <2>1. IsList(<<"deliver">>, {"deliver"}) /\ {"deliver"} \subseteq MergeSteps \cup {"save", "retain"}
        /\ {"deliver"} \subseteq {"deliver"}
    BY Lists DEF MergeSteps
  <2> QED BY <1>1, <1>2, <1>3, <2>1, SameRun, MergeGoes DEF Goes
<1>4. CASE /\ Goes(<<>>)
           /\ mem' = [mem EXCEPT !.runs[call.id].error = @ \/ disk.file.by # call.id]
  <2> DEFINE e == M.error \/ disk.file.by # call.id
             r == [M EXCEPT !.error = e]
  <2>1. e \in BOOLEAN /\ mem' = [mem EXCEPT !.runs[call.id] = r]
    BY <1>4
  <2> HIDE DEF e
  <2>2. r \in Runs /\ r.state = M.state /\ r.merge = M.merge
    BY <1>2, <2>1 DEF Runs
  <2>3. IsList(<<>>, {}) /\ {} \subseteq MergeSteps \cup {"save", "retain"}
        /\ {} \cap MergeSteps = {}
    BY Lists
  <2> HIDE DEF r
  <2> QED BY <1>1, <1>2, <1>4, <2>1, <2>2, <2>3, MergeGoes DEF Goes
<1> QED BY <1>3, <1>4 DEF Files

LEMMA MergedRuns ==
  ASSUME NEW run \in Runs
  PROVE  /\ Merged(run) \in Runs /\ ~Merged(run).merge /\ Merged(run).reports = run.reports
         /\ Merged(run).offset = run.offset /\ Merged(run).published = run.published
         /\ Merged(run).state = run.state \/ (Merged(run).state = "failed" /\ run.state = "completed")
         /\ [Merged(run) EXCEPT !.merge = TRUE] \in Runs
         /\ [Merged(run) EXCEPT !.merge = TRUE].merge
         /\ [Merged(run) EXCEPT !.merge = TRUE].state = Merged(run).state
         /\ [Merged(run) EXCEPT !.merge = TRUE].reports = run.reports
         /\ [Merged(run) EXCEPT !.merge = TRUE].offset = run.offset
         /\ [Merged(run) EXCEPT !.merge = TRUE].published = run.published
<1> DEFINE s == IF run.epoch = mem.epoch /\ run.error /\ run.state = "completed"
                THEN "failed" ELSE run.state
           r == [run EXCEPT !.merge = FALSE, !.state = s]
<1>1. /\ Merged(run) = r /\ s \in {"queued", "running"} \cup Terminal
      /\ s = run.state \/ (s = "failed" /\ run.state = "completed")
  BY DEF Merged, Runs, Terminal
<1> HIDE DEF s
<1>2. /\ r \in Runs /\ r.merge = FALSE /\ r.reports = run.reports /\ r.state = s
      /\ r.offset = run.offset /\ r.published = run.published
  BY <1>1 DEF Runs
<1> HIDE DEF r
<1>3. /\ [r EXCEPT !.merge = TRUE] \in Runs /\ [r EXCEPT !.merge = TRUE].merge = TRUE
      /\ [r EXCEPT !.merge = TRUE].state = r.state
      /\ [r EXCEPT !.merge = TRUE].reports = r.reports
      /\ [r EXCEPT !.merge = TRUE].offset = r.offset
      /\ [r EXCEPT !.merge = TRUE].published = r.published
  BY <1>2 DEF Runs
<1> QED BY <1>1, <1>2, <1>3

LEMMA FinishStep ==
  ASSUME TypeOK, StartInv, Finish
  PROVE  TypeOK' /\ StartInv'
<1> DEFINE M == mem.runs[call.id]
           u == [Merged(M) EXCEPT !.merge = TRUE]
<1>1. /\ At("finish") /\ "finish" \in MergeSteps /\ UNCHANGED <<disk, late, agentVars, used, applied, acked>>
      /\ mem' = [mem EXCEPT !.runs[call.id] = Merged(M)] /\ call' = [call EXCEPT !.undo = u]
      /\ todo' = <<"save", "retain">> \o Tail(todo)
  BY DEF Finish, MergeSteps, Goes, Current
<1>2. /\ call.op \in {"report", "boot"} /\ call.id \in Ids /\ call \in Calls
      /\ M \in Runs /\ M # None /\ M.merge /\ call.undo = None
      /\ Left(Tail(todo)) \cap MergeSteps = {}
  BY <1>1, MergeAt
<1>3. /\ Merged(M) \in Runs /\ ~Merged(M).merge
      /\ Merged(M).state # "queued" \/ Merged(M).state = M.state
      /\ u \in Runs /\ u.state = Merged(M).state
  BY <1>2, MergedRuns
<1> HIDE DEF u
<1>4. /\ call' \in Calls /\ call'.op = call.op /\ call'.id = call.id /\ call'.body = call.body
      /\ call'.undo = u
  BY <1>1, <1>2, <1>3 DEF Calls
<1>5. Unqueued(M) => Unqueued(u)
  BY <1>2, <1>3 DEF Unqueued
<1>6. /\ IsList(<<"save", "retain">>, {"save", "retain"})
      /\ {"save", "retain"} \subseteq MergeSteps \cup {"save", "retain"}
      /\ <<"save", "retain">> # <<>> /\ Head(<<"save", "retain">>) = "save"
      /\ ({"save", "retain"} \cup Left(Tail(todo))) \cap MergeSteps = {}
  BY <1>2, Lists DEF MergeSteps
<1> HIDE DEF M
<1> QED BY <1>1, <1>2, <1>3, <1>4, <1>5, <1>6, MergeGoes DEF M

LEMMA RetainStep ==
  ASSUME TypeOK, StartInv, Retain
  PROVE  TypeOK' /\ StartInv'
<1>1. At("retain") /\ UNCHANGED <<mem, late, agentVars, applied, acked>>
  BY DEF Retain
<1>2. Retained \subseteq disk.publications
  BY DEF Retained
<1>3. [disk EXCEPT !.publications = Retained] \in Disks
  BY <1>2 DEF TypeOK, ServerTypes, Disks
<1>4. /\ todo # <<>> /\ Head(todo) = "retain" /\ Left(todo) = {"retain"} \cup Left(Tail(todo))
      /\ call.op \in {"report", "boot"} /\ call.undo = None
  <2>1. todo # <<>> /\ Head(todo) = "retain" /\ Left(todo) = {"retain"} \cup Left(Tail(todo))
    BY <1>1, AtStep DEF TypeOK
  <2> QED BY <1>1, <2>1, OpAt DEF TypeOK, StartInv, CallInv, UndoInv, At, Ahead, Idle
<1>5. CASE disk' = [disk EXCEPT !.publications = Retained] /\ Goes(<<>>) /\ UNCHANGED <<call, used>>
  <2>1. SameRecords /\ disk' \in Disks
    BY <1>3, <1>5 DEF SameRecords, TypeOK, ServerTypes, Disks
  <2>2. IsList(<<>>, {}) /\ {} \subseteq MergeSteps \cup {"save", "retain"}
        /\ {} \cap MergeSteps = {}
    BY Lists
  <2>3. /\ PlanInv' /\ CallsInv' /\ VictimInv' /\ AdmittingInv' /\ HandedInv'
        /\ todo' \in Seq(Plan) /\ Left(todo') = Left(Tail(todo))
    BY <1>1, <1>4, <1>5, <2>2, GoesOn DEF Goes, agentVars
  <2>4. UndoInv' /\ MergingInv' /\ ApplyingInv'
    BY <1>1, <1>4, <1>5, <2>3 DEF StartInv, CallInv, UndoInv, MergingInv, ApplyingInv, MergeSteps
  <2>5. RecordsInv' /\ CommandInv' /\ StartedInv'
    BY <1>1, <1>4, <1>5, <2>1, RecordStep
  <2>6. TypeOK'
    BY <1>1, <1>5, <2>1, <2>3 DEF TypeOK, ServerTypes, AgentTypes, GhostTypes, agentVars
  <2> QED BY <2>3, <2>4, <2>5, <2>6 DEF StartInv, CallInv
<1>6. CASE Failure /\ Abort /\ disk' \in {disk, [disk EXCEPT !.publications = Retained]}
  <2>1. SameRecords /\ disk' \in Disks
    BY <1>3, <1>6 DEF SameRecords, TypeOK, ServerTypes, Disks
  <2>2. used' \in [failures : Nat, changes : Nat]
    BY <1>6 DEF Failure, TypeOK, GhostTypes
  <2> QED BY <1>1, <1>6, <2>1, <2>2, GivenUp DEF SameRecords
<1> QED BY <1>5, <1>6 DEF Retain

LEMMA BootMergesStep ==
  ASSUME TypeOK, StartInv, BootMerges
  PROVE  TypeOK' /\ StartInv'
<1>1. At("merges") /\ UNCHANGED <<mem, disk, late, agentVars, used, applied, acked>>
  BY DEF BootMerges
<1>2. /\ todo # <<>> /\ Head(todo) = "merges" /\ Left(todo) = {"merges"} \cup Left(Tail(todo))
      /\ call.op = "boot" /\ call.undo = None /\ Left(todo) \cap MergeSteps = {}
      /\ todo \in Seq(Plan) /\ Straight(todo) /\ "archive" \notin Left(todo)
      /\ Left(todo) \subseteq {"merges", "retain", "save"}
  <2>1. todo # <<>> /\ Head(todo) = "merges" /\ Left(todo) = {"merges"} \cup Left(Tail(todo))
    BY <1>1, AtStep DEF TypeOK
  <2>2. todo \in Seq(Plan) /\ Straight(todo)
    BY DEF TypeOK, ServerTypes, StartInv, CallInv, PlanInv
  <2>3. Left(Tail(todo)) \cap MergeSteps = {} /\ "merges" \notin MergeSteps
    BY <2>1, <2>2, StraightTail DEF MergeSteps
  <2>4. call.op = "boot"
    BY <1>1, OpAt DEF TypeOK, StartInv, CallInv
  <2>5. Left(todo) \subseteq MergeSteps \cup {"merges", "retain", "save"}
    BY <2>4 DEF StartInv, CallInv, PlanInv
  <2>6. Left(todo) \cap MergeSteps = {}
    BY <2>1, <2>3
  <2>7. Left(todo) \subseteq {"merges", "retain", "save"}
    BY <2>5, <2>6
  <2>8. call.undo = None
    BY <2>1 DEF StartInv, CallInv, UndoInv, At, Ahead, Idle
  <2> QED BY <2>1, <2>2, <2>4, <2>6, <2>7, <2>8
<1>3. CASE Goes(<<>>) /\ UNCHANGED call
  <2>2. IsList(<<>>, {}) /\ {} \subseteq MergeSteps \cup {"save", "retain"}
        /\ {} \cap MergeSteps = {}
    BY Lists
  <2>3. /\ PlanInv' /\ CallsInv' /\ VictimInv' /\ AdmittingInv' /\ HandedInv'
        /\ todo' \in Seq(Plan) /\ Left(todo') = Left(Tail(todo))
    BY <1>1, <1>2, <1>3, <2>2, GoesOn DEF Goes, agentVars
  <2>4. UndoInv' /\ MergingInv' /\ ApplyingInv'
    BY <1>1, <1>2, <1>3, <2>3 DEF UndoInv, MergingInv, ApplyingInv
  <2>5. RecordsInv' /\ CommandInv' /\ StartedInv'
    BY <1>1, <1>2, <1>3, MemoryStep
  <2>6. TypeOK'
    BY <1>1, <1>3, <2>3 DEF TypeOK, ServerTypes, AgentTypes, GhostTypes, agentVars
  <2> QED BY <2>3, <2>4, <2>5, <2>6 DEF StartInv, CallInv
<1>4. CASE ToMerge # {} /\ todo' = <<"merge">> \o todo /\ call' = [call EXCEPT !.id = Least(ToMerge)]
  <2> DEFINE id == Least(ToMerge)
  <2>1. id \in Ids /\ id \in 0..MaxRuns /\ mem.runs[id] # None /\ mem.runs[id].merge
    <3>1. ToMerge \in SUBSET Ids
      BY DEF ToMerge, Known
    <3>2. id \in ToMerge
      BY <1>4, <3>1, LeastIn
    <3> QED BY <3>2, IdsNat DEF ToMerge, Known
  <2>2. call' = [call EXCEPT !.id = id]
    BY <1>4
  <2> HIDE DEF id
  <2>3. /\ call' \in Calls /\ call'.op = "boot" /\ call'.id = id /\ call'.undo = None
    BY <1>2, <2>1, <2>2 DEF TypeOK, ServerTypes, Calls
  <2>4. IsList(<<"merge">>, {"merge"})
    BY Lists
  <2>5. /\ todo' \in Seq(Plan) /\ Left(todo') = {"merge"} \cup Left(todo)
        /\ todo' # <<>> /\ Head(todo') = "merge"
    <3>1. <<"merge">> # <<>> /\ Head(<<"merge">>) = "merge"
      OBVIOUS
    <3> QED BY <1>2, <1>4, <2>4, <3>1, LeftConcat, HeadConcat DEF IsList
  <2>6. Straight(todo')
    <3>1. \A step \in {"merge"} : Barred(step) \cap Left(todo) = {}
      BY <1>2, Following
    <3> QED BY <1>2, <1>4, <2>4, <3>1, StraightConcat DEF IsList
  <2>7. TypeOK'
    BY <1>1, <2>3, <2>5 DEF TypeOK, ServerTypes, AgentTypes, GhostTypes, agentVars
  <2>8. PlanInv'
    BY <1>2, <2>3, <2>5, <2>6 DEF PlanInv, MergeSteps
  <2>9. CallsInv'
    BY <1>1, <2>3 DEF StartInv, CallInv, CallsInv, ReportOf, agentVars
  <2>10. UndoInv' /\ VictimInv' /\ MergingInv' /\ ApplyingInv'
    BY <1>1, <1>2, <2>1, <2>3, <2>5 DEF UndoInv, VictimInv, MergingInv, ApplyingInv, At, Ahead, Idle
  <2>11. AdmittingInv' /\ HandedInv'
    <3>1. todo' # <<"register", "save", "reply">>
      BY <2>5
    <3> QED BY <1>2, <2>3, <2>5, <3>1 DEF AdmittingInv, HandedInv
  <2>12. RecordsInv' /\ CommandInv' /\ StartedInv'
    BY <1>1, <2>3, MemoryStep
  <2> QED BY <2>7, <2>8, <2>9, <2>10, <2>11, <2>12 DEF StartInv, CallInv
<1> QED BY <1>3, <1>4 DEF BootMerges

-----------------------------------------------------------------------------
(* The users, and the start of the server.                                 *)

\* A call of a user that changes the record and saves it.
LEMMA SavesStep ==
  ASSUME TypeOK, StartInv, NEW m \in Sessions, Saves(m), used' \in [failures : Nat, changes : Nat],
         \A id \in Ids : /\ m.runs[id] = None <=> mem.runs[id] = None
                         /\ Unqueued(mem.runs[id]) => Unqueued(m.runs[id])
  PROVE  TypeOK' /\ StartInv'
<1>1. mem' = m /\ call' = NoCall /\ todo' = <<"save">> /\ UNCHANGED <<disk, late, agentVars, applied, acked>>
  BY DEF Saves, Begins
<1>2. CallInv' /\ AdmittingInv' /\ HandedInv' /\ todo' \in Seq(Plan) /\ call' \in Calls
  BY <1>1, CallEnds DEF agentVars
<1>3. TypeOK'
  BY <1>1, <1>2 DEF TypeOK, ServerTypes, AgentTypes, GhostTypes, agentVars
<1>4. RecordsInv' /\ CommandInv' /\ StartedInv'
  BY <1>1, NoCallTypes, MemoryStep
<1> QED BY <1>2, <1>3, <1>4 DEF StartInv

\* Queued runs are ended without having run.
LEMMA EndedRun ==
  ASSUME NEW run \in Runs
  PROVE  /\ [run EXCEPT !.state = "interrupted"] \in Runs
         /\ [run EXCEPT !.state = "interrupted"].state = "interrupted"
         /\ [run EXCEPT !.state = "interrupted"].merge = run.merge
         /\ [run EXCEPT !.state = "interrupted"].reports = run.reports
BY DEF Runs, Terminal

LEMMA UserSteps ==
  ASSUME TypeOK, StartInv, Hide \/ Stop \/ Start \/ Edit \/ (\E id \in Ids : Cancel(id))
  PROVE  TypeOK' /\ StartInv'
<1>1. mem \in Sessions /\ used \in [failures : Nat, changes : Nat]
  BY DEF TypeOK, ServerTypes, GhostTypes
<1>2. (Change => used' \in [failures : Nat, changes : Nat])
  BY <1>1 DEF Change
<1>3. CASE Hide
  <2> DEFINE m == [mem EXCEPT !.epoch = @ + 1, !.generation = @ + 1]
  <2>0. mem.epoch + 1 \in Nat /\ mem.generation + 1 \in Nat
    BY <1>1 DEF Sessions
  <2>1. m \in Sessions /\ m.runs = mem.runs
    <3> DEFINE e == mem.epoch + 1
               g == mem.generation + 1
    <3>1. m = [mem EXCEPT !.epoch = e, !.generation = g] /\ e \in Nat /\ g \in Nat
      BY <2>0
    <3> HIDE DEF m, e, g
    <3> QED BY <1>1, <3>1 DEF Sessions
  <2>2. Saves(m) /\ used' \in [failures : Nat, changes : Nat]
    BY <1>2, <1>3 DEF Hide
  <2> HIDE DEF m
  <2> QED BY <2>1, <2>2, SavesStep
<1>4. CASE Stop
  <2> DEFINE runs == [id \in Ids |-> IF id \in Queued
                        THEN [mem.runs[id] EXCEPT !.state = "interrupted"] ELSE mem.runs[id]]
             m == [mem EXCEPT !.open = FALSE, !.generation = @ + 1, !.runs = runs]
  <2>1. runs \in [Ids -> Runs \cup {None}]
    BY <1>1, EndedRun DEF Sessions, Queued, Known
  <2>2. \A id \in Ids : /\ runs[id] = None <=> mem.runs[id] = None
                        /\ Unqueued(mem.runs[id]) => Unqueued(runs[id])
    BY <1>1, EndedRun, NoneAssumption DEF Sessions, Queued, Known, Unqueued
  <2>3. Saves(m) /\ used' \in [failures : Nat, changes : Nat]
    BY <1>2, <1>4 DEF Stop
  <2> HIDE DEF runs
  <2>4. m \in Sessions /\ m.runs = runs
    <3> DEFINE g == mem.generation + 1
    <3>1. m = [mem EXCEPT !.open = FALSE, !.generation = g, !.runs = runs] /\ g \in Nat
      BY <1>1 DEF Sessions
    <3> HIDE DEF m, g
    <3> QED BY <1>1, <2>1, <3>1 DEF Sessions
  <2> HIDE DEF m
  <2> QED BY <2>2, <2>3, <2>4, SavesStep
<1>5. CASE Start
  <2> DEFINE m == [mem EXCEPT !.open = TRUE]
  <2>1. m \in Sessions /\ m.runs = mem.runs
    BY <1>1 DEF Sessions
  <2>2. Saves(m) /\ used' \in [failures : Nat, changes : Nat]
    BY <1>1, <1>5 DEF Start
  <2> HIDE DEF m
  <2> QED BY <2>1, <2>2, SavesStep
<1>6. ASSUME NEW id \in Ids, Cancel(id) PROVE TypeOK' /\ StartInv'
  <2> DEFINE r == [mem.runs[id] EXCEPT !.state = "interrupted"]
             m == [mem EXCEPT !.runs[id] = r]
  <2>1. mem.runs[id] \in Runs /\ mem.runs[id] # None
    BY <1>6, KnownRun DEF Cancel, Queued, Known
  <2>2. r \in Runs /\ r.state = "interrupted"
    BY <2>1, EndedRun
  <2>3. Saves(m) /\ used' \in [failures : Nat, changes : Nat]
    BY <1>2, <1>6 DEF Cancel
  <2> HIDE DEF r
  <2>4. m \in Sessions /\ m.runs = [mem.runs EXCEPT ![id] = r]
    BY <1>1, <2>2 DEF Sessions
  <2>5. \A other \in Ids : /\ m.runs[other] = None <=> mem.runs[other] = None
                           /\ Unqueued(mem.runs[other]) => Unqueued(m.runs[other])
    BY <1>1, <2>1, <2>2, <2>4, NoneAssumption DEF Unqueued, Sessions
  <2> HIDE DEF m
  <2> QED BY <2>3, <2>4, <2>5, SavesStep
<1>7. CASE Edit
  <2>1. /\ todo = <<>> /\ disk' = [disk EXCEPT !.file = [version |-> disk.file.version + 1, by |-> 0]]
        /\ UNCHANGED <<mem, todo, call, late, agentVars, applied, acked>>
        /\ used' \in [failures : Nat, changes : Nat]
    BY <1>2, <1>7 DEF Edit, Idle
  <2>2. disk' \in Disks /\ SameRecords
    <3> DEFINE f == [version |-> disk.file.version + 1, by |-> 0]
    <3>1. disk \in Disks /\ disk' = [disk EXCEPT !.file = f]
      BY <2>1 DEF TypeOK, ServerTypes
    <3>2. f \in [version : Nat, by : 0..MaxRuns]
      BY <3>1, IdsNat DEF Disks
    <3> HIDE DEF f
    <3> QED BY <3>1, <3>2 DEF SameRecords, Disks
  <2>3. TypeOK'
    BY <2>1, <2>2 DEF TypeOK, ServerTypes, AgentTypes, GhostTypes, agentVars
  <2>4. call.undo = None
    BY <2>1 DEF StartInv, CallInv, UndoInv, At, Ahead, Idle
  <2>5. RecordsInv' /\ CommandInv' /\ StartedInv'
    BY <2>1, <2>2, <2>4, RecordStep
  <2>6. CallInv'
    BY <2>1 DEF StartInv, CallInv, PlanInv, CallsInv, ReportOf, UndoInv, VictimInv, MergingInv, ApplyingInv,
       At, Ahead, Idle, agentVars
  <2>7. AdmittingInv' /\ HandedInv'
    BY <2>1, <2>2 DEF SameRecords, StartInv, AdmittingInv, HandedInv
  <2> QED BY <2>3, <2>5, <2>6, <2>7 DEF StartInv
<1> QED BY <1>3, <1>4, <1>5, <1>6, <1>7

LEMMA RenameStep ==
  ASSUME TypeOK, StartInv, NEW p \in Paths, Rename(p)
  PROVE  TypeOK' /\ StartInv'
<1>1. /\ call' = [NoCall EXCEPT !.path = p] /\ todo' = <<"rename", "save">>
      /\ UNCHANGED <<mem, disk, late, agentVars, applied, acked>>
      /\ used' \in [failures : Nat, changes : Nat]
  BY DEF Rename, Begins, Change, TypeOK, GhostTypes
<1>2. call' \in Calls /\ call'.op = "none" /\ call'.path = p /\ call'.undo = None
  BY <1>1, NoCallTypes DEF Calls
<1>3. /\ Left(todo') = {"rename", "save"} /\ todo' \in Seq(Plan) /\ Straight(todo')
      /\ todo' # <<>> /\ Head(todo') = "rename"
  BY <1>1, Lists DEF IsList
<1>4. TypeOK'
  BY <1>1, <1>2, <1>3 DEF TypeOK, ServerTypes, AgentTypes, GhostTypes, agentVars
<1>5. PlanInv' /\ CallsInv'
  BY <1>1, <1>2, <1>3 DEF PlanInv, StartInv, CallInv, CallsInv, ReportOf, agentVars
<1>6. UndoInv' /\ VictimInv' /\ MergingInv' /\ ApplyingInv'
  BY <1>2, <1>3 DEF UndoInv, VictimInv, MergingInv, ApplyingInv, MergeSteps, At, Ahead, Idle
<1>7. AdmittingInv' /\ HandedInv'
  <2>1. todo' # <<"register", "save", "reply">>
    BY <1>3
  <2> QED BY <1>2, <1>3, <2>1 DEF AdmittingInv, HandedInv
<1>8. RecordsInv' /\ CommandInv' /\ StartedInv'
  BY <1>1, <1>2, MemoryStep
<1> QED BY <1>4, <1>5, <1>6, <1>7, <1>8 DEF StartInv, CallInv

\* The record that is read back is the one on the disk.
LEMMA ReadBack ==
  ASSUME TypeOK, StartInv, UNCHANGED <<disk, agentVars>>,
         \A id \in Ids : /\ mem'.runs[id] = None <=> disk.session.runs[id] = None
                         /\ Unqueued(disk.session.runs[id]) => Unqueued(mem'.runs[id]),
         call'.undo = None
  PROVE  RecordsInv' /\ CommandInv' /\ StartedInv'
<1>1. RecordsInv' /\ CommandInv'
  BY DEF StartInv, RecordsInv, CommandInv, agentVars
<1>2. ASSUME NEW id \in Ids PROVE Started(id)' = Started(id)
  BY DEF Started, agentVars
<1>3. StartedInv'
  BY <1>2 DEF StartInv, StartedInv, Unqueued, agentVars
<1> QED BY <1>1, <1>3

LEMMA ServerKilledStep ==
  ASSUME TypeOK, StartInv, ServerKilled
  PROVE  TypeOK' /\ StartInv'
<1>1. /\ call' = NoCall /\ todo' = <<"down">> /\ mem' = disk.session
      /\ UNCHANGED <<disk, late, agentVars, applied, acked>>
      /\ used' \in [failures : Nat, changes : Nat]
  BY DEF ServerKilled, Begins, Failure, TypeOK, GhostTypes
<1>2. CallInv' /\ AdmittingInv' /\ HandedInv' /\ todo' \in Seq(Plan) /\ call' \in Calls
  BY <1>1, CallEnds DEF agentVars
<1>3. TypeOK'
  BY <1>1, <1>2 DEF TypeOK, ServerTypes, AgentTypes, GhostTypes, Disks, agentVars
<1>4. RecordsInv' /\ CommandInv' /\ StartedInv'
  BY <1>1, NoCallTypes, ReadBack
<1> QED BY <1>2, <1>3, <1>4 DEF StartInv

LEMMA BootStep ==
  ASSUME TypeOK, StartInv, Boot
  PROVE  TypeOK' /\ StartInv'
<1> DEFINE s == disk.session
           runs == [id \in Ids |-> IF id \in Known(s.runs) /\ s.runs[id].state = "queued"
                      THEN [s.runs[id] EXCEPT !.state = "interrupted"] ELSE s.runs[id]]
<1>1. /\ mem' = [s EXCEPT !.runs = runs] /\ call' = [NoCall EXCEPT !.op = "boot"]
      /\ todo' = <<"merges", "retain", "save">>
      /\ UNCHANGED <<disk, late, agentVars, used, applied, acked>>
  BY DEF Boot, Begins
<1>2. s \in Sessions
  BY DEF TypeOK, ServerTypes, Disks
<1>3. /\ runs \in [Ids -> Runs \cup {None}]
      /\ \A id \in Ids : /\ runs[id] = None <=> s.runs[id] = None
                         /\ Unqueued(s.runs[id]) => Unqueued(runs[id])
  <2>1. ASSUME NEW id \in Ids
        PROVE  /\ runs[id] \in Runs \cup {None}
               /\ runs[id] = None <=> s.runs[id] = None
               /\ Unqueued(s.runs[id]) => Unqueued(runs[id])
    BY <1>2, EndedRun, NoneAssumption DEF Sessions, Known, Unqueued
  <2> QED BY <2>1
<1> HIDE DEF runs
<1>4. mem' \in Sessions /\ mem'.runs = runs
  BY <1>1, <1>2, <1>3 DEF Sessions
<1> HIDE DEF s
<1>5. call' \in Calls /\ call'.op = "boot" /\ call'.undo = None
  BY <1>1, NoCallTypes DEF Calls
<1>6. /\ Left(todo') = {"merges", "retain", "save"} /\ todo' \in Seq(Plan) /\ Straight(todo')
      /\ todo' # <<>> /\ Head(todo') = "merges"
  BY <1>1, Lists DEF IsList
<1>7. TypeOK'
  BY <1>1, <1>4, <1>5, <1>6 DEF TypeOK, ServerTypes, AgentTypes, GhostTypes, agentVars
<1>8. PlanInv' /\ CallsInv'
  BY <1>1, <1>5, <1>6 DEF PlanInv, StartInv, CallInv, CallsInv, ReportOf, agentVars
<1>9. UndoInv' /\ VictimInv' /\ MergingInv' /\ ApplyingInv'
  BY <1>5, <1>6 DEF UndoInv, VictimInv, MergingInv, ApplyingInv, MergeSteps, At, Ahead, Idle
<1>10. AdmittingInv' /\ HandedInv'
  <2>1. todo' # <<"register", "save", "reply">>
    BY <1>6
  <2> QED BY <1>5, <1>6, <2>1 DEF AdmittingInv, HandedInv
<1>11. RecordsInv' /\ CommandInv' /\ StartedInv'
  <2>1. \A id \in Ids : /\ mem'.runs[id] = None <=> disk.session.runs[id] = None
                        /\ Unqueued(disk.session.runs[id]) => Unqueued(mem'.runs[id])
    BY <1>3, <1>4 DEF s
  <2> QED BY <1>1, <1>5, <2>1, ReadBack
<1> QED BY <1>7, <1>8, <1>9, <1>10, <1>11 DEF StartInv, CallInv

-----------------------------------------------------------------------------
(* The agent.                                                              *)

\* What the agent does by itself starts no other run.
LEMMA AgentStep ==
  ASSUME TypeOK, StartInv, UNCHANGED <<mem, disk, todo>>, AgentTypes', GhostTypes',
         call' = call \/ call' = [call EXCEPT !.waiting = FALSE],
         late' \subseteq Calls,
         \A c \in late' : c.op \in {"claim", "report"} /\ c.undo = None /\ ~c.waiting /\ ReportOf(c)',
         \A id \in Ids : receipts[id] # None => receipts'[id] # None,
         \A id \in Ids : Started(id)' => Started(id),
         CommandInv'
  PROVE  TypeOK' /\ StartInv'
<1>1. /\ call' \in Calls /\ call'.op = call.op /\ call'.req = call.req /\ call'.path = call.path
      /\ call'.id = call.id /\ call'.body = call.body /\ call'.undo = call.undo
      /\ call'.victim = call.victim
  BY DEF TypeOK, ServerTypes, Calls
<1>2. TypeOK'
  BY <1>1 DEF TypeOK, ServerTypes
<1>3. CallsInv'
  BY <1>1 DEF StartInv, CallInv, CallsInv, ReportOf
<1>4. PlanInv'
  BY <1>1 DEF StartInv, CallInv, PlanInv
<1>5. UndoInv' /\ VictimInv' /\ MergingInv' /\ ApplyingInv'
  BY <1>1 DEF StartInv, CallInv, UndoInv, VictimInv, MergingInv, ApplyingInv, At, Ahead, Idle
<1>6. RecordsInv' /\ AdmittingInv' /\ HandedInv'
  BY <1>1 DEF StartInv, RecordsInv, AdmittingInv, HandedInv
<1>7. StartedInv'
  BY <1>1 DEF StartInv, StartedInv
<1> QED BY <1>2, <1>3, <1>4, <1>5, <1>6, <1>7 DEF StartInv, CallInv

\* Late calls are not disturbed by more receipts.
LEMMA LateKept ==
  ASSUME TypeOK, StartInv, UNCHANGED late,
         \A id \in Ids : receipts[id] # None => receipts'[id] # None
  PROVE  /\ late' \subseteq Calls
         /\ \A c \in late' : c.op \in {"claim", "report"} /\ c.undo = None /\ ~c.waiting /\ ReportOf(c)'
BY DEF TypeOK, ServerTypes, StartInv, CallInv, CallsInv, ReportOf

LEMMA LaunchStep ==
  ASSUME TypeOK, StartInv, Launch
  PROVE  TypeOK' /\ StartInv'
<1> DEFINE q == RequestOf(agent.active)
<1>1. /\ agent.stage = "prepared" /\ launches' = [launches EXCEPT ![q] = @ + 1]
      /\ agent' = [agent EXCEPT !.stage = "running"]
      /\ UNCHANGED <<serverVars, late, receipts, used, applied, acked>>
  BY DEF Launch
<1>2. agent.active \in Ids /\ Started(agent.active)
  BY <1>1 DEF StartInv, CommandInv, Started
<1>3. \E r \in Requests : disk.requests[r] # None /\ disk.requests[r].id = agent.active
  <2>1. disk.executions[agent.active] # None
    BY <1>2 DEF StartInv, StartedInv
  <2>2. agent.active \in 1..disk.created
    BY <1>2, <2>1 DEF StartInv, RecordsInv, Ids, TypeOK, ServerTypes, Disks
  <2> QED BY <2>2 DEF StartInv, RecordsInv
<1>4. q \in Requests /\ disk.requests[q] # None /\ disk.requests[q].id = agent.active
  BY <1>3 DEF RequestOf
<1> HIDE DEF q
<1>5. launches[q] = 0 /\ launches \in [Requests -> Nat]
  BY <1>1, <1>4 DEF StartInv, CommandInv, TypeOK, AgentTypes
<1>6. launches'[q] = 1 /\ \A r \in Requests \ {q} : launches'[r] = launches[r]
  BY <1>1, <1>4, <1>5
<1>7. agent'.stage = "running" /\ agent'.active = agent.active
  BY <1>1 DEF TypeOK, AgentTypes
<1>8. AgentTypes' /\ GhostTypes'
  BY <1>1, <1>4, <1>5 DEF TypeOK, AgentTypes, GhostTypes
<1>9. disk' = disk
  BY <1>1 DEF serverVars
<1>10. \A id \in Ids : Started(id)' => Started(id)
  BY <1>1, <1>2, <1>4, <1>6, <1>7, <1>9 DEF Started
<1>11. CommandInv'
  BY <1>1, <1>2, <1>4, <1>6, <1>7, <1>9 DEF StartInv, CommandInv
<1> QED BY <1>1, <1>8, <1>10, <1>11, LateKept, AgentStep DEF serverVars

\* A receipt that changes stays a receipt.
LEMMA ReceiptKept ==
  ASSUME TypeOK, NEW id \in Ids, receipts[id] # None, NEW r \in Receipts,
         receipts' = [receipts EXCEPT ![id] = r]
  PROVE  /\ receipts' \in [Ids -> Receipts \cup {None}] /\ receipts'[id] = r /\ r # None
         /\ \A other \in Ids : receipts[other] # None => receipts'[other] # None
         /\ \A other \in Ids \ {id} : receipts'[other] = receipts[other]
BY NoneAssumption DEF TypeOK, AgentTypes

\* The stage of the agent and the receipt of its command.
LEMMA CommandSteps ==
  ASSUME TypeOK, StartInv, NoKernel \/ Output \/ End \/ Prepare
  PROVE  TypeOK' /\ StartInv'
<1> DEFINE id == agent.active
           r == receipts[id]
<1>1. /\ agent.stage # "free" /\ todo = <<>>
      /\ UNCHANGED <<serverVars, late, launches, used, applied, acked>>
      /\ agent' = agent \/ agent' = [agent EXCEPT !.stage = "over"]
  BY DEF NoKernel, Output, End, Prepare, Idle
<1>2. id \in Ids /\ r # None
  BY <1>1 DEF StartInv, CommandInv
<1>3. r \in Receipts
  BY <1>2 DEF TypeOK, AgentTypes
<1> DEFINE Becomes(n) == n \in Receipts /\ receipts' = [receipts EXCEPT ![id] = n]
<1>4. \E n : Becomes(n)
  <2>1. ASSUME NEW s \in Terminal, receipts' = [receipts EXCEPT ![id].state = s] PROVE \E n : Becomes(n)
    <3>1. [r EXCEPT !.state = s] \in Receipts /\ receipts' = [receipts EXCEPT ![id] = [r EXCEPT !.state = s]]
      BY <1>3, <2>1 DEF Receipts
    <3>2. Becomes([r EXCEPT !.state = s])
      BY <3>1
    <3> QED BY <3>2
  <2>2. CASE receipts' = [receipts EXCEPT ![id].events = @ + 1]
    <3>1. [r EXCEPT !.events = r.events + 1] \in Receipts
          /\ receipts' = [receipts EXCEPT ![id] = [r EXCEPT !.events = r.events + 1]]
      BY <1>3, <2>2 DEF Receipts
    <3>2. Becomes([r EXCEPT !.events = r.events + 1])
      BY <3>1
    <3> QED BY <3>2
  <2>3. CASE receipts' = [receipts EXCEPT ![id].pending = [offset |-> r.offset, end |-> r.events, state |-> r.state]]
    <3> DEFINE b == [offset |-> r.offset, end |-> r.events, state |-> r.state]
    <3>1. b \in Bodies
      BY <1>3 DEF Receipts, Bodies
    <3>2. receipts' = [receipts EXCEPT ![id] = [r EXCEPT !.pending = b]]
      BY <2>3
    <3> HIDE DEF b
    <3>3. [r EXCEPT !.pending = b] \in Receipts
      BY <1>3, <3>1 DEF Receipts
    <3>4. Becomes([r EXCEPT !.pending = b])
      BY <3>2, <3>3
    <3> QED BY <3>4
  <2>4. \/ \E s \in Terminal : receipts' = [receipts EXCEPT ![id].state = s]
        \/ receipts' = [receipts EXCEPT ![id].events = @ + 1]
        \/ receipts' = [receipts EXCEPT ![id].pending = [offset |-> r.offset, end |-> r.events, state |-> r.state]]
    BY DEF NoKernel, Output, End, Prepare, Active, Terminal
  <2> HIDE DEF Becomes, r, id
  <2> QED BY <2>1, <2>2, <2>3, <2>4
<1> HIDE DEF id, r, Becomes
<1>5. /\ receipts' \in [Ids -> Receipts \cup {None}] /\ receipts'[id] # None
      /\ \A other \in Ids : receipts[other] # None => receipts'[other] # None
  BY <1>2, <1>4, ReceiptKept DEF r, Becomes
<1>6. agent'.active = id /\ (agent'.stage = agent.stage \/ agent'.stage = "over")
      /\ agent' \in [stage : {"free", "prepared", "running", "over"}, active : 0..MaxRuns]
  BY <1>1 DEF id, TypeOK, AgentTypes
<1>7. AgentTypes' /\ GhostTypes'
  BY <1>1, <1>5, <1>6 DEF TypeOK, AgentTypes, GhostTypes
<1>8. disk' = disk
  BY <1>1 DEF serverVars
<1>9. \A other \in Ids : Started(other)' => Started(other)
  BY <1>1, <1>6, <1>8 DEF Started, id
<1>10. CommandInv'
  BY <1>1, <1>2, <1>5, <1>6, <1>8 DEF StartInv, CommandInv, id
<1> QED BY <1>1, <1>5, <1>7, <1>9, <1>10, LateKept, AgentStep DEF serverVars

LEMMA ClaimCallTypes ==
  /\ ClaimCall \in Calls /\ ClaimCall.op = "claim" /\ ClaimCall.undo = None
  /\ [ClaimCall EXCEPT !.waiting = FALSE] \in Calls
  /\ [ClaimCall EXCEPT !.waiting = FALSE].op = "claim"
  /\ [ClaimCall EXCEPT !.waiting = FALSE].undo = None
  /\ ~[ClaimCall EXCEPT !.waiting = FALSE].waiting
BY NoCallTypes DEF ClaimCall, Calls

LEMMA ReportCallTypes ==
  ASSUME TypeOK, StartInv, agent.stage # "free", Active.pending # None
  PROVE  /\ ReportCall \in Calls /\ ReportCall.op = "report" /\ ReportCall.undo = None
         /\ ReportCall.id = agent.active /\ ReportCall.body = Active.pending
         /\ [ReportCall EXCEPT !.waiting = FALSE] \in Calls
         /\ [ReportCall EXCEPT !.waiting = FALSE].op = "report"
         /\ [ReportCall EXCEPT !.waiting = FALSE].undo = None
         /\ [ReportCall EXCEPT !.waiting = FALSE].id = agent.active
         /\ [ReportCall EXCEPT !.waiting = FALSE].body = Active.pending
         /\ ~[ReportCall EXCEPT !.waiting = FALSE].waiting
         /\ ReportOf(ReportCall) /\ ReportOf([ReportCall EXCEPT !.waiting = FALSE])
<1>1. agent.active \in Ids /\ agent.active \in 0..MaxRuns /\ receipts[agent.active] # None
  BY IdsNat DEF StartInv, CommandInv
<1>2. receipts[agent.active] \in Receipts
  BY <1>1 DEF TypeOK, AgentTypes
<1>3. Active.pending \in Bodies
  BY <1>2 DEF Active, Receipts
<1>4. /\ ReportCall \in Calls /\ ReportCall.op = "report" /\ ReportCall.undo = None
      /\ ReportCall.id = agent.active /\ ReportCall.body = Active.pending
  BY <1>1, <1>3, NoCallTypes DEF ReportCall, Calls
<1> DEFINE c == [ReportCall EXCEPT !.waiting = FALSE]
<1>5. /\ c \in Calls /\ c.op = "report" /\ c.undo = None /\ ~c.waiting
      /\ c.id = agent.active /\ c.body = Active.pending
  BY <1>4 DEF Calls
<1> HIDE DEF c
<1>6. ReportOf(ReportCall) /\ ReportOf(c)
  BY <1>1, <1>3, <1>4, <1>5 DEF ReportOf
<1> QED BY <1>4, <1>5, <1>6 DEF c

LEMMA CallSteps ==
  ASSUME TypeOK, StartInv, Claim \/ Send \/ (\E c \in late : Arrive(c))
  PROVE  TypeOK' /\ StartInv'
<1>1. CASE Claim
  <2>1. HandleClaim(ClaimCall) /\ UNCHANGED <<mem, disk, late, agentVars, used, applied, acked>>
    BY <1>1 DEF Claim
  <2> QED BY <2>1, ClaimCallTypes, ClaimStep
<1>2. CASE Send
  <2>1. /\ HandleReport(ReportCall) /\ UNCHANGED <<mem, disk, late, agentVars, used, applied, acked>>
        /\ agent.stage # "free" /\ Active.pending # None
    BY <1>2 DEF Send
  <2> QED BY <2>1, ReportCallTypes, ReportStep
<1>3. ASSUME NEW c \in late, Arrive(c) PROVE TypeOK' /\ StartInv'
  <2>1. /\ UNCHANGED <<mem, disk, agentVars, used, applied, acked>> /\ late' \subseteq late
        /\ IF c.op = "claim" THEN HandleClaim(c) ELSE HandleReport(c)
    BY <1>3 DEF Arrive
  <2>2. c \in Calls /\ c.op \in {"claim", "report"} /\ c.undo = None /\ ReportOf(c)
    BY DEF TypeOK, ServerTypes, StartInv, CallInv, CallsInv
  <2>3. CASE c.op = "claim"
    BY <2>1, <2>2, <2>3, ClaimStep
  <2>4. CASE c.op = "report"
    BY <2>1, <2>2, <2>4, ReportStep
  <2> QED BY <2>2, <2>3, <2>4
<1> QED BY <1>1, <1>2, <1>3

\* A call that is given up by the agent, now or before it arrives.
LEMMA TimesOutStep ==
  ASSUME TypeOK, StartInv, TimesOut
  PROVE  TypeOK' /\ StartInv'
<1>1. /\ UNCHANGED <<mem, disk, todo, agentVars, applied, acked>>
      /\ used' \in [failures : Nat, changes : Nat]
  BY DEF TimesOut, Failure, TypeOK, GhostTypes
<1>2. AgentTypes' /\ GhostTypes'
  BY <1>1 DEF TypeOK, AgentTypes, GhostTypes, agentVars
<1>3. \A id \in Ids : /\ receipts[id] # None => receipts'[id] # None
                      /\ Started(id)' => Started(id)
  BY <1>1 DEF Started, agentVars
<1>4. CommandInv'
  BY <1>1 DEF StartInv, CommandInv, agentVars
<1>5. \A c \in Calls : ReportOf(c) => ReportOf(c)'
  BY <1>1 DEF ReportOf, agentVars
<1>6. CASE call' = [call EXCEPT !.waiting = FALSE] /\ UNCHANGED late
  BY <1>1, <1>2, <1>3, <1>4, <1>6, LateKept, AgentStep
<1>7. ASSUME NEW c \in Calls, UNCHANGED call, late' = late \cup {c}, c.op \in {"claim", "report"},
             c.undo = None, ~c.waiting, ReportOf(c)
      PROVE  TypeOK' /\ StartInv'
  <2>1. /\ late' \subseteq Calls
        /\ \A d \in late' : d.op \in {"claim", "report"} /\ d.undo = None /\ ~d.waiting /\ ReportOf(d)'
    BY <1>5, <1>7 DEF TypeOK, ServerTypes, StartInv, CallInv, CallsInv
  <2> QED BY <1>1, <1>2, <1>3, <1>4, <1>7, <2>1, AgentStep
<1>8. CASE late' = late \cup {[ClaimCall EXCEPT !.waiting = FALSE]} /\ UNCHANGED call
  <2>1. ReportOf([ClaimCall EXCEPT !.waiting = FALSE])
    BY ClaimCallTypes DEF ReportOf
  <2> QED BY <1>7, <1>8, <2>1, ClaimCallTypes
<1>9. CASE /\ agent.stage \in {"running", "over"} /\ Active.pending # None
           /\ late' = late \cup {[ReportCall EXCEPT !.waiting = FALSE]} /\ UNCHANGED call
  BY <1>7, <1>9, ReportCallTypes
<1> QED BY <1>6, <1>8, <1>9 DEF TimesOut

LEMMA AgentRestartsStep ==
  ASSUME TypeOK, StartInv, AgentRestarts
  PROVE  TypeOK' /\ StartInv'
<1>1. /\ agent' = [stage |-> "free", active |-> 0] /\ call' = [call EXCEPT !.waiting = FALSE]
      /\ UNCHANGED <<mem, disk, todo, late, receipts, launches, applied, acked>>
      /\ used' \in [failures : Nat, changes : Nat]
  BY DEF AgentRestarts, Failure, TypeOK, GhostTypes
<1>2. AgentTypes' /\ GhostTypes'
  BY <1>1, IdsNat DEF TypeOK, AgentTypes, GhostTypes
<1>3. \A id \in Ids : /\ receipts[id] # None => receipts'[id] # None
                      /\ Started(id)' => Started(id)
  BY <1>1 DEF Started
<1>4. CommandInv'
  BY <1>1 DEF StartInv, CommandInv
<1> QED BY <1>1, <1>2, <1>3, <1>4, LateKept, AgentStep

-----------------------------------------------------------------------------
(* The end of a call.                                                      *)

LEMMA ReplyEnds ==
  ASSUME TypeOK, StartInv, call' = NoCall, todo' = <<>>, UNCHANGED <<mem, disk, late>>,
         AgentTypes', GhostTypes', \A id \in Ids : receipts[id] # None => receipts'[id] # None,
         CommandInv', StartedInv'
  PROVE  TypeOK' /\ StartInv'
<1>1. CallInv' /\ AdmittingInv' /\ HandedInv' /\ todo' \in Seq(Plan) /\ call' \in Calls
  BY CallEnds
<1>2. RecordsInv'
  BY DEF StartInv, RecordsInv
<1>3. TypeOK'
  BY <1>1 DEF TypeOK, ServerTypes
<1> QED BY <1>1, <1>2, <1>3 DEF StartInv

\* A report that is answered changes the receipt of its run.
LEMMA AcknowledgedStep ==
  ASSUME TypeOK, StartInv, Reply, call.op = "report", Acknowledged
  PROVE  TypeOK' /\ StartInv'
<1> DEFINE id == call.id
           r == receipts[id]
           n == [r EXCEPT !.offset = call.body.end, !.pending = None]
<1>1. /\ call' = NoCall /\ todo' = <<>>
      /\ UNCHANGED <<mem, disk, late, used, launches, applied>>
  BY DEF Reply, Begins
<1>2. id \in Ids /\ r # None /\ call.body \in Bodies
  BY DEF StartInv, CallInv, CallsInv, ReportOf
<1>3. r \in Receipts /\ call.body.end \in Nat
  BY <1>2 DEF TypeOK, AgentTypes, Bodies
<1>4. n \in Receipts
  BY <1>3 DEF Receipts
<1>5. /\ receipts' = [receipts EXCEPT ![id].offset = call.body.end, ![id].pending = None]
      /\ agent' = [stage |-> "free", active |-> 0] \/ agent' = agent
      /\ acked' = acked \cup {id} \/ acked' = acked
  BY DEF Acknowledged
<1>6. receipts' = [receipts EXCEPT ![id] = n]
  BY <1>2, <1>3, <1>5 DEF TypeOK, AgentTypes, Receipts
<1> HIDE DEF n, r, id
<1>7. /\ receipts' \in [Ids -> Receipts \cup {None}] /\ receipts'[id] # None
      /\ \A other \in Ids : receipts[other] # None => receipts'[other] # None
  BY <1>2, <1>4, <1>6, ReceiptKept DEF r
<1>8. AgentTypes' /\ GhostTypes'
  <2>1. agent' \in [stage : {"free", "prepared", "running", "over"}, active : 0..MaxRuns]
    BY <1>5, IdsNat DEF TypeOK, AgentTypes
  <2>2. acked' \subseteq Ids
    BY <1>2, <1>5 DEF TypeOK, GhostTypes
  <2> QED BY <1>1, <1>7, <2>1, <2>2 DEF TypeOK, AgentTypes, GhostTypes
<1>9. \A other \in Ids : Started(other)' => Started(other)
  BY <1>1, <1>5 DEF Started
<1>10. CommandInv'
  BY <1>1, <1>5, <1>7 DEF StartInv, CommandInv
<1>11. StartedInv'
  BY <1>1, <1>7, <1>9, NoCallTypes DEF StartInv, StartedInv, Unqueued
<1> QED BY <1>1, <1>7, <1>8, <1>10, <1>11, ReplyEnds

\* A run that is handed out has no receipt yet, or is not started.
LEMMA AcceptsStep ==
  ASSUME TypeOK, StartInv, Reply, call.op \in {"claim", "recover"}, Accepts, UNCHANGED acked
  PROVE  TypeOK' /\ StartInv'
<1> DEFINE id == call.id
           known == receipts[id] # None
           fresh == [state |-> "running", events |-> 0, offset |-> 0, pending |-> None]
           given == IF known THEN receipts[id] ELSE fresh
           over == known \/ call.op = "recover"
           run == IF over /\ given.state = "running"
                  THEN [given EXCEPT !.state = "interrupted"] ELSE given
<1>1. /\ call' = NoCall /\ todo' = <<>> /\ todo = <<"reply">>
      /\ UNCHANGED <<mem, disk, late, used, launches, applied>>
  BY DEF Reply, Begins
<1>2. id \in Ids /\ id \in 0..MaxRuns
  BY <1>1, IdsNat, Lists DEF StartInv, CallInv, PlanInv
<1>3. receipts' = [receipts EXCEPT ![id] = run]
      /\ agent' = [stage |-> IF over THEN "over" ELSE "prepared", active |-> id]
  BY DEF Accepts
<1>4. given \in Receipts
  BY <1>2 DEF TypeOK, AgentTypes, Receipts
<1> HIDE DEF given
<1>5. run \in Receipts
  BY <1>4 DEF Receipts, Terminal
<1> HIDE DEF run
<1>6. /\ receipts' \in [Ids -> Receipts \cup {None}] /\ receipts'[id] # None
      /\ \A other \in Ids : receipts[other] # None => receipts'[other] # None
  BY <1>2, <1>3, <1>5, NoneAssumption DEF TypeOK, AgentTypes
<1>7. AgentTypes' /\ GhostTypes'
  BY <1>1, <1>2, <1>3, <1>6 DEF TypeOK, AgentTypes, GhostTypes
<1>8. agent'.active = id /\ (agent'.stage = "over" \/ (agent'.stage = "prepared" /\ ~over))
  BY <1>3
<1>9. \A other \in Ids \ {id} : Started(other)' => Started(other)
  BY <1>1, <1>8 DEF Started
<1>10. CASE over
  <2>1. \A other \in Ids : Started(other)' => Started(other)
    BY <1>1, <1>8, <1>10 DEF Started
  <2>2. CommandInv'
    BY <1>1, <1>2, <1>6, <1>8, <1>10 DEF StartInv, CommandInv
  <2>3. StartedInv'
    BY <1>1, <1>6, <2>1, NoCallTypes DEF StartInv, StartedInv, Unqueued
  <2> QED BY <1>1, <1>6, <1>7, <2>2, <2>3, ReplyEnds
<1>11. CASE ~over
  <2>1. receipts[id] = None /\ call.op = "claim"
    BY <1>11
  <2>2. ~Started(id)
    BY <1>2, <2>1 DEF StartInv, StartedInv
  <2>3. launches \in [Requests -> Nat]
    BY DEF TypeOK, AgentTypes
  <2>4. CommandInv'
    BY <1>1, <1>2, <1>6, <1>8, <2>2, <2>3 DEF StartInv, CommandInv, Started
  <2>5. /\ mem.runs[id] # None /\ Unqueued(mem.runs[id])
        /\ disk.session.runs[id] # None /\ Unqueued(disk.session.runs[id])
    BY <1>1, <2>1 DEF StartInv, HandedInv
  <2>6. disk.executions[id] # None
    BY <1>2, <2>5 DEF StartInv, RecordsInv
  <2>7. StartedInv'
    <3>1. ASSUME NEW other \in Ids, Started(other)'
          PROVE  /\ receipts'[other] # None /\ disk.executions[other] # None
                 /\ Unqueued(mem.runs[other]) /\ Unqueued(disk.session.runs[other])
                 /\ mem.runs[other] = None \/ disk.session.runs[other] = None
                      => disk.executions[other].final # None
      <4>1. CASE other = id
        BY <1>6, <2>5, <2>6, <4>1
      <4>2. CASE other # id
        BY <1>6, <1>9, <3>1, <4>2 DEF StartInv, StartedInv
      <4> QED BY <4>1, <4>2
    <3> QED BY <1>1, <3>1, NoCallTypes DEF StartedInv, Unqueued
  <2> QED BY <1>1, <1>6, <1>7, <2>4, <2>7, ReplyEnds
<1> QED BY <1>10, <1>11

LEMMA ReplyStep ==
  ASSUME TypeOK, StartInv, Reply
  PROVE  TypeOK' /\ StartInv'
<1>1. CASE UNCHANGED <<agent, receipts, acked>>
  <2>1. call' = NoCall /\ todo' = <<>> /\ UNCHANGED <<mem, disk, late, used, launches, applied>>
    BY DEF Reply, Begins
  <2>2. AgentTypes' /\ GhostTypes'
    BY <1>1, <2>1 DEF TypeOK, AgentTypes, GhostTypes
  <2>3. CommandInv' /\ StartedInv'
    BY <1>1, <2>1, NoCallTypes, MemoryStep DEF agentVars
  <2> QED BY <1>1, <2>1, <2>2, <2>3, ReplyEnds
<1>2. CASE call.op = "report" /\ Acknowledged
  BY <1>2, AcknowledgedStep
<1>3. CASE call.op \in {"claim", "recover"} /\ Accepts /\ UNCHANGED acked
  BY <1>3, AcceptsStep
<1> QED BY <1>1, <1>2, <1>3 DEF Reply

-----------------------------------------------------------------------------
(* A step that writes.                                                     *)

Advances == /\ todo' = Tail(todo)
            /\ call' = IF Tail(todo) = <<>> THEN NoCall ELSE [call EXCEPT !.undo = None]

LEMMA WriteAt ==
  ASSUME TypeOK, Ahead \in Writes
  PROVE  /\ todo # <<>> /\ Head(todo) = Ahead /\ At(Ahead) /\ Left(todo) = {Ahead} \cup Left(Tail(todo))
         /\ Ahead \in Left(todo)
<1>1. At(Ahead) /\ Ahead # "none"
  BY DEF At, Writes
<1> QED BY <1>1, AtStep DEF TypeOK, At

\* A new run is registered right after its request is reserved.
LEMMA RegisterAt ==
  ASSUME ServerTypes, PlanInv, "register" \in Left(todo)
  PROVE  call.op = "execute" /\ todo \in {<<"reserve", "register", "save", "reply">>,
                                          <<"register", "save", "reply">>}
<1>0. todo \notin {<<>>, <<"down">>, <<"save">>, <<"rename", "save">>, <<"scan">>,
                   <<"save", "scan">>, <<"save", "reply">>, <<"reply">>}
  BY Lists DEF IsList
<1>1. call.op \in {"none", "execute", "claim", "recover", "report", "boot"}
  BY DEF ServerTypes, Calls
<1>2. call.op = "execute"
  <2>1. call.op \notin {"none", "claim", "recover"}
    BY <1>0 DEF PlanInv
  <2>2. call.op \notin {"report", "boot"}
    BY DEF PlanInv, MergeSteps, TrimSteps
  <2> QED BY <1>1, <2>1, <2>2
<1> QED BY <1>0, <1>2 DEF PlanInv, TrimSteps

LEMMA WriteGoes ==
  ASSUME TypeOK, StartInv, Ahead \in Writes, Advances, UNCHANGED <<late, receipts>>,
         ({"apply"} \cup MergeSteps) \cap Left(Tail(todo)) # {} =>
           /\ mem'.runs[call.id] # None
           /\ mem'.runs[call.id].state = mem.runs[call.id].state
           /\ mem'.runs[call.id].merge = mem.runs[call.id].merge
           /\ mem'.runs[call.id].offset = mem.runs[call.id].offset
  PROVE  /\ CallInv' /\ todo' \in Seq(Plan) /\ call' \in Calls /\ call'.undo = None
         /\ Ahead # "save" => HandedInv'
         /\ /\ Ahead # "reserve" /\ disk'.requests = disk.requests
            /\ disk'.created = disk.created
            => AdmittingInv'
<1>1. /\ todo # <<>> /\ Head(todo) = Ahead /\ Left(todo) = {Ahead} \cup Left(Tail(todo))
      /\ todo' = Tail(todo)
  BY WriteAt DEF Advances
<1>2. CASE Tail(todo) = <<>>
  <2>1. call' = NoCall /\ todo' = <<>>
    BY <1>2 DEF Advances
  <2> QED BY <2>1, CallEnds, NoCallTypes
<1>3. CASE Tail(todo) # <<>>
  <2>1. call' = [call EXCEPT !.undo = None]
    BY <1>3 DEF Advances
  <2>2. /\ call' \in Calls /\ call'.op = call.op /\ call'.req = call.req /\ call'.path = call.path
        /\ call'.id = call.id /\ call'.body = call.body /\ call'.undo = None
    BY <2>1 DEF TypeOK, ServerTypes, Calls
  <2>3. PlanInv' /\ todo' \in Seq(Plan) /\ Left(todo') \subseteq Left(todo) /\ todo' # <<>>
        /\ "archive" \notin Left(todo') /\ Head(todo') \in Left(todo')
    BY <1>1, <1>3, <2>2, NextPlan DEF TypeOK, StartInv, CallInv
  <2>4. CallsInv'
    BY <2>2 DEF StartInv, CallInv, CallsInv, ReportOf
  <2>5. UndoInv' /\ VictimInv'
    BY <2>2, <2>3 DEF UndoInv, VictimInv, At, Ahead, Idle
  <2>6. MergingInv' /\ ApplyingInv'
    <3>1. /\ Left(todo') \cap MergeSteps # {} => Left(todo) \cap MergeSteps # {}
          /\ "apply" \in Left(todo') => "apply" \in Left(todo)
      BY <2>3
    <3>2. Left(todo') = Left(Tail(todo))
      BY <1>1
    <3> QED BY <2>2, <2>3, <3>1, <3>2 DEF StartInv, CallInv, MergingInv, ApplyingInv
  <2>7. ASSUME Ahead # "save" PROVE HandedInv'
    <3>1. call.op = "claim" => todo \in {<<"scan">>, <<"save", "scan">>, <<"save", "reply">>, <<"reply">>}
      BY DEF StartInv, CallInv, PlanInv
    <3>2. call.op # "claim"
      BY <1>1, <2>7, <3>1 DEF Writes
    <3> QED BY <2>2, <3>2 DEF HandedInv
  <2>8. ASSUME Ahead # "reserve", disk'.requests = disk.requests, disk'.created = disk.created
        PROVE  AdmittingInv'
    <3>1. todo' # <<"register", "save", "reply">>
      <4>1. SUFFICES ASSUME todo' = <<"register", "save", "reply">> PROVE FALSE
        OBVIOUS
      <4>2. "register" \in Left(todo)
        BY <2>3, <4>1, Lists DEF IsList
      <4>3. \/ todo = <<"reserve", "register", "save", "reply">> \/ todo = <<"register", "save", "reply">>
        BY <4>2, RegisterAt DEF TypeOK, StartInv, CallInv
      <4>4. todo = <<"register", "save", "reply">>
        BY <1>1, <2>8, <4>3
      <4> QED BY <1>1, <4>1, <4>4, Tails
    <3>2. {"admit", "reserve"} \cap Left(todo') # {} => {"admit", "reserve"} \cap Left(todo) # {}
      BY <2>3
    <3> QED BY <2>2, <2>8, <3>1, <3>2 DEF StartInv, AdmittingInv
  <2> QED BY <2>2, <2>3, <2>4, <2>5, <2>6, <2>7, <2>8 DEF CallInv
<1> QED BY <1>2, <1>3

\* What is on the disk after a write.
LEMMA WrittenDisk ==
  ASSUME TypeOK, StartInv, Ahead \in Writes
  PROVE  LET d == Written(Ahead) IN
         /\ d \in Disks
         /\ d.session = IF Ahead = "save" THEN mem ELSE disk.session
         /\ d.requests = IF Ahead = "reserve"
                         THEN [disk.requests EXCEPT ![call.req] = [id |-> call.id, path |-> call.path]]
                         ELSE disk.requests
         /\ d.created = IF Ahead = "reserve" THEN call.id ELSE disk.created
         /\ Ahead \notin {"register", "archive"} => d.executions = disk.executions
         /\ Ahead = "register" => d.executions = [disk.executions EXCEPT ![call.id] =
                                                    [path |-> call.path, final |-> None]]
         /\ Ahead = "archive" => d.executions = [disk.executions EXCEPT ![call.victim] =
                   [disk.executions[call.victim] EXCEPT !.final = mem.runs[call.victim]]]
<1> DEFINE d == Written(Ahead)
<1>1. At(Ahead) /\ Ahead \in Left(todo)
  BY WriteAt
<1>2. disk \in Disks /\ mem \in Sessions
  BY DEF TypeOK, ServerTypes
<1>3. CASE Ahead = "save"
  <2>1. d = [disk EXCEPT !.session = mem]
    BY <1>3 DEF Written
  <2> QED BY <1>2, <1>3, <2>1 DEF Disks
<1>4. CASE Ahead = "reserve"
  <2>1. d = [disk EXCEPT !.requests[call.req] = [id |-> call.id, path |-> call.path],
                         !.created = call.id]
    BY <1>4 DEF Written
  <2>2. call.op = "execute"
    BY <1>1, <1>4, OpAt DEF TypeOK, StartInv, CallInv
  <2>3. call.req \in Requests /\ call.path \in Paths /\ call.id \in Ids /\ call.id \in 0..MaxRuns
    BY <2>2, IdsNat DEF StartInv, CallInv, PlanInv
  <2>4. [id |-> call.id, path |-> call.path] \in Admissions
    BY <2>3 DEF Admissions
  <2>5. /\ d.requests = [disk.requests EXCEPT ![call.req] = [id |-> call.id, path |-> call.path]]
        /\ d.requests \in [Requests -> Admissions \cup {None}] /\ d.created = call.id
        /\ d = [disk EXCEPT !.requests = d.requests, !.created = call.id]
    BY <1>2, <2>1, <2>3, <2>4 DEF Disks
  <2> HIDE DEF d
  <2>6. d \in Disks /\ d.session = disk.session /\ d.executions = disk.executions
    BY <1>2, <2>3, <2>5 DEF Disks
  <2> QED BY <1>4, <2>5, <2>6 DEF d
<1>5. CASE Ahead = "register"
  <2>1. d = [disk EXCEPT !.executions[call.id] = [path |-> call.path, final |-> None]]
    BY <1>5 DEF Written
  <2>2. call.op = "execute"
    BY <1>1, <1>5, OpAt DEF TypeOK, StartInv, CallInv
  <2>3. call.path \in Paths /\ call.id \in Ids
    BY <2>2 DEF StartInv, CallInv, PlanInv
  <2>4. [path |-> call.path, final |-> None] \in Records
    BY <2>3 DEF Records
  <2> QED BY <1>2, <1>5, <2>1, <2>3, <2>4 DEF Disks
<1>6. CASE Ahead = "archive"
  <2>1. d = [disk EXCEPT !.executions[call.victim].final = mem.runs[call.victim]]
    BY <1>6 DEF Written
  <2> DEFINE v == call.victim
             e == [disk.executions[v] EXCEPT !.final = mem.runs[v]]
  <2>2. v \in Ids /\ mem.runs[v] # None
    BY <1>1, <1>6 DEF StartInv, CallInv, VictimInv
  <2>3. disk.executions[v] \in Records /\ mem.runs[v] \in Runs
    BY <1>2, <2>2 DEF StartInv, RecordsInv, Disks, Sessions
  <2>4. e \in Records
    BY <2>3 DEF Records
  <2>5. d = [disk EXCEPT !.executions = [disk.executions EXCEPT ![v] = e]]
    BY <1>2, <2>1 DEF Disks
  <2> HIDE DEF e, v
  <2>6. /\ d \in Disks /\ d.executions = [disk.executions EXCEPT ![v] = e]
        /\ d.session = disk.session /\ d.requests = disk.requests /\ d.created = disk.created
    BY <1>2, <2>2, <2>4, <2>5 DEF Disks
  <2> QED BY <1>6, <2>6 DEF v, e
<1>7. CASE Ahead \in {"unlink", "results"}
  <2>1. Ahead = "results" => call.id \in Ids
    <3>1. Ahead = "results" => call.op = "report"
      BY <1>1, OpAt DEF TypeOK, StartInv, CallInv
    <3> QED BY <3>1 DEF StartInv, CallInv, CallsInv, ReportOf
  <2>2. \E results \in SUBSET Ids : d = [disk EXCEPT !.results = results]
    <3>1. CASE Ahead = "unlink"
      BY <1>2, <3>1 DEF Written, Disks
    <3>2. CASE Ahead = "results"
      <4>1. disk.results \cup {call.id} \in SUBSET Ids
        BY <1>2, <2>1, <3>2 DEF Disks
      <4> QED BY <3>2, <4>1 DEF Written
    <3> QED BY <1>7, <3>1, <3>2
  <2> HIDE DEF d
  <2>3. /\ d \in Disks /\ d.executions = disk.executions
        /\ d.session = disk.session /\ d.requests = disk.requests /\ d.created = disk.created
    BY <1>2, <2>2 DEF Disks
  <2> QED BY <1>7, <2>3 DEF d
<1>8. CASE Ahead \in {"publish", "deliver"}
  <2>1. call.id \in Ids /\ call.id \in 0..MaxRuns
    <3>1. Left(todo) \cap MergeSteps # {}
      BY <1>1, <1>8 DEF MergeSteps
    <3> QED BY <3>1, IdsNat DEF StartInv, CallInv, MergingInv
  <2>2. disk.notebook.path \in Paths /\ disk.notebook.version \in Nat /\ disk.file.version \in Nat
        /\ disk.notebook = [path |-> disk.notebook.path, version |-> disk.notebook.version]
        /\ disk.publications \subseteq Ids \X Results
    BY <1>2 DEF Disks
  <2>3. \E p \in SUBSET (Ids \X Results), n \in [path : Paths, version : Nat],
           f \in [version : Nat, by : 0..MaxRuns] :
          d = [disk EXCEPT !.publications = p, !.notebook = n, !.file = f]
    <3>1. CASE Ahead = "publish"
      <4> DEFINE p == disk.publications \cup {<<call.id, "outputs">>}
                 n == [disk.notebook EXCEPT !.version = disk.notebook.version + 1]
      <4>1. d = [disk EXCEPT !.publications = p, !.notebook = n, !.file = disk.file]
        BY <1>2, <3>1 DEF Written, Disks
      <4>2. p \in SUBSET (Ids \X Results) /\ n \in [path : Paths, version : Nat]
            /\ disk.file \in [version : Nat, by : 0..MaxRuns]
        BY <1>2, <2>1, <2>2 DEF Results, Disks
      <4> QED BY <4>1, <4>2
    <3>2. CASE Ahead = "deliver"
      <4> DEFINE p == disk.publications \cup {<<call.id, "file">>}
                 f == [version |-> disk.file.version + 1, by |-> call.id]
      <4>1. d = [disk EXCEPT !.publications = p, !.notebook = disk.notebook, !.file = f]
        BY <1>2, <3>2 DEF Written, Disks
      <4>2. p \in SUBSET (Ids \X Results) /\ f \in [version : Nat, by : 0..MaxRuns]
            /\ disk.notebook \in [path : Paths, version : Nat]
        BY <1>2, <2>1, <2>2 DEF Results, Disks
      <4> QED BY <4>1, <4>2
    <3> QED BY <1>8, <3>1, <3>2
  <2> HIDE DEF d
  <2>4. /\ d \in Disks /\ d.executions = disk.executions
        /\ d.session = disk.session /\ d.requests = disk.requests /\ d.created = disk.created
    BY <1>2, <2>3 DEF Disks
  <2> QED BY <1>8, <2>4 DEF d
<1>9. CASE Ahead = "rename"
  <2>1. call.path \in Paths
    <3>1. call.op = "none" /\ todo = <<"rename", "save">>
      BY <1>1, <1>9, OpAt DEF TypeOK, StartInv, CallInv
    <3>2. <<"rename", "save">> \notin {<<>>, <<"down">>, <<"save">>}
      OBVIOUS
    <3> QED BY <3>1, <3>2 DEF StartInv, CallInv, PlanInv
  <2> DEFINE n == [path |-> call.path, version |-> disk.notebook.version + 1]
  <2>2. n \in [path : Paths, version : Nat] /\ d = [disk EXCEPT !.notebook = n]
    BY <1>2, <1>9, <2>1 DEF Written, Disks
  <2> HIDE DEF n, d
  <2>3. /\ d \in Disks /\ d.executions = disk.executions
        /\ d.session = disk.session /\ d.requests = disk.requests /\ d.created = disk.created
    BY <1>2, <2>2 DEF Disks
  <2> QED BY <1>9, <2>3 DEF d
<1> QED BY <1>3, <1>4, <1>5, <1>6, <1>7, <1>8, <1>9 DEF Writes

\* A write adds to the receipts what the record it is made from needs.
LEMMA WrittenRecords ==
  ASSUME TypeOK, StartInv, Ahead \in Writes, disk' = Written(Ahead), UNCHANGED agentVars,
         call'.undo = None,
         \A id \in Ids :
           /\ mem'.runs[id] # None => mem.runs[id] # None \/ (Ahead = "register" /\ id = call.id)
           /\ mem'.runs[id] = None => mem.runs[id] = None \/ (Ahead = "archive" /\ id = call.victim)
           /\ Started(id) => Unqueued(mem'.runs[id])
  PROVE  RecordsInv' /\ CommandInv' /\ StartedInv'
<1>0. At(Ahead) /\ Ahead \in Left(todo) /\ todo # <<>> /\ Head(todo) = Ahead
  BY WriteAt
<1>1. /\ disk' \in Disks
      /\ disk'.session = IF Ahead = "save" THEN mem ELSE disk.session
      /\ disk'.requests = IF Ahead = "reserve"
                          THEN [disk.requests EXCEPT ![call.req] = [id |-> call.id, path |-> call.path]]
                          ELSE disk.requests
      /\ disk'.created = IF Ahead = "reserve" THEN call.id ELSE disk.created
      /\ Ahead \notin {"register", "archive"} => disk'.executions = disk.executions
      /\ Ahead = "register" => disk'.executions = [disk.executions EXCEPT ![call.id] =
                                                 [path |-> call.path, final |-> None]]
      /\ Ahead = "archive" => disk'.executions = [disk.executions EXCEPT ![call.victim] =
                [disk.executions[call.victim] EXCEPT !.final = mem.runs[call.victim]]]
  BY WrittenDisk
<1>2. disk \in Disks /\ mem \in Sessions /\ launches \in [Requests -> Nat]
  BY DEF TypeOK, ServerTypes, AgentTypes
<1>3. CASE Ahead \notin {"save", "reserve", "register", "archive"}
  <2>1. SameRecords
    BY <1>1, <1>3 DEF SameRecords
  <2>2. \A id \in Ids : Started(id)' = Started(id)
    BY <2>1 DEF Started, SameRecords, agentVars
  <2>3. RecordsInv' /\ CommandInv'
    BY <1>3, <2>1 DEF StartInv, RecordsInv, CommandInv, SameRecords, agentVars
  <2>4. StartedInv'
    BY <1>3, <2>1, <2>2 DEF StartInv, StartedInv, Unqueued, SameRecords, agentVars
  <2> QED BY <2>3, <2>4
<1>4. CASE Ahead = "save"
  <2>1. disk'.session = mem /\ disk'.requests = disk.requests /\ disk'.created = disk.created
        /\ disk'.executions = disk.executions
    BY <1>1, <1>4
  <2>2. \A id \in Ids : Started(id)' = Started(id)
    BY <2>1 DEF Started, agentVars
  <2>3. RecordsInv' /\ CommandInv'
    BY <1>4, <2>1 DEF StartInv, RecordsInv, CommandInv, agentVars
  <2>4. StartedInv'
    BY <1>4, <2>1, <2>2 DEF StartInv, StartedInv, Unqueued, agentVars
  <2> QED BY <2>3, <2>4
<1>5. CASE Ahead = "reserve"
  <2>1. call.op = "execute"
    BY <1>0, <1>5, OpAt DEF TypeOK, StartInv, CallInv
  <2>2. /\ call.req \in Requests /\ call.id \in Ids /\ disk.requests[call.req] = None
        /\ call.id = disk.created + 1 /\ disk.created \in Nat /\ call.id \in Nat
    BY <1>0, <1>2, <1>5, <2>1, IdsNat DEF StartInv, CallInv, PlanInv, AdmittingInv, Disks
  <2>3. /\ disk'.session = disk.session /\ disk'.executions = disk.executions
        /\ disk'.created = disk.created + 1
        /\ disk'.requests[call.req] # None /\ disk'.requests[call.req].id = disk.created + 1
        /\ \A q \in Requests \ {call.req} : disk'.requests[q] = disk.requests[q]
    <3> DEFINE a == [id |-> call.id, path |-> call.path]
    <3>1. call.path \in Paths
      BY <2>1 DEF StartInv, CallInv, PlanInv
    <3>2. a \in Admissions /\ a.id = call.id
      BY <2>2, <3>1 DEF Admissions
    <3>3. disk'.requests = [disk.requests EXCEPT ![call.req] = a]
      BY <1>1, <1>5
    <3> HIDE DEF a
    <3>4. a # None
      BY <3>2, NoneAssumption
    <3> QED BY <1>1, <1>2, <1>5, <2>2, <3>2, <3>3, <3>4 DEF Disks
  <2>4. \A q \in Requests : disk.requests[q] # None => /\ disk.requests[q].id \in Nat
                                                       /\ disk.requests[q].id <= disk.created
    BY <1>2, IdsNat, ZenonT(60) DEF StartInv, RecordsInv, Disks, Admissions
  <2>5. launches[call.req] = 0
    BY <1>2, <2>2 DEF StartInv, CommandInv
  <2>6. \A id \in Ids : Started(id)' => Started(id)
    BY <2>3, <2>5 DEF Started, agentVars
  <2>7. CommandInv'
    BY <2>3, <2>5 DEF StartInv, CommandInv, agentVars
  <2>8. StartedInv'
    BY <1>5, <2>3, <2>6 DEF StartInv, StartedInv, Unqueued, agentVars
  <2>9. RecordsInv'
    <3>1. \A q \in Requests : disk'.requests[q] # None => disk'.requests[q].id <= disk'.created
      BY <2>2, <2>3, <2>4
    <3>2. ASSUME NEW q \in Requests, NEW r \in Requests, disk'.requests[q] # None, disk'.requests[r] # None,
                 disk'.requests[q].id = disk'.requests[r].id
          PROVE  q = r
      <4>1. CASE q # call.req /\ r # call.req
        BY <2>3, <3>2, <4>1 DEF StartInv, RecordsInv
      <4>2. CASE q = call.req /\ r # call.req
        BY <2>2, <2>3, <2>4, <3>2, <4>2
      <4>3. CASE q # call.req /\ r = call.req
        BY <2>2, <2>3, <2>4, <3>2, <4>3
      <4> QED BY <4>1, <4>2, <4>3
    <3>3. ASSUME NEW id \in 1..disk'.created
          PROVE  \E q \in Requests : disk'.requests[q] # None /\ disk'.requests[q].id = id
      <4>1. CASE id = disk.created + 1
        BY <2>2, <2>3, <4>1
      <4>2. CASE id # disk.created + 1
        <5>1. id \in 1..disk.created
          BY <2>2, <2>3, <4>2
        <5>2. PICK q \in Requests : disk.requests[q] # None /\ disk.requests[q].id = id
          BY <5>1 DEF StartInv, RecordsInv
        <5> QED BY <2>2, <2>3, <5>2
      <4> QED BY <4>1, <4>2
    <3>4. ASSUME NEW id \in Ids
          PROVE  /\ mem'.runs[id] # None \/ disk'.session.runs[id] # None => disk'.executions[id] # None
                 /\ disk'.executions[id] # None =>
                      /\ id <= disk'.created
                      /\ disk'.executions[id].final # None =>
                           /\ disk'.executions[id].final.state \in Terminal
                           /\ ~disk'.executions[id].final.merge
      <4>1. disk.executions[id] # None => id <= disk.created /\ id \in Nat
        BY IdsNat DEF StartInv, RecordsInv
      <4> QED BY <1>5, <2>2, <2>3, <4>1 DEF StartInv, RecordsInv
    <3> QED BY <3>1, <3>2, <3>3, <3>4 DEF RecordsInv
  <2> QED BY <2>7, <2>8, <2>9
<1>6. CASE Ahead = "register"
  <2>1. call.op = "execute" /\ todo = <<"register", "save", "reply">>
    BY <1>0, <1>6, OpAt DEF TypeOK, StartInv, CallInv
  <2>2. call.id \in Ids /\ call.id = disk.created /\ disk.executions[call.id] = None
    BY <2>1 DEF StartInv, CallInv, PlanInv, AdmittingInv
  <2>3. /\ disk'.session = disk.session /\ disk'.requests = disk.requests
        /\ disk'.created = disk.created
        /\ disk'.executions[call.id] # None /\ disk'.executions[call.id].final = None
        /\ \A id \in Ids \ {call.id} : disk'.executions[id] = disk.executions[id]
    <3>1. [path |-> call.path, final |-> None] # None
      <4>1. call.path \in Paths
        BY <2>1 DEF StartInv, CallInv, PlanInv
      <4> QED BY <4>1, NoneAssumption DEF Records
    <3> QED BY <1>1, <1>2, <1>6, <2>2, <3>1 DEF Disks
  <2>4. ~Started(call.id)
    BY <2>2 DEF StartInv, StartedInv
  <2>5. \A id \in Ids : Started(id)' = Started(id)
    BY <2>3 DEF Started, agentVars
  <2>6. RecordsInv'
    <3>1. ASSUME NEW id \in Ids
          PROVE  /\ mem'.runs[id] # None \/ disk'.session.runs[id] # None => disk'.executions[id] # None
                 /\ disk'.executions[id] # None =>
                      /\ id <= disk'.created
                      /\ disk'.executions[id].final # None =>
                           /\ disk'.executions[id].final.state \in Terminal
                           /\ ~disk'.executions[id].final.merge
      <4>1. CASE id = call.id
        BY <1>2, <2>2, <2>3, <4>1 DEF Disks
      <4>2. CASE id # call.id
        BY <2>3, <4>2 DEF StartInv, RecordsInv
      <4> QED BY <4>1, <4>2
    <3> QED BY <2>3, <3>1 DEF StartInv, RecordsInv
  <2>7. CommandInv'
    BY <2>3 DEF StartInv, CommandInv, agentVars
  <2>8. StartedInv'
    <3>1. ASSUME NEW id \in Ids, Started(id)'
          PROVE  /\ receipts'[id] # None /\ disk'.executions[id] # None
                 /\ Unqueued(mem'.runs[id]) /\ Unqueued(disk'.session.runs[id])
                 /\ mem'.runs[id] = None \/ disk'.session.runs[id] = None
                      => disk'.executions[id].final # None
      <4>1. Started(id) /\ id # call.id
        BY <2>4, <2>5, <3>1
      <4> QED BY <1>6, <2>3, <4>1 DEF StartInv, StartedInv, agentVars
    <3> QED BY <3>1 DEF StartedInv, Unqueued
  <2> QED BY <2>6, <2>7, <2>8
<1>7. CASE Ahead = "archive"
  <2> DEFINE v == call.victim
  <2>1. /\ v \in Ids /\ mem.runs[v] # None /\ mem.runs[v].state \in Terminal /\ ~mem.runs[v].merge
        /\ disk.executions[v] # None
    BY <1>0, <1>7 DEF StartInv, CallInv, VictimInv, RecordsInv
  <2>2. disk.executions[v] \in Records /\ mem.runs[v] \in Runs
    BY <1>2, <2>1 DEF Disks, Sessions
  <2>3. /\ [disk.executions[v] EXCEPT !.final = mem.runs[v]] \in Records
        /\ [disk.executions[v] EXCEPT !.final = mem.runs[v]].final = mem.runs[v]
    BY <2>2 DEF Records
  <2>4. /\ disk'.session = disk.session /\ disk'.requests = disk.requests
        /\ disk'.created = disk.created
        /\ disk'.executions[v] # None /\ disk'.executions[v].final = mem.runs[v]
        /\ \A id \in Ids \ {v} : disk'.executions[id] = disk.executions[id]
    <3> DEFINE e == [disk.executions[v] EXCEPT !.final = mem.runs[v]]
    <3>1. disk'.executions = [disk.executions EXCEPT ![v] = e]
      BY <1>1, <1>7
    <3> HIDE DEF e
    <3>2. e # None /\ e.final = mem.runs[v]
      BY <2>3, NoneAssumption DEF e
    <3> HIDE DEF v
    <3> QED BY <1>1, <1>2, <1>7, <2>1, <3>1, <3>2 DEF Disks
  <2> HIDE DEF v
  <2>5. \A id \in Ids : Started(id)' = Started(id)
    BY <2>4 DEF Started, agentVars
  <2>6. RecordsInv'
    <3>1. ASSUME NEW id \in Ids
          PROVE  /\ mem'.runs[id] # None \/ disk'.session.runs[id] # None => disk'.executions[id] # None
                 /\ disk'.executions[id] # None =>
                      /\ id <= disk'.created
                      /\ disk'.executions[id].final # None =>
                           /\ disk'.executions[id].final.state \in Terminal
                           /\ ~disk'.executions[id].final.merge
      <4>1. CASE id = v
        BY <2>1, <2>4, <4>1 DEF StartInv, RecordsInv
      <4>2. CASE id # v
        BY <1>7, <2>4, <4>2 DEF StartInv, RecordsInv
      <4> QED BY <4>1, <4>2
    <3> QED BY <2>4, <3>1 DEF StartInv, RecordsInv
  <2>7. CommandInv'
    BY <2>4 DEF StartInv, CommandInv, agentVars
  <2>8. StartedInv'
    <3>1. ASSUME NEW id \in Ids, Started(id)'
          PROVE  /\ receipts'[id] # None /\ disk'.executions[id] # None
                 /\ Unqueued(mem'.runs[id]) /\ Unqueued(disk'.session.runs[id])
                 /\ mem'.runs[id] = None \/ disk'.session.runs[id] = None
                      => disk'.executions[id].final # None
      <4>1. Started(id)
        BY <2>5, <3>1
      <4>2. CASE id = v
        BY <2>1, <2>4, <4>1, <4>2 DEF StartInv, StartedInv, agentVars
      <4>3. CASE id # v
        BY <1>7, <2>4, <4>1, <4>3 DEF v, StartInv, StartedInv, agentVars
      <4> QED BY <4>2, <4>3
    <3> QED BY <3>1 DEF StartedInv, Unqueued
  <2> QED BY <2>6, <2>7, <2>8
<1> QED BY <1>3, <1>4, <1>5, <1>6, <1>7

LEMMA CountTypes ==
  ASSUME TypeOK, StartInv, Ahead \in Writes, NEW written \in BOOLEAN, Count(written)
  PROVE  applied' \in [Ids -> [Results -> Nat]]
<1>1. applied \in [Ids -> [Results -> Nat]]
  BY DEF TypeOK, GhostTypes
<1>2. ASSUME NEW k \in Results, NEW id \in Ids, applied' = [applied EXCEPT ![id][k] = @ + 1]
      PROVE  applied' \in [Ids -> [Results -> Nat]]
  <2>1. [applied[id] EXCEPT ![k] = applied[id][k] + 1] \in [Results -> Nat]
    BY <1>1
  <2>2. applied' = [applied EXCEPT ![id] = [applied[id] EXCEPT ![k] = applied[id][k] + 1]]
    BY <1>2
  <2> QED BY <1>1, <2>1, <2>2
<1>3. Ahead \in {"publish", "deliver"} => call.id \in Ids
  <2>1. Ahead \in {"publish", "deliver"} => Left(todo) \cap MergeSteps # {}
    BY WriteAt DEF MergeSteps
  <2> QED BY <2>1 DEF StartInv, CallInv, MergingInv
<1>4. \/ applied' = applied
      \/ Ahead = "publish" /\ applied' = [applied EXCEPT ![call.id]["outputs"] = @ + 1]
      \/ Ahead = "deliver" /\ applied' = [applied EXCEPT ![call.id]["file"] = @ + 1]
  BY DEF Count
<1> QED BY <1>1, <1>2, <1>3, <1>4 DEF Results

\* The run that is admitted is queued in memory.
LEMMA RegisteredRun ==
  ASSUME TypeOK, StartInv, Ahead = "register", AfterWrite("register")
  PROVE  /\ mem' \in Sessions /\ mem'.runs[call.id] \in Runs /\ mem'.runs[call.id].state = "queued"
         /\ mem'.runs[call.id].reports = {} /\ mem'.runs[call.id].merge = FALSE
         /\ \A id \in Ids \ {call.id} : mem'.runs[id] = mem.runs[id]
         /\ call.op = "execute" /\ call.id \in Ids /\ todo = <<"register", "save", "reply">>
<1>1. call.op = "execute" /\ todo = <<"register", "save", "reply">>
  <2>1. At("register")
    BY DEF At
  <2> QED BY <2>1, OpAt DEF TypeOK, StartInv, CallInv
<1>2. call.req \in Requests /\ call.path \in Paths /\ call.id \in Ids
  BY <1>1 DEF StartInv, CallInv, PlanInv
<1> DEFINE r == [req |-> call.req, path |-> call.path, state |-> "queued",
                 epoch |-> mem.epoch, generation |-> mem.generation,
                 offset |-> 0, reports |-> {}, merge |-> FALSE,
                 published |-> 0, version |-> disk.notebook.version,
                 base |-> disk.file.version, error |-> FALSE, notes |-> 0]
<1>3. mem.epoch \in Nat /\ mem.generation \in Nat /\ disk.notebook.version \in Nat
      /\ disk.file.version \in Nat /\ mem \in Sessions
  BY DEF TypeOK, ServerTypes, Sessions, Disks
<1>4. r \in Runs /\ r.state = "queued" /\ r.reports = {} /\ r.merge = FALSE
  BY <1>2, <1>3 DEF Runs
<1>5. mem' = [mem EXCEPT !.runs[call.id] = r]
  BY DEF AfterWrite
<1> HIDE DEF r
<1> QED BY <1>1, <1>2, <1>3, <1>4, <1>5, RunSet

LEMMA RenamedRuns ==
  ASSUME TypeOK, StartInv, Ahead = "rename", AfterWrite("rename")
  PROVE  /\ mem' \in Sessions
         /\ \A id \in Ids :
              /\ mem'.runs[id] = None <=> mem.runs[id] = None
              /\ mem.runs[id] # None =>
                   \E p \in Paths : mem'.runs[id] = [mem.runs[id] EXCEPT !.path = p]
         /\ call.op = "none" /\ todo = <<"rename", "save">>
<1>1. call.op = "none" /\ todo = <<"rename", "save">>
  <2>1. At("rename")
    BY DEF At
  <2> QED BY <2>1, OpAt DEF TypeOK, StartInv, CallInv
<1>2. call.path \in Paths
  <2>1. <<"rename", "save">> \notin {<<>>, <<"down">>, <<"save">>}
    OBVIOUS
  <2> QED BY <1>1, <2>1 DEF StartInv, CallInv, PlanInv
<1> DEFINE runs == [id \in Ids |->
              IF id \in Known(mem.runs) /\ mem.runs[id].state \in {"queued", "running"}
                 /\ mem.runs[id].path = disk.notebook.path
              THEN [mem.runs[id] EXCEPT !.path = call.path] ELSE mem.runs[id]]
<1>3. mem' = [mem EXCEPT !.runs = runs]
  BY DEF AfterWrite
<1>4. mem \in Sessions
  BY DEF TypeOK, ServerTypes
<1>5. ASSUME NEW id \in Ids
      PROVE  /\ runs[id] \in Runs \cup {None} /\ (runs[id] = None <=> mem.runs[id] = None)
             /\ mem.runs[id] # None => \E p \in Paths : runs[id] = [mem.runs[id] EXCEPT !.path = p]
  <2>1. CASE mem.runs[id] = None
    BY <2>1 DEF Known
  <2>2. CASE mem.runs[id] # None
    <3>1. mem.runs[id] \in Runs
      BY <2>2, KnownRun
    <3>2. \A p \in Paths : [mem.runs[id] EXCEPT !.path = p] \in Runs
      BY <3>1 DEF Runs
    <3>3. mem.runs[id] = [mem.runs[id] EXCEPT !.path = mem.runs[id].path] /\ mem.runs[id].path \in Paths
      BY <3>1 DEF Runs
    <3>4. \E p \in Paths : runs[id] = [mem.runs[id] EXCEPT !.path = p]
      BY <1>2, <3>3
    <3> QED BY <2>2, <3>2, <3>4, NoneAssumption
  <2> QED BY <2>1, <2>2
<1>6. runs \in [Ids -> Runs \cup {None}]
  BY <1>5
<1> HIDE DEF runs
<1>7. mem' \in Sessions /\ mem'.runs = runs
  BY <1>3, <1>4, <1>6 DEF Sessions
<1> QED BY <1>1, <1>5, <1>7

LEMMA WriteStep ==
  ASSUME TypeOK, StartInv, Write
  PROVE  TypeOK' /\ StartInv'
<1>1. /\ Ahead \in Writes /\ disk' = Written(Ahead) /\ AfterWrite(Ahead) /\ Count(TRUE) /\ Advances
      /\ UNCHANGED <<late, agentVars, used, acked>>
  BY DEF Write, Advances
<1>2. At(Ahead) /\ Left(todo) = {Ahead} \cup Left(Tail(todo))
  BY <1>1, WriteAt
<1>3. disk' \in Disks
  BY <1>1, WrittenDisk
<1>4. ASSUME mem' \in Sessions,
             ({"apply"} \cup MergeSteps) \cap Left(Tail(todo)) # {} =>
               /\ mem'.runs[call.id] # None
               /\ mem'.runs[call.id].state = mem.runs[call.id].state
               /\ mem'.runs[call.id].merge = mem.runs[call.id].merge
               /\ mem'.runs[call.id].offset = mem.runs[call.id].offset,
             \A id \in Ids :
               /\ mem'.runs[id] # None => mem.runs[id] # None \/ (Ahead = "register" /\ id = call.id)
               /\ mem'.runs[id] = None => mem.runs[id] = None \/ (Ahead = "archive" /\ id = call.victim)
               /\ Started(id) => Unqueued(mem'.runs[id]),
             Ahead = "save" => mem' = mem
      PROVE  TypeOK' /\ StartInv'
  <2>1. /\ CallInv' /\ todo' \in Seq(Plan) /\ call' \in Calls /\ call'.undo = None
        /\ Ahead # "save" => HandedInv'
        /\ /\ Ahead # "reserve" /\ disk'.requests = disk.requests
           /\ disk'.created = disk.created
           => AdmittingInv'
    BY <1>1, <1>4, WriteGoes DEF agentVars
  <2>2. RecordsInv' /\ CommandInv' /\ StartedInv'
    BY <1>1, <1>4, <2>1, WrittenRecords
  <2>3. AdmittingInv'
    <3>1. CASE Ahead # "reserve"
      BY <1>1, <2>1, <3>1, WrittenDisk
    <3>2. CASE Ahead = "reserve"
      <4>1. call.op = "execute" /\ todo = <<"reserve", "register", "save", "reply">>
        BY <1>2, <3>2, OpAt DEF TypeOK, StartInv, CallInv
      <4>2. todo' = <<"register", "save", "reply">>
        BY <1>1, <4>1, Tails DEF Advances
      <4>3. call'.op = "execute" /\ call'.id = call.id
        BY <1>1, <4>1, <4>2 DEF Advances, TypeOK, ServerTypes, Calls
      <4>4. call.id \in Ids /\ call.id = disk.created + 1 /\ disk.created \in Nat
        <5>1. "reserve" \in Left(todo)
          BY <1>2, <3>2
        <5> QED BY <4>1, <5>1 DEF StartInv, CallInv, PlanInv, AdmittingInv, TypeOK, ServerTypes, Disks
      <4>5. disk'.created = call.id /\ disk'.executions = disk.executions
        BY <1>1, <3>2, WrittenDisk
      <4>6. disk.executions[call.id] = None
        BY <4>4 DEF StartInv, RecordsInv
      <4>7. Left(todo') = {"register", "save", "reply"}
        BY <4>2, Lists DEF IsList
      <4> QED BY <4>3, <4>5, <4>6, <4>7 DEF AdmittingInv
    <3> QED BY <3>1, <3>2
  <2>4. HandedInv'
    <3>1. CASE Ahead # "save"
      BY <2>1, <3>1
    <3>2. CASE Ahead = "save"
      <4>1. SUFFICES ASSUME call'.op = "claim", todo' \in {<<"save", "reply">>, <<"reply">>}
                     PROVE  /\ mem'.runs[call'.id] # None /\ Unqueued(mem'.runs[call'.id])
                            /\ disk'.session.runs[call'.id] # None
                            /\ Unqueued(disk'.session.runs[call'.id])
        BY DEF HandedInv, Unqueued
      <4>2. call'.op = call.op /\ call'.id = call.id
        BY <1>1, <4>1 DEF Advances, TypeOK, ServerTypes, Calls, NoCall
      <4>3. todo # <<"scan">> /\ todo # <<"save", "scan">> /\ todo # <<"reply">>
        <5>1. Left(todo') # {} /\ Left(todo') # {"scan"}
          BY <4>1, Lists DEF IsList
        <5>2. todo' # <<>> /\ todo' # <<"scan">>
          BY <5>1, Lists DEF IsList
        <5> QED BY <1>1, <5>2, Tails DEF Advances
      <4>4. todo = <<"save", "reply">>
        BY <4>1, <4>2, <4>3 DEF StartInv, CallInv, PlanInv
      <4>5. mem.runs[call.id] # None /\ Unqueued(mem.runs[call.id])
        BY <4>1, <4>2, <4>4 DEF StartInv, HandedInv
      <4>6. disk'.session = mem
        BY <1>1, <3>2, WrittenDisk
      <4> QED BY <1>4, <3>2, <4>2, <4>5, <4>6
    <3> QED BY <3>1, <3>2
  <2>5. TypeOK'
    <3>1. applied' \in [Ids -> [Results -> Nat]]
      BY <1>1, CountTypes
    <3> QED BY <1>1, <1>3, <1>4, <2>1, <3>1 DEF TypeOK, ServerTypes, AgentTypes, GhostTypes, agentVars
  <2> QED BY <2>1, <2>2, <2>3, <2>4, <2>5 DEF StartInv
<1>5. \A id \in Ids : Started(id) => disk.executions[id] # None /\ Unqueued(mem.runs[id])
  BY DEF StartInv, StartedInv
<1>6. CASE Ahead = "register"
  <2>1. /\ mem' \in Sessions /\ mem'.runs[call.id] \in Runs
        /\ \A id \in Ids \ {call.id} : mem'.runs[id] = mem.runs[id]
        /\ call.op = "execute" /\ call.id \in Ids /\ todo = <<"register", "save", "reply">>
    BY <1>1, <1>6, RegisteredRun
  <2>2. disk.executions[call.id] = None
    BY <2>1 DEF StartInv, AdmittingInv
  <2>3. Left(Tail(todo)) = {"save", "reply"}
    BY <2>1, Tails, Lists DEF IsList
  <2>4. ({"apply"} \cup MergeSteps) \cap Left(Tail(todo)) = {}
    BY <2>3 DEF MergeSteps
  <2>5. mem'.runs[call.id] # None
    BY <2>1, NoneAssumption
  <2> QED BY <1>4, <1>5, <1>6, <2>1, <2>2, <2>4, <2>5
<1>7. CASE Ahead = "archive"
  <2> DEFINE v == call.victim
  <2>1. /\ v \in Ids /\ mem.runs[v] # None /\ mem.runs[v].state \in Terminal /\ ~mem.runs[v].merge
    BY <1>2, <1>7 DEF StartInv, CallInv, VictimInv
  <2>2. mem' = [mem EXCEPT !.runs[v] = None]
    BY <1>1, <1>7 DEF AfterWrite
  <2> HIDE DEF v
  <2>3. mem' \in Sessions /\ mem'.runs[v] = None /\ \A id \in Ids \ {v} : mem'.runs[id] = mem.runs[id]
    BY <2>1, <2>2, RunSet DEF TypeOK, ServerTypes
  <2>4. ({"apply"} \cup MergeSteps) \cap Left(Tail(todo)) # {} =>
           call.id \in Ids /\ call.id # v /\ mem.runs[call.id] # None
    <3>1. Left(Tail(todo)) \subseteq Left(todo)
      BY <1>2
    <3>2. CASE Left(todo) \cap MergeSteps # {}
      BY <2>1, <3>2 DEF StartInv, CallInv, MergingInv
    <3>3. CASE "apply" \in Left(todo)
      BY <2>1, <3>3 DEF StartInv, CallInv, ApplyingInv, CallsInv, ReportOf, Terminal
    <3> QED BY <3>1, <3>2, <3>3
  <2>5. Unqueued(None)
    BY DEF Unqueued
  <2> QED BY <1>4, <1>5, <1>7, <2>1, <2>3, <2>4, <2>5 DEF v
<1>8. CASE Ahead = "rename"
  <2>1. /\ mem' \in Sessions
        /\ \A id \in Ids :
             /\ mem'.runs[id] = None <=> mem.runs[id] = None
             /\ mem.runs[id] # None =>
                  \E p \in Paths : mem'.runs[id] = [mem.runs[id] EXCEPT !.path = p]
        /\ todo = <<"rename", "save">>
    BY <1>1, <1>8, RenamedRuns
  <2>2. ({"apply"} \cup MergeSteps) \cap Left(Tail(todo)) = {}
    BY <2>1, Tails, Lists DEF IsList, MergeSteps
  <2>3. ASSUME NEW id \in Ids, Unqueued(mem.runs[id]) PROVE Unqueued(mem'.runs[id])
    <3>1. CASE mem.runs[id] = None
      BY <2>1, <3>1 DEF Unqueued
    <3>2. CASE mem.runs[id] # None
      <4>1. mem.runs[id] \in Runs
        BY <3>2, KnownRun
      <4> QED BY <2>1, <2>3, <3>2, <4>1 DEF Unqueued, Runs
    <3> QED BY <3>1, <3>2
  <2> QED BY <1>4, <1>5, <1>8, <2>1, <2>2, <2>3
<1>9. CASE Ahead \notin {"register", "archive", "rename"}
  <2>1. mem' = mem
    BY <1>1, <1>9 DEF AfterWrite
  <2>2. ({"apply"} \cup MergeSteps) \cap Left(Tail(todo)) # {} => mem.runs[call.id] # None
    BY <1>2 DEF StartInv, CallInv, MergingInv, ApplyingInv
  <2> QED BY <1>4, <1>5, <2>1, <2>2 DEF TypeOK, ServerTypes
<1> QED BY <1>6, <1>7, <1>8, <1>9

\* What a change that is taken back leaves in memory.
LEMMA TakenBack ==
  ASSUME TypeOK, StartInv,
         mem' = IF call.undo = None THEN mem ELSE [mem EXCEPT !.runs[call.id] = call.undo]
  PROVE  /\ mem' \in Sessions
         /\ \A id \in Ids : /\ mem'.runs[id] = None <=> mem.runs[id] = None
                            /\ mem'.runs[id] = IF call.undo # None /\ id = call.id
                                               THEN call.undo ELSE mem.runs[id]
                            /\ Started(id) => Unqueued(mem'.runs[id])
<1>1. mem \in Sessions /\ call.undo \in Runs \cup {None}
  BY DEF TypeOK, ServerTypes, Calls
<1>2. CASE call.undo = None
  BY <1>1, <1>2 DEF StartInv, StartedInv
<1>3. CASE call.undo # None
  <2>1. call.id \in Ids /\ mem.runs[call.id] # None
    BY <1>3 DEF StartInv, CallInv, UndoInv
  <2>2. /\ mem' \in Sessions /\ mem'.runs[call.id] = call.undo
        /\ \A other \in Ids \ {call.id} : mem'.runs[other] = mem.runs[other]
    BY <1>1, <1>3, <2>1, RunSet
  <2> QED BY <1>3, <2>1, <2>2 DEF StartInv, StartedInv
<1> QED BY <1>2, <1>3

LEMMA WriteFailsStep ==
  ASSUME TypeOK, StartInv, WriteFails
  PROVE  TypeOK' /\ StartInv'
<1>1. PICK written \in BOOLEAN : disk' = (IF written THEN Written(Ahead) ELSE disk) /\ Count(written)
  BY DEF WriteFails
<1>2. /\ Ahead \in Writes
      /\ mem' = IF call.undo = None THEN mem ELSE [mem EXCEPT !.runs[call.id] = call.undo]
      /\ call' = NoCall /\ todo' \in {<<>>, <<"down">>}
      /\ used' \in [failures : Nat, changes : Nat]
      /\ UNCHANGED <<late, agentVars, acked>>
  BY DEF WriteFails, Abort, Failure, TypeOK, GhostTypes
<1>3. /\ mem' \in Sessions
      /\ \A id \in Ids : /\ mem'.runs[id] = None <=> mem.runs[id] = None
                         /\ Started(id) => Unqueued(mem'.runs[id])
  BY <1>2, TakenBack
<1>4. CallInv' /\ AdmittingInv' /\ HandedInv' /\ todo' \in Seq(Plan) /\ call' \in Calls /\ call'.undo = None
  BY <1>2, CallEnds, NoCallTypes DEF agentVars
<1>5. applied' \in [Ids -> [Results -> Nat]]
  BY <1>1, <1>2, CountTypes
<1>6. disk' \in Disks
  BY <1>1, <1>2, WrittenDisk DEF TypeOK, ServerTypes
<1>7. RecordsInv' /\ CommandInv' /\ StartedInv'
  <2>1. CASE disk' = Written(Ahead)
    BY <1>2, <1>3, <1>4, <2>1, WrittenRecords
  <2>2. CASE disk' = disk
    <3>1. \A id \in Ids : Started(id)' = Started(id)
      BY <1>2, <2>2 DEF Started, agentVars
    <3>2. RecordsInv' /\ CommandInv'
      BY <1>2, <1>3, <2>2 DEF StartInv, RecordsInv, CommandInv, agentVars
    <3>3. StartedInv'
      BY <1>2, <1>3, <1>4, <2>2, <3>1 DEF StartInv, StartedInv, Unqueued, agentVars
    <3> QED BY <3>2, <3>3
  <2> QED BY <1>1, <2>1, <2>2
<1>8. TypeOK'
  BY <1>2, <1>3, <1>4, <1>5, <1>6 DEF TypeOK, ServerTypes, AgentTypes, GhostTypes, agentVars
<1> QED BY <1>4, <1>7, <1>8 DEF StartInv

-----------------------------------------------------------------------------
(* The theorems.                                                           *)

LEMMA StartsSound ==
  ASSUME Init
  PROVE  TypeOK /\ StartInv
<1> DEFINE fresh == [runs |-> [id \in Ids |-> None], epoch |-> 1, generation |-> 1, open |-> TRUE]
<1>1. /\ mem = fresh
      /\ disk = [session |-> fresh, requests |-> [q \in Requests |-> None],
                 executions |-> [id \in Ids |-> None], results |-> {},
                 publications |-> {}, notebook |-> [path |-> Home, version |-> 1],
                 file |-> [version |-> 1, by |-> 0], created |-> 0]
      /\ todo = <<>> /\ call = NoCall /\ late = {}
      /\ agent = [stage |-> "free", active |-> 0] /\ receipts = [id \in Ids |-> None]
      /\ used = [failures |-> 0, changes |-> 0] /\ launches = [q \in Requests |-> 0]
      /\ applied = [id \in Ids |-> [k \in Results |-> 0]] /\ acked = {}
  BY DEF Init
<1>2. fresh \in Sessions /\ \A id \in Ids : fresh.runs[id] = None
  BY DEF Sessions
<1> HIDE DEF fresh
<1>3. Home \in Paths /\ MaxRuns \in Nat /\ 0 \in 0..MaxRuns
  BY PersistentAssumption
<1>4. disk \in Disks
  BY <1>1, <1>2, <1>3 DEF Disks
<1>5. IsList(todo, {})
  BY <1>1, Lists
<1>6. TypeOK
  BY <1>1, <1>2, <1>3, <1>4, <1>5, NoCallTypes
     DEF TypeOK, ServerTypes, AgentTypes, GhostTypes, IsList
<1>7. CallInv
  BY <1>1, <1>5, NoCallTypes
     DEF CallInv, PlanInv, CallsInv, UndoInv, VictimInv, MergingInv, ApplyingInv, IsList, At, Ahead, Idle
<1>8. RecordsInv
  BY <1>1, <1>2, <1>3 DEF RecordsInv
<1>9. AdmittingInv /\ HandedInv
  BY <1>1, <1>5, NoCallTypes DEF AdmittingInv, HandedInv, IsList
<1>10. CommandInv /\ StartedInv
  BY <1>1, <1>2 DEF CommandInv, StartedInv, Started
<1> QED BY <1>6, <1>7, <1>8, <1>9, <1>10 DEF StartInv

LEMMA Stutter ==
  ASSUME TypeOK, StartInv, UNCHANGED vars
  PROVE  TypeOK' /\ StartInv'
<1>1. /\ mem' = mem /\ disk' = disk /\ todo' = todo /\ call' = call /\ late' = late /\ agent' = agent
      /\ receipts' = receipts /\ used' = used /\ launches' = launches /\ applied' = applied /\ acked' = acked
  BY DEF vars, serverVars, agentVars
<1>2. TypeOK'
  BY <1>1 DEF TypeOK, ServerTypes, AgentTypes, GhostTypes
<1>3. CallInv'
  BY <1>1 DEF StartInv, CallInv, PlanInv, CallsInv, ReportOf, UndoInv, VictimInv, MergingInv, ApplyingInv,
              At, Ahead, Idle
<1>4. RecordsInv' /\ AdmittingInv' /\ HandedInv'
  BY <1>1 DEF StartInv, RecordsInv, AdmittingInv, HandedInv
<1>5. CommandInv' /\ StartedInv'
  BY <1>1 DEF StartInv, CommandInv, StartedInv, Started
<1> QED BY <1>2, <1>3, <1>4, <1>5 DEF StartInv

LEMMA EveryStep ==
  ASSUME TypeOK, StartInv, Next
  PROVE  TypeOK' /\ StartInv'
<1>1. CASE UserCalls
  BY <1>1, ExecuteStep, UserSteps, RenameStep DEF UserCalls
<1>2. CASE Steps
  BY <1>2, WriteStep, TrimOneStep, TrimEndsStep, AdmitStep, ScanStep, ApplyStep, MergeStep, FilesStep,
     FinishStep, RetainStep, ReplyStep, BootMergesStep DEF Steps
<1>3. CASE AgentSteps \/ Output
  BY <1>3, LaunchStep, CommandSteps, CallSteps DEF AgentSteps
<1>4. CASE Failures
  BY <1>4, WriteFailsStep, TimesOutStep, AgentRestartsStep, ServerKilledStep DEF Failures
<1>5. CASE Boot \/ \E c \in late : Arrive(c)
  BY <1>5, BootStep, CallSteps
<1> QED BY <1>1, <1>2, <1>3, <1>4, <1>5 DEF Next

\* Every variable keeps its type, and what the calls that are under way, the
\* receipts and the agent's command say of each other stays true: a list of
\* steps does only what its call may do, a run keeps its receipt as long as a
\* record names it, and a run that was started is queued in no record.
THEOREM StartInductive == Spec => [](TypeOK /\ StartInv)
<1>1. Init => TypeOK /\ StartInv
  BY StartsSound
<1>2. TypeOK /\ StartInv /\ [Next]_vars => (TypeOK /\ StartInv)'
  BY EveryStep, Stutter
<1> QED BY <1>1, <1>2, PTL DEF Spec

\* persistentServer.ts and pair-notebook-session-agent.py: no request's code is
\* started twice, whatever is repeated, late or killed, and what was started is
\* more than queued on the server's disk.
THEOREM StartedOnce == Spec => []LaunchedOnce
<1>1. ASSUME TypeOK, StartInv PROVE LaunchedOnce
  <2>1. ASSUME NEW q \in Requests, launches[q] > 0
        PROVE  LET id == disk.requests[q].id IN
               \/ disk.executions[id].final # None
               \/ disk.session.runs[id] # None /\ disk.session.runs[id].state # "queued"
    <3> DEFINE id == disk.requests[q].id
    <3>1. disk.requests[q] # None
      BY <1>1, <2>1 DEF StartInv, CommandInv
    <3>2. id \in Ids
      BY <1>1, <3>1 DEF TypeOK, ServerTypes, Disks, Admissions
    <3>3. Started(id)
      BY <2>1, <3>1 DEF Started
    <3> QED BY <1>1, <3>2, <3>3 DEF StartInv, StartedInv, Unqueued
  <2>2. \A q \in Requests : launches[q] <= 1
    BY <1>1 DEF StartInv, CommandInv
  <2> QED BY <2>1, <2>2 DEF LaunchedOnce
<1>2. TypeOK /\ StartInv => LaunchedOnce
  BY <1>1
<1> QED BY <1>2, StartInductive, PTL

=============================================================================
