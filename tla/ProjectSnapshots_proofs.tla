---------------------- MODULE ProjectSnapshots_proofs ----------------------
(***************************************************************************)
(* Who joins has the project, as the host collected it for the last request *)
(* and nothing else: for every set of files, any number of changes, losses  *)
(* and cuts, and every limit on retries, transfers and frames.              *)
(***************************************************************************)
EXTENDS ProjectSnapshots, SequenceTheorems, FiniteSetTheorems, TLAPS

-----------------------------------------------------------------------------
(* Sequences. *)

LEMMA Joins ==
  ASSUME NEW S, NEW q \in Seq(S), NEW r \in Seq(S)
  PROVE  /\ q \o r \in Seq(S)
         /\ Len(q \o r) = Len(q) + Len(r)
         /\ \A i \in 1 .. Len(q \o r) : (q \o r)[i] = IF i <= Len(q) THEN q[i] ELSE r[i - Len(q)]
OBVIOUS

LEMMA Appends ==
  ASSUME NEW S, NEW q \in Seq(S), NEW e \in S
  PROVE  /\ Append(q, e) \in Seq(S)
         /\ Len(Append(q, e)) = Len(q) + 1
         /\ \A i \in 1 .. Len(q) + 1 : Append(q, e)[i] = IF i <= Len(q) THEN q[i] ELSE e
OBVIOUS

LEMMA Refines ==
  ASSUME NEW S, NEW T, NEW q \in Seq(S), \A i \in 1 .. Len(q) : q[i] \in T
  PROVE  q \in Seq(T)
<1>1. Len(q) \in Nat /\ q \in [1 .. Len(q) -> T]
  OBVIOUS
<1> QED BY <1>1, SeqDef

LEMMA PrefixTypes ==
  ASSUME NEW S, NEW q \in Seq(S), NEW p \in Prefixes(q)
  PROVE  p \in Seq(S) /\ Len(p) <= Len(q) /\ \A i \in 1 .. Len(p) : p[i] = q[i]
<1>1. PICK k \in 0 .. Len(q) : p = SubSeq(q, 1, k)
  BY DEF Prefixes
<1>2. k \in Nat /\ k <= Len(q)
  OBVIOUS
<1> QED BY <1>1, <1>2

LEMMA TailTypes ==
  ASSUME NEW S, NEW q \in Seq(S), q # <<>>
  PROVE  /\ Head(q) \in S /\ Head(q) = q[1] /\ Len(q) >= 1
         /\ Tail(q) \in Seq(S) /\ Len(Tail(q)) = Len(q) - 1
         /\ \A i \in 1 .. Len(Tail(q)) : Tail(q)[i] = q[i + 1]
OBVIOUS

-----------------------------------------------------------------------------
(* Types of what is sent and kept. *)

LEMMA ContentTypes ==
  /\ 0 \in Versions /\ 1 \in Versions
  /\ None \in Contents /\ None \in Received
  /\ \A v \in Versions : Whole(v) \in Contents /\ Whole(v) # None
  /\ \A content \in Contents \ {None} : \E v \in Versions : content = Whole(v)
<1>1. 1 \in Index /\ 0 \in Versions /\ 1 \in Versions
  BY SnapshotAssumption DEF Index, Versions
<1>2. None \in [{} -> Versions]
  BY DEF None
<1>3. None \in Received
  BY <1>2 DEF Received
<1>4. ASSUME NEW v \in Versions PROVE Whole(v) # None
  BY <1>1 DEF Whole, None
<1> QED BY <1>1, <1>3, <1>4 DEF Contents

LEMMA FrameTypes ==
  /\ \A g \in Nat, t \in {"hello", "recovered", "manifestEnd", "end", "error"} : Frame(t, g) \in Frames
  /\ \A f \in Files, v \in Versions, g \in Nat :
       [type |-> "start", gen |-> g, file |-> f, version |-> v] \in Frames
  /\ \A g \in Nat, n \in Nat : [type |-> "checkpoint", gen |-> g, check |-> n] \in Frames
  /\ \A g \in Nat, a \in Nat, b \in Nat, c \in Nat :
       [type |-> "begin", gen |-> g, total |-> a, transfer |-> b, declared |-> c] \in Frames
  /\ \A g \in Nat, a \in SUBSET Files, b \in SUBSET Files :
       [type |-> "manifest", gen |-> g, files |-> a, resumed |-> b] \in Frames
BY DEF Frames, Frame

\* A frame has the fields of its type.
LEMMA FrameFields ==
  ASSUME NEW m \in Frames
  PROVE  /\ m.gen \in Nat
         /\ m.type = "checkpoint" => m.check \in Nat
         /\ m.type = "begin" => m.total \in Nat /\ m.transfer \in Nat /\ m.declared \in Nat
         /\ m.type = "manifest" => m.files \subseteq Files /\ m.resumed \subseteq Files
         /\ m.type = "start" => m.file \in Files /\ m.version \in Versions
         /\ m.type = "chunk" => m.file \in Files /\ m.index \in Index /\ m.version \in Versions
         /\ m.type = "fileEnd" => m.file \in Files
BY DEF Frames

LEMMA AnswerTypes ==
  /\ \A g \in Nat, n \in Nat : [type |-> "ack", gen |-> g, check |-> n] \in Answers
  /\ \A g \in Nat, f \in Files, missing \in SUBSET Index :
       [type |-> "retry", gen |-> g, file |-> f, missing |-> missing] \in Answers
BY DEF Answers

LEMMA AnswerFields ==
  ASSUME NEW m \in Answers
  PROVE  /\ m.gen \in Nat
         /\ m.type = "ack" => m.check \in Nat
         /\ m.type = "retry" => m.file \in Files /\ m.missing \subseteq Index
BY DEF Answers

LEMMA EndTypes ==
  ASSUME NEW g \in Nat, NEW f \in Files
  PROVE  EndFrame(g, f) \in Frames
BY DEF Frames, EndFrame

LEMMA ChunkTypes ==
  ASSUME NEW g \in Nat, NEW f \in Files, NEW i \in Index, NEW v \in Versions
  PROVE  ChunkFrame(g, f, i, v) \in Frames
BY DEF Frames, ChunkFrame

LEMMA IdleType == Idle \in Jobs
BY ContentTypes DEF Idle, Jobs

LEMMA FreshType ==
  ASSUME NEW g \in Nat
  PROVE  /\ Fresh(g) \in Peers(Fresh(g).transfers)
         /\ Fresh(g).transfers \in [DOMAIN Fresh(g).transfers -> Transfer]
         /\ DOMAIN Fresh(g).transfers = {}
BY DEF Fresh, Peers

LEMMA ExistingTypes ==
  ASSUME NEW files
  PROVE  /\ Existing(files) \subseteq Files /\ IsFiniteSet(Existing(files))
         /\ Cardinality(Existing(files)) \in Nat
<1>1. Existing(files) \subseteq Files
  BY DEF Existing
<1> QED BY <1>1, SnapshotAssumption, FS_Subset, FS_CardinalityType

LEMMA WaitingType ==
  ASSUME NEW j \in Jobs
  PROVE  Awaits(j) \in Jobs /\ Checkpoint(j) \in Frames
<1>1. Awaits(j) \in Jobs
  <2>1. j.check + 1 \in Nat
    BY DEF Jobs
  <2> QED BY <2>1, ZenonT(30) DEF Awaits, Jobs
<1>2. j.gen \in Nat /\ j.check \in Nat
  BY DEF Jobs
<1> QED BY <1>1, <1>2, FrameTypes DEF Checkpoint

LEMMA InitType == Init => TypeOK
<1> SUFFICES ASSUME Init PROVE TypeOK
  OBVIOUS
<1>1. project \in [Files -> Versions] /\ isHost \in BOOLEAN /\ active \in Nat
  BY ContentTypes DEF Init
<1>2. job \in Jobs /\ remembered \subseteq [gen : Nat, file : Files, version : Versions]
  BY IdleType DEF Init
<1>3. queue \in Seq(Requests) /\ up \in Seq(Answers) /\ down \in Seq(Frames)
  <2>1. Frame("hello", 0) \in Frames
    BY FrameTypes
  <2> QED BY <2>1 DEF Init
<1>4. link \in [up : BOOLEAN, asked : BOOLEAN] /\ join \in {"running", "joined", "failed"} /\ gens \in Nat
  BY DEF Init
<1>5. /\ peer \in Peers(peer.transfers)
      /\ peer.transfers \in [DOMAIN peer.transfers -> Transfer] /\ DOMAIN peer.transfers \subseteq Files
  BY FreshType DEF Init
<1>6. completed \in [Files -> Contents] /\ disk \in [Files -> Contents]
  BY ContentTypes DEF Init
<1>7. used \in [edits : Nat, lost : Nat, cuts : Nat]
  BY DEF Init
<1>8. taken \in [DOMAIN taken -> [Files -> Versions]] /\ DOMAIN taken \subseteq 1 .. gens
  BY DEF Init
<1> QED BY <1>1, <1>2, <1>3, <1>4, <1>5, <1>6, <1>7, <1>8 DEF TypeOK

LEMMA Sent ==
  ASSUME TypeOK
  PROVE  down \in Seq(Frames) /\ \A m \in Frames : Append(down, m) \in Seq(Frames)
BY Appends DEF TypeOK

LEMMA Told ==
  ASSUME TypeOK
  PROVE  up \in Seq(Answers) /\ \A m \in Answers : Append(up, m) \in Seq(Answers)
BY Appends DEF TypeOK

-----------------------------------------------------------------------------
(* Types: the host. *)

LEMMA FieldTypes ==
  ASSUME TypeOK
  PROVE  /\ job.gen \in Nat /\ job.has \in [Files -> Contents] /\ job.files \in [Files -> Versions]
         /\ job.todo \subseteq Files /\ job.file \in Files \cup {0} /\ job.open \in Versions
         /\ job.chunk \in Nat \ {0} /\ job.intact \in BOOLEAN /\ job.frames \in Nat /\ job.check \in Nat
         /\ peer.gen \in Nat /\ peer.files \subseteq Files /\ peer.resumed \subseteq Files
         /\ peer.started \subseteq Files /\ peer.ready \in BOOLEAN /\ peer.begun \in BOOLEAN
         /\ peer.total \in Nat /\ peer.transfer \in Nat /\ peer.declared \in Nat
BY DEF TypeOK, Jobs, Peers

LEMMA EditType == ASSUME TypeOK, NEW f \in Files, Edit(f) PROVE TypeOK'
<1>1. /\ used' = [used EXCEPT !.edits = @ + 1]
      /\ UNCHANGED <<isHost, active, job, remembered, peerSide, queue, up, down, link, taken>>
  BY DEF Edit
<1>2. project' \in [Files -> Versions]
  <2>1. PICK v \in {0, used.edits + 2} : project' = [project EXCEPT ![f] = v]
    BY DEF Edit
  <2>2. used.edits \in Nat /\ used.edits < MaxEdits /\ MaxEdits \in Nat
    BY SnapshotAssumption DEF TypeOK, Edit
  <2>3. v \in Versions
    BY <2>2 DEF Versions
  <2> QED BY <2>1, <2>3 DEF TypeOK
<1>3. used' \in [edits : Nat, lost : Nat, cuts : Nat]
  <2>1. used.edits + 1 \in Nat /\ used \in [edits : Nat, lost : Nat, cuts : Nat]
    BY DEF TypeOK
  <2> QED BY <1>1, <2>1, Zenon
<1> QED BY <1>1, <1>2, <1>3 DEF TypeOK, peerSide

LEMMA RetireType == ASSUME TypeOK, Retire PROVE TypeOK'
BY DEF Retire, TypeOK, peerSide

\* The host hears of a request, reports an error, or is told of an answer.
LEMMA JobTypeFrame ==
  ASSUME TypeOK, job' \in Jobs, active' \in Nat, queue' \in Seq(Requests), down' \in Seq(Frames),
         up' \in Seq(Answers), remembered' \subseteq [gen : Nat, file : Files, version : Versions],
         UNCHANGED <<project, isHost, peerSide, link, used, taken>>
  PROVE  TypeOK'
BY DEF TypeOK, peerSide

LEMMA TakeRequestType == ASSUME TypeOK, TakeRequest PROVE TypeOK'
<1>1. queue # <<>> /\ queue' = Tail(queue)
  BY DEF TakeRequest
<1>2. Head(queue) \in Requests /\ queue' \in Seq(Requests)
  BY <1>1, TailTypes DEF TypeOK
<1>3. Head(queue).gen \in Nat /\ Head(queue).completed \in [Files -> Contents]
  BY <1>2 DEF Requests
<1>4. active' \in Nat /\ job' \in Jobs
  <2>1. [Idle EXCEPT !.st = "collecting", !.gen = Head(queue).gen, !.has = Head(queue).completed] \in Jobs
    BY <1>3, IdleType DEF Jobs
  <2> QED BY <1>3, <2>1 DEF TakeRequest, TypeOK
<1>5. down' \in Seq(Frames)
  <2>1. Frame("error", Head(queue).gen) \in Frames
    BY <1>3, FrameTypes
  <2>2. down' \in {down, Append(down, Frame("error", Head(queue).gen))}
    BY Zenon DEF TakeRequest
  <2>3. Append(down, Frame("error", Head(queue).gen)) \in Seq(Frames) /\ down \in Seq(Frames)
    BY <2>1, Appends DEF TypeOK
  <2> QED BY <2>2, <2>3
<1> QED BY <1>2, <1>4, <1>5, JobTypeFrame DEF TakeRequest, TypeOK

LEMMA CollectType == ASSUME TypeOK, GenerationsInv, Collect PROVE TypeOK'
<1> DEFINE todo == {f \in Existing(project) : job.has[f] # Whole(project[f])}
           resumed == Existing(project) \ todo
           j == Awaits([job EXCEPT !.files = project, !.todo = todo])
           begin == [type |-> "begin", gen |-> job.gen, total |-> Cardinality(Existing(project)),
                     transfer |-> Cardinality(todo), declared |-> Cardinality(resumed)]
           manifest == [type |-> "manifest", gen |-> job.gen, files |-> Existing(project), resumed |-> resumed]
<1>1. /\ job' = j /\ down' = down \o <<begin, manifest, Frame("manifestEnd", job.gen), Checkpoint(j)>>
      /\ taken' = [g \in DOMAIN taken \cup {job.gen} |-> IF g = job.gen THEN project ELSE taken[g]]
      /\ UNCHANGED <<project, isHost, active, remembered, peerSide, queue, up, link, used>>
  BY DEF Collect, Manifest
<1>2. job.gen \in Nat /\ job.gen \in 1 .. gens
  <2>1. job.st = "collecting"
    BY DEF Collect, Manifest
  <2> QED BY <2>1, FieldTypes DEF GenerationsInv, TypeOK
<1>3. todo \subseteq Files /\ resumed \subseteq Files /\ Existing(project) \subseteq Files
  BY ExistingTypes
<1>4. Cardinality(Existing(project)) \in Nat /\ Cardinality(todo) \in Nat /\ Cardinality(resumed) \in Nat
  BY ExistingTypes, FS_Subset, FS_CardinalityType
<1>5. j \in Jobs /\ Checkpoint(j) \in Frames
  <2>1. [job EXCEPT !.files = project, !.todo = todo] \in Jobs
    <3>1. job \in Jobs /\ project \in [Files -> Versions]
      BY DEF TypeOK
    <3> HIDE DEF todo
    <3> QED BY <1>3, <3>1, ZenonT(30) DEF Jobs
  <2>2. Awaits([job EXCEPT !.files = project, !.todo = todo]) \in Jobs
    BY <2>1, WaitingType
  <2> QED BY <2>2, WaitingType
<1>6. down' \in Seq(Frames)
  <2>1. begin \in Frames /\ manifest \in Frames /\ Frame("manifestEnd", job.gen) \in Frames
    BY <1>2, <1>3, <1>4, FrameTypes
  <2> HIDE DEF begin, manifest, j
  <2>2. <<begin, manifest, Frame("manifestEnd", job.gen), Checkpoint(j)>> \in Seq(Frames)
    BY <2>1, <1>5
  <2> QED BY <1>1, <2>2, Joins DEF TypeOK
<1>7. taken' \in [DOMAIN taken' -> [Files -> Versions]] /\ DOMAIN taken' \subseteq 1 .. gens
  BY <1>1, <1>2 DEF TypeOK
<1> HIDE DEF j
<1> QED BY <1>1, <1>5, <1>6, <1>7 DEF TypeOK, peerSide

LEMMA SendsType ==
  ASSUME TypeOK, NEW frame \in Frames, NEW j \in Jobs, Sends(frame, j),
         remembered' \subseteq [gen : Nat, file : Files, version : Versions]
  PROVE  TypeOK'
<1>1. down' \in Seq(Frames)
  BY DEF Sends, TypeOK
<1> QED BY <1>1, JobTypeFrame DEF Sends, TypeOK

LEMMA SendsAndDrainsType ==
  ASSUME TypeOK, NEW frame \in Frames, NEW j \in Jobs, SendsAndDrains(frame, j), UNCHANGED remembered
  PROVE  TypeOK'
<1>1. CASE Sends(frame, j)
  BY <1>1, SendsType DEF TypeOK
<1>2. CASE ~Sends(frame, j)
  <2>1. down' = down \o <<frame, Checkpoint(Awaits(j))>> /\ job' = Awaits(j)
    BY <1>2 DEF SendsAndDrains
  <2>2. Awaits(j) \in Jobs /\ Checkpoint(Awaits(j)) \in Frames
    BY WaitingType
  <2>3. <<frame, Checkpoint(Awaits(j))>> \in Seq(Frames)
    BY <2>2
  <2>4. down' \in Seq(Frames)
    BY <2>1, <2>3, Joins DEF TypeOK
  <2> QED BY <1>2, <2>1, <2>2, <2>4, JobTypeFrame DEF SendsAndDrains, TypeOK
<1> QED BY <1>1, <1>2

LEMMA SendStartType == ASSUME TypeOK, SendStart PROVE TypeOK'
<1>1. PICK f \in job.todo :
        /\ Sends(StartFrame(f), [job EXCEPT !.file = f, !.todo = @ \ {f}, !.chunk = 1, !.intact = TRUE,
                                            !.frames = @ + 1,
                                            !.open = IF f \in Streamed THEN project[f] ELSE job.files[f]])
        /\ remembered' = remembered \cup {[gen |-> job.gen, file |-> f, version |-> job.files[f]]}
  BY DEF SendStart, Announced
<1> DEFINE open == IF f \in Streamed THEN project[f] ELSE job.files[f]
<1>2. /\ f \in Files /\ job.files[f] \in Versions /\ project[f] \in Versions /\ job.gen \in Nat
      /\ job.frames + 1 \in Nat /\ job.todo \ {f} \subseteq Files /\ job \in Jobs
  BY FieldTypes, SMTT(60) DEF TypeOK
<1>3. StartFrame(f) \in Frames
  BY <1>2, FrameTypes DEF StartFrame
<1>4. open \in Versions
  BY <1>2
<1> HIDE DEF open
<1>7. 1 \in Nat \ {0} /\ TRUE \in BOOLEAN
  OBVIOUS
<1>5. [job EXCEPT !.file = f, !.todo = @ \ {f}, !.chunk = 1, !.intact = TRUE, !.frames = @ + 1,
                  !.open = open] \in Jobs
  BY <1>2, <1>4, <1>7, ZenonT(60) DEF Jobs
<1>6. remembered' \subseteq [gen : Nat, file : Files, version : Versions]
  BY <1>1, <1>2 DEF TypeOK
<1> QED BY <1>1, <1>3, <1>5, <1>6, SendsType DEF open

LEMMA SendChunkType == ASSUME TypeOK, SendChunk PROVE TypeOK'
<1>1. PICK v \in {job.open} \cup IF job.file \in Streamed THEN {project[job.file]} \ {0} ELSE {} :
        SendsAndDrains(ChunkFrame(job.gen, job.file, job.chunk, v),
                       [job EXCEPT !.chunk = @ + 1, !.frames = @ + 1,
                                   !.intact = @ /\ v = job.files[job.file]])
  BY DEF SendChunk
<1> DEFINE intact == job.intact /\ v = job.files[job.file]
<1>2. /\ job.file \in Files /\ v \in Versions /\ job.gen \in Nat /\ job.chunk + 1 \in Nat \ {0}
      /\ job.frames + 1 \in Nat /\ job \in Jobs
  <2>1. job.file \in Files
    BY FieldTypes DEF SendChunk, Sending
  <2>2. job.open \in Versions /\ project[job.file] \in Versions
    BY <2>1, FieldTypes DEF TypeOK
  <2>3. job.chunk + 1 \in Nat \ {0} /\ job.frames + 1 \in Nat /\ job.gen \in Nat
    BY FieldTypes
  <2>4. v \in Versions
    BY <2>2
  <2> QED BY <2>1, <2>3, <2>4 DEF TypeOK
<1>3. job.chunk \in Index
  <2>1. job.chunk \in Nat /\ job.chunk <= Chunks /\ Chunks \in Nat /\ job.chunk # 0
    BY FieldTypes, SnapshotAssumption DEF SendChunk
  <2> QED BY <2>1 DEF Index
<1>4. ChunkFrame(job.gen, job.file, job.chunk, v) \in Frames
  BY <1>2, <1>3, ChunkTypes
<1>5. intact \in BOOLEAN
  OBVIOUS
<1> HIDE DEF intact
<1>6. [job EXCEPT !.chunk = @ + 1, !.frames = @ + 1, !.intact = intact] \in Jobs
  BY <1>2, <1>5, ZenonT(60) DEF Jobs
<1> QED BY <1>1, <1>4, <1>6, SendsAndDrainsType DEF intact, SendChunk

LEMMA SendFileEndType == ASSUME TypeOK, SendFileEnd PROVE TypeOK'
<1>1. job.file \in Files /\ job.gen \in Nat /\ job.frames + 1 \in Nat /\ job \in Jobs
  BY FieldTypes, SMTT(60) DEF TypeOK, SendFileEnd, Sending
<1>2. EndFrame(job.gen, job.file) \in Frames
  BY <1>1, EndTypes
<1>3. [job EXCEPT !.file = 0, !.frames = @ + 1] \in Jobs
  BY <1>1, ZenonT(30) DEF Jobs
<1> QED BY <1>2, <1>3, SendsAndDrainsType DEF SendFileEnd

LEMMA SendEndType == ASSUME TypeOK, SendEnd PROVE TypeOK'
<1>1. Checkpoint(Awaits(job)) \in Frames /\ Awaits(job) \in Jobs /\ Frame("end", job.gen) \in Frames
  BY WaitingType, FrameTypes, FieldTypes DEF TypeOK
<1>2. down' \in {Append(down, Checkpoint(Awaits(job))), Append(down, Frame("end", job.gen))}
  BY Zenon DEF SendEnd
<1>3. down' \in Seq(Frames)
  BY <1>1, <1>2, Sent
<1>4. job' \in Jobs /\ active' \in Nat
  BY <1>1, IdleType DEF SendEnd, TypeOK
<1> QED BY <1>3, <1>4, JobTypeFrame DEF SendEnd, TypeOK

LEMMA BreakType == ASSUME TypeOK, Break PROVE TypeOK'
<1>1. Frame("error", job.gen) \in Frames
  BY FrameTypes, FieldTypes
<1>2. down' \in {down, Append(down, Frame("error", job.gen))}
  BY Zenon DEF Break
<1>3. down' \in Seq(Frames)
  BY <1>1, <1>2, Sent
<1> QED BY <1>3, IdleType, JobTypeFrame DEF Break, TypeOK

LEMMA AcknowledgedType == ASSUME TypeOK, Acknowledged PROVE TypeOK'
<1>1. up' \in Seq(Answers)
  BY TailTypes DEF Acknowledged, TypeOK
<1>2. [job EXCEPT !.st = "sending"] \in Jobs
  BY ZenonT(30) DEF Jobs, TypeOK
<1>3. job' \in Jobs
  BY <1>2 DEF Acknowledged, TypeOK
<1> QED BY <1>1, <1>3, JobTypeFrame DEF Acknowledged, TypeOK

LEMMA ResendType == ASSUME TypeOK, Resend PROVE TypeOK'
<1> DEFINE m == Head(up)
           known == {r \in remembered : r.gen = m.gen /\ r.file = m.file /\ active = m.gen /\ isHost}
<1>1. up # <<>> /\ m.type = "retry" /\ up' = Tail(up)
      /\ UNCHANGED <<project, isHost, active, job, remembered, peerSide, queue, link, used, taken>>
  BY DEF Resend
<1>2. m \in Answers /\ up' \in Seq(Answers)
  BY <1>1, TailTypes DEF TypeOK
<1>3. m.gen \in Nat /\ m.file \in Files /\ m.missing \subseteq Index
  BY <1>1, <1>2, AnswerFields
<1>4. down' \in Seq(Frames)
  <2>1. CASE down' = down
    BY <2>1 DEF TypeOK
  <2>2. CASE down' # down
    <3>1. PICK r \in known, order \in [1 .. Cardinality(m.missing) -> m.missing] :
            LET v == IF m.file \in Streamed THEN project[m.file] ELSE r.version IN
            down' = down \o [k \in DOMAIN order |-> ChunkFrame(m.gen, m.file, order[k], v)]
                         \o <<EndFrame(m.gen, m.file)>>
      BY <2>2 DEF Resend
    <3> DEFINE v == IF m.file \in Streamed THEN project[m.file] ELSE r.version
               chunks == [k \in DOMAIN order |-> ChunkFrame(m.gen, m.file, order[k], v)]
    <3>2. v \in Versions
      BY <1>3 DEF TypeOK
    <3>3. Cardinality(m.missing) \in Nat
      <4>1. IsFiniteSet(Index)
        BY FS_Interval, SnapshotAssumption DEF Index
      <4> QED BY <4>1, <1>3, FS_Subset, FS_CardinalityType
    <3>4. chunks \in Seq(Frames)
      <4>1. \A k \in 1 .. Cardinality(m.missing) : ChunkFrame(m.gen, m.file, order[k], v) \in Frames
        <5> SUFFICES ASSUME NEW k \in 1 .. Cardinality(m.missing)
                     PROVE  ChunkFrame(m.gen, m.file, order[k], v) \in Frames
          OBVIOUS
        <5>1. order[k] \in Index
          BY <1>3
        <5> QED BY <5>1, <1>3, <3>2, ChunkTypes
      <4> HIDE DEF v, m
      <4>2. chunks \in [1 .. Cardinality(m.missing) -> Frames]
        BY <4>1
      <4> QED BY <3>3, <4>2, SeqDef
    <3>5. <<EndFrame(m.gen, m.file)>> \in Seq(Frames)
      BY <1>3, EndTypes
    <3>6. down' = (down \o chunks) \o <<EndFrame(m.gen, m.file)>>
      BY <3>1
    <3> HIDE DEF chunks, m
    <3>7. down \o chunks \in Seq(Frames)
      BY <3>4, Joins DEF TypeOK
    <3> QED BY <3>5, <3>6, <3>7, Joins
  <2> QED BY <2>1, <2>2
<1> QED BY <1>1, <1>2, <1>4, JobTypeFrame DEF TypeOK

-----------------------------------------------------------------------------
(* Types: the route and the participant. *)

LEMMA UsedTypes ==
  ASSUME TypeOK
  PROVE  /\ [used EXCEPT !.cuts = @ + 1] \in [edits : Nat, lost : Nat, cuts : Nat]
         /\ [used EXCEPT !.lost = @ + 1] \in [edits : Nat, lost : Nat, cuts : Nat]
<1>1. used.cuts + 1 \in Nat /\ used.lost + 1 \in Nat /\ used \in [edits : Nat, lost : Nat, cuts : Nat]
  BY DEF TypeOK
<1> QED BY <1>1, Zenon

\* The route changes what is on its way and its own state.
LEMMA RouteTypeFrame ==
  ASSUME TypeOK, queue' \in Seq(Requests), down' \in Seq(Frames), up' \in Seq(Answers),
         active' \in Nat, remembered' \subseteq remembered, link' \in [up : BOOLEAN, asked : BOOLEAN],
         used' \in [edits : Nat, lost : Nat, cuts : Nat],
         UNCHANGED <<project, isHost, job, peerSide, taken>>
  PROVE  TypeOK'
BY DEF TypeOK, peerSide

LEMMA CutTypes ==
  ASSUME TypeOK
  PROVE  /\ \A d \in Prefixes(down) : d \in Seq(Frames)
         /\ \A u \in Prefixes(up) : u \in Seq(Answers)
         /\ \A q \in Prefixes(queue) : q \in Seq(Requests)
BY PrefixTypes DEF TypeOK

LEMMA CutType == ASSUME TypeOK, Cut PROVE TypeOK'
<1>1. queue' \in Seq(Requests) /\ down' \in Seq(Frames) /\ up' \in Seq(Answers)
  BY CutTypes DEF Cut
<1>2. link' \in [up : BOOLEAN, asked : BOOLEAN] /\ used' \in [edits : Nat, lost : Nat, cuts : Nat]
  BY UsedTypes DEF Cut, TypeOK
<1> QED BY <1>1, <1>2, RouteTypeFrame DEF Cut, TypeOK, hostSide

LEMMA ReconnectType == ASSUME TypeOK, Reconnect PROVE TypeOK'
<1>1. <<Frame("recovered", 0), Frame("hello", 0)>> \in Seq(Frames)
  BY FrameTypes
<1>2. down' \in Seq(Frames)
  BY <1>1, Joins DEF Reconnect, TypeOK
<1> QED BY <1>2, RouteTypeFrame DEF Reconnect, Cancel, TypeOK

LEMMA ReplaceType == ASSUME TypeOK, Replace PROVE TypeOK'
<1>1. queue' \in Seq(Requests) /\ up' \in Seq(Answers)
  BY CutTypes DEF Replace
<1>2. down' \in Seq(Frames)
  <2>1. PICK d \in Prefixes(down) : down' = Append(d, Frame("hello", 0))
    BY DEF Replace
  <2>2. d \in Seq(Frames) /\ Frame("hello", 0) \in Frames
    BY CutTypes, FrameTypes
  <2> QED BY <2>1, <2>2, Appends
<1>3. link' \in [up : BOOLEAN, asked : BOOLEAN] /\ used' \in [edits : Nat, lost : Nat, cuts : Nat]
  BY UsedTypes DEF Replace, TypeOK
<1> QED BY <1>1, <1>2, <1>3, RouteTypeFrame DEF Replace, Cancel, TypeOK

LEMMA DepartedType == ASSUME TypeOK, Departed PROVE TypeOK'
BY RouteTypeFrame DEF Departed, Cancel, TypeOK

LEMMA LoseType == ASSUME TypeOK, Lose PROVE TypeOK'
<1>1. down' \in Seq(Frames) /\ up' \in Seq(Answers)
  <2>1. down \in Seq(Frames) /\ up \in Seq(Answers)
    BY DEF TypeOK
  <2>2. CASE down # <<>> /\ down' = Tail(down) /\ UNCHANGED up
    BY <2>1, <2>2, TailTypes
  <2>3. CASE up # <<>> /\ up' = Tail(up) /\ UNCHANGED down
    BY <2>1, <2>3, TailTypes
  <2> QED BY <2>2, <2>3 DEF Lose
<1>2. used' \in [edits : Nat, lost : Nat, cuts : Nat]
  BY UsedTypes DEF Lose
<1> QED BY <1>1, <1>2, RouteTypeFrame DEF Lose, TypeOK, hostSide

\* What a participant's step leaves to be shown.
LEMMA TakesTypes ==
  ASSUME TypeOK, NEW t, Takes(t)
  PROVE  /\ Head(down) \in Frames /\ Head(down).type \in t /\ down' \in Seq(Frames)
         /\ UNCHANGED <<hostSide, used, taken>> /\ join = "running"
<1>1. down # <<>> /\ down' = Tail(down) /\ Head(down).type \in t
  BY DEF Takes
<1> QED BY <1>1, TailTypes DEF Takes, TypeOK

LEMMA PeerTypeFrame ==
  ASSUME TypeOK, UNCHANGED <<hostSide, used, taken>>, down' \in Seq(Frames),
         queue' \in Seq(Requests), up' \in Seq(Answers), link' \in [up : BOOLEAN, asked : BOOLEAN],
         join' \in {"running", "joined", "failed"}, gens' \in Nat, gens <= gens',
         peer' \in Peers(peer'.transfers),
         peer'.transfers \in [DOMAIN peer'.transfers -> Transfer], DOMAIN peer'.transfers \subseteq Files,
         completed' \in [Files -> Contents], disk' \in [Files -> Contents]
  PROVE  TypeOK'
<1>1. taken' \in [DOMAIN taken' -> [Files -> Versions]] /\ DOMAIN taken' \subseteq 1 .. gens'
  <2>1. taken' = taken /\ DOMAIN taken \subseteq 1 .. gens /\ 1 .. gens \subseteq 1 .. gens'
    BY DEF TypeOK
  <2>2. taken \in [DOMAIN taken -> [Files -> Versions]]
    BY DEF TypeOK
  <2> QED BY <2>1, <2>2
<1>2. /\ project' \in [Files -> Versions] /\ isHost' \in BOOLEAN /\ active' \in Nat /\ job' \in Jobs
      /\ remembered' \subseteq [gen : Nat, file : Files, version : Versions]
      /\ used' \in [edits : Nat, lost : Nat, cuts : Nat]
  BY DEF TypeOK, hostSide
<1> QED BY <1>1, <1>2 DEF TypeOK

LEMMA RequestType ==
  ASSUME TypeOK, NEW t, Takes(t), Request
  PROVE  TypeOK'
<1>1. gens' = gens + 1 /\ gens \in Nat /\ peer' = Fresh(IF link.up THEN gens + 1 ELSE 0)
  BY DEF Request, TypeOK
<1> DEFINE g == IF link.up THEN gens + 1 ELSE 0
<1>2. g \in Nat /\ peer' = Fresh(g)
  BY <1>1
<1> HIDE DEF g
<1>3. /\ peer' \in Peers(peer'.transfers) /\ peer'.transfers \in [DOMAIN peer'.transfers -> Transfer]
      /\ DOMAIN peer'.transfers \subseteq Files
  BY <1>2, FreshType
<1>4. queue' \in Seq(Requests)
  <2>1. [gen |-> gens + 1, completed |-> completed] \in Requests
    BY DEF Requests, TypeOK
  <2>2. queue' \in {queue, Append(queue, [gen |-> gens + 1, completed |-> completed])}
    BY Zenon DEF Request
  <2>3. queue \in Seq(Requests)
    BY DEF TypeOK
  <2> QED BY <2>1, <2>2, <2>3, Appends
<1>5. link' \in [up : BOOLEAN, asked : BOOLEAN]
  BY DEF Request, TypeOK
<1>6. /\ up' \in Seq(Answers) /\ join' \in {"running", "joined", "failed"}
      /\ completed' \in [Files -> Contents] /\ disk' \in [Files -> Contents]
  BY DEF Request, TypeOK
<1>7. gens' \in Nat /\ gens <= gens'
  BY <1>1
<1> QED BY <1>3, <1>4, <1>5, <1>6, <1>7, TakesTypes, PeerTypeFrame

\* A frame changes what the participant knows of a generation, or fails.
LEMMA KnowsType ==
  ASSUME TypeOK, NEW t, Takes(t), Quiet,
         \/ Fail
         \/ /\ peer' \in Peers(peer'.transfers)
            /\ peer'.transfers \in [DOMAIN peer'.transfers -> Transfer] /\ DOMAIN peer'.transfers \subseteq Files
            /\ completed' \in [Files -> Contents] /\ UNCHANGED <<join, disk>>
  PROVE  TypeOK'
<1>1. /\ queue' \in Seq(Requests) /\ up' \in Seq(Answers) /\ link' \in [up : BOOLEAN, asked : BOOLEAN]
      /\ gens' \in Nat /\ gens <= gens'
  BY DEF Quiet, TypeOK
<1>2. /\ peer' \in Peers(peer'.transfers) /\ DOMAIN peer'.transfers \subseteq Files
      /\ peer'.transfers \in [DOMAIN peer'.transfers -> Transfer]
      /\ completed' \in [Files -> Contents] /\ disk' \in [Files -> Contents]
      /\ join' \in {"running", "joined", "failed"}
  BY DEF Fail, TypeOK
<1> QED BY <1>1, <1>2, TakesTypes, PeerTypeFrame

LEMMA OnHelloType == ASSUME TypeOK, OnHello PROVE TypeOK'
<1>1. Takes({"hello"})
  BY DEF OnHello
<1>2. CASE peer.gen = 0
  BY <1>1, <1>2, RequestType DEF OnHello
<1>3. CASE peer.gen # 0
  BY <1>1, <1>3, KnowsType DEF OnHello, TypeOK
<1> QED BY <1>2, <1>3

LEMMA OnRecoveredType == ASSUME TypeOK, OnRecovered PROVE TypeOK'
BY RequestType DEF OnRecovered

LEMMA StaleType == ASSUME TypeOK, Stale PROVE TypeOK'
BY KnowsType DEF Stale, TypeOK

LEMMA OnErrorType == ASSUME TypeOK, OnError PROVE TypeOK'
BY KnowsType DEF OnError, Mine

LEMMA OnBeginType == ASSUME TypeOK, OnBegin PROVE TypeOK'
<1> DEFINE m == Head(down)
<1>1. Takes({"begin"}) /\ Quiet
  BY DEF OnBegin, Mine
<1>2. m.total \in Nat /\ m.transfer \in Nat /\ m.declared \in Nat
  BY <1>1, TakesTypes, FrameFields
<1>3. CASE Fail
  BY <1>1, <1>3, KnowsType
<1>4. CASE ~Fail
  <2>1. /\ peer' = [peer EXCEPT !.begun = TRUE, !.total = m.total, !.transfer = m.transfer,
                                !.declared = m.declared]
        /\ UNCHANGED <<join, completed, disk>>
    BY <1>4 DEF OnBegin
  <2>2. peer \in Peers(peer.transfers) /\ TRUE \in BOOLEAN
    BY DEF TypeOK
  <2> HIDE DEF m
  <2>3. peer' \in Peers(peer.transfers)
    BY <1>2, <2>1, <2>2, ZenonT(60) DEF Peers
  <2>4. peer'.transfers = peer.transfers
    BY <2>3 DEF Peers
  <2> QED BY <1>1, <2>1, <2>3, <2>4, KnowsType DEF TypeOK
<1> QED BY <1>3, <1>4

LEMMA OnManifestType == ASSUME TypeOK, OnManifest PROVE TypeOK'
<1> DEFINE m == Head(down)
<1>1. Takes({"manifest"}) /\ Quiet
  BY DEF OnManifest, Mine
<1>2. m.files \subseteq Files /\ m.resumed \subseteq Files
  BY <1>1, TakesTypes, FrameFields
<1>3. CASE Fail
  BY <1>1, <1>3, KnowsType
<1>4. CASE ~Fail
  <2>1. /\ peer' = [peer EXCEPT !.files = @ \cup m.files, !.resumed = @ \cup m.resumed]
        /\ UNCHANGED <<join, completed, disk>>
    BY <1>4 DEF OnManifest
  <2>2. /\ peer \in Peers(peer.transfers)
        /\ peer.files \cup m.files \in SUBSET Files /\ peer.resumed \cup m.resumed \in SUBSET Files
    BY <1>2, FieldTypes DEF TypeOK
  <2> HIDE DEF m
  <2>3. peer' \in Peers(peer.transfers)
    BY <2>1, <2>2, ZenonT(60) DEF Peers
  <2>4. peer'.transfers = peer.transfers
    BY <2>3 DEF Peers
  <2> QED BY <1>1, <2>1, <2>3, <2>4, KnowsType DEF TypeOK
<1> QED BY <1>3, <1>4

LEMMA OnManifestEndType == ASSUME TypeOK, OnManifestEnd PROVE TypeOK'
<1>1. Takes({"manifestEnd"}) /\ Quiet
  BY DEF OnManifestEnd, Mine
<1>2. CASE Fail
  BY <1>1, <1>2, KnowsType
<1>3. CASE ~Fail
  <2>1. /\ completed' = [f \in Files |-> IF f \in peer.resumed THEN completed[f] ELSE None]
        /\ peer' = [peer EXCEPT !.ready = TRUE]
        /\ UNCHANGED <<join, disk>>
    BY <1>3 DEF OnManifestEnd
  <2>2. peer \in Peers(peer.transfers) /\ TRUE \in BOOLEAN
    BY DEF TypeOK
  <2>3. peer' \in Peers(peer.transfers)
    BY <2>1, <2>2, ZenonT(60) DEF Peers
  <2>4. peer'.transfers = peer.transfers
    BY <2>3 DEF Peers
  <2>5. completed' \in [Files -> Contents]
    BY <2>1, ContentTypes DEF TypeOK
  <2> QED BY <1>1, <2>1, <2>3, <2>4, <2>5, KnowsType DEF TypeOK
<1> QED BY <1>2, <1>3

LEMMA OnCheckpointType == ASSUME TypeOK, OnCheckpoint PROVE TypeOK'
<1> DEFINE ack == [type |-> "ack", gen |-> peer.gen, check |-> Head(down).check]
<1>1. Takes({"checkpoint"})
  BY DEF OnCheckpoint, Mine
<1>2. ack \in Answers
  <2>1. Head(down).check \in Nat
    BY <1>1, TakesTypes, FrameFields
  <2> QED BY <2>1, FieldTypes, AnswerTypes
<1>3. up' \in {up, Append(up, ack)}
  BY Zenon DEF OnCheckpoint
<1> HIDE DEF ack
<1>4. up' \in Seq(Answers)
  BY <1>2, <1>3, Told
<1>5. /\ UNCHANGED <<queue, link, gens, peer, completed, disk>>
      /\ join' \in {"running", "joined", "failed"}
  BY DEF OnCheckpoint, Fail, TypeOK
<1> QED BY <1>1, <1>4, <1>5, TakesTypes, PeerTypeFrame, SMTT(60) DEF TypeOK

LEMMA OnStartType == ASSUME TypeOK, OnStart PROVE TypeOK'
<1> DEFINE m == Head(down)
           entry == [version |-> m.version, received |-> None, retries |-> 0]
           transfers == Entry(peer.transfers, m.file, entry)
<1>1. Takes({"start"}) /\ Quiet
  BY DEF OnStart, Mine
<1>2. m.file \in Files /\ m.version \in Versions
  BY <1>1, TakesTypes, FrameFields
<1>3. CASE Fail
  BY <1>1, <1>3, KnowsType
<1>4. CASE ~Fail
  <2>1. /\ peer' = [peer EXCEPT !.started = @ \cup {m.file}, !.transfers = transfers]
        /\ UNCHANGED <<join, completed, disk>>
    BY <1>4 DEF OnStart
  <2>2. entry \in Transfer
    BY <1>2, ContentTypes DEF Transfer
  <2> HIDE DEF entry
  <2>3. transfers \in [DOMAIN transfers -> Transfer] /\ DOMAIN transfers \subseteq Files
    BY <1>2, <2>2 DEF Entry, TypeOK
  <2>4. peer \in Peers(peer.transfers) /\ peer.started \cup {m.file} \in SUBSET Files
    BY <1>2, FieldTypes DEF TypeOK
  <2> HIDE DEF transfers, m
  <2>5. peer' \in Peers(transfers)
    BY <2>1, <2>4, ZenonT(60) DEF Peers
  <2>6. peer'.transfers = transfers
    BY <2>5 DEF Peers
  <2> QED BY <1>1, <2>1, <2>3, <2>5, <2>6, KnowsType DEF TypeOK
<1> QED BY <1>3, <1>4

\* A transfer changes, or is done.
LEMMA TransfersType ==
  ASSUME TypeOK, NEW transfers, transfers \in [DOMAIN transfers -> Transfer], DOMAIN transfers \subseteq Files,
         peer' = [peer EXCEPT !.transfers = transfers]
  PROVE  /\ peer' \in Peers(peer'.transfers) /\ DOMAIN peer'.transfers \subseteq Files
         /\ peer'.transfers \in [DOMAIN peer'.transfers -> Transfer] /\ peer'.transfers = transfers
         /\ peer'.gen = peer.gen /\ peer'.begun = peer.begun /\ peer'.total = peer.total
         /\ peer'.files = peer.files /\ peer'.resumed = peer.resumed /\ peer'.ready = peer.ready
<1>1. peer \in Peers(peer.transfers)
  BY DEF TypeOK
<1>2. peer' \in Peers(transfers)
  BY <1>1, ZenonT(60) DEF Peers
<1>3. peer'.transfers = transfers
  BY <1>2 DEF Peers
<1>4. /\ peer'.gen = peer.gen /\ peer'.begun = peer.begun /\ peer'.total = peer.total
      /\ peer'.files = peer.files /\ peer'.resumed = peer.resumed /\ peer'.ready = peer.ready
  BY <1>1 DEF Peers
<1> QED BY <1>2, <1>3, <1>4

LEMMA ChunkKept ==
  ASSUME TypeOK, OnChunk, ~Fail
  PROVE  \E received \in Received :
           LET f == Head(down).file IN
           /\ f \in DOMAIN peer.transfers
           /\ peer' = [peer EXCEPT !.transfers = [peer.transfers EXCEPT ![f].received = received]]
           /\ UNCHANGED <<join, completed, disk>>
<1> DEFINE m == Head(down)
           t == peer.transfers[m.file]
<1>1. m.file \in DOMAIN peer.transfers /\ UNCHANGED <<join, completed, disk>>
  BY DEF OnChunk
<1>2. t \in Transfer /\ t.received \in Received /\ peer \in Peers(peer.transfers)
  BY <1>1 DEF TypeOK, Transfer
<1>3. m.index \in Index /\ m.version \in Versions
  BY TakesTypes, FrameFields DEF OnChunk, Mine
<1>4. CASE m.index \in DOMAIN t.received
  <2>1. peer' = peer
    BY <1>1, <1>4 DEF OnChunk
  <2>2. [t EXCEPT !.received = t.received] = t
    BY <1>2 DEF Transfer
  <2>3. [peer.transfers EXCEPT ![m.file].received = t.received] = peer.transfers
    BY <1>1, <2>2 DEF TypeOK
  <2>4. [peer EXCEPT !.transfers = peer.transfers] = peer
    BY <1>2 DEF Peers
  <2> QED BY <1>1, <1>2, <2>1, <2>3, <2>4
<1>5. CASE m.index \notin DOMAIN t.received
  <2> DEFINE received == Entry(t.received, m.index, m.version)
  <2>1. received \in Received
    <3>1. PICK indices \in SUBSET Index : t.received \in [indices -> Versions]
      BY <1>2 DEF Received
    <3>2. received \in [indices \cup {m.index} -> Versions]
      BY <1>3, <3>1 DEF Entry
    <3>3. indices \cup {m.index} \in SUBSET Index
      BY <1>3
    <3> HIDE DEF received
    <3> QED BY <3>2, <3>3 DEF Received
  <2>2. peer' = [peer EXCEPT !.transfers[m.file].received = received]
    BY <1>1, <1>5 DEF OnChunk
  <2>3. peer' = [peer EXCEPT !.transfers = [peer.transfers EXCEPT ![m.file].received = received]]
    BY <1>2, <2>2 DEF Peers
  <2> QED BY <1>1, <2>1, <2>3
<1> QED BY <1>4, <1>5

LEMMA ReceivedTransfer ==
  ASSUME TypeOK, NEW f \in DOMAIN peer.transfers, NEW x \in Received
  PROVE  /\ [peer.transfers EXCEPT ![f].received = x] \in [DOMAIN peer.transfers -> Transfer]
         /\ \A g \in DOMAIN peer.transfers :
              [peer.transfers EXCEPT ![f].received = x][g].version = peer.transfers[g].version
<1> DEFINE t == peer.transfers
<1>1. t \in [DOMAIN t -> Transfer] /\ t[f] \in Transfer
  BY DEF TypeOK
<1>2. [t[f] EXCEPT !.received = x] \in Transfer /\ [t[f] EXCEPT !.received = x].version = t[f].version
  BY <1>1 DEF Transfer
<1> HIDE DEF t
<1> QED BY <1>1, <1>2 DEF t

LEMMA RetriedTransfer ==
  ASSUME TypeOK, NEW f \in DOMAIN peer.transfers
  PROVE  /\ [peer.transfers EXCEPT ![f].retries = @ + 1] \in [DOMAIN peer.transfers -> Transfer]
         /\ \A g \in DOMAIN peer.transfers :
              [peer.transfers EXCEPT ![f].retries = @ + 1][g].version = peer.transfers[g].version
<1> DEFINE t == peer.transfers
<1>1. t \in [DOMAIN t -> Transfer] /\ t[f] \in Transfer
  BY DEF TypeOK
<1>2. t[f].retries + 1 \in Nat
  BY <1>1 DEF Transfer
<1>3. [t[f] EXCEPT !.retries = @ + 1] \in Transfer /\ [t[f] EXCEPT !.retries = @ + 1].version = t[f].version
  BY <1>1, <1>2 DEF Transfer
<1> HIDE DEF t
<1> QED BY <1>1, <1>3 DEF t

LEMMA OnChunkType == ASSUME TypeOK, OnChunk PROVE TypeOK'
<1>1. Takes({"chunk"}) /\ Quiet
  BY DEF OnChunk, Mine
<1>2. CASE Fail
  BY <1>1, <1>2, KnowsType
<1>3. CASE ~Fail
  <2> DEFINE f == Head(down).file
  <2>1. PICK received \in Received :
           /\ f \in DOMAIN peer.transfers
           /\ peer' = [peer EXCEPT !.transfers = [peer.transfers EXCEPT ![f].received = received]]
           /\ UNCHANGED <<join, completed, disk>>
    BY <1>3, ChunkKept
  <2> HIDE DEF f
  <2> DEFINE transfers == [peer.transfers EXCEPT ![f].received = received]
  <2>2. transfers \in [DOMAIN peer.transfers -> Transfer] /\ DOMAIN peer.transfers \subseteq Files
    BY <2>1, ReceivedTransfer DEF TypeOK
  <2>3. transfers \in [DOMAIN transfers -> Transfer] /\ DOMAIN transfers \subseteq Files
    BY <2>2
  <2>4. peer' = [peer EXCEPT !.transfers = transfers]
    BY <2>1
  <2> HIDE DEF transfers
  <2> QED BY <1>1, <2>1, <2>3, <2>4, TransfersType, KnowsType DEF TypeOK
<1> QED BY <1>2, <1>3

\* A file is refused, asked for again or published.
Refuses == Fail /\ UNCHANGED up
AsksAgain(f) ==
  /\ peer' = [peer EXCEPT !.transfers[f].retries = @ + 1]
  /\ UNCHANGED <<join, completed, disk>>
Publishes(f) ==
  LET received == peer.transfers[f].received IN
  /\ received = Whole(peer.transfers[f].version)
  /\ peer' = [peer EXCEPT !.transfers = [g \in DOMAIN @ \ {f} |-> @[g]]]
  /\ disk' = [disk EXCEPT ![f] = received] /\ completed' = [completed EXCEPT ![f] = received]
  /\ UNCHANGED join

LEMMA FileEnds ==
  ASSUME TypeOK, OnFileEnd
  PROVE  LET f == Head(down).file IN
         \/ Refuses
         \/ f \in DOMAIN peer.transfers /\ AsksAgain(f)
         \/ f \in DOMAIN peer.transfers /\ Publishes(f)
BY Zenon DEF OnFileEnd, Refuses, AsksAgain, Publishes

LEMMA OnFileEndType == ASSUME TypeOK, OnFileEnd PROVE TypeOK'
<1> DEFINE f == Head(down).file
           missing == Index \ DOMAIN peer.transfers[f].received
           retry == [type |-> "retry", gen |-> peer.gen, file |-> f, missing |-> missing]
<1>1. Takes({"fileEnd"}) /\ UNCHANGED <<queue, link, gens>>
  BY DEF OnFileEnd, Mine
<1>2. f \in Files
  BY <1>1, TakesTypes, FrameFields
<1>3. up' \in Seq(Answers)
  <2>1. up' \in {up, Append(up, retry)}
    BY Zenon DEF OnFileEnd
  <2>2. missing \in SUBSET Index
    OBVIOUS
  <2> HIDE DEF missing
  <2>3. retry \in Answers
    BY <1>2, <2>2, FieldTypes, AnswerTypes
  <2> HIDE DEF retry
  <2> QED BY <2>1, <2>3, Told
<1>4. /\ peer' \in Peers(peer'.transfers) /\ DOMAIN peer'.transfers \subseteq Files
      /\ peer'.transfers \in [DOMAIN peer'.transfers -> Transfer]
      /\ completed' \in [Files -> Contents] /\ disk' \in [Files -> Contents]
      /\ join' \in {"running", "joined", "failed"}
  <2>1. CASE Refuses
    BY <2>1 DEF Refuses, Fail, TypeOK
  <2>2. CASE f \in DOMAIN peer.transfers /\ AsksAgain(f)
    <3> DEFINE transfers == [peer.transfers EXCEPT ![f].retries = @ + 1]
    <3>1. peer' = [peer EXCEPT !.transfers = transfers]
      <4>1. peer \in Peers(peer.transfers)
        BY DEF TypeOK
      <4> QED BY <2>2, <4>1 DEF AsksAgain, Peers
    <3>2. transfers \in [DOMAIN transfers -> Transfer] /\ DOMAIN transfers \subseteq Files
      BY <2>2, RetriedTransfer DEF TypeOK
    <3> HIDE DEF transfers
    <3> QED BY <2>2, <3>1, <3>2, TransfersType DEF AsksAgain, TypeOK
  <2>3. CASE f \in DOMAIN peer.transfers /\ Publishes(f)
    <3> DEFINE transfers == [g \in DOMAIN peer.transfers \ {f} |-> peer.transfers[g]]
    <3>1. peer' = [peer EXCEPT !.transfers = transfers]
      BY <2>3 DEF Publishes
    <3>2. transfers \in [DOMAIN transfers -> Transfer] /\ DOMAIN transfers \subseteq Files
      BY DEF TypeOK
    <3> HIDE DEF transfers
    <3>3. peer.transfers[f].received \in Contents
      <4>1. peer.transfers[f].version \in Versions
        BY <2>3 DEF TypeOK, Transfer
      <4> QED BY <2>3, <4>1, ContentTypes DEF Publishes
    <3>4. completed' \in [Files -> Contents] /\ disk' \in [Files -> Contents]
      BY <1>2, <2>3, <3>3 DEF Publishes, TypeOK
    <3> QED BY <2>3, <3>1, <3>2, <3>4, TransfersType DEF Publishes, TypeOK
  <2> QED BY <2>1, <2>2, <2>3, FileEnds
<1> QED BY <1>1, <1>3, <1>4, TakesTypes, PeerTypeFrame, SMTT(60) DEF TypeOK

LEMMA OnEndType == ASSUME TypeOK, OnEnd PROVE TypeOK'
<1>1. Takes({"end"}) /\ Quiet
  BY DEF OnEnd, Mine
<1>2. /\ UNCHANGED <<peer, completed>> /\ disk' \in [Files -> Contents]
      /\ join' \in {"running", "joined", "failed"}
  BY ContentTypes, ZenonT(60) DEF OnEnd, Fail, TypeOK
<1> QED BY <1>1, <1>2, TakesTypes, PeerTypeFrame DEF Quiet, TypeOK

LEMMA GiveUpType == ASSUME TypeOK, GiveUp PROVE TypeOK'
BY DEF GiveUp, Fail, TypeOK, hostSide

-----------------------------------------------------------------------------
(* The host and the route: requests keep their order, frames stay honest.  *)

HonestFrames == {m \in Frames : Honest(m)}

LEMMA HonestSeq ==
  ASSUME TypeOK
  PROVE  FramesInv <=> down \in Seq(HonestFrames)
<1>1. down \in Seq(Frames)
  BY DEF TypeOK
<1>2. ASSUME FramesInv PROVE down \in Seq(HonestFrames)
  <2>1. \A i \in 1 .. Len(down) : down[i] \in HonestFrames
    BY <1>1, <1>2 DEF FramesInv, HonestFrames
  <2> QED BY <1>1, <2>1, Refines
<1>3. ASSUME down \in Seq(HonestFrames) PROVE FramesInv
  BY <1>3 DEF FramesInv, HonestFrames
<1> QED BY <1>2, <1>3

\* Frames that are neither of the three types say nothing of the project.
LEMMA PlainFrames ==
  ASSUME NEW m \in Frames, m.type \notin {"begin", "manifest", "start"}
  PROVE  m \in HonestFrames
BY DEF HonestFrames, Honest

LEMMA PlainTypes ==
  /\ \A g \in Nat, t \in {"hello", "recovered", "manifestEnd", "end", "error"} : Frame(t, g) \in HonestFrames
  /\ \A j \in Jobs : Checkpoint(j) \in HonestFrames
<1>1. ASSUME NEW g \in Nat, NEW t \in {"hello", "recovered", "manifestEnd", "end", "error"}
      PROVE  Frame(t, g) \in HonestFrames
  <2>1. Frame(t, g) \in Frames /\ Frame(t, g).type = t
    BY FrameTypes DEF Frame
  <2> QED BY <2>1, PlainFrames
<1>2. ASSUME NEW j \in Jobs PROVE Checkpoint(j) \in HonestFrames
  <2>1. Checkpoint(j) \in Frames /\ Checkpoint(j).type = "checkpoint"
    BY WaitingType DEF Checkpoint
  <2> QED BY <2>1, PlainFrames
<1> QED BY <1>1, <1>2

LEMMA PlainChunks ==
  ASSUME NEW g \in Nat, NEW f \in Files
  PROVE  /\ EndFrame(g, f) \in HonestFrames
         /\ \A i \in Index, v \in Versions : ChunkFrame(g, f, i, v) \in HonestFrames
<1>1. EndFrame(g, f) \in Frames /\ EndFrame(g, f).type = "fileEnd"
  BY EndTypes DEF EndFrame
<1>2. ASSUME NEW i \in Index, NEW v \in Versions PROVE ChunkFrame(g, f, i, v) \in HonestFrames
  <2>1. ChunkFrame(g, f, i, v) \in Frames /\ ChunkFrame(g, f, i, v).type = "chunk"
    BY ChunkTypes DEF ChunkFrame
  <2> QED BY <2>1, PlainFrames
<1> QED BY <1>1, <1>2, PlainFrames

\* The host's work goes on, is given up or waits; the route loses what is last.
GoesOn ==
  \/ job' \in {job, Idle}
  \/ /\ {job.st, job.st'} \subseteq {"sending", "waiting"}
     /\ job.gen' = job.gen /\ job.files' = job.files
LosesLast ==
  /\ queue' \in Seq(Requests) /\ Len(queue') <= Len(queue)
  /\ \A i \in 1 .. Len(queue') : queue'[i] = queue[i]

LEMMA HostFrame ==
  ASSUME SnapshotInv, TypeOK', UNCHANGED <<peerSide, taken>>, GoesOn, LosesLast, down' \in Seq(HonestFrames)
  PROVE  SnapshotInv'
<1>1. /\ peer' = peer /\ taken' = taken /\ completed' = completed /\ disk' = disk /\ join' = join
      /\ gens' = gens
  BY DEF peerSide
<1>2. GenerationsInv'
  <2> USE DEF SnapshotInv
  <2>1. /\ \A i \in 1 .. Len(queue') : i \in 1 .. Len(queue) /\ queue'[i] = queue[i] /\ queue[i].gen \in Nat
        /\ Len(queue') \in Nat /\ Len(queue) \in Nat
    <3>1. queue \in Seq(Requests) /\ Len(queue) \in Nat /\ queue' \in Seq(Requests) /\ Len(queue') \in Nat
      BY DEF LosesLast, TypeOK
    <3>2. \A i \in 1 .. Len(queue) : queue[i] \in Requests
      BY <3>1
    <3>3. \A r \in Requests : r.gen \in Nat
      BY DEF Requests
    <3> QED BY <3>1, <3>2, <3>3 DEF LosesLast
  <2>2. job'.gen \in {job.gen, 0}
    BY DEF GoesOn, Idle
  <2>3. {job'.gen, peer'.gen} \subseteq 0 .. gens'
    BY <1>1, <2>2, SMTT(60) DEF GenerationsInv, TypeOK
  <2>4. job'.st = "collecting" => job' = job
    BY DEF GoesOn, Idle
  <2>5. job'.st \in {"sending", "waiting"} =>
          job.st \in {"sending", "waiting"} /\ job'.gen = job.gen /\ job'.files = job.files
    BY DEF GoesOn, Idle
  <2>6. \A i \in 1 .. Len(queue') :
          queue'[i].gen \in 1 .. gens' /\ \A g \in DOMAIN taken' \cup {job'.gen} : g < queue'[i].gen
    BY <1>1, <2>1, <2>2 DEF GenerationsInv
  <2>7. \A i, k \in 1 .. Len(queue') : i < k => queue'[i].gen < queue'[k].gen
    BY <2>1 DEF GenerationsInv
  <2> QED BY <1>1, <2>3, <2>4, <2>5, <2>6, <2>7 DEF GenerationsInv
<1>3. RequestsInv'
  <2>1. \A i \in 1 .. Len(queue') : i \in 1 .. Len(queue) /\ queue'[i] = queue[i]
    BY DEF LosesLast, TypeOK, SnapshotInv
  <2>2. job'.st = "collecting" => job' = job
    BY DEF GoesOn, Idle
  <2> QED BY <1>1, <2>1, <2>2 DEF RequestsInv, SnapshotInv, Asking
<1>4. FramesInv'
  <2>1. HonestFrames' = HonestFrames
    BY <1>1 DEF HonestFrames, Honest, Asking, Has
  <2>2. (down \in Seq(HonestFrames))'
    BY <2>1
  <2>3. \A i \in 1 .. Len(down') : Honest(down[i])'
    BY <2>2 DEF HonestFrames
  <2> QED BY <2>3 DEF FramesInv
<1>5. PeerInv' /\ FilesAreWhole' /\ JoinedIsWhole'
  BY <1>1 DEF SnapshotInv, PeerInv, FilesAreWhole, JoinedIsWhole, Finished, Has
<1> QED BY <1>2, <1>3, <1>4, <1>5 DEF SnapshotInv

LEMMA SameQueue == ASSUME TypeOK, UNCHANGED queue PROVE LosesLast
BY DEF LosesLast, TypeOK

LEMMA PrefixQueue == ASSUME TypeOK, queue' \in Prefixes(queue) PROVE LosesLast
BY PrefixTypes DEF LosesLast, TypeOK

LEMMA HonestSent ==
  ASSUME SnapshotInv
  PROVE  /\ down \in Seq(HonestFrames)
         /\ \A m \in HonestFrames : Append(down, m) \in Seq(HonestFrames)
<1>1. down \in Seq(HonestFrames)
  BY HonestSeq DEF SnapshotInv
<1> QED BY <1>1, Appends

LEMMA JobTypes ==
  ASSUME NEW j \in Jobs
  PROVE  /\ Awaits(j).st = "waiting" /\ Awaits(j).gen = j.gen /\ Awaits(j).files = j.files
         /\ Awaits(j) \in Jobs
<1>1. j.check + 1 \in Nat
  BY DEF Jobs
<1> QED BY <1>1, WaitingType DEF Awaits, Jobs

LEMMA EditInv == ASSUME SnapshotInv, NEW f \in Files, Edit(f) PROVE SnapshotInv'
<1>1. TypeOK'
  BY EditType DEF SnapshotInv
<1>2. UNCHANGED <<job, queue, down, peerSide, taken>>
  BY DEF Edit
<1> QED BY <1>1, <1>2, HonestSent, SameQueue, HostFrame DEF GoesOn, SnapshotInv

LEMMA RetireInv == ASSUME SnapshotInv, Retire PROVE SnapshotInv'
<1>1. TypeOK'
  BY RetireType DEF SnapshotInv
<1>2. UNCHANGED <<job, queue, down, peerSide, taken>>
  BY DEF Retire
<1> QED BY <1>1, <1>2, HonestSent, SameQueue, HostFrame DEF GoesOn, SnapshotInv

LEMMA SendsInv ==
  ASSUME SnapshotInv, TypeOK', NEW frame \in HonestFrames, NEW j \in Jobs, Sends(frame, j),
         {job.st, j.st} \subseteq {"sending", "waiting"}, j.gen = job.gen, j.files = job.files
  PROVE  SnapshotInv'
<1>1. job' = j /\ UNCHANGED <<queue, peerSide, taken>> /\ down' \in Seq(HonestFrames)
  BY HonestSent DEF Sends
<1> QED BY <1>1, SameQueue, HostFrame DEF GoesOn, SnapshotInv

LEMMA SendsAndDrainsInv ==
  ASSUME SnapshotInv, TypeOK', NEW frame \in HonestFrames, NEW j \in Jobs, SendsAndDrains(frame, j),
         {job.st, j.st} \subseteq {"sending", "waiting"}, j.gen = job.gen, j.files = job.files
  PROVE  SnapshotInv'
<1>1. CASE Sends(frame, j)
  BY <1>1, SendsInv
<1>2. CASE ~Sends(frame, j)
  <2>1. /\ down' = down \o <<frame, Checkpoint(Awaits(j))>> /\ job' = Awaits(j)
        /\ UNCHANGED <<queue, peerSide, taken>>
    BY <1>2 DEF SendsAndDrains
  <2>2. Checkpoint(Awaits(j)) \in HonestFrames
    BY JobTypes, PlainTypes
  <2>3. <<frame, Checkpoint(Awaits(j))>> \in Seq(HonestFrames)
    BY <2>2
  <2>4. down' \in Seq(HonestFrames)
    BY <2>1, <2>3, HonestSent, Joins
  <2> QED BY <2>1, <2>4, JobTypes, SameQueue, HostFrame DEF GoesOn, SnapshotInv
<1> QED BY <1>1, <1>2

LEMMA SendStartInv == ASSUME SnapshotInv, SendStart PROVE SnapshotInv'
<1>1. PICK f \in job.todo :
        Sends(StartFrame(f), [job EXCEPT !.file = f, !.todo = @ \ {f}, !.chunk = 1, !.intact = TRUE,
                                         !.frames = @ + 1,
                                         !.open = IF f \in Streamed THEN project[f] ELSE job.files[f]])
  BY DEF SendStart
<1>2. TypeOK' /\ TypeOK
  BY SendStartType DEF SnapshotInv
<1>3. job.st = "sending" /\ job.gen \in DOMAIN taken /\ job.files = taken[job.gen]
  BY DEF SnapshotInv, GenerationsInv, SendStart
<1>4. StartFrame(f) \in HonestFrames
  <2>1. f \in Files /\ job.files[f] \in Versions /\ job.gen \in Nat
    BY <1>2, FieldTypes
  <2>2. StartFrame(f) \in Frames
    BY <2>1, FrameTypes DEF StartFrame
  <2> QED BY <1>3, <2>2 DEF HonestFrames, Honest, StartFrame
<1>5. down' = Append(down, StartFrame(f)) /\ UNCHANGED <<queue, peerSide, taken>>
  BY <1>1 DEF Sends
<1>6. job'.st = job.st /\ job'.gen = job.gen /\ job'.files = job.files
  <2>1. job \in Jobs
    BY <1>2 DEF TypeOK
  <2> QED BY <1>1, <2>1 DEF Sends, Jobs
<1> QED BY <1>2, <1>3, <1>4, <1>5, <1>6, HonestSent, SameQueue, HostFrame DEF GoesOn

LEMMA SendChunkInv == ASSUME SnapshotInv, SendChunk PROVE SnapshotInv'
<1> DEFINE frameOf(v) == ChunkFrame(job.gen, job.file, job.chunk, v)
           next(v) == [job EXCEPT !.chunk = @ + 1, !.frames = @ + 1,
                                  !.intact = @ /\ v = job.files[job.file]]
<1>1. PICK v \in {job.open} \cup IF job.file \in Streamed THEN {project[job.file]} \ {0} ELSE {} :
        SendsAndDrains(frameOf(v), next(v))
  BY DEF SendChunk
<1>2. TypeOK' /\ TypeOK /\ job \in Jobs
  BY SendChunkType DEF SnapshotInv, TypeOK
<1>3. job.file \in Files /\ job.chunk \in Index /\ job.gen \in Nat
  <2>1. job.chunk \in Nat /\ job.chunk <= Chunks /\ Chunks \in Nat /\ job.chunk # 0
    BY <1>2, FieldTypes, SnapshotAssumption DEF SendChunk
  <2> QED BY <1>2, <2>1, FieldTypes DEF Index, SendChunk, Sending
<1>4. v \in Versions
  <2>1. job.open \in Versions /\ project[job.file] \in Versions
    BY <1>2, <1>3, FieldTypes DEF TypeOK
  <2> QED BY <2>1
<1>5. frameOf(v) \in HonestFrames
  BY <1>3, <1>4, PlainChunks
<1>6. next(v) \in Jobs
  <2> DEFINE intact == job.intact /\ v = job.files[job.file]
  <2>1. job.chunk + 1 \in Nat \ {0} /\ job.frames + 1 \in Nat /\ intact \in BOOLEAN
    BY <1>2, FieldTypes
  <2> HIDE DEF intact
  <2>2. [job EXCEPT !.chunk = @ + 1, !.frames = @ + 1, !.intact = intact] \in Jobs
    BY <1>2, <2>1, ZenonT(60) DEF Jobs
  <2> QED BY <2>2 DEF intact
<1>7. next(v).st = job.st /\ next(v).gen = job.gen /\ next(v).files = job.files /\ job.st = "sending"
  BY <1>2 DEF Jobs, SendChunk, Sending
<1> HIDE DEF frameOf, next
<1> QED BY <1>1, <1>2, <1>5, <1>6, <1>7, SendsAndDrainsInv

LEMMA SendFileEndInv == ASSUME SnapshotInv, SendFileEnd PROVE SnapshotInv'
<1> DEFINE next == [job EXCEPT !.file = 0, !.frames = @ + 1]
<1>1. TypeOK' /\ TypeOK /\ job \in Jobs /\ SendsAndDrains(EndFrame(job.gen, job.file), next)
  BY SendFileEndType DEF SnapshotInv, TypeOK, SendFileEnd
<1>2. EndFrame(job.gen, job.file) \in HonestFrames
  BY <1>1, FieldTypes, PlainChunks DEF SendFileEnd, Sending
<1>3. next \in Jobs
  <2>1. job.frames + 1 \in Nat
    BY <1>1, FieldTypes
  <2> QED BY <1>1, <2>1, ZenonT(30) DEF Jobs
<1>4. next.st = job.st /\ next.gen = job.gen /\ next.files = job.files /\ job.st = "sending"
  BY <1>1 DEF Jobs, SendFileEnd, Sending
<1> HIDE DEF next
<1> QED BY <1>1, <1>2, <1>3, <1>4, SendsAndDrainsInv

LEMMA SendEndInv == ASSUME SnapshotInv, SendEnd PROVE SnapshotInv'
<1>1. TypeOK' /\ TypeOK /\ job \in Jobs /\ job.gen \in Nat
  BY SendEndType, FieldTypes DEF SnapshotInv, TypeOK
<1>2. Checkpoint(Awaits(job)) \in HonestFrames /\ Frame("end", job.gen) \in HonestFrames
  BY <1>1, JobTypes, PlainTypes
<1>3. down' \in {Append(down, Checkpoint(Awaits(job))), Append(down, Frame("end", job.gen))}
  BY Zenon DEF SendEnd
<1>4. down' \in Seq(HonestFrames)
  BY <1>2, <1>3, HonestSent
<1>5. GoesOn
  <2>1. job.st = "sending" /\ job' \in {Awaits(job), Idle}
    BY Zenon DEF SendEnd
  <2> QED BY <1>1, <2>1, JobTypes DEF GoesOn
<1>6. UNCHANGED <<queue, peerSide, taken>>
  BY DEF SendEnd
<1> QED BY <1>1, <1>4, <1>5, <1>6, SameQueue, HostFrame

LEMMA BreakInv == ASSUME SnapshotInv, Break PROVE SnapshotInv'
<1>1. TypeOK' /\ TypeOK /\ job.gen \in Nat
  BY BreakType, FieldTypes DEF SnapshotInv
<1>2. down' \in {down, Append(down, Frame("error", job.gen))}
  BY Zenon DEF Break
<1>3. down' \in Seq(HonestFrames)
  BY <1>1, <1>2, PlainTypes, HonestSent
<1>4. job' = Idle /\ UNCHANGED <<queue, peerSide, taken>>
  BY DEF Break
<1> QED BY <1>1, <1>3, <1>4, SameQueue, HostFrame DEF GoesOn

LEMMA AcknowledgedInv == ASSUME SnapshotInv, Acknowledged PROVE SnapshotInv'
<1>1. TypeOK' /\ TypeOK /\ job \in Jobs
  BY AcknowledgedType DEF SnapshotInv, TypeOK
<1>2. UNCHANGED <<queue, down, peerSide, taken>>
  BY DEF Acknowledged
<1>3. job' = job \/ (job.st = "waiting" /\ job' = [job EXCEPT !.st = "sending"])
  BY DEF Acknowledged
<1>4. GoesOn
  BY <1>1, <1>3 DEF GoesOn, Jobs
<1> QED BY <1>1, <1>2, <1>4, HonestSent, SameQueue, HostFrame

LEMMA ResendInv == ASSUME SnapshotInv, Resend PROVE SnapshotInv'
<1> DEFINE m == Head(up)
           known == {r \in remembered : r.gen = m.gen /\ r.file = m.file /\ active = m.gen /\ isHost}
<1>1. up # <<>> /\ m.type = "retry" /\ UNCHANGED <<job, peerSide, queue, taken>>
  BY DEF Resend
<1>2. TypeOK' /\ TypeOK
  BY ResendType DEF SnapshotInv
<1>3. m.gen \in Nat /\ m.file \in Files /\ m.missing \subseteq Index
  <2>1. m \in Answers
    BY <1>1, <1>2, TailTypes DEF TypeOK
  <2> QED BY <1>1, <2>1, AnswerFields
<1>4. down' \in Seq(HonestFrames)
  <2>1. CASE down' = down
    BY <2>1, HonestSent
  <2>2. CASE down' # down
    <3>1. PICK r \in known, order \in [1 .. Cardinality(m.missing) -> m.missing] :
            LET v == IF m.file \in Streamed THEN project[m.file] ELSE r.version IN
            down' = down \o [k \in DOMAIN order |-> ChunkFrame(m.gen, m.file, order[k], v)]
                         \o <<EndFrame(m.gen, m.file)>>
      BY <2>2 DEF Resend
    <3> DEFINE v == IF m.file \in Streamed THEN project[m.file] ELSE r.version
               chunks == [k \in DOMAIN order |-> ChunkFrame(m.gen, m.file, order[k], v)]
    <3>2. v \in Versions
      BY <1>2, <1>3 DEF TypeOK
    <3>3. Cardinality(m.missing) \in Nat
      <4>1. IsFiniteSet(Index)
        BY FS_Interval, SnapshotAssumption DEF Index
      <4> QED BY <4>1, <1>3, FS_Subset, FS_CardinalityType
    <3>4. chunks \in Seq(HonestFrames)
      <4>1. \A k \in 1 .. Cardinality(m.missing) : ChunkFrame(m.gen, m.file, order[k], v) \in HonestFrames
        <5> SUFFICES ASSUME NEW k \in 1 .. Cardinality(m.missing)
                     PROVE  ChunkFrame(m.gen, m.file, order[k], v) \in HonestFrames
          OBVIOUS
        <5>1. order[k] \in Index
          BY <1>3
        <5> QED BY <5>1, <1>3, <3>2, PlainChunks
      <4> HIDE DEF v, m
      <4>2. chunks \in [1 .. Cardinality(m.missing) -> HonestFrames]
        BY <4>1
      <4> QED BY <3>3, <4>2, SeqDef
    <3>5. <<EndFrame(m.gen, m.file)>> \in Seq(HonestFrames)
      BY <1>3, PlainChunks
    <3>6. down' = (down \o chunks) \o <<EndFrame(m.gen, m.file)>>
      BY <3>1
    <3> HIDE DEF chunks, m
    <3>7. down \o chunks \in Seq(HonestFrames)
      BY <3>4, HonestSent, Joins
    <3> QED BY <3>5, <3>6, <3>7, Joins
  <2> QED BY <2>1, <2>2
<1> QED BY <1>1, <1>2, <1>4, SameQueue, HostFrame DEF GoesOn

LEMMA CutInv == ASSUME SnapshotInv, Cut PROVE SnapshotInv'
<1>1. TypeOK' /\ TypeOK
  BY CutType DEF SnapshotInv
<1>2. job' = job /\ UNCHANGED <<peerSide, taken>> /\ down' \in Prefixes(down) /\ queue' \in Prefixes(queue)
  BY DEF Cut, hostSide
<1>3. down' \in Seq(HonestFrames)
  BY <1>2, HonestSent, PrefixTypes
<1> QED BY <1>1, <1>2, <1>3, PrefixQueue, HostFrame DEF GoesOn

LEMMA ReconnectInv == ASSUME SnapshotInv, Reconnect PROVE SnapshotInv'
<1>1. TypeOK' /\ TypeOK
  BY ReconnectType DEF SnapshotInv
<1>2. /\ job' = job /\ UNCHANGED <<peerSide, queue, taken>>
      /\ down' = down \o <<Frame("recovered", 0), Frame("hello", 0)>>
  BY DEF Reconnect
<1>3. <<Frame("recovered", 0), Frame("hello", 0)>> \in Seq(HonestFrames)
  BY PlainTypes
<1>4. down' \in Seq(HonestFrames)
  BY <1>2, <1>3, HonestSent, Joins
<1> QED BY <1>1, <1>2, <1>4, SameQueue, HostFrame DEF GoesOn

LEMMA ReplaceInv == ASSUME SnapshotInv, Replace PROVE SnapshotInv'
<1>1. TypeOK' /\ TypeOK
  BY ReplaceType DEF SnapshotInv
<1>2. job' = job /\ UNCHANGED <<peerSide, taken>> /\ queue' \in Prefixes(queue)
  BY DEF Replace
<1>3. PICK d \in Prefixes(down) : down' = Append(d, Frame("hello", 0))
  BY DEF Replace
<1>4. d \in Seq(HonestFrames) /\ Frame("hello", 0) \in HonestFrames
  BY HonestSent, PrefixTypes, PlainTypes
<1>5. down' \in Seq(HonestFrames)
  BY <1>3, <1>4, Appends
<1> QED BY <1>1, <1>2, <1>5, PrefixQueue, HostFrame DEF GoesOn

LEMMA DepartedInv == ASSUME SnapshotInv, Departed PROVE SnapshotInv'
<1>1. TypeOK' /\ TypeOK
  BY DepartedType DEF SnapshotInv
<1>2. UNCHANGED <<job, queue, down, peerSide, taken>>
  BY DEF Departed
<1> QED BY <1>1, <1>2, HonestSent, SameQueue, HostFrame DEF GoesOn

LEMMA LoseInv == ASSUME SnapshotInv, Lose PROVE SnapshotInv'
<1>1. TypeOK' /\ TypeOK
  BY LoseType DEF SnapshotInv
<1>2. UNCHANGED <<job, queue, peerSide, taken>>
  BY DEF Lose, hostSide
<1>3. down' = down \/ (down # <<>> /\ down' = Tail(down))
  BY DEF Lose
<1>4. down' \in Seq(HonestFrames)
  BY <1>3, HonestSent, TailTypes
<1> QED BY <1>1, <1>2, <1>4, SameQueue, HostFrame DEF GoesOn

LEMMA TakeRequestInv == ASSUME SnapshotInv, TakeRequest PROVE SnapshotInv'
<1> DEFINE r == Head(queue)
<1>1. TypeOK' /\ TypeOK /\ r \in Requests /\ r = queue[1] /\ Len(queue) \in Nat /\ Len(queue) >= 1
  <2>1. TypeOK' /\ TypeOK
    BY TakeRequestType DEF SnapshotInv
  <2>2. queue # <<>> /\ queue \in Seq(Requests) /\ Len(queue) \in Nat
    BY <2>1 DEF TakeRequest, TypeOK
  <2> QED BY <2>1, <2>2, TailTypes
<1>2. /\ Len(queue') = Len(queue) - 1 /\ queue' \in Seq(Requests)
      /\ \A i \in 1 .. Len(queue') : queue'[i] = queue[i + 1] /\ i + 1 \in 1 .. Len(queue)
  BY <1>1, TailTypes DEF TakeRequest, TypeOK
<1>3. /\ taken' = taken /\ peer' = peer /\ gens' = gens /\ completed' = completed /\ disk' = disk
      /\ join' = join
  BY DEF TakeRequest, peerSide
<1>4. job' \in {job, [Idle EXCEPT !.st = "collecting", !.gen = r.gen, !.has = r.completed]} /\ job.st = "idle"
  BY DEF TakeRequest
<1>5. \/ job' = job
      \/ job'.st = "collecting" /\ job'.gen = r.gen /\ job'.has = r.completed
  BY <1>4, IdleType DEF Jobs
<1>6. r.gen \in 1 .. gens /\ r.gen \notin DOMAIN taken \cup {0}
  <2>1. 1 \in 1 .. Len(queue)
    BY <1>1
  <2>2. r.gen \in 1 .. gens /\ \A g \in DOMAIN taken : g < r.gen
    BY <1>1, <2>1 DEF SnapshotInv, GenerationsInv
  <2>3. \A g \in DOMAIN taken : g \in Nat
    BY <1>1 DEF TypeOK
  <2>4. gens \in Nat
    BY <1>1 DEF TypeOK
  <2> QED BY <2>2, <2>3, <2>4
<1>7. GenerationsInv'
  <2>1. \A i, k \in 1 .. Len(queue') : i < k => queue'[i].gen < queue'[k].gen
    <3> SUFFICES ASSUME NEW i \in 1 .. Len(queue'), NEW k \in 1 .. Len(queue'), i < k
                 PROVE  queue'[i].gen < queue'[k].gen
      OBVIOUS
    <3>1. i + 1 \in 1 .. Len(queue) /\ k + 1 \in 1 .. Len(queue) /\ i + 1 < k + 1
      BY <1>1, <1>2
    <3> QED BY <1>2, <3>1 DEF SnapshotInv, GenerationsInv
  <2>2. \A i \in 1 .. Len(queue') :
          queue'[i].gen \in 1 .. gens' /\ \A g \in DOMAIN taken' \cup {job'.gen} : g < queue'[i].gen
    <3> SUFFICES ASSUME NEW i \in 1 .. Len(queue')
                 PROVE queue'[i].gen \in 1 .. gens' /\ \A g \in DOMAIN taken' \cup {job'.gen} : g < queue'[i].gen
      OBVIOUS
    <3>1. i + 1 \in 1 .. Len(queue) /\ queue'[i] = queue[i + 1] /\ 1 \in 1 .. Len(queue) /\ 1 < i + 1
      BY <1>1, <1>2
    <3>2. r.gen < queue[i + 1].gen
      BY <1>1, <3>1 DEF SnapshotInv, GenerationsInv
    <3> QED BY <1>3, <1>5, <3>1, <3>2 DEF SnapshotInv, GenerationsInv
  <2>3. {job'.gen, peer'.gen} \subseteq 0 .. gens'
    BY <1>3, <1>5, <1>6 DEF SnapshotInv, GenerationsInv
  <2>4. /\ job'.st = "collecting" => job'.gen \notin DOMAIN taken' \cup {0}
        /\ job'.st \notin {"sending", "waiting"}
    BY <1>3, <1>4, <1>5, <1>6
  <2> QED BY <2>1, <2>2, <2>3, <2>4 DEF GenerationsInv
<1>8. RequestsInv'
  <2>1. Asking(r.gen) => r.completed = completed
    BY <1>1 DEF SnapshotInv, RequestsInv
  <2>2. job'.st = "collecting" /\ Asking(job'.gen) => job'.has = completed
    BY <1>4, <1>5, <2>1
  <2> QED BY <1>2, <1>3, <2>2 DEF SnapshotInv, RequestsInv, Asking
<1>9. FramesInv'
  <2>1. Frame("error", r.gen) \in HonestFrames
    BY <1>6, PlainTypes
  <2>2. down' \in {down, Append(down, Frame("error", r.gen))}
    BY Zenon DEF TakeRequest
  <2>3. down' \in Seq(HonestFrames)
    BY <2>1, <2>2, HonestSent
  <2>4. HonestFrames' = HonestFrames
    BY <1>3 DEF HonestFrames, Honest, Asking, Has
  <2>5. (down \in Seq(HonestFrames))'
    BY <2>3, <2>4
  <2>6. \A i \in 1 .. Len(down') : Honest(down[i])'
    BY <2>5 DEF HonestFrames
  <2> QED BY <2>6 DEF FramesInv
<1>10. PeerInv' /\ FilesAreWhole' /\ JoinedIsWhole'
  BY <1>3 DEF SnapshotInv, PeerInv, FilesAreWhole, JoinedIsWhole, Finished, Has
<1> QED BY <1>1, <1>7, <1>8, <1>9, <1>10 DEF SnapshotInv

-----------------------------------------------------------------------------
(* The host collects the project.  What it leaves out is what the one who   *)
(* asked has.                                                               *)

LEMMA CollectInv == ASSUME SnapshotInv, Collect PROVE SnapshotInv'
<1> DEFINE todo == {f \in Existing(project) : job.has[f] # Whole(project[f])}
           resumed == Existing(project) \ todo
           j == Awaits([job EXCEPT !.files = project, !.todo = todo])
           begin == [type |-> "begin", gen |-> job.gen, total |-> Cardinality(Existing(project)),
                     transfer |-> Cardinality(todo), declared |-> Cardinality(resumed)]
           manifest == [type |-> "manifest", gen |-> job.gen, files |-> Existing(project), resumed |-> resumed]
<1>1. /\ job' = j /\ down' = down \o <<begin, manifest, Frame("manifestEnd", job.gen), Checkpoint(j)>>
      /\ taken' = [g \in DOMAIN taken \cup {job.gen} |-> IF g = job.gen THEN project ELSE taken[g]]
      /\ UNCHANGED <<project, isHost, active, remembered, peerSide, queue, up, link, used>>
      /\ job.st = "collecting"
  BY DEF Collect, Manifest
<1>2. TypeOK' /\ TypeOK
  BY CollectType DEF SnapshotInv
<1>3. /\ job.gen \in 1 .. gens /\ job.gen \in Nat /\ job.gen \notin DOMAIN taken
      /\ Asking(job.gen) => job.has = completed
  <2>1. job.gen \in Nat /\ gens \in Nat
    BY <1>2, FieldTypes DEF TypeOK
  <2>2. job.gen \in 0 .. gens /\ job.gen \notin DOMAIN taken \cup {0}
    BY <1>1 DEF SnapshotInv, GenerationsInv
  <2>3. Asking(job.gen) => job.has = completed
    BY <1>1 DEF SnapshotInv, RequestsInv
  <2> QED BY <2>1, <2>2, <2>3
<1>4. /\ DOMAIN taken \subseteq DOMAIN taken' /\ job.gen \in DOMAIN taken' /\ taken'[job.gen] = project
      /\ \A g \in DOMAIN taken : taken'[g] = taken[g]
  BY <1>1, <1>3
<1>5. /\ peer' = peer /\ completed' = completed /\ disk' = disk /\ join' = join /\ gens' = gens
      /\ queue' = queue
  BY <1>1 DEF peerSide
<1>6. job'.st = "waiting" /\ job'.gen = job.gen /\ job'.files = project
  <2>1. [job EXCEPT !.files = project, !.todo = todo] \in Jobs
    <3>1. job \in Jobs /\ project \in [Files -> Versions] /\ todo \subseteq Files
      BY <1>2, ExistingTypes DEF TypeOK
    <3> HIDE DEF todo
    <3> QED BY <3>1, ZenonT(30) DEF Jobs
  <2>2. /\ [job EXCEPT !.files = project, !.todo = todo].gen = job.gen
        /\ [job EXCEPT !.files = project, !.todo = todo].files = project
    BY <1>2 DEF TypeOK, Jobs
  <2> QED BY <1>1, <2>1, <2>2, JobTypes
<1>7. todo \subseteq Files /\ resumed \subseteq Files /\ Existing(project) \subseteq Files
  BY ExistingTypes
<1>8. begin \in HonestFrames' /\ manifest \in HonestFrames'
  <2>1. begin \in Frames /\ manifest \in Frames
    <3>1. Cardinality(Existing(project)) \in Nat /\ Cardinality(todo) \in Nat /\ Cardinality(resumed) \in Nat
      BY ExistingTypes, FS_Subset, FS_CardinalityType
    <3> QED BY <1>3, <1>7, <3>1, FrameTypes
  <2>2. ASSUME NEW m, m = begin PROVE Honest(m)'
    <3>1. m.type = "begin" /\ m.gen = job.gen /\ m.total = Cardinality(Existing(project))
      BY <2>2
    <3> HIDE DEF begin
    <3> QED BY <1>4, <3>1 DEF Honest, Existing
  <2>3. ASSUME Asking(job.gen), NEW f \in resumed PROVE completed[f] = Whole(project[f])
    BY <1>3, <2>3 DEF Existing
  <2>4. ASSUME NEW m, m = manifest PROVE Honest(m)'
    <3>1. m.type = "manifest" /\ m.gen = job.gen /\ m.files = Existing(project) /\ m.resumed = resumed
      BY <2>4
    <3> HIDE DEF manifest, resumed
    <3> QED BY <1>4, <1>5, <2>3, <3>1 DEF Honest, Existing, Asking, Has
  <2> HIDE DEF begin, manifest
  <2> QED BY <2>1, <2>2, <2>4 DEF HonestFrames
<1>9. HonestFrames \subseteq HonestFrames'
  BY <1>4, <1>5 DEF HonestFrames, Honest, Existing, Asking, Has
<1>10. GenerationsInv'
  <2>1. \A i \in 1 .. Len(queue') :
          queue'[i].gen \in 1 .. gens' /\ \A g \in DOMAIN taken' \cup {job'.gen} : g < queue'[i].gen
    BY <1>1, <1>5, <1>6 DEF SnapshotInv, GenerationsInv
  <2> QED BY <1>4, <1>5, <1>6, <2>1 DEF SnapshotInv, GenerationsInv
<1>11. RequestsInv'
  BY <1>5, <1>6 DEF SnapshotInv, RequestsInv, Asking
<1>12. FramesInv'
  <2>1. Frame("manifestEnd", job.gen) \in HonestFrames' /\ Checkpoint(j) \in HonestFrames'
    <3>1. j \in Jobs
      BY <1>1, <1>2 DEF TypeOK
    <3>2. Frame("manifestEnd", job.gen) \in HonestFrames /\ Checkpoint(j) \in HonestFrames
      BY <1>3, <3>1, PlainTypes
    <3> QED BY <1>9, <3>2
  <2> HIDE DEF begin, manifest, j
  <2>2. <<begin, manifest, Frame("manifestEnd", job.gen), Checkpoint(j)>> \in Seq(HonestFrames')
    BY <1>8, <2>1
  <2>3. down \in Seq(HonestFrames')
    BY <1>9, HonestSent, SeqMonotonic
  <2>4. down' \in Seq(HonestFrames')
    BY <1>1, <2>2, <2>3, Joins
  <2>5. \A i \in 1 .. Len(down') : down'[i] \in HonestFrames'
    BY <2>4
  <2> QED BY <2>5 DEF FramesInv, HonestFrames
<1>13. PeerInv'
  <2>1. ~peer'.ready => Has(peer.gen, peer.resumed)'
    <3>1. CASE peer.begun
      BY <1>4, <1>5, <3>1 DEF SnapshotInv, PeerInv, Has
    <3>2. CASE ~peer.begun
      BY <1>5, <3>2 DEF SnapshotInv, PeerInv, Has
    <3> QED BY <3>1, <3>2
  <2>2. peer.ready => peer.begun
    BY DEF SnapshotInv, PeerInv
  <2>3. peer.begun => peer.gen \in DOMAIN taken' /\ taken'[peer.gen] = taken[peer.gen]
    BY <1>4 DEF SnapshotInv, PeerInv
  <2>4. Finished' = Finished
    BY <1>5 DEF Finished
  <2> QED BY <1>5, <2>1, <2>2, <2>3, <2>4 DEF SnapshotInv, PeerInv, Existing, Has
<1>14. FilesAreWhole' /\ JoinedIsWhole'
  BY <1>4, <1>5 DEF SnapshotInv, FilesAreWhole, JoinedIsWhole
<1> QED BY <1>2, <1>10, <1>11, <1>12, <1>13, <1>14 DEF SnapshotInv

-----------------------------------------------------------------------------
(* The participant asks: a generation nobody has heard of, for what it has. *)

LEMMA RequestInv ==
  ASSUME SnapshotInv, TypeOK', NEW t, Takes(t), Request
  PROVE  SnapshotInv'
<1> DEFINE r == [gen |-> gens + 1, completed |-> completed]
<1>1. /\ gens' = gens + 1 /\ gens \in Nat /\ UNCHANGED <<join, completed, disk>>
      /\ peer' = Fresh(IF link.up THEN gens + 1 ELSE 0)
      /\ queue' = queue \/ queue' = Append(queue, r)
  BY DEF Request, SnapshotInv, TypeOK
<1>2. job' = job /\ taken' = taken /\ join = "running"
  BY TakesTypes DEF SnapshotInv, hostSide
<1>3. /\ peer'.gen \in {0, gens + 1} /\ peer'.ready = FALSE /\ peer'.begun = FALSE
      /\ peer'.files = {} /\ peer'.resumed = {} /\ DOMAIN peer'.transfers = {}
  BY <1>1 DEF Fresh
<1>4. DOMAIN taken \subseteq 1 .. gens /\ job.gen \in 0 .. gens /\ queue \in Seq(Requests) /\ Len(queue) \in Nat
  BY DEF SnapshotInv, TypeOK, GenerationsInv
<1>5. \A i \in 1 .. Len(queue') :
        \/ i \in 1 .. Len(queue) /\ queue'[i] = queue[i]
        \/ i = Len(queue) + 1 /\ queue'[i] = r
  <2>1. r \in Requests
    BY <1>1 DEF Requests, SnapshotInv, TypeOK
  <2> HIDE DEF r
  <2> QED BY <1>1, <1>4, <2>1, Appends
<1>6. r.gen = gens + 1 /\ r.completed = completed
  OBVIOUS
<1> HIDE DEF r
<1>7. GenerationsInv'
  <2>1. \A i \in 1 .. Len(queue) : queue[i].gen \in 1 .. gens
    BY DEF SnapshotInv, GenerationsInv
  <2>2. ASSUME NEW i \in 1 .. Len(queue'), NEW k \in 1 .. Len(queue'), i < k
        PROVE  queue'[i].gen < queue'[k].gen
    <3>1. i \in 1 .. Len(queue) /\ queue'[i] = queue[i]
      BY <1>4, <1>5, <2>2
    <3>2. CASE k \in 1 .. Len(queue) /\ queue'[k] = queue[k]
      BY <2>2, <3>1, <3>2 DEF SnapshotInv, GenerationsInv
    <3>3. CASE queue'[k] = r
      BY <1>1, <1>6, <2>1, <3>1, <3>3
    <3> QED BY <1>5, <3>2, <3>3
  <2>3. ASSUME NEW i \in 1 .. Len(queue')
        PROVE  queue'[i].gen \in 1 .. gens' /\ \A g \in DOMAIN taken' \cup {job'.gen} : g < queue'[i].gen
    <3>1. CASE i \in 1 .. Len(queue) /\ queue'[i] = queue[i]
      <4>1. queue[i].gen \in 1 .. gens /\ \A g \in DOMAIN taken \cup {job.gen} : g < queue[i].gen
        BY <3>1 DEF SnapshotInv, GenerationsInv
      <4> QED BY <1>1, <1>2, <3>1, <4>1
    <3>2. CASE queue'[i] = r
      BY <1>1, <1>2, <1>4, <1>6, <3>2
    <3> QED BY <1>5, <3>1, <3>2
  <2>4. {job'.gen, peer'.gen} \subseteq 0 .. gens'
    BY <1>1, <1>2, <1>3, <1>4
  <2> QED BY <1>2, <2>2, <2>3, <2>4 DEF SnapshotInv, GenerationsInv
<1>8. \A g \in 1 .. gens : ~Asking(g)'
  BY <1>1, <1>3 DEF Asking
<1>9. RequestsInv'
  <2>1. ASSUME NEW i \in 1 .. Len(queue'), Asking(queue[i].gen)' PROVE queue'[i].completed = completed'
    <3>1. CASE i \in 1 .. Len(queue) /\ queue'[i] = queue[i]
      <4>1. queue[i].gen \in 1 .. gens
        BY <3>1 DEF SnapshotInv, GenerationsInv
      <4> QED BY <1>8, <2>1, <3>1, <4>1 DEF Asking
    <3>2. CASE queue'[i] = r
      BY <1>1, <1>6, <3>2
    <3> QED BY <1>5, <3>1, <3>2
  <2>2. job.st = "collecting" => job.gen \in 1 .. gens
    <3>1. job.st = "collecting" => job.gen # 0
      BY DEF SnapshotInv, GenerationsInv
    <3> QED BY <1>1, <1>4, <3>1
  <2>3. ~(job'.st = "collecting" /\ Asking(job.gen)')
    BY <1>2, <1>8, <2>2 DEF Asking
  <2> QED BY <2>1, <2>3 DEF RequestsInv
<1>10. FramesInv'
  <2>1. HonestFrames \subseteq HonestFrames'
    <3> SUFFICES ASSUME NEW m \in HonestFrames PROVE Honest(m)'
      BY DEF HonestFrames
    <3>1. Honest(m)
      BY DEF HonestFrames
    <3>2. m.gen \in DOMAIN taken => ~Asking(m.gen)'
      BY <1>4, <1>8
    <3> QED BY <1>2, <3>1, <3>2 DEF Honest
  <2>2. down' \in Seq(HonestFrames)
    BY HonestSent, TailTypes DEF Takes
  <2>3. down' \in Seq(HonestFrames')
    BY <2>1, <2>2, SeqMonotonic
  <2>4. \A i \in 1 .. Len(down') : down'[i] \in HonestFrames'
    BY <2>3
  <2> QED BY <2>4 DEF FramesInv, HonestFrames
<1>11. PeerInv'
  BY <1>3 DEF PeerInv, Has
<1>12. FilesAreWhole' /\ JoinedIsWhole'
  BY <1>1, <1>2 DEF SnapshotInv, FilesAreWhole, JoinedIsWhole
<1> QED BY <1>7, <1>9, <1>10, <1>11, <1>12 DEF SnapshotInv

-----------------------------------------------------------------------------
(* The participant takes what is sent for its generation.                  *)

LEMMA TakesHonest ==
  ASSUME SnapshotInv, NEW t, Takes(t)
  PROVE  /\ Head(down) \in HonestFrames /\ Head(down) \in Frames /\ Honest(Head(down))
         /\ Head(down).type \in t /\ down' \in Seq(HonestFrames)
         /\ UNCHANGED <<hostSide, taken>> /\ join = "running"
<1>1. down # <<>> /\ down' = Tail(down)
  BY DEF Takes
<1>2. Head(down) \in HonestFrames /\ down' \in Seq(HonestFrames)
  BY <1>1, HonestSent, TailTypes
<1> QED BY <1>2 DEF Takes, HonestFrames

\* What is left when a frame is taken.
LEMMA KnowsFrame ==
  ASSUME SnapshotInv, TypeOK', NEW t, Takes(t), UNCHANGED <<queue, gens>>,
         peer'.gen = peer.gen, peer'.ready \/ (~peer.ready /\ UNCHANGED completed),
         PeerInv', FilesAreWhole', JoinedIsWhole'
  PROVE  SnapshotInv'
<1>1. job' = job /\ taken' = taken /\ down' \in Seq(HonestFrames)
  BY TakesHonest DEF hostSide
<1>2. GenerationsInv'
  BY <1>1 DEF SnapshotInv, GenerationsInv
<1>3. \A g : Asking(g)' => Asking(g) /\ completed' = completed
  BY DEF Asking
<1>4. RequestsInv'
  BY <1>1, <1>3 DEF SnapshotInv, RequestsInv, Asking
<1>5. HonestFrames \subseteq HonestFrames'
  <2> SUFFICES ASSUME NEW m \in HonestFrames PROVE Honest(m)'
    BY DEF HonestFrames
  <2>1. Honest(m)
    BY DEF HonestFrames
  <2>2. Asking(m.gen)' => Asking(m.gen) /\ completed' = completed
    BY <1>3
  <2> QED BY <1>1, <2>1, <2>2 DEF Honest, Has
<1>6. FramesInv'
  <2>1. down' \in Seq(HonestFrames')
    BY <1>1, <1>5, SeqMonotonic
  <2>2. \A i \in 1 .. Len(down') : down'[i] \in HonestFrames'
    BY <2>1
  <2> QED BY <2>2 DEF FramesInv, HonestFrames
<1> QED BY <1>2, <1>4, <1>6 DEF SnapshotInv

\* Nothing is learnt: a frame that is over, a checkpoint, a failure.
LEMMA NothingLearnt ==
  ASSUME SnapshotInv, TypeOK', NEW t, Takes(t), UNCHANGED <<queue, gens, peer, completed, disk>>,
         join' \in {join, "failed"}
  PROVE  SnapshotInv'
<1>1. taken' = taken /\ join = "running"
  BY TakesHonest
<1>2. PeerInv'
  BY <1>1 DEF SnapshotInv, PeerInv, Finished, Has
<1>3. FilesAreWhole' /\ JoinedIsWhole'
  BY <1>1 DEF SnapshotInv, FilesAreWhole, JoinedIsWhole
<1>4. peer'.ready \/ (~peer.ready /\ UNCHANGED completed)
  OBVIOUS
<1> QED BY <1>2, <1>3, <1>4, KnowsFrame

LEMMA OnHelloInv == ASSUME SnapshotInv, OnHello PROVE SnapshotInv'
<1>1. TypeOK' /\ Takes({"hello"})
  BY OnHelloType DEF SnapshotInv, OnHello
<1>2. CASE peer.gen = 0
  BY <1>1, <1>2, RequestInv DEF OnHello
<1>3. CASE peer.gen # 0
  BY <1>1, <1>3, NothingLearnt DEF OnHello, Quiet
<1> QED BY <1>2, <1>3

LEMMA OnRecoveredInv == ASSUME SnapshotInv, OnRecovered PROVE SnapshotInv'
BY OnRecoveredType, RequestInv DEF SnapshotInv, OnRecovered

LEMMA StaleInv == ASSUME SnapshotInv, Stale PROVE SnapshotInv'
BY StaleType, NothingLearnt DEF SnapshotInv, Stale, Quiet

LEMMA OnErrorInv == ASSUME SnapshotInv, OnError PROVE SnapshotInv'
BY OnErrorType, NothingLearnt DEF SnapshotInv, OnError, Mine, Quiet, Fail

LEMMA OnCheckpointInv == ASSUME SnapshotInv, OnCheckpoint PROVE SnapshotInv'
BY OnCheckpointType, NothingLearnt DEF SnapshotInv, OnCheckpoint, Mine, Fail

LEMMA RunningIsWhole ==
  ASSUME SnapshotInv, NEW t, Takes(t), UNCHANGED <<join, completed, disk>>
  PROVE  FilesAreWhole' /\ JoinedIsWhole'
BY TakesHonest DEF SnapshotInv, FilesAreWhole, JoinedIsWhole

LEMMA OnBeginInv == ASSUME SnapshotInv, OnBegin PROVE SnapshotInv'
<1> DEFINE m == Head(down)
<1>1. TypeOK' /\ TypeOK /\ Takes({"begin"}) /\ m.gen = peer.gen /\ UNCHANGED <<queue, gens>>
  BY OnBeginType DEF SnapshotInv, OnBegin, Mine, Quiet
<1>2. m.type = "begin" /\ Honest(m) /\ taken' = taken
  BY <1>1, TakesHonest
<1>3. CASE Fail
  BY <1>1, <1>3, NothingLearnt DEF Fail
<1>4. CASE ~Fail
  <2>1. /\ peer' = [peer EXCEPT !.begun = TRUE, !.total = m.total, !.transfer = m.transfer,
                                !.declared = m.declared]
        /\ ~peer.begun /\ UNCHANGED <<join, completed, disk>>
    BY <1>4 DEF OnBegin
  <2>2. peer \in Peers(peer.transfers)
    BY <1>1 DEF TypeOK
  <2> HIDE DEF m
  <2>3. /\ peer'.gen = peer.gen /\ peer'.begun = TRUE /\ peer'.total = m.total /\ peer'.files = peer.files
        /\ peer'.resumed = peer.resumed /\ peer'.ready = peer.ready /\ peer'.transfers = peer.transfers
    BY <2>1, <2>2 DEF Peers
  <2>4. peer.files = {} /\ peer.resumed = {} /\ ~peer.ready /\ DOMAIN peer.transfers = {}
    BY <2>1 DEF SnapshotInv, PeerInv
  <2>5. peer.gen \in DOMAIN taken /\ m.total = Cardinality(Existing(taken[peer.gen]))
    BY <1>1, <1>2 DEF Honest
  <2>6. PeerInv'
    BY <1>2, <2>3, <2>4, <2>5 DEF PeerInv, Has, Existing
  <2> QED BY <1>1, <2>1, <2>3, <2>4, <2>6, RunningIsWhole, KnowsFrame
<1> QED BY <1>3, <1>4

LEMMA OnManifestInv == ASSUME SnapshotInv, OnManifest PROVE SnapshotInv'
<1> DEFINE m == Head(down)
<1>1. TypeOK' /\ TypeOK /\ Takes({"manifest"}) /\ m.gen = peer.gen /\ UNCHANGED <<queue, gens>>
  BY OnManifestType DEF SnapshotInv, OnManifest, Mine, Quiet
<1>2. m.type = "manifest" /\ Honest(m) /\ taken' = taken
  BY <1>1, TakesHonest
<1>3. CASE Fail
  BY <1>1, <1>3, NothingLearnt DEF Fail
<1>4. CASE ~Fail
  <2>1. /\ peer' = [peer EXCEPT !.files = @ \cup m.files, !.resumed = @ \cup m.resumed]
        /\ peer.begun /\ ~peer.ready /\ UNCHANGED <<join, completed, disk>>
    BY <1>4 DEF OnManifest
  <2>2. peer \in Peers(peer.transfers)
    BY <1>1 DEF TypeOK
  <2> HIDE DEF m
  <2>3. /\ peer'.gen = peer.gen /\ peer'.begun = peer.begun /\ peer'.total = peer.total
        /\ peer'.files = peer.files \cup m.files /\ peer'.resumed = peer.resumed \cup m.resumed
        /\ peer'.ready = peer.ready /\ peer'.transfers = peer.transfers
    BY <2>1, <2>2 DEF Peers
  <2>4. m.files = Existing(taken[peer.gen]) /\ Has(peer.gen, m.resumed)
    BY <1>1, <1>2, <2>1 DEF Honest, Asking
  <2>5. Has(peer.gen, peer.resumed \cup m.resumed)
    BY <2>1, <2>4 DEF SnapshotInv, PeerInv, Has
  <2>6. Has(peer.gen, peer.resumed)'
    BY <1>2, <2>1, <2>3, <2>5 DEF Has
  <2>7. PeerInv'
    BY <1>2, <2>1, <2>3, <2>4, <2>6 DEF SnapshotInv, PeerInv, Existing
  <2> QED BY <1>1, <2>1, <2>3, <2>7, RunningIsWhole, KnowsFrame
<1> QED BY <1>3, <1>4

LEMMA OnManifestEndInv == ASSUME SnapshotInv, OnManifestEnd PROVE SnapshotInv'
<1>1. TypeOK' /\ TypeOK /\ Takes({"manifestEnd"}) /\ UNCHANGED <<queue, gens>>
  BY OnManifestEndType DEF SnapshotInv, OnManifestEnd, Mine, Quiet
<1>2. taken' = taken /\ join = "running"
  BY <1>1, TakesHonest
<1>3. CASE Fail
  BY <1>1, <1>3, NothingLearnt DEF Fail
<1>4. CASE ~Fail
  <2>1. /\ completed' = [f \in Files |-> IF f \in peer.resumed THEN completed[f] ELSE None]
        /\ peer' = [peer EXCEPT !.ready = TRUE] /\ UNCHANGED <<join, disk>>
        /\ peer.begun /\ ~peer.ready /\ Cardinality(peer.files) = peer.total
    BY <1>4 DEF OnManifestEnd
  <2>2. peer \in Peers(peer.transfers)
    BY <1>1 DEF TypeOK
  <2>3. /\ peer'.gen = peer.gen /\ peer'.begun = peer.begun /\ peer'.total = peer.total
        /\ peer'.files = peer.files /\ peer'.resumed = peer.resumed
        /\ peer'.ready = TRUE /\ peer'.transfers = peer.transfers
    BY <2>1, <2>2 DEF Peers
  <2>4. peer.files = Existing(taken[peer.gen])
    <3>1. /\ peer.files \subseteq Existing(taken[peer.gen])
          /\ Cardinality(peer.files) = Cardinality(Existing(taken[peer.gen]))
      BY <2>1 DEF SnapshotInv, PeerInv
    <3> QED BY <3>1, ExistingTypes, FS_Subset
  <2>5. ASSUME NEW f \in Finished' PROVE f \in Files /\ completed'[f] = Whole(taken[peer.gen][f])
    <3>1. f \in Files /\ f \in peer.resumed /\ completed'[f] = completed[f]
      BY <2>1, <2>5 DEF Finished
    <3>2. completed[f] = Whole(taken[peer.gen][f])
      BY <2>1, <3>1 DEF SnapshotInv, PeerInv, Has
    <3> QED BY <3>1, <3>2
  <2>6. Has(peer.gen, Finished)'
    BY <1>2, <2>3, <2>5 DEF Has
  <2>7. DOMAIN peer'.transfers = {}
    BY <2>1, <2>3 DEF SnapshotInv, PeerInv
  <2>8. PeerInv'
    BY <1>2, <2>1, <2>3, <2>4, <2>6, <2>7 DEF SnapshotInv, PeerInv, Existing
  <2>9. FilesAreWhole' /\ JoinedIsWhole'
    BY <1>2, <2>1 DEF SnapshotInv, FilesAreWhole, JoinedIsWhole
  <2> QED BY <1>1, <2>3, <2>8, <2>9, KnowsFrame
<1> QED BY <1>3, <1>4

LEMMA OnStartInv == ASSUME SnapshotInv, OnStart PROVE SnapshotInv'
<1> DEFINE m == Head(down)
           entry == [version |-> m.version, received |-> None, retries |-> 0]
           transfers == Entry(peer.transfers, m.file, entry)
<1>1. TypeOK' /\ TypeOK /\ Takes({"start"}) /\ m.gen = peer.gen /\ UNCHANGED <<queue, gens>>
  BY OnStartType DEF SnapshotInv, OnStart, Mine, Quiet
<1>2. m.type = "start" /\ Honest(m) /\ taken' = taken
  BY <1>1, TakesHonest
<1>3. CASE Fail
  BY <1>1, <1>3, NothingLearnt DEF Fail
<1>4. CASE ~Fail
  <2>1. /\ peer' = [peer EXCEPT !.started = @ \cup {m.file}, !.transfers = transfers]
        /\ peer.ready /\ UNCHANGED <<join, completed, disk>>
    BY <1>4 DEF OnStart
  <2>2. peer \in Peers(peer.transfers)
    BY <1>1 DEF TypeOK
  <2>3. \A f \in DOMAIN transfers : transfers[f].version = taken[peer.gen][f]
    <3>1. entry.version = taken[peer.gen][m.file]
      BY <1>1, <1>2 DEF Honest
    <3>2. \A f \in DOMAIN peer.transfers : peer.transfers[f].version = taken[peer.gen][f]
      BY <2>1 DEF SnapshotInv, PeerInv
    <3> HIDE DEF entry, m
    <3> QED BY <3>1, <3>2 DEF Entry
  <2> HIDE DEF m, transfers
  <2>4. /\ peer'.gen = peer.gen /\ peer'.begun = peer.begun /\ peer'.total = peer.total
        /\ peer'.files = peer.files /\ peer'.resumed = peer.resumed /\ peer'.ready = peer.ready
        /\ peer'.transfers = transfers
    BY <2>1, <2>2 DEF Peers
  <2>5. Finished' = Finished
    BY <2>1 DEF Finished
  <2>6. PeerInv'
    BY <1>2, <2>1, <2>3, <2>4, <2>5 DEF SnapshotInv, PeerInv, Existing, Has
  <2> QED BY <1>1, <2>1, <2>4, <2>6, RunningIsWhole, KnowsFrame
<1> QED BY <1>3, <1>4

\* The transfers change, each still of the version the host collected.
LEMMA TransfersInv ==
  ASSUME SnapshotInv, taken' = taken, NEW transfers, transfers \in [DOMAIN transfers -> Transfer],
         DOMAIN transfers \subseteq DOMAIN peer.transfers,
         \A f \in DOMAIN transfers : transfers[f].version = peer.transfers[f].version,
         peer' = [peer EXCEPT !.transfers = transfers], UNCHANGED completed
  PROVE  PeerInv' /\ peer'.gen = peer.gen /\ peer'.ready = peer.ready
<1>1. TypeOK /\ DOMAIN transfers \subseteq Files
  BY DEF SnapshotInv, TypeOK
<1>2. /\ peer'.gen = peer.gen /\ peer'.begun = peer.begun /\ peer'.total = peer.total
      /\ peer'.files = peer.files /\ peer'.resumed = peer.resumed /\ peer'.ready = peer.ready
      /\ peer'.transfers = transfers
  BY <1>1, TransfersType
<1>3. Finished' = Finished
  BY DEF Finished
<1>4. ~peer'.ready => DOMAIN peer'.transfers = {} /\ Has(peer.gen, peer.resumed)'
  BY <1>2 DEF SnapshotInv, PeerInv, Has
<1>5. peer'.ready => /\ peer'.files = Existing(taken[peer.gen])
                    /\ \A f \in DOMAIN peer'.transfers : peer'.transfers[f].version = taken[peer.gen][f]
  BY <1>2 DEF SnapshotInv, PeerInv
<1>6. peer'.ready => Has(peer.gen, Finished)'
  BY <1>2, <1>3 DEF SnapshotInv, PeerInv, Has
<1> QED BY <1>2, <1>4, <1>5, <1>6 DEF SnapshotInv, PeerInv, Existing

LEMMA OnChunkInv == ASSUME SnapshotInv, OnChunk PROVE SnapshotInv'
<1>1. TypeOK' /\ TypeOK /\ Takes({"chunk"}) /\ UNCHANGED <<queue, gens>>
  BY OnChunkType DEF SnapshotInv, OnChunk, Mine, Quiet
<1>2. taken' = taken
  BY <1>1, TakesHonest
<1>3. CASE Fail
  BY <1>1, <1>3, NothingLearnt DEF Fail
<1>4. CASE ~Fail
  <2> DEFINE f == Head(down).file
  <2>1. PICK received \in Received :
           /\ f \in DOMAIN peer.transfers
           /\ peer' = [peer EXCEPT !.transfers = [peer.transfers EXCEPT ![f].received = received]]
           /\ UNCHANGED <<join, completed, disk>>
    BY <1>1, <1>4, ChunkKept
  <2> HIDE DEF f
  <2> DEFINE transfers == [peer.transfers EXCEPT ![f].received = received]
  <2>2. /\ transfers \in [DOMAIN peer.transfers -> Transfer]
        /\ \A g \in DOMAIN peer.transfers : transfers[g].version = peer.transfers[g].version
    BY <1>1, <2>1, ReceivedTransfer
  <2>3. peer' = [peer EXCEPT !.transfers = transfers]
    BY <2>1
  <2>4. DOMAIN transfers = DOMAIN peer.transfers
    BY <2>2
  <2> HIDE DEF transfers
  <2>5. PeerInv' /\ peer'.gen = peer.gen /\ peer'.ready = peer.ready
    BY <1>2, <2>1, <2>2, <2>3, <2>4, TransfersInv
  <2> QED BY <1>1, <2>1, <2>5, RunningIsWhole, KnowsFrame
<1> QED BY <1>3, <1>4

LEMMA OnFileEndInv == ASSUME SnapshotInv, OnFileEnd PROVE SnapshotInv'
<1> DEFINE f == Head(down).file
<1>1. TypeOK' /\ TypeOK /\ Takes({"fileEnd"}) /\ UNCHANGED <<queue, gens>>
  BY OnFileEndType DEF SnapshotInv, OnFileEnd, Mine
<1>2. taken' = taken /\ join = "running" /\ f \in Files
  BY <1>1, TakesHonest, FrameFields
<1> HIDE DEF f
<1>3. CASE Refuses
  BY <1>1, <1>3, NothingLearnt DEF Refuses, Fail
<1>4. CASE f \in DOMAIN peer.transfers /\ AsksAgain(f)
  <2> DEFINE transfers == [peer.transfers EXCEPT ![f].retries = @ + 1]
  <2>1. peer' = [peer EXCEPT !.transfers = transfers]
    <3>1. peer \in Peers(peer.transfers)
      BY <1>1 DEF TypeOK
    <3> QED BY <1>4, <3>1 DEF AsksAgain, Peers
  <2>2. /\ transfers \in [DOMAIN peer.transfers -> Transfer]
        /\ \A g \in DOMAIN peer.transfers : transfers[g].version = peer.transfers[g].version
    BY <1>1, <1>4, RetriedTransfer
  <2>3. DOMAIN transfers = DOMAIN peer.transfers
    BY <2>2
  <2>4. UNCHANGED <<join, completed, disk>>
    BY <1>4 DEF AsksAgain
  <2> HIDE DEF transfers
  <2>5. PeerInv' /\ peer'.gen = peer.gen /\ peer'.ready = peer.ready
    BY <1>2, <2>1, <2>2, <2>3, <2>4, TransfersInv
  <2> QED BY <1>1, <2>4, <2>5, RunningIsWhole, KnowsFrame
<1>5. CASE f \in DOMAIN peer.transfers /\ Publishes(f)
  <2> DEFINE transfers == [g \in DOMAIN peer.transfers \ {f} |-> peer.transfers[g]]
             content == peer.transfers[f].received
  <2>1. peer' = [peer EXCEPT !.transfers = transfers]
    BY <1>5 DEF Publishes
  <2>2. transfers \in [DOMAIN transfers -> Transfer] /\ DOMAIN transfers \subseteq Files
    BY <1>1 DEF TypeOK
  <2>3. \A g \in DOMAIN transfers : g \in DOMAIN peer.transfers /\ transfers[g] = peer.transfers[g]
    OBVIOUS
  <2> HIDE DEF transfers
  <2>4. /\ peer'.gen = peer.gen /\ peer'.begun = peer.begun /\ peer'.total = peer.total
        /\ peer'.files = peer.files /\ peer'.resumed = peer.resumed /\ peer'.ready = peer.ready
        /\ peer'.transfers = transfers
    BY <1>1, <2>1, <2>2, TransfersType
  <2>5. peer.ready
    BY <1>5 DEF SnapshotInv, PeerInv
  <2>6. peer.transfers[f].version = taken[peer.gen][f] /\ content = Whole(taken[peer.gen][f])
    <3>1. peer.transfers[f].version = taken[peer.gen][f]
      BY <1>5, <2>5 DEF SnapshotInv, PeerInv
    <3> QED BY <1>5, <3>1 DEF Publishes
  <2> HIDE DEF content
  <2>7. /\ disk' = [disk EXCEPT ![f] = content] /\ completed' = [completed EXCEPT ![f] = content]
        /\ UNCHANGED join
    BY <1>5 DEF Publishes, content
  <2>8. disk \in [Files -> Contents] /\ completed \in [Files -> Contents]
    BY <1>1 DEF TypeOK
  <2>9. Has(peer.gen, Finished)'
    <3> SUFFICES ASSUME NEW g \in Finished' PROVE completed'[g] = Whole(taken[peer.gen][g])
      BY <1>2, <2>4 DEF Has
    <3>1. CASE g = f
      BY <1>2, <2>6, <2>7, <2>8, <3>1
    <3>2. CASE g # f
      <4>1. g \in Finished /\ completed'[g] = completed[g]
        BY <2>7, <2>8, <3>2 DEF Finished
      <4> QED BY <2>5, <4>1 DEF SnapshotInv, PeerInv, Has
    <3> QED BY <3>1, <3>2
  <2>10. PeerInv'
    BY <1>2, <2>3, <2>4, <2>5, <2>9 DEF SnapshotInv, PeerInv, Existing
  <2>11. FilesAreWhole' /\ JoinedIsWhole'
    <3>1. \A g \in Files : disk'[g] # None => \E v \in Versions : disk'[g] = Whole(v)
      BY <1>1, ContentTypes DEF TypeOK
    <3>2. \A g \in Files : completed'[g] # None => disk'[g] = completed'[g]
      BY <1>2, <2>7, <2>8 DEF SnapshotInv, FilesAreWhole
    <3> QED BY <1>2, <2>7, <3>1, <3>2 DEF FilesAreWhole, JoinedIsWhole
  <2> QED BY <1>1, <2>4, <2>5, <2>10, <2>11, KnowsFrame
<1> QED BY <1>1, <1>3, <1>4, <1>5, FileEnds DEF f

LEMMA OnEndInv == ASSUME SnapshotInv, OnEnd PROVE SnapshotInv'
<1>1. TypeOK' /\ TypeOK /\ Takes({"end"}) /\ UNCHANGED <<queue, gens>>
  BY OnEndType DEF SnapshotInv, OnEnd, Mine, Quiet
<1>2. taken' = taken /\ join = "running"
  BY <1>1, TakesHonest
<1>3. CASE Fail
  BY <1>1, <1>3, NothingLearnt DEF Fail
<1>4. CASE ~Fail
  <2>1. /\ disk' = [f \in Files |-> IF f \in peer.files THEN disk[f] ELSE None] /\ join' = "joined"
        /\ UNCHANGED <<peer, completed>> /\ peer.ready /\ Finished = peer.files
    BY <1>4 DEF OnEnd
  <2>2. PeerInv'
    BY <1>2, <2>1 DEF SnapshotInv, PeerInv, Finished, Existing, Has
  <2>3. FilesAreWhole'
    <3>1. \A f \in Files : disk'[f] # None => \E v \in Versions : disk'[f] = Whole(v)
      BY <1>1, ContentTypes DEF TypeOK
    <3> QED BY <2>1, <3>1 DEF FilesAreWhole
  <2>4. JoinedIsWhole'
    <3>1. peer.gen \in DOMAIN taken /\ peer.files = Existing(taken[peer.gen])
      BY <2>1 DEF SnapshotInv, PeerInv
    <3>2. ASSUME NEW f \in Files
          PROVE  disk'[f] = IF taken[peer.gen][f] = 0 THEN None ELSE Whole(taken[peer.gen][f])
      <4>1. CASE f \in peer.files
        <5>1. completed[f] = Whole(taken[peer.gen][f]) /\ completed[f] # None
          BY <2>1, <4>1 DEF SnapshotInv, PeerInv, Finished, Has
        <5>2. disk[f] = completed[f]
          BY <1>2, <5>1 DEF SnapshotInv, FilesAreWhole
        <5> QED BY <2>1, <3>1, <4>1, <5>1, <5>2 DEF Existing
      <4>2. CASE f \notin peer.files
        BY <2>1, <3>1, <4>2 DEF Existing
      <4> QED BY <4>1, <4>2
    <3> QED BY <1>2, <2>1, <3>1, <3>2 DEF JoinedIsWhole
  <2> QED BY <1>1, <2>1, <2>2, <2>3, <2>4, KnowsFrame
<1> QED BY <1>3, <1>4

LEMMA GiveUpInv == ASSUME SnapshotInv, GiveUp PROVE SnapshotInv'
<1>1. TypeOK' /\ TypeOK
  BY GiveUpType DEF SnapshotInv
<1>2. /\ UNCHANGED <<job, taken, gens, queue, down, peer, completed, disk>>
      /\ join = "running" /\ join' = "failed"
  BY DEF GiveUp, Fail, hostSide
<1>3. GenerationsInv' /\ RequestsInv'
  BY <1>2 DEF SnapshotInv, GenerationsInv, RequestsInv, Asking
<1>4. FramesInv'
  BY <1>2 DEF SnapshotInv, FramesInv, Honest, Asking, Has
<1>5. PeerInv'
  BY <1>2 DEF SnapshotInv, PeerInv, Finished, Has
<1>6. FilesAreWhole' /\ JoinedIsWhole'
  BY <1>2 DEF SnapshotInv, FilesAreWhole, JoinedIsWhole
<1> QED BY <1>1, <1>3, <1>4, <1>5, <1>6 DEF SnapshotInv

-----------------------------------------------------------------------------
(* The invariant. *)

LEMMA InitInv == Init => SnapshotInv
<1> SUFFICES ASSUME Init PROVE SnapshotInv
  OBVIOUS
<1>1. TypeOK
  BY InitType
<1>2. /\ queue = <<>> /\ gens = 0 /\ DOMAIN taken = {} /\ job = Idle /\ peer = Fresh(0)
      /\ down = <<Frame("hello", 0)>> /\ join = "running"
  BY DEF Init
<1>3. GenerationsInv /\ RequestsInv
  BY <1>2 DEF GenerationsInv, RequestsInv, Idle, Fresh
<1>4. FramesInv
  BY <1>2 DEF FramesInv, Honest, Frame
<1>5. PeerInv
  BY <1>2 DEF PeerInv, Fresh, Has
<1>6. FilesAreWhole /\ JoinedIsWhole
  BY ContentTypes DEF Init, FilesAreWhole, JoinedIsWhole
<1> QED BY <1>1, <1>3, <1>4, <1>5, <1>6 DEF SnapshotInv

LEMMA StutterInv == ASSUME SnapshotInv, UNCHANGED vars PROVE SnapshotInv'
<1>1. /\ UNCHANGED <<project, isHost, active, job, remembered, queue, up, down, link, used, taken>>
      /\ UNCHANGED <<join, peer, completed, disk, gens>>
  BY DEF vars, hostSide, peerSide
<1>2. TypeOK'
  BY <1>1 DEF SnapshotInv, TypeOK
<1>3. GenerationsInv' /\ RequestsInv'
  BY <1>1 DEF SnapshotInv, GenerationsInv, RequestsInv, Asking
<1>4. FramesInv'
  BY <1>1 DEF SnapshotInv, FramesInv, Honest, Asking, Has
<1>5. PeerInv'
  BY <1>1 DEF SnapshotInv, PeerInv, Finished, Has
<1>6. FilesAreWhole' /\ JoinedIsWhole'
  BY <1>1 DEF SnapshotInv, FilesAreWhole, JoinedIsWhole
<1> QED BY <1>2, <1>3, <1>4, <1>5, <1>6 DEF SnapshotInv

(* What is true of a generation on its way stays true: requests in order,   *)
(* honest frames, a participant with nothing of another generation          *)
(* (sendSnapshot of session.ts, downloadProjectSnapshot of bootstrap.ts).   *)
THEOREM SnapshotInductive == Spec => []SnapshotInv
<1>1. Init => SnapshotInv
  BY InitInv
<1>2. SnapshotInv /\ [Next]_vars => SnapshotInv'
  <2> SUFFICES ASSUME SnapshotInv, [Next]_vars PROVE SnapshotInv'
    OBVIOUS
  <2>1. CASE HostStep
    BY <2>1, EditInv, RetireInv, TakeRequestInv, CollectInv, SendStartInv, SendChunkInv, SendFileEndInv,
       SendEndInv, BreakInv, AcknowledgedInv, ResendInv DEF HostStep
  <2>2. CASE RouteStep
    BY <2>2, CutInv, ReconnectInv, ReplaceInv, DepartedInv, LoseInv DEF RouteStep
  <2>3. CASE PeerStep
    BY <2>3, OnHelloInv, OnRecoveredInv, StaleInv, OnErrorInv, OnBeginInv, OnManifestInv,
       OnManifestEndInv, OnCheckpointInv, OnStartInv, OnChunkInv, OnFileEndInv, OnEndInv,
       GiveUpInv DEF PeerStep
  <2>4. CASE UNCHANGED vars
    BY <2>4, StutterInv
  <2> QED BY <2>1, <2>2, <2>3, <2>4 DEF Next
<1> QED BY <1>1, <1>2, PTL DEF Spec

(* The state keeps its types, however many attempts there are.              *)
THEOREM TypeCorrect == Spec => []TypeOK
<1>1. SnapshotInv => TypeOK
  BY DEF SnapshotInv
<1> QED BY <1>1, SnapshotInductive, PTL

(* A participant that joined has exactly what the host collected for its    *)
(* last request, whatever was lost, resumed or changed on the way           *)
(* (snapshotEnd and reconcileSnapshot of bootstrap.ts).                     *)
THEOREM JoinsWithTheProject == Spec => []JoinedIsWhole
<1>1. SnapshotInv => JoinedIsWhole
  BY DEF SnapshotInv
<1> QED BY <1>1, SnapshotInductive, PTL

(* Each file in the folder is one version as a whole, at any time of the    *)
(* download (publishFile of bootstrap.ts).                                  *)
THEOREM PublishesWholeFiles == Spec => []FilesAreWhole
<1>1. SnapshotInv => FilesAreWhole
  BY DEF SnapshotInv
<1> QED BY <1>1, SnapshotInductive, PTL

=============================================================================
