--------------------- MODULE PersistentWorkspace_proofs ---------------------
(***************************************************************************)
(* Proofs about the persistent workspace, for every set of paths and blobs *)
(* and every bound: types, that the store can always be opened again and   *)
(* that no answer is lost, with the exceptions the properties state, and   *)
(* that it implements the revisioned manifest.                             *)
(***************************************************************************)
EXTENDS PersistentWorkspace, TLAPS

USE DEF FileStates, BootSteps, CallSteps, SweepSteps, answers, history

\* The files of a manifest are blobs (persistentStorage.ts:18-22).
LEMMA RefsAreBlobs == ASSUME NEW m \in Manifest PROVE Refs(m) \subseteq Blobs
  BY DEF Manifest, Refs

\* The manifest of a new store is one, and refers to nothing
\* (persistentStorage.ts:80-83).
LEMMA EmptyManifestType == EmptyManifest \in Manifest /\ Refs(EmptyManifest) = {}
  BY WorkspaceAssumption DEF EmptyManifest, Manifest, Refs

-----------------------------------------------------------------------------
(* Types *)

\* Starting a mutation keeps the types (mutate, 323-336).
LEMMA BeginType ==
  ASSUME TypeOK, NEW files \in [Paths -> Blobs \cup {None}],
         NEW u \in Publications \cup {None}, NEW todo \in SUBSET Blobs,
         NEW staged \in BOOLEAN, Begin(files, u, todo, staged)
  PROVE  TypeOK'
<1>1. manifest.revision + 1 \in 0..MaxRevision
  BY WorkspaceAssumption DEF TypeOK, Begin, Manifest
<1>2. manifest.publications \cup ({u} \ {None}) \in SUBSET Publications
  BY DEF TypeOK, Manifest
<1>3. call' \in Calls
  BY <1>1, <1>2 DEF TypeOK, Begin, Calls, Manifest
<1> QED BY <1>3 DEF TypeOK, Begin, disk

\* Every mutation starts with a call of its type (204-321).
LEMMA MutateType == ASSUME TypeOK, Mutate PROVE TypeOK'
<1>0. manifest.files \in [Paths -> Blobs \cup {None}] /\ Cleared \in Blobs
  BY WorkspaceAssumption DEF TypeOK, Manifest
<1>1. CASE \E p \in Paths, b \in Blobs, u \in Publications \cup {None}, s \in BOOLEAN :
             Write(p, b, u, s)
  <2> PICK p \in Paths, b \in Blobs, u \in Publications \cup {None}, s \in BOOLEAN :
        Write(p, b, u, s)
    BY <1>1
  <2>1. [manifest.files EXCEPT ![p] = b] \in [Paths -> Blobs \cup {None}]
    BY <1>0
  <2> QED BY <2>1, BeginType DEF Write
<1>2. CASE \E p \in Paths, u \in Publications \cup {None} : Remove(p, u)
  <2> PICK p \in Paths, u \in Publications \cup {None} : Remove(p, u)
    BY <1>2
  <2>1. [manifest.files EXCEPT ![p] = None] \in [Paths -> Blobs \cup {None}]
    BY <1>0
  <2> QED BY <2>1, BeginType DEF Remove
<1>3. CASE \E p, q \in Paths : Rename(p, q)
  <2> PICK p \in Paths, q \in Paths : Rename(p, q)
    BY <1>3
  <2>1. [manifest.files EXCEPT ![p] = None, ![q] = manifest.files[p]]
          \in [Paths -> Blobs \cup {None}]
    BY <1>0
  <2> QED BY <2>1, BeginType DEF Rename
<1>4. CASE MakeDirectory
  BY <1>4, <1>0, BeginType DEF MakeDirectory
<1>5. CASE \E S \in SUBSET Paths : S # {} /\ Publicise(S)
  <2> PICK S \in SUBSET Paths : Publicise(S)
    BY <1>5
  <2>1. [p \in Paths |-> IF p \in S THEN Cleared ELSE manifest.files[p]]
          \in [Paths -> Blobs \cup {None}]
    BY <1>0
  <2> QED BY <2>1, <1>0, BeginType DEF Publicise
<1>6. CASE \E keep \in SUBSET manifest.publications : RetainPublications(keep)
  <2> PICK keep \in SUBSET manifest.publications : RetainPublications(keep)
    BY <1>6
  <2>1. /\ manifest.revision + 1 \in 0..MaxRevision
        /\ keep \in SUBSET Publications
    BY WorkspaceAssumption DEF TypeOK, RetainPublications, Manifest
  <2>2. [manifest EXCEPT !.revision = @ + 1, !.publications = keep] \in Manifest
    BY <2>1 DEF TypeOK, Manifest
  <2>3. call' \in Calls
    BY <2>2 DEF TypeOK, RetainPublications, Calls
  <2> QED BY <2>3 DEF TypeOK, RetainPublications, disk
<1>7. CASE \E u \in Publications : Answered(u)
  BY <1>7 DEF TypeOK, Answered, disk
<1> QED BY <1>1, <1>2, <1>3, <1>4, <1>5, <1>6, <1>7 DEF Mutate

\* Every step keeps the types.
LEMMA NextType == ASSUME TypeOK, [Next]_vars PROVE TypeOK'
<1> USE DEF disk
<1>1. CASE Open
  BY <1>1, EmptyManifestType DEF TypeOK, Open
<1>2. CASE First
  BY <1>2 DEF TypeOK, First, RenameManifest, SyncRootDirectory
<1>3. CASE Verify
  BY <1>3 DEF TypeOK, Verify
<1>4. CASE Mark
  BY <1>4 DEF TypeOK, Mark
<1>5. CASE RootSync
  BY <1>5 DEF TypeOK, RootSync, SyncRootDirectory
<1>6. CASE Sweep
  <2>1. /\ blobView' \in [Blobs -> FileStates]
        /\ blobDisk' \in [Blobs -> SUBSET FileStates]
    BY <1>6 DEF TypeOK, Sweep, SetBlob, SyncBlobDirectory
  <2>2. pc' \in {"mark", "done"} \cup SweepSteps /\ swept' \in BOOLEAN
    BY <1>6 DEF TypeOK, Sweep
  <2> QED BY <1>6, <2>1, <2>2 DEF TypeOK, Sweep
<1>7. CASE Mutate
  BY <1>7, MutateType
<1>8. CASE Store
  <2>1. /\ blobView' \in [Blobs -> FileStates]
        /\ blobDisk' \in [Blobs -> SUBSET FileStates]
    <3>1. CASE UNCHANGED <<blobView, blobDisk>>
      BY <3>1 DEF TypeOK
    <3>2. CASE \E b \in Blobs, st \in FileStates : SetBlob(b, st)
      BY <3>2 DEF TypeOK, SetBlob
    <3>3. call.todo \subseteq Blobs
      BY DEF TypeOK, Calls
    <3> QED BY <1>8, <3>1, <3>2, <3>3 DEF Store
  <2>2. call' \in Calls
    BY <1>8 DEF TypeOK, Store, Calls
  <2>3. pc' \in {"idle"} \cup CallSteps /\ swept' \in BOOLEAN
        /\ outcome' \in {"none", "ok", "failed", "corrupt"}
    BY <1>8 DEF TypeOK, Store, Throw
  <2> QED BY <1>8, <2>1, <2>2, <2>3 DEF TypeOK, Store
<1>9. CASE WriteBlob
  BY <1>9 DEF TypeOK, WriteBlob, SetBlob, SyncBlobDirectory, Calls
<1>10. CASE Publish
  BY <1>10 DEF TypeOK, Publish, RenameManifest, SyncRootDirectory, Calls
<1>11. CASE Return
  BY <1>11 DEF TypeOK, Return
<1>12. CASE Fail
  <2>1. faults' \in 0..MaxFaults
    BY <1>12, WorkspaceAssumption DEF TypeOK, Fail
  <2> QED BY <1>12, <2>1 DEF TypeOK, Fail, Throw
<1>13. CASE Kill
  <2>1. crashes' \in 0..MaxCrashes
    BY <1>13, WorkspaceAssumption DEF TypeOK, Kill
  <2> QED BY <1>13, <2>1 DEF TypeOK, Kill
<1>14. CASE PowerLoss
  <2>1. crashes' \in 0..MaxCrashes
    BY <1>14, WorkspaceAssumption DEF TypeOK, PowerLoss
  <2> QED BY <1>14, <2>1 DEF TypeOK, PowerLoss
<1>15. CASE UNCHANGED vars
  BY <1>15 DEF TypeOK, vars
<1> QED BY <1>1, <1>2, <1>3, <1>4, <1>5, <1>6, <1>7, <1>8, <1>9, <1>10, <1>11,
           <1>12, <1>13, <1>14, <1>15 DEF Next

\* The initial state has the types.
LEMMA InitType == ASSUME Init PROVE TypeOK
<1>1. NoCall \in Calls
  BY EmptyManifestType, WorkspaceAssumption DEF NoCall, Calls
<1>2. faults \in 0..MaxFaults /\ crashes \in 0..MaxCrashes
  BY WorkspaceAssumption DEF Init
<1> QED BY <1>1, <1>2, EmptyManifestType DEF Init, TypeOK

\* Every reachable state of the store has the type TypeOK, for every set of
\* paths, contents and publications (persistentStorage.ts:18-23).
THEOREM TypeCorrect == Spec => []TypeOK
<1>1. Init => TypeOK BY InitType
<1>2. TypeOK /\ [Next]_vars => TypeOK' BY NextType
<1> QED BY <1>1, <1>2, PTL DEF Spec

-----------------------------------------------------------------------------
(* Crashes lose nothing that was acknowledged *)

\* A step that leaves the disk alone keeps what is durable.
LEMMA SameDisk ==
  ASSUME DiskInv, UNCHANGED <<disk, early, undone>>
  PROVE  DiskInv' /\ \A b \in Blobs : Durable(b)' <=> Durable(b)
  BY DEF DiskInv, Durable, disk

\* Changing a blob that is not durable, or making its name or content
\* durable, takes nothing from the manifests.
LEMMA BlobStep ==
  ASSUME TypeOK, DiskInv,
         UNCHANGED <<manView, manDisk, marker, markDisk, early, undone>>,
         \A b \in Blobs : blobView'[b] \in blobDisk'[b],
         \A b \in Blobs : Durable(b) => Durable(b)'
  PROVE  DiskInv'
<1>1. \A m \in manDisk \ {None} : Refs(m) \subseteq Blobs
  BY RefsAreBlobs DEF TypeOK
<1> QED BY <1>1 DEF DiskInv

\* A step that leaves the manifests and the answers alone, and does not let
\* callers in, keeps what was answered.
LEMMA SameAnswers ==
  ASSUME AnswerInv, UNCHANGED <<manView, manDisk, acked, settled>>,
         Serving' => Serving
  PROVE  AnswerInv'
  BY DEF AnswerInv, NotOlder

\* A manifest is not older than the ones its elders are not older than.
LEMMA NotOlderTransitive ==
  ASSUME NEW k \in Manifest, NEW m \in Manifest, NEW n \in Manifest,
         NotOlder(k, m), NotOlder(m, n)
  PROVE  NotOlder(k, n)
  BY DEF NotOlder, Manifest

\* What callers see of a serving store is a manifest, and a durable one.
LEMMA ServingFacts ==
  ASSUME TypeOK, RecoverInv, Serving
  PROVE  /\ manView = manifest /\ manView # None /\ manView \in manDisk
         /\ ~early /\ acked # None /\ settled # None /\ None \notin manDisk
         /\ NotOlder(manView, acked)
         /\ ~undone => \A b \in Refs(manifest) : Durable(b)
<1> USE DEF RecoverInv
<1>1. pc \notin {"down", "first", "corrupt"}
  BY DEF Serving, MemoryInv
<1>2. manView = manifest /\ manView # None
  BY <1>1, NoneAssumption DEF MemoryInv, TypeOK
<1>3. acked # None /\ settled # None /\ NotOlder(manView, acked) /\ ~early
  BY DEF AnswerInv, MemoryInv
<1>4. None \notin manDisk
  BY <1>3 DEF AnswerInv, NotOlder
<1> QED BY <1>2, <1>3, <1>4 DEF DiskInv

\* A reader sees a durable blob whole.
LEMMA DurableIsWhole ==
  ASSUME DiskInv, NEW b \in Blobs, Durable(b)
  PROVE  blobView[b] = "whole"
  BY DEF DiskInv, Durable

\* init starts from what is seen (Open, First, Verify: 67-96).
LEMMA OpenRecover == ASSUME TypeOK, RecoverInv, Open PROVE RecoverInv'
<1> USE DEF RecoverInv
<1>0. DiskInv' /\ \A b \in Blobs : Durable(b)' <=> Durable(b)
  BY SameDisk DEF Open
<1>1. manView = None /\ ~undone
        => marker = FALSE /\ \A b \in Blobs : blobView[b] = "absent"
  BY DEF FreshInv, DiskInv
<1>2. StoreStaysReadable'
  BY <1>1 DEF Open, StoreStaysReadable
<1>3. FreshInv'
  <2> SUFFICES ASSUME ~undone PROVE FreshInv'
    BY DEF FreshInv, Open
  <2> QED BY <1>1 DEF Open, FreshInv, disk
<1>4. MemoryInv'
  BY EmptyManifestType DEF Open, MemoryInv, Serving, disk
<1>5. CallInv' /\ AnswerInv'
  BY DEF Open, CallInv, AnswerInv, Serving, disk
<1> QED BY <1>0, <1>2, <1>3, <1>4, <1>5

LEMMA FirstRecover == ASSUME TypeOK, RecoverInv, First PROVE RecoverInv'
<1> USE DEF RecoverInv, First, RenameManifest, SyncRootDirectory
<1>1. DiskInv'
  BY EmptyManifestType, NoneAssumption DEF DiskInv, MemoryInv, Durable
<1>2. FreshInv'
  <2>0. manView' = EmptyManifest /\ manView' # None
    BY EmptyManifestType, NoneAssumption DEF MemoryInv
  <2>1. CASE pc = "first"
    <3>1. manView = None
      BY <2>1 DEF MemoryInv
    <3> QED BY <2>0, <2>1, <3>1 DEF FreshInv
  <2>2. CASE pc = "firstSync"
    BY <2>0, <2>2 DEF FreshInv
  <2> QED BY <2>1, <2>2
<1>3. MemoryInv'
  BY EmptyManifestType, NoneAssumption DEF MemoryInv, Serving
<1>4. CallInv'
  BY DEF CallInv
<1>5. AnswerInv'
  <2>1. CASE pc = "first"
    <3>1. manView = None /\ acked = None /\ settled = None
      BY <2>1 DEF MemoryInv, AnswerInv, NotOlder
    <3> QED BY <2>1, <3>1 DEF AnswerInv, Serving, MemoryInv
  <2>2. CASE pc = "firstSync"
    BY <2>2 DEF AnswerInv, NotOlder, Serving, MemoryInv
  <2> QED BY <2>1, <2>2
<1> QED BY <1>1, <1>2, <1>3, <1>4, <1>5 DEF StoreStaysReadable

\* What init has read back and compared may be served (91).
LEMMA VerifyRecover == ASSUME TypeOK, RecoverInv, Verify PROVE RecoverInv'
<1> USE DEF RecoverInv
<1>1. manView = manifest /\ manView # None /\ booting /\ UNCHANGED <<disk, undone>>
  BY NoneAssumption DEF Verify, MemoryInv, TypeOK
<1>2. ~undone => \A b \in Refs(manifest) : blobView[b] = "whole"
  BY <1>1, RefsAreBlobs, DurableIsWhole DEF DiskInv, TypeOK
<1>3. /\ \/ pc' = "gc" /\ booting' = booting
            /\ early' = (early \/ manDisk # {manView})
         \/ pc' = "corrupt" /\ undone /\ ~booting' /\ UNCHANGED early
      /\ early => early'
  BY <1>2 DEF Verify
<1>4. DiskInv'
  BY <1>1, <1>3 DEF DiskInv, Durable, disk
<1>5. FreshInv'
  BY <1>1, <1>3 DEF FreshInv, disk
<1>6. StoreStaysReadable' /\ MemoryInv'
  <2>1. pc = "verify" /\ UNCHANGED manifest
    BY DEF Verify
  <2>2. pc' = "corrupt" => undone'
    BY <1>2, <1>1 DEF Verify
  <2>3. booting' \/ pc' = "corrupt"
    BY <1>1, <1>3
  <2>4. StoreStaysReadable' /\ ~Serving'
    BY <2>2, <2>3 DEF Serving, StoreStaysReadable
  <2>5. CASE pc' = "gc" /\ booting' = booting /\ (early' \/ manDisk' = {manView'})
    BY <1>1, <2>1, <2>4, <2>5 DEF MemoryInv, disk
  <2>6. CASE pc' = "corrupt" /\ ~booting'
    BY <1>1, <2>1, <2>4, <2>6 DEF MemoryInv
  <2> QED BY <1>1, <1>3, <2>5, <2>6 DEF disk
<1>7. AnswerInv'
  BY <1>1, <1>3, SameAnswers DEF Verify, Serving, disk
<1>8. CallInv'
  BY <1>3 DEF CallInv
<1> QED BY <1>4, <1>5, <1>6, <1>7, <1>8

\* The marker and the last synchronisation of init (97-113).
LEMMA MarkRecover == ASSUME TypeOK, RecoverInv, Mark PROVE RecoverInv'
<1> USE DEF RecoverInv, Mark
<1>0. manView = manifest /\ manView # None
  BY NoneAssumption DEF MemoryInv, TypeOK
<1>1. DiskInv'
  BY DEF DiskInv, Durable
<1>2. FreshInv'
  BY <1>0 DEF FreshInv, MemoryInv
<1>3. MemoryInv'
  BY DEF MemoryInv, Serving
<1>4. CallInv' /\ AnswerInv'
  BY SameAnswers DEF CallInv, Serving, MemoryInv
<1> QED BY <1>1, <1>2, <1>3, <1>4 DEF StoreStaysReadable

LEMMA RootSyncRecover == ASSUME TypeOK, RecoverInv, RootSync PROVE RecoverInv'
<1> USE DEF RecoverInv, RootSync, SyncRootDirectory
<1>0. manView = manifest /\ manView # None
  BY NoneAssumption DEF MemoryInv, TypeOK
<1>1. DiskInv'
  BY DEF DiskInv, Durable
<1>2. FreshInv'
  BY <1>0 DEF FreshInv
<1>3. MemoryInv'
  BY <1>0, NoneAssumption DEF MemoryInv, Serving
<1>4. CallInv' /\ AnswerInv'
  BY <1>0 DEF CallInv, AnswerInv, NotOlder
<1> QED BY <1>1, <1>2, <1>3, <1>4 DEF StoreStaysReadable

\* Only blobs that no manifest needs are removed (collectGarbage, 513-523).
LEMMA SweepRecover == ASSUME TypeOK, RecoverInv, Sweep PROVE RecoverInv'
<1> USE DEF RecoverInv, Sweep
<1>0. manView = manifest /\ manView # None /\ (early \/ manDisk = {manView})
  BY NoneAssumption DEF MemoryInv, TypeOK
<1>1. CASE UNCHANGED <<blobView, blobDisk>>
  <2>1. DiskInv' /\ FreshInv'
    BY <1>0, <1>1 DEF DiskInv, FreshInv, Durable
  <2>2. MemoryInv' /\ StoreStaysReadable'
    BY <1>0 DEF MemoryInv, Serving, StoreStaysReadable
  <2>3. CallInv' /\ AnswerInv'
    BY SameAnswers DEF CallInv, Serving, MemoryInv
  <2> QED BY <2>1, <2>2, <2>3
<1>2. CASE pc = "gcSync"
  <2>1. \A b \in Blobs : Durable(b) => Durable(b)'
    BY <1>2 DEF SyncBlobDirectory, Durable, DiskInv
  <2>2. \A b \in Blobs : blobView'[b] \in blobDisk'[b]
    BY <1>2 DEF SyncBlobDirectory, DiskInv
  <2>3. DiskInv'
    BY <2>1, <2>2, BlobStep
  <2>4. FreshInv' /\ MemoryInv' /\ StoreStaysReadable'
    BY <1>0, <1>2 DEF FreshInv, MemoryInv, Serving, StoreStaysReadable
  <2>5. CallInv' /\ AnswerInv'
    BY <1>2, SameAnswers DEF CallInv, Serving, MemoryInv
  <2> QED BY <2>3, <2>4, <2>5
<1>3. ASSUME NEW b \in Blobs \ Refs(manifest), pc = "gc", SetBlob(b, "absent"),
             UNCHANGED pc
      PROVE  RecoverInv'
  <2>1. \A c \in Refs(manifest) : Durable(c) => Durable(c)'
    BY <1>3, RefsAreBlobs DEF SetBlob, Durable, TypeOK
  <2>2. \A c \in Blobs : blobView'[c] \in blobDisk'[c]
    BY <1>3 DEF SetBlob, DiskInv, TypeOK
  <2>3. DiskInv'
    BY <1>0, <2>1, <2>2 DEF DiskInv
  <2>4. FreshInv' /\ MemoryInv' /\ StoreStaysReadable'
    BY <1>0, <1>3 DEF FreshInv, MemoryInv, Serving, StoreStaysReadable
  <2>5. CallInv' /\ AnswerInv'
    BY <1>3, SameAnswers DEF CallInv, Serving, MemoryInv
  <2> QED BY <2>3, <2>4, <2>5
<1> QED BY <1>1, <1>2, <1>3

-----------------------------------------------------------------------------
(* Mutations *)

\* What a mutation's candidate refers to is durable already or among the
\* blobs it stores (mutate and its callers, 181-336).
LEMMA StartRecover ==
  ASSUME TypeOK, RecoverInv, pc = "idle", pc' = "store",
         UNCHANGED <<disk, manifest, booting, swept, history>>,
         call'.next.revision = manifest.revision + 1,
         Refs(call'.next) \subseteq Refs(manifest) \cup call'.todo
  PROVE  RecoverInv'
<1> USE DEF RecoverInv
<1>0. DiskInv' /\ \A b \in Blobs : Durable(b)' <=> Durable(b)
  BY SameDisk
<1>1. /\ Serving /\ manView = manifest /\ manView # None /\ ~early
      /\ None \notin manDisk
  BY ServingFacts DEF Serving, MemoryInv
<1>2. ~undone => \A b \in Refs(manifest) : Durable(b)
  BY <1>1, ServingFacts
<1>3. FreshInv' /\ MemoryInv' /\ StoreStaysReadable'
  BY <1>1 DEF FreshInv, MemoryInv, Serving, StoreStaysReadable, disk
<1>4. CallInv'
  <2>1. ~undone' => \A b \in Refs(call'.next) : b \in call'.todo \/ Durable(b)'
    BY <1>2 DEF Durable, disk
  <2> QED BY <2>1 DEF CallInv, Refs
<1>5. AnswerInv'
  BY <1>1, SameAnswers DEF disk
<1> QED BY <1>0, <1>3, <1>4, <1>5

LEMMA BeginRecover ==
  ASSUME TypeOK, RecoverInv, NEW files \in [Paths -> Blobs \cup {None}],
         NEW u, NEW todo, NEW staged, Begin(files, u, todo, staged),
         \A p \in Paths : files[p] \in Refs(manifest) \cup todo \cup {None}
  PROVE  RecoverInv'
<1>1. Refs(call'.next) \subseteq Refs(manifest) \cup call'.todo
  BY DEF Begin, Refs
<1> QED BY <1>1, StartRecover DEF Begin

\* A publication answered from memory moves the last answer, and the last
\* settled one only when nothing older can be left (331).
LEMMA AnsweredRecover ==
  ASSUME TypeOK, RecoverInv, NEW u, Answered(u) PROVE RecoverInv'
<1> USE DEF RecoverInv
<1>0. /\ manView = manifest /\ manifest # None /\ pc' = pc
      /\ UNCHANGED <<disk, manifest, booting, call, early, undone>>
  BY NoneAssumption DEF Answered, MemoryInv, TypeOK
<1>1. Serving /\ Serving' /\ settled # None
  BY <1>0, ServingFacts DEF Answered, Serving, MemoryInv
<1>2. DiskInv' /\ FreshInv'
  BY <1>0, SameDisk DEF FreshInv, disk
<1>3. MemoryInv' /\ StoreStaysReadable' /\ CallInv'
  BY <1>0, <1>1 DEF Answered, MemoryInv, StoreStaysReadable, CallInv, disk
<1>4. AnswerInv'
  BY <1>0, <1>1 DEF Answered, AnswerInv, NotOlder, disk
<1> QED BY <1>2, <1>3, <1>4

LEMMA MutateRecover == ASSUME TypeOK, RecoverInv, Mutate PROVE RecoverInv'
<1>0. /\ manifest.files \in [Paths -> Blobs \cup {None}] /\ Cleared \in Blobs
      /\ \A p \in Paths : manifest.files[p] \in Refs(manifest) \cup {None}
  BY WorkspaceAssumption DEF TypeOK, Manifest, Refs
<1>1. CASE \E p \in Paths, b \in Blobs, u \in Publications \cup {None}, s \in BOOLEAN :
             Write(p, b, u, s)
  <2> PICK p \in Paths, b \in Blobs, u \in Publications \cup {None}, s \in BOOLEAN :
        Write(p, b, u, s)
    BY <1>1
  <2> DEFINE files == [manifest.files EXCEPT ![p] = b]
  <2>1. /\ files \in [Paths -> Blobs \cup {None}]
        /\ \A q \in Paths : files[q] \in Refs(manifest) \cup {b} \cup {None}
    BY <1>0
  <2>2. Begin(files, u, {b}, s)
    BY DEF Write
  <2> HIDE DEF files
  <2> QED BY <2>1, <2>2, BeginRecover
<1>2. CASE \E p \in Paths, u \in Publications \cup {None} : Remove(p, u)
  <2> PICK p \in Paths, u \in Publications \cup {None} : Remove(p, u)
    BY <1>2
  <2> DEFINE files == [manifest.files EXCEPT ![p] = None]
  <2>1. /\ files \in [Paths -> Blobs \cup {None}]
        /\ \A q \in Paths : files[q] \in Refs(manifest) \cup {} \cup {None}
    BY <1>0
  <2>2. Begin(files, u, {}, FALSE)
    BY DEF Remove
  <2> HIDE DEF files
  <2> QED BY <2>1, <2>2, BeginRecover
<1>3. CASE \E p, q \in Paths : Rename(p, q)
  <2> PICK p \in Paths, q \in Paths : Rename(p, q)
    BY <1>3
  <2> DEFINE files == [manifest.files EXCEPT ![p] = None, ![q] = manifest.files[p]]
  <2>1. /\ files \in [Paths -> Blobs \cup {None}]
        /\ \A r \in Paths : files[r] \in Refs(manifest) \cup {} \cup {None}
    BY <1>0
  <2>2. Begin(files, None, {}, FALSE)
    BY DEF Rename
  <2> HIDE DEF files
  <2> QED BY <2>1, <2>2, BeginRecover
<1>4. CASE MakeDirectory
  BY <1>4, <1>0, BeginRecover DEF MakeDirectory
<1>5. CASE \E S \in SUBSET Paths : S # {} /\ Publicise(S)
  <2> PICK S \in SUBSET Paths : Publicise(S)
    BY <1>5
  <2> DEFINE files == [p \in Paths |-> IF p \in S THEN Cleared ELSE manifest.files[p]]
  <2>1. /\ files \in [Paths -> Blobs \cup {None}]
        /\ \A q \in Paths : files[q] \in Refs(manifest) \cup {Cleared} \cup {None}
    BY <1>0
  <2>2. Begin(files, None, {Cleared}, FALSE)
    BY DEF Publicise
  <2> HIDE DEF files
  <2> QED BY <2>1, <2>2, BeginRecover
<1>6. CASE \E keep \in SUBSET manifest.publications : RetainPublications(keep)
  <2> PICK keep \in SUBSET manifest.publications : RetainPublications(keep)
    BY <1>6
  <2>1. /\ call'.next.revision = manifest.revision + 1
        /\ call'.next.files = manifest.files
    BY DEF RetainPublications, TypeOK, Manifest
  <2>2. Refs(call'.next) \subseteq Refs(manifest) \cup call'.todo
    BY <2>1 DEF Refs
  <2> QED BY <2>1, <2>2, StartRecover DEF RetainPublications
<1>7. CASE \E u \in Publications : Answered(u)
  <2> PICK u \in Publications : Answered(u)
    BY <1>7
  <2> QED BY AnsweredRecover
<1> QED BY <1>1, <1>2, <1>3, <1>4, <1>5, <1>6, <1>7 DEF Mutate

\* A mutation that stores blobs, before its manifest is published.
LEMMA CallFacts ==
  ASSUME TypeOK, RecoverInv, pc \in CallSteps \cup {"done"}
  PROVE  manView = manifest /\ manView # None /\ ~early /\ ~booting
         /\ None \notin manDisk /\ Serving
  BY ServingFacts DEF RecoverInv, MemoryInv, Serving

\* Storing touches no durable blob except to keep it whole (storeBlob and
\* writeStaged, 191-199, 472-494).
LEMMA StoreRecover == ASSUME TypeOK, RecoverInv, Store PROVE RecoverInv'
<1> USE DEF RecoverInv
<1>0. /\ manView = manifest /\ manView # None /\ ~early /\ ~booting
      /\ None \notin manDisk /\ pc = "store"
  BY CallFacts DEF Store
<1>1. \A b \in Blobs : blobView'[b] \in blobDisk'[b]
  BY DEF Store, SetBlob, DiskInv, TypeOK
<1>2. \A b \in Blobs : Durable(b) => Durable(b)'
  BY DurableIsWhole DEF Store, SetBlob, Durable, TypeOK
<1>3. DiskInv'
  BY <1>1, <1>2, BlobStep DEF Store
<1>4. FreshInv' /\ MemoryInv' /\ StoreStaysReadable'
  BY <1>0 DEF Store, Throw, FreshInv, MemoryInv, Serving, StoreStaysReadable
<1>5. AnswerInv'
  BY CallFacts, SameAnswers DEF Store
<1>6. CallInv'
  <2>1. call'.next = call.next /\ call'.todo = call.todo
    BY DEF Store, TypeOK, Calls
  <2>2. ~undone => \A b \in Refs(call.next) : b \in call.todo \/ Durable(b)'
    <3>1. Refs(call.next) \subseteq Blobs
      BY RefsAreBlobs DEF TypeOK, Calls
    <3> QED BY <1>0, <1>2, <3>1 DEF CallInv
  <2>3. pc' = "fill" => blobView'[call'.blob] = "torn"
    BY DEF Store, SetBlob, TypeOK, Calls
  <2>4. pc' = "syncFile" => blobView'[call'.blob] = "whole"
    <3> SUFFICES ASSUME pc' = "syncFile" PROVE blobView'[call'.blob] = "whole"
      OBVIOUS
    <3>1. PICK b \in call.todo : call' = [call EXCEPT !.blob = b]
                                 /\ blobView[b] = "whole" /\ UNCHANGED blobView
      BY DEF Store, Throw
    <3>2. call'.blob = b
      BY <3>1 DEF TypeOK, Calls
    <3> QED BY <3>1, <3>2
  <2>5. pc' \in {"publish", "fill", "syncFile", "syncUnlink", "idle"}
    BY DEF Store, Throw
  <2>6. pc' = "publish" => call'.todo = {}
    BY DEF Store, Throw
  <2>7. call'.next.revision = manifest'.revision + 1 /\ UNCHANGED undone
    BY <1>0, <2>1 DEF CallInv, Store
  <2> QED BY <2>1, <2>2, <2>3, <2>4, <2>5, <2>6, <2>7 DEF CallInv, Refs
<1> QED BY <1>3, <1>4, <1>5, <1>6

LEMMA WriteBlobRecover == ASSUME TypeOK, RecoverInv, WriteBlob PROVE RecoverInv'
<1> USE DEF RecoverInv
<1>0. /\ manView = manifest /\ manView # None /\ ~early /\ ~booting
      /\ None \notin manDisk
      /\ pc \in {"fill", "syncFile", "syncBlobs", "syncUnlink"}
  BY CallFacts DEF WriteBlob
<1>a. call.blob \in Blobs /\ Refs(call.next) \subseteq Blobs
  BY RefsAreBlobs DEF TypeOK, Calls
<1>1. \A b \in Blobs : blobView'[b] \in blobDisk'[b]
  BY <1>0, <1>a DEF WriteBlob, SetBlob, SyncBlobDirectory, DiskInv, TypeOK, CallInv
<1>2. \A b \in Blobs : Durable(b) => Durable(b)'
  BY <1>a DEF WriteBlob, SetBlob, SyncBlobDirectory, Durable, DiskInv, TypeOK
<1>3. DiskInv'
  BY <1>1, <1>2, BlobStep DEF WriteBlob
<1>4. FreshInv' /\ MemoryInv' /\ StoreStaysReadable'
  BY <1>0 DEF WriteBlob, FreshInv, MemoryInv, Serving, StoreStaysReadable
<1>5. AnswerInv'
  BY CallFacts, SameAnswers DEF WriteBlob
<1>6. call'.next = call.next /\ call'.blob = call.blob
  BY DEF WriteBlob, TypeOK, Calls
<1>7. pc = "syncBlobs" => Durable(call.blob)'
  <2> SUFFICES ASSUME pc = "syncBlobs" PROVE Durable(call.blob)'
    BY <1>6
  <2>1. /\ blobView[call.blob] = "whole" /\ "torn" \notin blobDisk[call.blob]
        /\ blobView[call.blob] \in blobDisk[call.blob]
        /\ blobDisk[call.blob] \subseteq FileStates
    BY <1>a DEF CallInv, DiskInv, TypeOK
  <2>2. blobDisk'[call.blob] = blobDisk[call.blob] \ {"absent"}
    BY <1>a, <2>1 DEF WriteBlob, SyncBlobDirectory
  <2>3. blobDisk'[call.blob] = {"whole"}
    BY <2>1, <2>2
  <2> QED BY <1>6, <2>3 DEF Durable
<1>8. ~undone => \A b \in Refs(call.next) : b \in call'.todo \/ Durable(b)'
  <2>1. ~undone => \A b \in Refs(call.next) : b \in call.todo \/ Durable(b)'
    BY <1>0, <1>a, <1>2 DEF CallInv
  <2>2. call' = call \/ (pc = "syncBlobs" /\ call'.todo = call.todo \ {call.blob})
    BY DEF WriteBlob, TypeOK, Calls
  <2> QED BY <1>6, <1>7, <2>1, <2>2 DEF Durable
<1>9. CallInv'
  <2>1. call'.next.revision = manifest'.revision + 1 /\ UNCHANGED undone
    BY <1>0, <1>6 DEF CallInv, WriteBlob
  <2>2. pc' \in {"syncFile", "syncBlobs"} => blobView'[call'.blob] = "whole"
    BY <1>0, <1>6, <1>a DEF WriteBlob, SetBlob, CallInv, TypeOK
  <2>3. pc' = "syncBlobs" => "torn" \notin blobDisk'[call'.blob]
    BY <1>0, <1>6, <1>a DEF WriteBlob, TypeOK
  <2>4. pc' \in {"syncFile", "syncBlobs", "store"}
    BY DEF WriteBlob
  <2> QED BY <1>6, <1>8, <2>1, <2>2, <2>3, <2>4 DEF CallInv, Refs
<1> QED BY <1>3, <1>4, <1>5, <1>9

\* The new manifest refers to durable blobs before it can be left by a crash,
\* and only then are older blobs given up (publish, 495-511).
LEMMA PublishRecover == ASSUME TypeOK, RecoverInv, Publish PROVE RecoverInv'
<1> USE DEF RecoverInv
<1>0. /\ manView = manifest /\ manView # None /\ ~early /\ ~booting
      /\ None \notin manDisk /\ Serving /\ acked # None /\ settled # None
      /\ NotOlder(manView, acked)
  BY CallFacts, ServingFacts DEF Publish
<1>1. CASE pc = "publish"
  <2>0. /\ pc' = "syncRoot" /\ manView' = call.next /\ manifest' = call.next
        /\ manDisk' = manDisk \cup {call.next} /\ call.next \in Manifest
        /\ call.next # None /\ UNCHANGED history
    BY <1>1, NoneAssumption DEF Publish, RenameManifest, TypeOK, Calls
  <2>1. ~undone => \A b \in Refs(call.next) : Durable(b)
    BY <1>1 DEF CallInv
  <2>2. DiskInv'
    BY <1>0, <1>1, <2>0, <2>1 DEF Publish, DiskInv, Durable
  <2>3. MemoryInv' /\ StoreStaysReadable' /\ CallInv'
    BY <1>0, <1>1, <2>0 DEF Publish, MemoryInv, Serving, StoreStaysReadable, CallInv
  <2>5. FreshInv'
    BY <1>0, <2>0 DEF FreshInv
  <2>4. AnswerInv'
    <3>1. /\ acked \in Manifest /\ settled \in Manifest /\ manifest \in Manifest
          /\ manView \in manDisk
      BY <1>0 DEF TypeOK, DiskInv
    <3>2. NotOlder(manView, settled)
      BY <1>0 DEF AnswerInv
    <3>3. NotOlder(call.next, manView)
      BY <1>0, <1>1, <2>0, <3>1 DEF CallInv, NotOlder, Manifest
    <3>4. NotOlder(call.next, acked) /\ NotOlder(call.next, settled)
      BY <1>0, <2>0, <3>1, <3>2, <3>3, NotOlderTransitive
    <3> QED BY <1>0, <2>0, <3>4 DEF AnswerInv, NotOlder
  <2> QED BY <2>2, <2>3, <2>4, <2>5
<1>2. CASE pc = "syncRoot"
  <2>1. DiskInv'
    BY <1>0, <1>2 DEF Publish, SyncRootDirectory, DiskInv, Durable
  <2>2. FreshInv' /\ MemoryInv' /\ StoreStaysReadable' /\ CallInv'
    BY <1>0, <1>2 DEF Publish, SyncRootDirectory, FreshInv, MemoryInv, Serving,
                      StoreStaysReadable, CallInv
  <2>3. AnswerInv'
    BY <1>0, <1>2 DEF Publish, SyncRootDirectory, AnswerInv, NotOlder
  <2> QED BY <2>1, <2>2, <2>3
<1> QED BY <1>1, <1>2 DEF Publish

LEMMA ReturnRecover == ASSUME TypeOK, RecoverInv, Return PROVE RecoverInv'
<1> USE DEF RecoverInv
<1>0. /\ manView = manifest /\ manView # None /\ ~early /\ ~booting
      /\ manDisk = {manView} /\ pc = "done"
  BY CallFacts DEF Return, MemoryInv
<1>1. DiskInv'
  BY SameDisk DEF Return
<1>2. FreshInv' /\ MemoryInv' /\ StoreStaysReadable' /\ CallInv'
  BY <1>0 DEF Return, FreshInv, MemoryInv, Serving, StoreStaysReadable, CallInv,
              disk
<1>3. AnswerInv'
  BY <1>0, NoneAssumption DEF Return, AnswerInv, NotOlder, disk
<1> QED BY <1>1, <1>2, <1>3

-----------------------------------------------------------------------------
(* Faults *)

\* A call that throws leaves the store as it is (324, enqueue at 349-353).
LEMMA FailRecover == ASSUME TypeOK, RecoverInv, Fail PROVE RecoverInv'
<1> USE DEF RecoverInv
<1>0. /\ manView = manifest /\ manView # None /\ ~early /\ pc # "down" /\ Serving
      /\ None \notin manDisk
  BY ServingFacts DEF Fail, Serving
<1>2. DiskInv'
  BY SameDisk DEF Fail
<1>3. FreshInv' /\ MemoryInv' /\ StoreStaysReadable' /\ CallInv'
  BY <1>0 DEF Fail, Throw, FreshInv, MemoryInv, Serving, StoreStaysReadable,
              CallInv, disk
<1>4. AnswerInv'
  BY <1>0, SameAnswers DEF Fail, disk
<1> QED BY <1>2, <1>3, <1>4

\* A killed process leaves what was visible, for init to find.
LEMMA KillRecover == ASSUME TypeOK, RecoverInv, Kill PROVE RecoverInv'
<1> USE DEF RecoverInv
<1>1. DiskInv'
  BY SameDisk DEF Kill
<1>2. FreshInv' /\ MemoryInv' /\ StoreStaysReadable' /\ CallInv'
  BY DEF Kill, FreshInv, MemoryInv, Serving, StoreStaysReadable, CallInv, disk
<1>3. AnswerInv'
  BY SameAnswers DEF Kill, Serving, disk
<1> QED BY <1>1, <1>2, <1>3

\* A power loss leaves a readable store, except where it undoes the rename
\* that init has already acted on.
LEMMA PowerLossRecover ==
  ASSUME TypeOK, RecoverInv, PowerLoss PROVE RecoverInv'
<1> USE DEF RecoverInv
<1>0. ~early' /\ pc' = "down" /\ UNCHANGED answers
  BY DEF PowerLoss
<1>1. manView' \in manDisk /\ manDisk' = {manView'}
  BY DEF PowerLoss
<1>2. \A b \in Blobs : blobView'[b] \in blobDisk'[b]
  BY DEF PowerLoss
<1>3. \A b \in Blobs : Durable(b) => Durable(b)'
  BY DEF PowerLoss, Durable
<1>4. undone => undone'
  BY DEF PowerLoss
<1>5. ~undone' => ~undone /\ (~early \/ manView' = manView)
  BY DEF PowerLoss
<1>6. DiskInv'
  <2>1. ~undone' /\ manView' # None
          => \A b \in Refs(manView') : Durable(b) /\ b \in Blobs
    BY <1>1, <1>5, RefsAreBlobs DEF DiskInv, TypeOK
  <2> QED BY <1>1, <1>2, <1>3, <2>1 DEF DiskInv, PowerLoss
<1>7. FreshInv'
  <2> SUFFICES ASSUME ~undone' PROVE FreshInv'
    BY DEF FreshInv
  <2>1. ~undone /\ (~early \/ manView' = manView)
    BY <1>5
  <2>2. manView' = None => ~early /\ None \in manDisk
    BY <1>1, <2>1 DEF FreshInv
  <2>3. manView' = None =>
          markDisk = {FALSE} /\ \A b \in Blobs : blobDisk[b] = {"absent"}
    BY <2>1, <2>2 DEF FreshInv
  <2> QED BY <1>0, <1>1, <2>3 DEF FreshInv, PowerLoss
<1>8. MemoryInv' /\ StoreStaysReadable' /\ CallInv'
  BY <1>0, <1>1 DEF MemoryInv, Serving, StoreStaysReadable, CallInv, PowerLoss
<1>9. AnswerInv'
  BY <1>0, <1>1 DEF AnswerInv, NotOlder, Serving, PowerLoss
<1> QED BY <1>6, <1>7, <1>8, <1>9

\* The invariant is inductive.
LEMMA NextRecover ==
  ASSUME TypeOK, RecoverInv, [Next]_vars PROVE RecoverInv'
<1>1. CASE UNCHANGED vars
  BY <1>1 DEF RecoverInv, StoreStaysReadable, DiskInv, Durable, FreshInv,
              MemoryInv, Serving, CallInv, AnswerInv, NotOlder, vars, disk
<1> QED BY <1>1, OpenRecover, FirstRecover, VerifyRecover, MarkRecover,
           RootSyncRecover, SweepRecover, MutateRecover, StoreRecover,
           WriteBlobRecover, PublishRecover, ReturnRecover, FailRecover,
           KillRecover, PowerLossRecover DEF Next

LEMMA InitRecover == ASSUME Init PROVE RecoverInv
  BY DEF Init, RecoverInv, StoreStaysReadable, DiskInv, Durable, FreshInv,
         MemoryInv, Serving, CallInv, AnswerInv

\* RecoverInv is invariant, for any number of mutations, failing calls, kills
\* and power losses, those of a restarting store included
\* (persistentStorage.ts:54-114, 323-345, 472-519).
THEOREM RecoverInductive == Spec => []RecoverInv
<1>1. Init => RecoverInv BY InitRecover
<1>2. TypeOK /\ RecoverInv /\ [Next]_vars => RecoverInv' BY NextRecover
<1> QED BY <1>1, <1>2, TypeCorrect, PTL DEF Spec

\* init finds a readable revision after every crash, except where a power loss
\* takes back a rename that init had already acted on (persistentStorage.ts:31,
\* 75-112).
THEOREM AlwaysReadable == Spec => []StoreStaysReadable
<1>1. RecoverInv => StoreStaysReadable BY DEF RecoverInv
<1> QED BY <1>1, RecoverInductive, PTL

\* No crash undoes an answer: not a mutation that has returned, not a manifest
\* that a restarted server serves, and a publication answered from memory only
\* back to the last answer given with the root synchronised
\* (persistentStorage.ts:326-345, 493-507).
THEOREM AcknowledgedSurvives == Spec => []AckedSurvives
<1>1. RecoverInv => AckedSurvives BY DEF RecoverInv, AnswerInv, AckedSurvives
<1> QED BY <1>1, RecoverInductive, PTL

-----------------------------------------------------------------------------
(* The store implements the revisioned manifest *)

\* Steps that change neither what calls see nor what a crash may leave.
LEMMA Stutter ==
  ASSUME UNCHANGED <<manView, manDisk>>, Serving' <=> Serving,
         (acked' = None) <=> (acked = None)
  PROVE  UNCHANGED Store_!vars
  BY DEF Store_!vars

\* Every step is one of the abstract store, or changes nothing there.
LEMMA NextImplements ==
  ASSUME TypeOK, RecoverInv, [Next]_vars
  PROVE  [Store_!Next]_(Store_!vars)
<1> USE DEF RecoverInv
<1>1. CASE Open \/ Verify \/ Mark \/ Sweep \/ Mutate \/ Store \/ WriteBlob \/ Fail
  <2>1. UNCHANGED <<manView, manDisk>> /\ (acked' = None <=> acked = None)
    <3>1. CASE \E u \in Publications : Answered(u)
      BY <3>1, NoneAssumption, ServingFacts DEF Answered, Serving, MemoryInv, TypeOK, disk
    <3> QED BY <1>1, <3>1 DEF Open, Verify, Mark, Sweep, Mutate, Write, Remove, Rename,
                MakeDirectory, Publicise, Begin, RetainPublications, Store,
                WriteBlob, Fail, disk
  <2>2. Serving' <=> Serving
    <3>1. CASE Open \/ Verify \/ Mark
      BY <3>1 DEF Open, Verify, Mark, Serving, MemoryInv
    <3>2. CASE Sweep \/ Store \/ WriteBlob \/ Fail
      BY <3>2 DEF Sweep, Store, WriteBlob, Fail, Throw, Serving, MemoryInv
    <3>3. CASE Mutate
      <4>1. pc = "idle" /\ pc' \in {"store", "idle"} /\ UNCHANGED booting
        BY <3>3 DEF Mutate, Write, Remove, Rename, MakeDirectory, Publicise,
                    Begin, RetainPublications, Answered
      <4> QED BY <4>1 DEF Serving
    <3> QED BY <1>1, <3>1, <3>2, <3>3
  <2> QED BY <2>1, <2>2, Stutter
<1>2. CASE First
  <2>1. ~Serving /\ ~Serving' /\ UNCHANGED acked
    BY <1>2 DEF First, Serving, MemoryInv
  <2>2. CASE pc = "first"
    <3>1. manDisk = {None} /\ manDisk' = {None, EmptyManifest}
      BY <1>2, <2>2 DEF First, RenameManifest, MemoryInv, DiskInv
    <3>2. manDisk \ {None} = {} /\ manDisk' \ {None} = {EmptyManifest}
      BY <3>1, NoneAssumption, EmptyManifestType
    <3> QED BY <2>1, <3>2, EmptyManifestType DEF Store_!Next, Store_!Create,
                                                 EmptyManifest
  <2>3. CASE pc = "firstSync"
    <3>1. manDisk' \ {None} = {EmptyManifest} /\ EmptyManifest \in manDisk \ {None}
      BY <1>2, <2>3, NoneAssumption, EmptyManifestType
      DEF First, SyncRootDirectory, MemoryInv, DiskInv
    <3> QED BY <2>1, <3>1 DEF Store_!Next, Store_!Interrupt
  <2> QED BY <1>2, <2>2, <2>3 DEF First
<1>3. CASE RootSync
  <2>1. manView = manifest /\ manView # None /\ UNCHANGED manView
    BY <1>3, NoneAssumption DEF RootSync, MemoryInv, TypeOK
  <2>2. ~Serving /\ Serving' /\ acked' # None
    BY <1>3, <2>1 DEF RootSync, Serving, MemoryInv
  <2>3. manDisk' \ {None} = {manView} /\ manView \in manDisk \ {None}
    BY <1>3, <2>1 DEF RootSync, SyncRootDirectory, DiskInv
  <2> QED BY <2>1, <2>2, <2>3 DEF Store_!Next, Store_!Reopen
<1>4. CASE Publish
  <2>1. /\ Serving /\ Serving' /\ acked # None /\ UNCHANGED acked
        /\ manView = manifest /\ manView # None
    BY <1>4, CallFacts, ServingFacts DEF Publish, Serving
  <2>2. CASE pc = "publish"
    <3>1. /\ call.next \in Manifest /\ call.next # None
          /\ call.next.revision = manView.revision + 1
          /\ manView' = call.next
      BY <1>4, <2>1, <2>2, NoneAssumption
      DEF Publish, RenameManifest, CallInv, TypeOK, Calls
    <3>2. manDisk' \ {None} = (manDisk \ {None}) \cup {call.next}
      BY <1>4, <2>2, <3>1 DEF Publish, RenameManifest
    <3> QED BY <2>1, <3>1, <3>2 DEF Store_!Next, Store_!Replace
  <2>3. CASE pc = "syncRoot"
    <3>1. manDisk' \ {None} = {manView} /\ UNCHANGED manView
      BY <1>4, <2>1, <2>3 DEF Publish, SyncRootDirectory
    <3> QED BY <2>1, <3>1 DEF Store_!Next, Store_!Settle
  <2> QED BY <1>4, <2>2, <2>3 DEF Publish
<1>5. CASE Return
  <2>1. Serving /\ Serving' /\ acked # None /\ acked' # None
    BY <1>5, CallFacts, ServingFacts, NoneAssumption DEF Return, Serving, TypeOK
  <2> QED BY <1>5, <2>1, Stutter DEF Return, disk
<1>6. CASE Kill
  <2>1. ~Serving' /\ UNCHANGED <<manDisk, acked>>
    BY <1>6 DEF Kill, Serving, disk
  <2>2. acked # None => manDisk \ {None} # {}
    BY DEF AnswerInv, NotOlder, DiskInv
  <2> QED BY <2>1, <2>2 DEF Store_!Next, Store_!Interrupt
<1>7. CASE PowerLoss
  <2>1. ~Serving' /\ UNCHANGED acked /\ manDisk' \subseteq manDisk /\ manDisk' # {}
    BY <1>7 DEF PowerLoss, Serving
  <2>2. acked # None => None \notin manDisk
    BY DEF AnswerInv, NotOlder
  <2> QED BY <2>1, <2>2 DEF Store_!Next, Store_!Interrupt
<1>8. CASE UNCHANGED vars
  BY <1>8, Stutter DEF vars, disk, Serving
<1> QED BY <1>1, <1>2, <1>3, <1>4, <1>5, <1>6, <1>7, <1>8 DEF Next

\* The workspace behaves as one revisioned manifest that mutations replace and
\* crashes preserve, for every number of mutations, failing calls and crashes
\* (persistentStorage.ts:29-32).
THEOREM WorkspaceImplementsStore == Spec => ImplementsWorkspaceStore
<1>1. Init => Store_!Init
  BY DEF Init, Store_!Init, Serving
<1>2. TypeOK /\ RecoverInv /\ [Next]_vars => [Store_!Next]_(Store_!vars)
  BY NextImplements
<1>3. Spec => []RecoverInv
  BY RecoverInductive
<1> QED BY <1>1, <1>2, <1>3, TypeCorrect, PTL
        DEF Spec, ImplementsWorkspaceStore, Store_!Spec
=============================================================================
