------------------------ MODULE PersistentWorkspace ------------------------
(***************************************************************************)
(* The file store of a persistent session (src/src/vps/                    *)
(* persistentStorage.ts): immutable blobs named by their hash and one      *)
(* manifest, which is the only authority.  A mutation stores and           *)
(* synchronises its blobs, replaces the manifest by a rename, synchronises *)
(* the directory and then removes the blobs nothing refers to.  Calls run  *)
(* one after the other; what interleaves with their steps are input/output *)
(* errors, a killed process and a power loss.                              *)
(*                                                                         *)
(* A file has a state that readers see and a set of states a power loss    *)
(* may leave.  Every change adds to that set; synchronising the file       *)
(* rules out torn content, synchronising its directory rules out the other *)
(* outcomes of creations, removals and renames.  A killed process loses    *)
(* nothing that readers could see.                                         *)
(*                                                                         *)
(* A blob's content is its name.  Directories, visibility, sizes and       *)
(* quotas of the manifest's entries are not told apart.                    *)
(***************************************************************************)
EXTENDS Naturals, FiniteSets

CONSTANTS Paths,              \* file names of the project
          Blobs,              \* contents, each under its own name
          Cleared,            \* the content of a notebook without its outputs
          Publications,       \* publication identities of results and uploads
          None,               \* no file, no publication, no manifest
          MaxRevision,        \* bound on mutations
          MaxFaults,          \* bound on failing input/output calls
          MaxCrashes          \* bound on kills and power losses together

ASSUME WorkspaceAssumption ==
  /\ Cleared \in Blobs
  /\ None \notin Blobs \cup Paths \cup Publications
  /\ MaxRevision \in Nat /\ MaxFaults \in Nat /\ MaxCrashes \in Nat

VARIABLES blobView,    \* what a reader of the blob directory sees
          blobDisk,    \* what a power loss may leave of each blob
          manView,     \* the manifest file, or None
          manDisk,     \* what a power loss may leave of it
          marker,      \* the file "initialized" is there
          markDisk,
          manifest,    \* this.manifest, or the manifest init is loading
          pc,          \* the next step of the running call, idle or down
          booting,     \* the running call is init
          call,        \* the running mutation
          swept,       \* collectGarbage removed something
          early,       \* init collects before the manifest it found is settled
          undone,      \* a power loss took the manifest back from such an init
          acked,       \* the last manifest a call was answered with, or None
          settled,     \* the last one that was on the disk when it was answered
          outcome,     \* how the last call ended
          faults, crashes

disk == <<blobView, blobDisk, manView, manDisk, marker, markDisk>>
vars == <<disk, manifest, pc, booting, call, swept, early, undone, acked,
          settled, outcome, faults, crashes>>
answers == <<acked, settled>>
history == <<early, undone, answers>>   \* what the properties remember

FileStates == {"absent", "torn", "whole"}
\* interface Manifest, StoredEntry
Manifest == [revision : 0..MaxRevision,
             files    : [Paths -> Blobs \cup {None}],
             publications : SUBSET Publications]
ASSUME NoneAssumption == None \notin Manifest
EmptyManifest == [revision |-> 0, files |-> [p \in Paths |-> None],
                  publications |-> {}]
Refs(m) == {m.files[p] : p \in Paths} \ {None}

NoCall == [next |-> EmptyManifest, todo |-> {}, staged |-> FALSE,
           blob |-> Cleared]
Calls == [next : Manifest, todo : SUBSET Blobs, staged : BOOLEAN, blob : Blobs]

BootSteps == {"first", "firstSync", "verify", "mark", "rootSync"}
CallSteps == {"store", "fill", "syncFile", "syncBlobs", "syncUnlink",
              "publish", "syncRoot"}
SweepSteps == {"gc", "gcSync"}

Init ==
  /\ blobView = [b \in Blobs |-> "absent"]
  /\ blobDisk = [b \in Blobs |-> {"absent"}]
  /\ manView = None /\ manDisk = {None}
  /\ marker = FALSE /\ markDisk = {FALSE}
  /\ manifest = EmptyManifest
  /\ pc = "down" /\ booting = FALSE
  /\ call = NoCall /\ swept = FALSE
  /\ early = FALSE /\ undone = FALSE
  /\ acked = None /\ settled = None /\ outcome = "none"
  /\ faults = 0 /\ crashes = 0

-----------------------------------------------------------------------------
(* Files and directories *)

\* A blob's content and the outcomes of a power loss after a change.
SetBlob(b, state) ==
  /\ blobView' = [blobView EXCEPT ![b] = state]
  /\ blobDisk' = [blobDisk EXCEPT ![b] = @ \cup {state}]

\* syncDirectory(this.blobDirectory): which names exist is settled.
SyncBlobDirectory ==
  blobDisk' = [b \in Blobs |-> IF blobView[b] = "absent" THEN {"absent"}
                               ELSE blobDisk[b] \ {"absent"}]

\* syncDirectory(this.root)
SyncRootDirectory == manDisk' = {manView} /\ markDisk' = {marker}

\* moveFile of a synchronised temporary manifest over the manifest.
RenameManifest(m) == manView' = m /\ manDisk' = manDisk \cup {m}

-----------------------------------------------------------------------------
(* init *)

\* Mutant: The manifest that is missing stays undefined.
OpenUndefined ==
  /\ pc = "down" /\ swept' = FALSE
  /\ pc' = "verify" /\ booting' = TRUE /\ manifest' = manView
  /\ UNCHANGED <<disk, call, history, outcome, faults, crashes>>

\* init: without a manifest the store must be new; a manifest is loaded.
Open ==
  /\ pc = "down"
  /\ swept' = FALSE
  /\ IF manView = None
     THEN IF marker \/ \E b \in Blobs : blobView[b] # "absent"
          THEN pc' = "corrupt" /\ booting' = FALSE /\ UNCHANGED manifest
          ELSE pc' = "first" /\ booting' = TRUE /\ manifest' = EmptyManifest
     ELSE pc' = "verify" /\ booting' = TRUE /\ manifest' = manView
  /\ UNCHANGED <<disk, call, history, outcome, faults, crashes>>

\* init: publish(loaded) of a new store.
First ==
  /\ \/ pc = "first" /\ pc' = "firstSync" /\ RenameManifest(manifest)
        /\ UNCHANGED markDisk
     \/ pc = "firstSync" /\ pc' = "verify" /\ SyncRootDirectory
        /\ UNCHANGED manView
  /\ UNCHANGED <<blobView, blobDisk, marker, manifest, booting, call, swept,
                 history, outcome, faults, crashes>>

\* init: every file of the manifest is read back and compared with its hash.
Verify ==
  /\ pc = "verify"
  /\ IF \A b \in Refs(manifest) : blobView[b] = "whole"
     THEN pc' = "gc" /\ UNCHANGED booting
          /\ early' = (early \/ manDisk # {manView})
     ELSE pc' = "corrupt" /\ booting' = FALSE /\ UNCHANGED early
  /\ UNCHANGED <<disk, manifest, call, swept, undone, answers, outcome, faults,
                 crashes>>

\* init: the marker is renamed into place and the root synchronised.
Mark ==
  /\ pc = "mark"
  /\ pc' = "rootSync"
  /\ marker' = TRUE /\ markDisk' = markDisk \cup {TRUE}
  /\ UNCHANGED <<blobView, blobDisk, manView, manDisk, manifest, booting,
                 call, swept, history, outcome, faults, crashes>>

RootSync ==
  /\ pc = "rootSync"
  /\ pc' = "idle" /\ booting' = FALSE
  /\ SyncRootDirectory
  /\ early' = FALSE /\ acked' = manifest /\ settled' = manifest
  /\ UNCHANGED <<blobView, blobDisk, manView, marker, manifest, call, swept,
                 undone, outcome, faults, crashes>>

-----------------------------------------------------------------------------
(* collectGarbage, at the end of init and of every mutation *)

\* One unreferenced blob is removed, or none is left; the directory is
\* synchronised if any was removed.
Sweep ==
  /\ LET Last == pc' = IF booting THEN "mark" ELSE "done" IN
     \/ /\ pc = "gc"
        /\ \E b \in Blobs \ Refs(manifest) :
             blobView[b] # "absent" /\ SetBlob(b, "absent")
        /\ swept' = TRUE
        /\ UNCHANGED pc
     \/ /\ pc = "gc"
        /\ \A b \in Blobs \ Refs(manifest) : blobView[b] = "absent"
        /\ IF swept THEN pc' = "gcSync" ELSE Last
        /\ UNCHANGED <<blobView, blobDisk, swept>>
     \/ /\ pc = "gcSync"
        /\ SyncBlobDirectory /\ swept' = FALSE
        /\ Last
        /\ UNCHANGED blobView
  /\ UNCHANGED <<manView, manDisk, marker, markDisk, manifest, booting, call,
                 history, outcome, faults, crashes>>

-----------------------------------------------------------------------------
(* Mutations: mutate, its callers and publish *)

\* Mutant: The candidate keeps the current revision.
BeginSameRevision(files, u, todo, staged) ==
  /\ pc = "idle"
  /\ u \notin manifest.publications
  /\ call' = [next |-> [manifest EXCEPT !.files = files], todo |-> todo,
              staged |-> staged, blob |-> call.blob]
  /\ pc' = "store" /\ outcome' = "none"
  /\ UNCHANGED <<disk, manifest, booting, swept, history, faults, crashes>>

\* mutate: the caller's revision is current, its publication is new; the
\* blobs of the candidate are stored before it is published.
Begin(files, u, todo, staged) ==
  /\ pc = "idle"
  /\ manifest.revision < MaxRevision
  /\ u \notin manifest.publications
  /\ call' = [next |-> [revision |-> manifest.revision + 1, files |-> files,
                        publications |-> manifest.publications
                                         \cup ({u} \ {None})],
              todo |-> todo, staged |-> staged, blob |-> call.blob]
  /\ pc' = "store" /\ outcome' = "none"
  /\ UNCHANGED <<disk, manifest, booting, swept, history, faults, crashes>>

\* write, and writeStaged for a file uploaded beforehand
Write(p, b, u, staged) ==
  Begin([manifest.files EXCEPT ![p] = b], u, {b}, staged)

Remove(p, u) == manifest.files[p] # None
                /\ Begin([manifest.files EXCEPT ![p] = None], u, {}, FALSE)

Rename(p, q) ==
  /\ manifest.files[p] # None /\ manifest.files[q] = None
  /\ Begin([manifest.files EXCEPT ![p] = None, ![q] = manifest.files[p]],
           None, {}, FALSE)

\* mkdir, and setVisibility to private: no file changes
MakeDirectory == Begin(manifest.files, None, {}, FALSE)

\* setVisibility to public: notebooks that were private lose their outputs
Publicise(S) ==
  /\ \A p \in S : manifest.files[p] # None
  /\ Begin([p \in Paths |-> IF p \in S THEN Cleared ELSE manifest.files[p]],
           None, {Cleared}, FALSE)

\* retainPublications: the rest is forgotten, in a mutation of its own
RetainPublications(keep) ==
  /\ pc = "idle" /\ manifest.revision < MaxRevision
  /\ keep # manifest.publications
  /\ call' = [next |-> [manifest EXCEPT !.revision = @ + 1,
                                        !.publications = keep],
              todo |-> {}, staged |-> FALSE, blob |-> call.blob]
  /\ pc' = "store" /\ outcome' = "none"
  /\ UNCHANGED <<disk, manifest, booting, swept, history, faults, crashes>>

\* mutate, of a publication that is in the manifest: the answer comes from
\* memory, whether or not the directory could be synchronised before.
Answered(u) ==
  /\ pc = "idle"
  /\ u \in manifest.publications
  /\ outcome' = "ok" /\ acked' = manifest
  /\ settled' = IF manDisk = {manView} THEN manifest ELSE settled
  /\ UNCHANGED <<disk, manifest, pc, booting, call, swept, early, undone,
                 faults, crashes>>

\* The call throws; the queue goes on with the next one.
Throw(result) ==
  /\ outcome' = result
  /\ pc' = "idle"
  /\ swept' = FALSE

\* storeBlob, and the copy of writeStaged: an exclusive creation.  What is
\* already there is used if whole; storeBlob replaces a torn orphan.
Store ==
  /\ pc = "store"
  /\ IF call.todo = {} THEN /\ pc' = "publish"
                            /\ UNCHANGED <<blobView, blobDisk, call, swept, outcome>>
     ELSE \E b \in call.todo :
       /\ call' = [call EXCEPT !.blob = b]
       /\ \/ /\ blobView[b] = "absent" /\ SetBlob(b, "torn")
             /\ pc' = "fill" /\ UNCHANGED <<swept, outcome>>
          \/ /\ blobView[b] = "whole"
             /\ pc' = "syncFile" /\ UNCHANGED <<blobView, blobDisk, swept, outcome>>
          \/ /\ blobView[b] = "torn"
             /\ IF call.staged \/ b \in Refs(manifest)
                THEN Throw("corrupt") /\ UNCHANGED <<blobView, blobDisk>>
                ELSE /\ SetBlob(b, "absent")
                     /\ pc' = "syncUnlink" /\ UNCHANGED <<swept, outcome>>
  /\ UNCHANGED <<manView, manDisk, marker, markDisk, manifest, booting, history,
                 faults, crashes>>

\* Mutant: The blob is closed without being synchronised.
WriteBlobUnsynced ==
  /\ LET b == call.blob IN
     \/ /\ pc \in {"fill", "syncFile"} /\ pc' = "syncBlobs"
        /\ SetBlob(b, "whole") /\ UNCHANGED call
     \/ /\ pc \in {"syncBlobs", "syncUnlink"} /\ pc' = "store"
        /\ SyncBlobDirectory
        /\ call' = [call EXCEPT !.todo = IF pc = "syncBlobs" THEN @ \ {b} ELSE @]
        /\ UNCHANGED blobView
  /\ UNCHANGED <<manView, manDisk, marker, markDisk, manifest, booting, swept,
                 history, outcome, faults, crashes>>

\* storeBlob and writeStaged: content, its synchronisation, the directory's.
WriteBlob ==
  /\ LET b == call.blob IN
     \/ /\ pc = "fill" /\ pc' = "syncFile"
        /\ SetBlob(b, "whole") /\ UNCHANGED call
     \/ /\ pc = "syncFile" /\ pc' = "syncBlobs"
        /\ blobDisk' = [blobDisk EXCEPT ![b] = @ \ {"torn"}]
        /\ UNCHANGED <<blobView, call>>
     \/ /\ pc = "syncBlobs" /\ pc' = "store"
        /\ SyncBlobDirectory
        /\ call' = [call EXCEPT !.todo = @ \ {b}]
        /\ UNCHANGED blobView
     \/ /\ pc = "syncUnlink" /\ pc' = "store"
        /\ SyncBlobDirectory /\ UNCHANGED <<blobView, call>>
  /\ UNCHANGED <<manView, manDisk, marker, markDisk, manifest, booting, swept,
                 history, outcome, faults, crashes>>

\* Mutant: publish returns after the rename.
PublishUnsynced ==
  /\ pc = "publish" /\ pc' = "gc"
  /\ RenameManifest(call.next) /\ manifest' = call.next
  /\ UNCHANGED <<blobView, blobDisk, marker, markDisk, booting, call, swept,
                 history, outcome, faults, crashes>>

\* publish: memory follows the rename, before the directory is synchronised.
Publish ==
  /\ \/ /\ pc = "publish" /\ pc' = "syncRoot"
        /\ RenameManifest(call.next) /\ manifest' = call.next
        /\ UNCHANGED <<markDisk, settled>>
     \/ /\ pc = "syncRoot" /\ pc' = "gc"
        /\ SyncRootDirectory /\ settled' = acked
        /\ UNCHANGED <<manView, manifest>>
  /\ UNCHANGED <<blobView, blobDisk, marker, booting, call, swept, early,
                 undone, acked, outcome, faults, crashes>>

\* mutate returns its snapshot.
Return ==
  /\ pc = "done"
  /\ pc' = "idle" /\ outcome' = "ok"
  /\ acked' = manifest /\ settled' = manifest
  /\ UNCHANGED <<disk, manifest, booting, call, swept, early, undone, faults,
                 crashes>>

-----------------------------------------------------------------------------
(* Faults *)

\* An awaited call on a file or a directory fails and the mutation with it.
Fail ==
  /\ pc \in (CallSteps \cup SweepSteps) /\ ~booting
  /\ faults < MaxFaults /\ faults' = faults + 1
  /\ Throw("failed")
  /\ UNCHANGED <<disk, manifest, booting, call, history, crashes>>

\* The process ends, or init throws: what was visible stays visible.
Kill ==
  /\ pc \notin {"down", "corrupt"}
  /\ crashes < MaxCrashes /\ crashes' = crashes + 1
  /\ pc' = "down" /\ booting' = FALSE
  /\ outcome' = "none"
  /\ UNCHANGED <<disk, manifest, call, swept, history, faults>>

\* What was not synchronised may be gone.
PowerLoss ==
  /\ pc # "corrupt"
  /\ crashes < MaxCrashes /\ crashes' = crashes + 1
  /\ blobView' \in [Blobs -> FileStates]
  /\ \A b \in Blobs : blobView'[b] \in blobDisk[b]
  /\ blobDisk' = [b \in Blobs |-> {blobView'[b]}]
  /\ manView' \in manDisk /\ manDisk' = {manView'}
  /\ marker' \in markDisk /\ markDisk' = {marker'}
  /\ pc' = "down" /\ booting' = FALSE
  /\ undone' = (undone \/ (early /\ manView' # manView)) /\ early' = FALSE
  /\ outcome' = "none"
  /\ UNCHANGED <<manifest, call, swept, answers, faults>>

Mutate ==
  \/ \E p \in Paths, b \in Blobs, u \in Publications \cup {None}, s \in BOOLEAN :
       Write(p, b, u, s)
  \/ \E p \in Paths, u \in Publications \cup {None} : Remove(p, u)
  \/ \E p, q \in Paths : Rename(p, q)
  \/ MakeDirectory
  \/ \E S \in SUBSET Paths : S # {} /\ Publicise(S)
  \/ \E keep \in SUBSET manifest.publications : RetainPublications(keep)
  \/ \E u \in Publications : Answered(u)

Next ==
  \/ Open \/ First \/ Verify \/ Mark \/ RootSync
  \/ Sweep \/ Mutate \/ Store \/ WriteBlob \/ Publish \/ Return
  \/ Fail \/ Kill \/ PowerLoss

Spec == Init /\ [][Next]_vars

-----------------------------------------------------------------------------
(* Properties *)

\* Every variable keeps its type (persistentStorage.ts:18-23 and the steps of
\* init, storeBlob, publish and collectGarbage).
TypeOK ==
  /\ blobView \in [Blobs -> FileStates]
  /\ blobDisk \in [Blobs -> SUBSET FileStates]
  /\ manView \in Manifest \cup {None}
  /\ manDisk \subseteq Manifest \cup {None}
  /\ marker \in BOOLEAN /\ markDisk \subseteq BOOLEAN
  /\ manifest \in Manifest
  /\ pc \in {"down", "corrupt", "idle", "done"} \cup BootSteps \cup CallSteps
            \cup SweepSteps
  /\ booting \in BOOLEAN /\ swept \in BOOLEAN
  /\ early \in BOOLEAN /\ undone \in BOOLEAN
  /\ call \in Calls
  /\ acked \in Manifest \cup {None} /\ settled \in Manifest \cup {None}
  /\ outcome \in {"none", "ok", "failed", "corrupt"}
  /\ faults \in 0..MaxFaults /\ crashes \in 0..MaxCrashes

\* However init, mutations, failing calls and crashes interleave, the store
\* can be opened again: the manifest init finds refers to whole blobs only, and
\* it is never missing from a store that was in use (persistentStorage.ts:75-96;
\* "leaves either the previous or the complete new revision" at 31).  The
\* exception: init, after a process was killed between the rename (500) and the
\* synchronisation (503) of a manifest, removes what only the older manifest
\* needs (96) and sets the marker (101) before it synchronises the root (112);
\* a power loss in between that takes the rename back leaves an older manifest
\* without its blobs, or a marker without a manifest.
StoreStaysReadable == pc = "corrupt" => undone

NotOlder(m, n) == m = n \/ (m # None /\ m.revision > n.revision)

\* What a call was answered with is not lost: whatever a crash leaves is the
\* manifest of that answer or a later one (persistentStorage.ts:340-343,
\* 493-507), power losses during a restart included.  The exception: a
\* publication that is repeated after the synchronisation at 503 failed is
\* answered from memory (331), and until the root is next synchronised a power
\* loss may leave an older manifest, never one before the last answer that was
\* given with the root synchronised.
AckedSurvives ==
  acked # None => \A m \in manDisk \cup {manView} :
                    \/ NotOlder(m, acked)
                    \/ acked # settled /\ NotOlder(m, settled)

Durable(b) == blobDisk[b] = {"whole"}
Serving == pc \notin {"down", "corrupt"} /\ ~booting

\* What is seen may survive; every manifest that may be left refers to durable
\* blobs, or only the one that is seen while init collects early.
DiskInv ==
  /\ \A b \in Blobs : blobView[b] \in blobDisk[b]
  /\ manView \in manDisk /\ marker \in markDisk
  /\ manView = None => manDisk = {None}
  /\ ~undone => \A m \in manDisk \ {None} :
                  (~early \/ m = manView) => \A b \in Refs(m) : Durable(b)

\* A store without a manifest was never used.
FreshInv == ~undone =>
  /\ manView = None => /\ ~early /\ marker = FALSE /\ markDisk = {FALSE}
                       /\ \A b \in Blobs : blobDisk[b] = {"absent"}
  /\ None \in manDisk /\ ~early =>
       /\ pc \in {"down", "first", "firstSync", "verify"} /\ markDisk = {FALSE}
       /\ \A b \in Blobs : blobDisk[b] = {"absent"}

\* The manifest in memory is the one that is seen, and the only one left
\* before a mutation removes anything; init may remove earlier.
MemoryInv ==
  /\ pc \in {"idle", "done"} \cup CallSteps => ~booting
  /\ pc \in BootSteps => booting
  /\ Serving => ~early
  /\ pc = "first" => manView = None /\ manifest = EmptyManifest
  /\ pc = "firstSync" => manView = EmptyManifest
  /\ pc \notin {"down", "first", "corrupt"} => manView = manifest
  /\ pc \in SweepSteps \cup {"done", "mark", "rootSync"}
       => early \/ manDisk = {manView}

\* What callers see is no older than any answer; every answer is at least the
\* one that was last given with the root synchronised.
AnswerInv ==
  /\ acked = None <=> settled = None
  /\ settled # None => \A m \in manDisk \cup {manView} : NotOlder(m, settled)
  /\ Serving => acked # None /\ NotOlder(manView, acked)

\* What the candidate refers to is durable or still to be stored.
CallInv ==
  pc \in CallSteps \ {"syncRoot"} =>
    /\ call.next.revision = manifest.revision + 1
    /\ ~undone => \A b \in Refs(call.next) : b \in call.todo \/ Durable(b)
    /\ pc = "publish" => call.todo = {}
    /\ pc = "fill" => blobView[call.blob] = "torn"
    /\ pc \in {"syncFile", "syncBlobs"} => blobView[call.blob] = "whole"
    /\ pc = "syncBlobs" => "torn" \notin blobDisk[call.blob]

\* The inductive invariant behind StoreStaysReadable and AckedSurvives: init
\* and the steps of a mutation keep every manifest a crash may leave readable,
\* with the two exceptions above (persistentStorage.ts:54-114, 323-345,
\* 472-519).
RecoverInv == /\ StoreStaysReadable /\ DiskInv /\ FreshInv /\ MemoryInv
              /\ CallInv /\ AnswerInv

Store_ == INSTANCE WorkspaceStore WITH
            Manifests <- Manifest, Down <- None,
            visible <- IF Serving THEN manView ELSE None,
            survivors <- manDisk \ {None},
            opened <- acked # None

\* The store of blobs, renames and synchronisations behaves as one revisioned
\* manifest that calls replace and crashes preserve
\* (persistentStorage.ts:29-32).
ImplementsWorkspaceStore == Store_!Spec
=============================================================================
