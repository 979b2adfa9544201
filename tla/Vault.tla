-------------------------------- MODULE Vault --------------------------------
(***************************************************************************)
(* The mindcap vault (src/mindcap/vault): a directory of sealed packs and  *)
(* numbered, sealed catalog generations, written by `vault ingest` under   *)
(* an exclusive lock file and read by verify, inspect and restore.         *)
(*                                                                         *)
(* A file is atomic exactly where the code makes it atomic: a rename, or a *)
(* JSON document written to a temporary name and renamed.  A catalog is    *)
(* copied to a temporary name that the writers of one generation share, so *)
(* two of them may write one file at once.  A process may be killed, and a *)
(* call may raise, between any two of these steps.                         *)
(*                                                                         *)
(* Hashes are collision free, so the seal of a catalog generation is       *)
(* represented by the catalog it hashes, and a digest by its object.       *)
(***************************************************************************)
EXTENDS Integers

CONSTANTS
  Writers,       \* processes that run VaultService.ingest
  Recoverers,    \* processes that run VaultService.recover_stale_lock
  Bundles,       \* finalized archive bundles an adapter can discover
  Objects,       \* SHA-256 digests of the files in those bundles
  Identity,      \* Identity[b]: (provider, source_id, capture_version) of b
  Content,       \* Content[b]: the digests of the files of b
  Size,          \* Size[o]: byte size of o
  PackTarget,    \* pack_size_mib, in the unit of Size
  MaxPacks,      \* bound: pack ids that can be drawn
  MaxGen,        \* bound: catalog generations that can be written
  MaxFaults,     \* bound: exceptions and kills of writers
  CrashPhases,   \* phases in which the environment may kill a writer
  LongIngests,   \* may an ingestion outlive stale_lock_timeout (6 hours)?
  Tears,         \* contents no reader can open: a half-written or mixed copy
  NoLock, NoCatalog

PackIds == 1 .. MaxPacks
NoPack == 0
Gens == 1 .. MaxGen

(* What a catalog database holds: the archive units, the packs table, the  *)
(* object_locations table and, in ingestion_runs, the run that wrote it.   *)
Catalog == [bundles : SUBSET Bundles,
            packs   : SUBSET PackIds,
            where   : [Objects -> PackIds \cup {NoPack}],
            by      : Writers]

(* incomplete/writer.lock.json: written is false while the file is still   *)
(* empty, stale once its created_at is older than the timeout.             *)
Lock == [owner : Writers, written : BOOLEAN, stale : BOOLEAN]

Phases == {"idle", "locking", "loading", "planning", "packing", "sealing",
           "publishing", "copying", "copied", "replaced", "receipt", "releasing"}

ASSUME ConstantsAssumption ==
  /\ Content \in [Bundles -> SUBSET Objects]
  /\ DOMAIN Identity = Bundles
  /\ Size \in [Objects -> Nat]
  /\ PackTarget \in Nat
  /\ MaxPacks \in Nat /\ MaxGen \in Nat /\ MaxFaults \in Nat
  /\ CrashPhases \subseteq Phases \ {"idle"}
  /\ LongIngests \in BOOLEAN
  /\ NoLock \notin Lock
  /\ NoCatalog \notin Catalog \cup Tears
  /\ Tears # {} /\ Tears \cap Catalog = {}

VARIABLES
  (* the vault directory *)
  meta,        \* vault.json exists
  lock,        \* incomplete/writer.lock.json
  packStage,   \* absent, incomplete/*.partial.zip, packs/*.zip, packs/ + seal
  packHolds,   \* the members of each pack file
  partial,     \* incomplete/catalog-N.partial.sqlite3
  cat,         \* catalog/generations/catalog-N.sqlite3
  seal,        \* catalog/generations/catalog-N.seal.json
  receipts,    \* imports/import-*.json
  (* local variables of ingest *)
  phase,       \* the step the writer is about to take
  plan,        \* planned_archives
  base,        \* generation of the catalog read as the latest one, 0 if none
  where,       \* reusable_locations
  seals,       \* reusable_pack_seals and the packs sealed by this run
  todo,        \* unique_objects not written yet
  cur, fill,   \* PackWriter._current and its estimated_size
  staged,      \* the staged database
  file,        \* where the file opened by shutil.copy2 is: still the partial
               \* copy, published by another's rename, or unlinked by one
  mixed,       \* another writer has been writing that file at the same time
  (* local state of recover_stale_lock, and the fault budget *)
  recovering,  \* has read a stale lock and is about to unlink it
  faults

disk == <<meta, packStage, packHolds, partial, cat, seal, receipts>>
locals == <<plan, base, where, seals, todo, cur, fill, staged, file, mixed>>
vars == <<disk, lock, phase, locals, recovering, faults>>

Nowhere == [o \in Objects |-> NoPack]

Init ==
  /\ meta = FALSE
  /\ lock = NoLock
  /\ packStage = [p \in PackIds |-> "absent"]
  /\ packHolds = [p \in PackIds |-> {}]
  /\ partial = [g \in Gens |-> NoCatalog]
  /\ cat = [g \in Gens |-> NoCatalog]
  /\ seal = [g \in Gens |-> NoCatalog]
  /\ receipts = {}
  /\ phase = [w \in Writers |-> "idle"]
  /\ plan = [w \in Writers |-> {}]
  /\ base = [w \in Writers |-> 0]
  /\ where = [w \in Writers |-> Nowhere]
  /\ seals = [w \in Writers |-> {}]
  /\ todo = [w \in Writers |-> {}]
  /\ cur = [w \in Writers |-> NoPack]
  /\ fill = [w \in Writers |-> 0]
  /\ staged = [w \in Writers |-> NoCatalog]
  /\ file = [w \in Writers |-> "closed"]
  /\ mixed = [w \in Writers |-> FALSE]
  /\ recovering = [r \in Recoverers |-> FALSE]
  /\ faults = 0
-----------------------------------------------------------------------------
(* Readers: load_latest_valid_catalog and load_pack_index *)

Valid(g) == cat[g] # NoCatalog /\ seal[g] = cat[g]

(* Mutant: an unsealed generation hides the valid ones below it. *)
LatestGenNoFallback ==
  IF \E g \in Gens : Valid(g) /\ \A h \in Gens : cat[h] # NoCatalog => h <= g
    THEN CHOOSE g \in Gens : Valid(g) /\ \A h \in Gens : Valid(h) => h <= g
    ELSE 0

LatestGen ==
  IF \E g \in Gens : Valid(g)
    THEN CHOOSE g \in Gens : Valid(g) /\ \A h \in Gens : Valid(h) => h <= g
    ELSE 0

(* sqlite cannot open these; a reader of one raises. *)
TornGens == {g \in Gens : cat[g] \in Tears}

LatestBundles == IF LatestGen \in {0} \cup TornGens THEN {} ELSE cat[LatestGen].bundles

(* Mutant: the index lists packs/*.zip, sealed or not. *)
PlacedPacks == {p \in PackIds : packStage[p] \in {"placed", "sealed"}}

SealedPacks == {p \in PackIds : packStage[p] = "sealed"}

FilesOf(B) == UNION {Content[b] : b \in B}

UniqueIdentities(B) == \A a, b \in B : Identity[a] = Identity[b] => a = b
-----------------------------------------------------------------------------
(* The writer lock *)

Goto(w, ph) == phase' = [phase EXCEPT ![w] = ph]

ForgetLocals(w) ==
  /\ plan' = [plan EXCEPT ![w] = {}]
  /\ base' = [base EXCEPT ![w] = 0]
  /\ where' = [where EXCEPT ![w] = Nowhere]
  /\ seals' = [seals EXCEPT ![w] = {}]
  /\ todo' = [todo EXCEPT ![w] = {}]
  /\ cur' = [cur EXCEPT ![w] = NoPack]
  /\ fill' = [fill EXCEPT ![w] = 0]
  /\ staged' = [staged EXCEPT ![w] = NoCatalog]
  /\ file' = [file EXCEPT ![w] = "closed"]
  /\ mixed' = [mixed EXCEPT ![w] = FALSE]

(* os.open(O_CREAT | O_EXCL) creates an empty lock file.  If one exists,   *)
(* stale or not, ingest raises and nothing changes.                        *)
Acquire(w) ==
  /\ phase[w] = "idle"
  /\ lock = NoLock
  /\ lock' = [owner |-> w, written |-> FALSE, stale |-> FALSE]
  /\ Goto(w, "locking")
  /\ UNCHANGED <<disk, locals, recovering, faults>>

(* The descriptor may belong to a file somebody has unlinked meanwhile. *)
WriteLockInfo(w) ==
  /\ phase[w] = "locking"
  /\ lock' = IF lock # NoLock /\ lock.owner = w
               THEN [lock EXCEPT !.written = TRUE] ELSE lock
  /\ Goto(w, "loading")
  /\ UNCHANGED <<disk, locals, recovering, faults>>

(* _writer_lock's finally: the lock file is unlinked whoever owns it. *)
Release(w) ==
  /\ phase[w] = "releasing"
  /\ lock' = NoLock
  /\ Goto(w, "idle")
  /\ ForgetLocals(w)
  /\ UNCHANGED <<disk, recovering, faults>>

(* Staleness is the age of created_at, never the liveness of the owner.    *)
(* Unless an ingestion may outlive the timeout, only the lock of a killed  *)
(* writer grows that old.                                                  *)
LockGrowsStale ==
  /\ lock # NoLock /\ lock.written /\ ~lock.stale
  /\ LongIngests \/ phase[lock.owner] = "idle"
  /\ lock' = [lock EXCEPT !.stale = TRUE]
  /\ UNCHANGED <<disk, phase, locals, recovering, faults>>

(* Mutant: any readable lock is recovered. *)
RecoverReadAnyAge(r) ==
  /\ ~recovering[r]
  /\ lock # NoLock /\ lock.written
  /\ recovering' = [recovering EXCEPT ![r] = TRUE]
  /\ UNCHANGED <<disk, lock, phase, locals, faults>>

(* recover_stale_lock reads the lock file: an unreadable or empty one      *)
(* makes it return, a fresh one makes it raise.                            *)
RecoverRead(r) ==
  /\ ~recovering[r]
  /\ lock # NoLock /\ lock.written /\ lock.stale
  /\ recovering' = [recovering EXCEPT ![r] = TRUE]
  /\ UNCHANGED <<disk, lock, phase, locals, faults>>

RecoverUnlink(r) ==
  /\ recovering[r]
  /\ lock' = NoLock
  /\ recovering' = [recovering EXCEPT ![r] = FALSE]
  /\ UNCHANGED <<disk, phase, locals, faults>>
-----------------------------------------------------------------------------
(* Planning *)

(* vault.json is created or read, the latest valid catalog is loaded, and  *)
(* the bundles S of the source whose identity it knows are left out.  Two  *)
(* bundles of S may carry one identity: the set is not updated per bundle. *)
(* A torn catalog that matches its seal raises instead.                    *)
LoadCatalog(w, S) ==
  LET g     == IF meta THEN LatestGen ELSE 0
      known == IF g = 0 THEN {} ELSE cat[g].bundles
  IN
  /\ phase[w] = "loading"
  /\ meta' = TRUE
  /\ IF g \in TornGens
       THEN Goto(w, "releasing") /\ UNCHANGED <<base, where, plan>>
       ELSE /\ base' = [base EXCEPT ![w] = g]
            /\ where' = [where EXCEPT ![w] = IF g = 0 THEN Nowhere ELSE cat[g].where]
            /\ plan' = [plan EXCEPT ![w] =
                          {b \in S : \A k \in known : Identity[k] # Identity[b]}]
            /\ Goto(w, "planning")
  /\ UNCHANGED <<packStage, packHolds, partial, cat, seal, receipts, lock, seals,
                 todo, cur, fill, staged, file, mixed, recovering, faults>>

(* Mutant: objects are looked up in the catalog only. *)
ReusableFromCatalog(w) == where[w]

(* Where an object can be reused from: the catalog's location, or else     *)
(* that of the first sealed pack holding it.                               *)
Reusable(w) ==
  [o \in Objects |->
     IF where[w][o] # NoPack THEN where[w][o]
     ELSE IF \E p \in SealedPacks : o \in packHolds[p]
          THEN CHOOSE p \in SealedPacks : o \in packHolds[p]
          ELSE NoPack]

(* Mutant: the seals of the indexed packs are not kept. *)
LoadIndexWithoutSeals(w) ==
  /\ phase[w] = "planning"
  /\ IF plan[w] = {}
       THEN Goto(w, "releasing") /\ UNCHANGED <<where, todo>>
       ELSE /\ where' = [where EXCEPT ![w] = Reusable(w)]
            /\ todo' = [todo EXCEPT ![w] =
                          {o \in FilesOf(plan[w]) : Reusable(w)[o] = NoPack}]
            /\ Goto(w, "packing")
  /\ UNCHANGED <<disk, lock, seals, plan, base, cur, fill, staged, file, mixed,
                 recovering, faults>>

(* The pack index is loaded and validated, and the objects to write are    *)
(* planned; with no new bundle the ingestion is over.                      *)
LoadIndex(w) ==
  /\ phase[w] = "planning"
  /\ IF plan[w] = {}
       THEN /\ Goto(w, "releasing")
            /\ UNCHANGED <<where, seals, todo>>
       ELSE /\ where' = [where EXCEPT ![w] = Reusable(w)]
            /\ seals' = [seals EXCEPT ![w] = SealedPacks]
            /\ todo' = [todo EXCEPT ![w] =
                          {o \in FilesOf(plan[w]) : Reusable(w)[o] = NoPack}]
            /\ Goto(w, "packing")
  /\ UNCHANGED <<disk, lock, plan, base, cur, fill, staged, file, mixed, recovering,
                 faults>>
-----------------------------------------------------------------------------
(* Pack writing *)

NeedsRotation(w, o) ==
  /\ packHolds[cur[w]] # {}
  /\ fill[w] + Size[o] > PackTarget

(* add_object into the open pack, or into a new one under incomplete/.     *)
(* Pack ids carry a fresh uuid, so a new pack is one never drawn before.   *)
AddObject(w, o) ==
  /\ phase[w] = "packing"
  /\ o \in todo[w]
  /\ \E p \in PackIds :
       /\ IF cur[w] = NoPack
            THEN packStage[p] = "absent" /\ \A q \in 1 .. p - 1 : packStage[q] # "absent"
            ELSE p = cur[w] /\ ~NeedsRotation(w, o)
       /\ packStage' = [packStage EXCEPT ![p] = "incomplete"]
       /\ packHolds' = [packHolds EXCEPT ![p] = @ \cup {o}]
       /\ cur' = [cur EXCEPT ![w] = p]
       /\ fill' = [fill EXCEPT ![w] = @ + Size[o]]
       /\ where' = [where EXCEPT ![w][o] = p]
  /\ todo' = [todo EXCEPT ![w] = @ \ {o}]
  /\ UNCHANGED <<meta, partial, cat, seal, receipts, lock, phase, plan, base,
                 seals, staged, file, mixed, recovering, faults>>

(* _seal_current, first half: the closed ZIP is moved into packs/. *)
PlacePack(w) ==
  /\ phase[w] = "packing"
  /\ cur[w] # NoPack
  /\ todo[w] = {} \/ \E o \in todo[w] : NeedsRotation(w, o)
  /\ packStage' = [packStage EXCEPT ![cur[w]] = "placed"]
  /\ Goto(w, "sealing")
  /\ UNCHANGED <<meta, packHolds, partial, cat, seal, receipts, lock, locals,
                 recovering, faults>>

(* Mutant: a sealed pack leaves the size beyond the target to the next one. *)
SealPackCarriesOver(w) ==
  /\ phase[w] = "sealing"
  /\ packStage' = [packStage EXCEPT ![cur[w]] = "sealed"]
  /\ seals' = [seals EXCEPT ![w] = @ \cup {cur[w]}]
  /\ cur' = [cur EXCEPT ![w] = NoPack]
  /\ fill' = [fill EXCEPT ![w] = @ - PackTarget]
  /\ Goto(w, "packing")
  /\ UNCHANGED <<meta, packHolds, partial, cat, seal, receipts, lock, plan,
                 base, where, todo, staged, file, mixed, recovering, faults>>

(* _seal_current, second half: hash, validate, write the seal. *)
SealPack(w) ==
  /\ phase[w] = "sealing"
  /\ packStage' = [packStage EXCEPT ![cur[w]] = "sealed"]
  /\ seals' = [seals EXCEPT ![w] = @ \cup {cur[w]}]
  /\ cur' = [cur EXCEPT ![w] = NoPack]
  /\ fill' = [fill EXCEPT ![w] = 0]
  /\ Goto(w, "packing")
  /\ UNCHANGED <<meta, packHolds, partial, cat, seal, receipts, lock, plan,
                 base, where, todo, staged, file, mixed, recovering, faults>>
-----------------------------------------------------------------------------
(* Catalog staging and publication *)

(* Mutant: every staged database starts empty. *)
BaseCatalogEmpty(w) == [bundles |-> {}, packs |-> {}, where |-> Nowhere, by |-> w]

(* The database prepare_staged_database copies: the file of the base       *)
(* generation as it is on disk now, or a new database.                     *)
BaseCatalog(w) ==
  IF base[w] = 0
    THEN [bundles |-> {}, packs |-> {}, where |-> Nowhere, by |-> w]
    ELSE cat[base[w]]

(* The packs record_pack_seal is called for. *)
Recorded(w) == {where[w][o] : o \in FilesOf(plan[w])} \cap seals[w]

StagedCatalog(w) ==
  [bundles |-> BaseCatalog(w).bundles \cup plan[w],
   packs   |-> BaseCatalog(w).packs \cup Recorded(w),
   where   |-> [o \in Objects |->
                  IF BaseCatalog(w).where[o] # NoPack THEN BaseCatalog(w).where[o]
                  ELSE IF \E p \in Recorded(w) : o \in packHolds[p]
                       THEN CHOOSE p \in Recorded(w) : o \in packHolds[p]
                       ELSE NoPack],
   by      |-> w]

(* UNIQUE(provider, source_id, capture_version) on archive_units *)
UnitsInsertable(w) ==
  /\ UniqueIdentities(plan[w])
  /\ \A b \in plan[w], k \in BaseCatalog(w).bundles : Identity[b] # Identity[k]

(* the foreign key of archive_files to objects *)
ObjectsKnown(w) ==
  \A o \in FilesOf(plan[w]) : StagedCatalog(w).where[o] # NoPack

(* Mutant: the highest generation is written again. *)
NextGenerationReused(w) == IF base[w] = 0 THEN 1 ELSE base[w]

NextGeneration(w) == base[w] + 1

ReadyToStage(w) == phase[w] = "packing" /\ todo[w] = {} /\ cur[w] = NoPack

(* The base is copied as it is on disk now, and has to be a database. *)
BaseReadable(w) == base[w] \notin TornGens

Accepted(w) == BaseReadable(w) /\ UnitsInsertable(w) /\ ObjectsKnown(w)

Stage(w) ==
  /\ ReadyToStage(w)
  /\ Accepted(w)
  /\ NextGeneration(w) <= MaxGen
  /\ staged' = [staged EXCEPT ![w] = StagedCatalog(w)]
  /\ Goto(w, "publishing")
  /\ UNCHANGED <<disk, lock, plan, base, where, seals, todo, cur, fill, file, mixed,
                 recovering, faults>>

(* sqlite3.DatabaseError: the staging directory is removed, the packs      *)
(* sealed by this run stay behind as orphans.                              *)
StageRejected(w) ==
  /\ ReadyToStage(w)
  /\ ~Accepted(w)
  /\ Goto(w, "releasing")
  /\ UNCHANGED <<disk, lock, locals, recovering, faults>>

(* The other writers that are writing the copy w would open.               *)
Sharers(w) ==
  {v \in Writers : /\ v # w /\ phase[v] = "copying" /\ file[v] = "partial"
                   /\ NextGeneration(v) = NextGeneration(w)}

(* shutil.copy2, first half: the temporary, named for the generation only, *)
(* is created, or emptied if it is there, whoever else is writing it.      *)
OpenCopy(w) ==
  /\ phase[w] = "publishing"
  /\ \E t \in Tears : partial' = [partial EXCEPT ![NextGeneration(w)] = t]
  /\ file' = [file EXCEPT ![w] = "partial"]
  /\ mixed' = [v \in Writers |->
                 mixed[v] \/ (Sharers(w) # {} /\ v \in Sharers(w) \cup {w})]
  /\ Goto(w, "copying")
  /\ UNCHANGED <<meta, packStage, packHolds, cat, seal, receipts, lock, plan, base,
                 where, seals, todo, cur, fill, staged, recovering, faults>>

(* The copy is written and closed, wherever its file is by now.  With two  *)
(* writers in one file, any mixture may be left.  copy2 ends with the      *)
(* times of the temporary's name and raises when nothing has that name.    *)
CopyCatalog(w) ==
  LET g == NextGeneration(w) IN
  /\ phase[w] = "copying"
  /\ \E c \in {staged[w]} \cup (IF mixed[w] THEN Tears ELSE {}) :
       /\ partial' = IF file[w] = "partial" THEN [partial EXCEPT ![g] = c] ELSE partial
       /\ cat' = IF file[w] = "published" THEN [cat EXCEPT ![g] = c] ELSE cat
  /\ Goto(w, IF partial[g] = NoCatalog THEN "releasing" ELSE "copied")
  /\ UNCHANGED <<meta, packStage, packHolds, seal, receipts, lock, locals,
                 recovering, faults>>

(* The rename of the temporary copy: it replaces any file of that name,    *)
(* and raises when another writer of the same generation has moved it.  A  *)
(* writer still copying goes on writing the file it has opened.            *)
ReplaceCatalog(w) ==
  LET g == NextGeneration(w) IN
  /\ phase[w] = "copied"
  /\ IF partial[g] = NoCatalog
       THEN Goto(w, "releasing") /\ UNCHANGED <<cat, partial, file>>
       ELSE /\ cat' = [cat EXCEPT ![g] = partial[g]]
            /\ partial' = [partial EXCEPT ![g] = NoCatalog]
            /\ file' = [v \in Writers |->
                          IF phase[v] = "copying" /\ NextGeneration(v) = g
                            THEN IF file[v] = "partial" THEN "published" ELSE "unlinked"
                            ELSE file[v]]
            /\ Goto(w, "replaced")
  /\ UNCHANGED <<meta, packStage, packHolds, seal, receipts, lock, plan, base, where,
                 seals, todo, cur, fill, staged, mixed, recovering, faults>>

(* The seal hashes the published file as it is on disk. *)
SealCatalog(w) ==
  LET g == NextGeneration(w) IN
  /\ phase[w] = "replaced"
  /\ seal' = [seal EXCEPT ![g] = cat[g]]
  /\ Goto(w, "receipt")
  /\ UNCHANGED <<meta, packStage, packHolds, partial, cat, receipts, lock,
                 locals, recovering, faults>>

(* Mutant: the receipt is written before the catalog is sealed. *)
WriteReceiptEarly(w) ==
  /\ phase[w] \in {"replaced", "receipt"}
  /\ receipts' = receipts \cup {[gen |-> NextGeneration(w), bundles |-> plan[w]]}
  /\ Goto(w, "releasing")
  /\ UNCHANGED <<meta, packStage, packHolds, partial, cat, seal, lock, locals,
                 recovering, faults>>

(* The final verify_vault only reads. *)
WriteReceipt(w) ==
  /\ phase[w] = "receipt"
  /\ receipts' = receipts \cup {[gen |-> NextGeneration(w), bundles |-> plan[w]]}
  /\ Goto(w, "releasing")
  /\ UNCHANGED <<meta, packStage, packHolds, partial, cat, seal, lock, locals,
                 recovering, faults>>
-----------------------------------------------------------------------------
(* Faults *)

(* Any exception under the lock (OSError, SourceMutationError, an invalid  *)
(* bundle, a Ctrl-C) unwinds to _writer_lock's finally.                    *)
Fail(w) ==
  /\ faults < MaxFaults
  /\ phase[w] \notin {"idle", "locking", "releasing"}
  /\ faults' = faults + 1
  /\ Goto(w, "releasing")
  /\ UNCHANGED <<disk, lock, locals, recovering>>

(* The process is killed: its files stay, its locals are gone.  An         *)
(* exception while the lock's JSON is being written has the same effect,   *)
(* that code being outside the try.                                        *)
Crash(w) ==
  /\ faults < MaxFaults
  /\ phase[w] \in CrashPhases
  /\ faults' = faults + 1
  /\ Goto(w, "idle")
  /\ ForgetLocals(w)
  /\ UNCHANGED <<disk, lock, recovering>>
-----------------------------------------------------------------------------
(* What the code of ingest does once it holds the lock. *)
Work(w) ==
  \/ WriteLockInfo(w)
  \/ \E S \in SUBSET Bundles : LoadCatalog(w, S)
  \/ LoadIndex(w)
  \/ \E o \in Objects : AddObject(w, o)
  \/ PlacePack(w)
  \/ SealPack(w)
  \/ Stage(w)
  \/ StageRejected(w)
  \/ OpenCopy(w)
  \/ CopyCatalog(w)
  \/ ReplaceCatalog(w)
  \/ SealCatalog(w)
  \/ WriteReceipt(w)
  \/ Release(w)

Recover(r) == RecoverRead(r) \/ RecoverUnlink(r)

Next ==
  \/ \E w \in Writers : Acquire(w) \/ Work(w) \/ Fail(w) \/ Crash(w)
  \/ LockGrowsStale
  \/ \E r \in Recoverers : Recover(r)

Spec == Init /\ [][Next]_vars

(* A running ingestion keeps running; a user re-runs it on the whole       *)
(* source, and recovers the lock once the six hours have passed.           *)
Fairness ==
  /\ \A w \in Writers : WF_vars(Work(w)) /\ WF_vars(Acquire(w))
  /\ SF_vars(\E w \in Writers : LoadCatalog(w, Bundles))
  /\ WF_vars(LockGrowsStale)
  /\ \A r \in Recoverers : WF_vars(Recover(r))

FairSpec == Spec /\ Fairness
-----------------------------------------------------------------------------
(* Properties *)

Artifact == Catalog \cup Tears \cup {NoCatalog}

TypeOK ==
  /\ meta \in BOOLEAN
  /\ lock \in Lock \cup {NoLock}
  /\ packStage \in [PackIds -> {"absent", "incomplete", "placed", "sealed"}]
  /\ packHolds \in [PackIds -> SUBSET Objects]
  /\ partial \in [Gens -> Artifact]
  /\ cat \in [Gens -> Artifact]
  /\ seal \in [Gens -> Artifact]
  /\ receipts \subseteq [gen : Nat, bundles : SUBSET Bundles]
  /\ phase \in [Writers -> Phases]
  /\ plan \in [Writers -> SUBSET Bundles]
  /\ base \in [Writers -> {0} \cup Gens]
  /\ where \in [Writers -> [Objects -> PackIds \cup {NoPack}]]
  /\ seals \in [Writers -> SUBSET PackIds]
  /\ todo \in [Writers -> SUBSET Objects]
  /\ cur \in [Writers -> PackIds \cup {NoPack}]
  /\ fill \in [Writers -> Nat]
  /\ staged \in [Writers -> Artifact]
  /\ file \in [Writers -> {"closed", "partial", "published", "unlinked"}]
  /\ mixed \in [Writers -> BOOLEAN]
  /\ recovering \in [Recoverers -> BOOLEAN]
  /\ faults \in 0 .. MaxFaults

(* Every file of every unit of c is an object located in a recorded,       *)
(* sealed pack that holds it, and no two units of c share an identity.     *)
Closed(c, stage, holds) ==
  /\ UniqueIdentities(c.bundles)
  /\ \A o \in FilesOf(c.bundles) : c.where[o] # NoPack
  /\ \A o \in Objects : c.where[o] # NoPack =>
       c.where[o] \in c.packs /\ o \in holds[c.where[o]]
  /\ \A p \in c.packs : stage[p] = "sealed"

(* While ingestions exclude one another, every catalog file, sealed or     *)
(* left behind unsealed, is whole and refers to nothing but sealed packs,  *)
(* however writers fail and crash: whatever generation a reader picks,     *)
(* restore and deep verification find every object, and its inner joins    *)
(* drop no file.  Writers that overlap share the temporary copy, and no    *)
(* catalog is safe from them (_publish_catalog_generation).                *)
CatalogsClosed ==
  \A g \in Gens : cat[g] # NoCatalog =>
    g \notin TornGens /\ Closed(cat[g], packStage, packHolds)

(* Between writing its lock and leaving the lock's scope a writer is alone *)
(* (_writer_lock).                                                         *)
WriterExclusion ==
  \A v, w \in Writers : phase[v] # "idle" /\ phase[w] # "idle" => v = w

(* What planning deduplicated against (catalog, orphaned packs, this run)  *)
(* is what staging records: the database accepts every plan that does not  *)
(* itself hold two bundles of one identity.                                *)
PlansAccepted ==
  \A w \in Writers :
    ReadyToStage(w) /\ UniqueIdentities(plan[w]) => Accepted(w)

(* A sealed catalog generation is never rewritten, nor its seal            *)
(* (_publish_catalog_generation overwrites whatever file has its name).    *)
SealedCatalogsImmutable ==
  [][\A g \in Gens : Valid(g) => cat'[g] = cat[g] /\ seal'[g] = seal[g]]_<<cat, seal>>

(* What an import receipt claims can be read from the latest catalog. *)
ReceiptsDurable == \A r \in receipts : r.bundles \subseteq LatestBundles

(* An object is written once: sealed packs are disjoint, over all runs and *)
(* the packs that failed runs left behind.                                 *)
ObjectsStoredOnce ==
  \A p, q \in SealedPacks : p # q => packHolds[p] \cap packHolds[q] = {}

(* Every ingestion a reader can see is one step of the ledger. *)
Ledger == INSTANCE VaultLedger WITH imported <- LatestBundles

LedgerSpec == Ledger!Spec

(* A lock left behind by a killed writer can be recovered, since "stale    *)
(* writer locks require explicit recovery" (recover_stale_lock).           *)
AbandonedLocksRecovered ==
  (lock # NoLock /\ phase[lock.owner] = "idle") ~> (lock = NoLock)

(* Faults are finite, so the source is eventually imported as a whole. *)
EventuallyImported == <>(LatestBundles = Bundles)
=============================================================================
