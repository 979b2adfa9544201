# Verification of mindcap

TLA+ models of the parts of mindcap whose correctness depends on order,
failure and concurrency, the TLC runs that check them on small instances, and
TLAPS proofs of their main invariants for every instance. Paths are relative
to the repository; `service.py:535` and the like are below `src/mindcap/`.

## 1. The system

mindcap captures what a person keeps at a provider (ChatGPT conversations,
Suno workspaces, SoundCloud, DistroKid releases, Chrome bookmarks) into
immutable, versioned archive directories. `mindcap sync` captures a whole
collection and can be resumed; `mindcap vault ingest` packs finished archives
into a deduplicated vault. It is a library and a command line: there is no
server and there are no threads. Concurrency comes from separate processes on
one file system, from signal handlers, and from processes that are killed.

| component | state it keeps | operations | interacts with |
|---|---|---|---|
| vault (`vault/service.py`, `packs.py`, `catalog.py`, `verifier.py`, `layout.py`, `receipts.py`, `restore.py`) | a directory: `vault.json`, packs and their seals, numbered SQLite catalogs and their seals, receipts, `incomplete/` with the writer lock | create, ingest, inspect, verify, restore, recover_stale_lock | adapters hand it bundles; processes share the directory |
| vault adapters (`vault/ingest.py`, `plugins/suno/archive/vault.py`) | none | discover bundles, read them | called by ingest |
| artifact store backends (`vault/backends`) | a directory of files | put, get, publish_immutable | nothing calls them yet |
| batch sync runner (`sync/runner.py`, `models.py`) | one `BatchRunState` in memory, `_interrupted` | run, signal handler | discovery strategy, plan, plugin capture and storage, run storage |
| run storage and locks (`sync/run_storage.py`, `checkpoint.py`, `locks.py`) | `run.json`, `checkpoint.json`, plan, event logs, reports, `run.lock` | save, load, list, find_resumable; acquire, release | runner; the command line reads it to resume |
| plan and cache (`sync/plan.py`, `cache.py`) | none | classify each source, decide whether a capture can be skipped | runner, archive directories |
| archive storage (`storage/filesystem.py`, the plugins' `archive/`) | per source: versions, `latest.json`, a history, a staging directory | persist, verify | plugins, runner, cache |
| plugins (`plugins/*`) | a session with a provider | discover a collection, capture, normalize, render | runner, facade |
| application facade (`application/facade.py`) | none | wires the above | command line |
| core and contracts (`core`, `contracts`) | none shared | hashing, errors, value objects, progress | everything |
| Google Drive (`integrations/google_drive`, `vault/backends/google_drive`) | none | every call raises | nothing |
| command line (`src/mindcap_cli`) | none | arguments in, text out; resume selection | facade, VaultService, SyncRunner |

What is hard in each, and what makes it correct:

* **vault**: two ingestions, or an ingestion and a recovery of a stale lock, on
  one directory; an exception or a kill between any two file operations; packs
  and catalogs that a failed run leaves behind and the next one finds. Correct
  means: one writer at a time; whatever catalog a reader picks, every object it
  names is in a sealed pack; a sealed generation is never rewritten; what has
  been imported stays imported; a retry neither stores an object twice nor
  fails because of what the last attempt left.
* **batch sync runner**: a signal arrives at any instruction, also inside the
  save that the handler then repeats; a kill between two saves; errors in
  discovery, capture, event logs and saves; resuming from whatever `run.json`
  holds. Correct means: a run that says it is over leaves nothing behind;
  `run.json` never claims a capture that has no archive; it is readable and
  says how the run ended; one bad source does not stop the others; a resumed
  run finishes.
* **run lock**: read, decide and write are three steps; the owner is known by
  its PID only, which may be dead, or somebody else's by now. Correct means:
  two processes never work on one run, and a dead one keeps nobody out.
* **plan and cache**: a capture may be skipped only with five pieces of
  evidence; each may be stale. Correct means: what is skipped is archived whole
  and has not changed since.
* **archive storage**: a kill between the rename of a version, the history and
  the latest pointer; verification after publication; one staging directory
  per source. Correct means: the pointer names a version that is there and
  whole, versions are numbered without a gap and never changed, and *passed*
  means that the files were looked at.
* **plugins**: paging through a collection with cursors that repeat, end early
  or never end; tokens that expire within a request; redirects; partial
  downloads; a browser that outlives the command, or whose port file outlives
  it; a file read while Chrome writes it; a conversation graph that is no
  tree. Correct means: what is called complete is complete, credentials stay
  with their origin, and nothing is left running.
* **facade and command line**: an import that is killed is run again on the
  same export; `--resume` looks for its run before it has the run's lock.

`PROJECT.json` lists these hazards line by line, each with the properties that
cover it and, where they cover it in part, what they leave out.

## 2. Modules

| module | models |
|---|---|
| `Vault` | ingest with every durable step, the writer lock, stale-lock recovery, the readers' choice of a generation |
| `VaultLedger` | what the vault promises its readers; `Vault` implements it with `imported <- LatestBundles` |
| `VaultRestore` | the restoration of a unit, file by file |
| `SyncRun` | a batch run, its signal handler, its errors, kills and resumption |
| `SyncPlan` | the plan of a run and the cache decision |
| `RunLock` | the lock file of a run directory |
| `SyncCommand` | which run a `mindcap sync` executes |
| `ArchiveStore` | the versioned archive of one source, as the five storage strategies persist and verify it |
| `ArchiveLedger` | what an archive promises; `ArchiveStore` implements it with the versions published so far |
| `CollectionDiscovery` | the loops that page through a collection, and the run that follows |
| `SunoClient`, `SunoCapture` | the authentication of a request; the capture of a workspace, which extends it |
| `SoundCloudCapture` | the capture of a track, a playlist or an account |
| `BrowserSession` | the commands of ChatGPT and DistroKid that drive a Chrome |
| `BookmarksSnapshot` | Chrome's bookmarks, read without a lock |
| `ConversationGraph` | the integrity report, the selected path and the branches of a conversation |
| `ImportBatch` | the import of a ChatGPT export |
| `MCVault`, `MCSyncRun`, `MCRunLock`, `MCArchiveStore` | instances of one module for TLC |
| `MCArchives`, `MCCaptures`, `MCCommands` | several modules side by side, each an `INSTANCE` |
| `VaultProofs`, `VaultLedgerProofs` | proofs about `Vault` |
| `SyncProofs`, `ArchiveProofs` | proofs about `SyncRun`, `ArchiveStore` |
| `CaptureProofs` | proofs about the parts of `MCCaptures` |
| `CommandProofs` | proofs about `RunLock` and `SyncCommand`, the parts of `MCCommands` |
| `SourceProofs`, `GraphProofs` | proofs about `VaultRestore`, `ImportBatch` and `SyncPlan`, and about `ConversationGraph`: the parts of `MCArchives` |

The last three `MC` modules put components side by side that share no state:
`part` says which of them an execution explores, the others stay in one initial
state. They serve to keep the runs few; nothing is claimed of an interaction
between their parts. Components that do interact are composed by hand: the
client within `SunoCapture`, the run under its lock in `SyncCommand`, discovery
with the status of its run in `CollectionDiscovery`, the loop over persist in
`ImportBatch`.

A definition whose comment starts with *Mutant* is a plausible bug in the
definition that follows it. No specification uses it: it is put in the place of
the original to see that a property notices.

The `TypeOK` of a module documents its variables. A run checks that of `Vault`,
and those of `Vault`, `SyncRun`, `ArchiveStore` and `RunLock` are proved.

### Vault

The disk is `meta`, `packStage` and `packHolds` (a pack under `incomplete/`,
moved to `packs/`, or moved and sealed, and its members), `partial`, `cat` and
`seal` (per generation: the temporary copy, the catalog file, and the catalog
its seal hashes), `receipts` and `lock`. `plan`, `base`, `where`, `seals`,
`todo`, `cur`, `fill` and `staged` are ingest's local variables of about the
same names; `phase` is where the writer stands. `file` and `mixed` belong to
`shutil.copy2`: where the file it has opened is by now (still the temporary,
published by another writer's rename, or replaced), and whether another writer
has been writing it at the same time. The actions, in ingest's order:

| action | code |
|---|---|
| `Acquire`, `WriteLockInfo` | `os.open(O_CREAT\|O_EXCL)`, then the JSON (service.py:507-531) |
| `LoadCatalog` | vault.json, latest valid catalog, known identities (93-139) |
| `LoadIndex` | the pack index, deduplication, the early return (111-186) |
| `AddObject`, `PlacePack`, `SealPack` | packs.py:84-161 |
| `Stage`, `StageRejected` | the staged SQLite database and its constraints (201-295) |
| `OpenCopy`, `CopyCatalog`, `ReplaceCatalog`, `SealCatalog` | `_publish_catalog_generation` (484-505) |
| `WriteReceipt`, `Release` | the receipt; the finally of `_writer_lock` |
| `RecoverRead`, `RecoverUnlink`, `LockGrowsStale` | recover_stale_lock (412-422), `_is_stale` |
| `Fail`, `Crash` | an exception that unwinds to the finally; a kill |

Abstractions. Hashes do not collide, so a seal is the catalog it hashes and a
digest is its object. Objects are added in any order (the code sorts digests).
The temporary copy of a generation has one name for all writers: it is created
or emptied in one step (`OpenCopy`) and written in another, and half-written or
written by two it is one of `Tears`, contents no reader opens
(`load_latest_valid_catalog` raises). A mixture that SQLite happens to open is
not modelled: nothing is claimed of the contents of a catalog once ingestions
overlap. The hash of a seal is read in one step.
Inspect and verify only read: what they rely on is `LatestGen` and `Closed`.
Creating a vault is folded into `LoadCatalog`. A dry run changes nothing and is
left out. A catalog's `by` stands for the ingestion run recorded in it, so that
the catalogs of two writers differ.

### VaultRestore

`target` and `temp` are what is under the final and the temporary name of each
file; `handle` is the file an open descriptor belongs to, which a rename does not
close. `Check` refuses a file that is there unless `--overwrite`, `Open` empties
the temporary, `Extract` writes and hashes it, `Replace` renames it, `Receipt`
follows the last file. `pack` are the objects that are what the catalog says.

### SyncRun

`run` is run.json, `archived` the sources with a published archive, `state` the
`BatchRunState` in memory, `temp` what the save in progress encoded. `step` is
what the runner does next and `io` where its save stands: *writing* the
temporary file, *following* (run.json is in place; checkpoint, plan and report
come), *broken* (about to raise). Kills, errors and signals strike between any
two of these. The signal handler is one action, for nothing interrupts it here
but a kill, and it has three outcomes: it saves cleanly; it renames away the
temporary file of the save it interrupts, which will then raise; or that save's
buffer is flushed into what the handler has published.

Abstractions. Sources are captured in any order (the code: collection order).
An item's `complete-with-warnings` is folded into *complete*, its
`failed-retryable` lasts for no step. Skipping is not modelled here: no plugin
records a remote revision in its latest pointer, so the plan never reaches
`skip-verified-unchanged` today (`SyncPlan` models the decision); nor do
blocked, probing and resuming occur. `max_items`, `--force` and
`--retry-failed` are left out. Any readable run may be resumed (`--run-id`
allows it). A signal between Finalize's test of `_interrupted` and its
assignment is not told apart from one before the test, and Ctrl-C during
discovery does not stop discovery, as in the code.

### SyncPlan

`List` is a listing with its positions, duplicates and revisions; `Classify`
takes one descriptor through `build_plan` and `evaluate_cache`; `Attach` and
`Order` are what follows the loop. Between any two of them the owner edits a
source (`Edit`), a command archives one (`Archive`), or an archive is damaged
(`Damage`: a file, the bundle, the pointer).

### RunLock and SyncCommand

`lock` is the PID in the file, `Torn` when the file holds no JSON, `NoLock`
without a file; `stage[p]` is what the process with PID `p` is doing. `Open` and
`Write` are the two halves of `write_text`.

`SyncCommand` stands a level above: `Scan` is `find_resumable`, `Load` the second
reading of run.json (app.py:1535-1552), `Enter` the runner's start under the
lock, `Finish`, `Fail` and `Kill` the ways an execution ends. `StartPlain` is a
command without `--resume`, `StartNamed` one with `--run-id`.

### ArchiveStore

`bundles` are the published versions, `staging` the staging directories, both
file by file; `latest` and `history` the two pointer files, which the plugins'
stores write in place (`OpenLatest` and `FillLatest`, `OpenHistory` and
`FillHistory`) and the filesystem store replaces. `store` is one of five records
that say what distinguishes the strategies: the order of their files, whether
the pointers are replaced atomically and captures have a staging directory of
their own, and whether a capture can be forced. A capture reads the pointer
(`Begin`), returns when nothing changed (`Unchanged`), chooses its version
(`ChooseVersion`; `BundleExists` where that is taken), prepares and fills its
staging (`Prepare`, `StageFile`), renames it (`Publish`), extends the history,
moves the pointer and verifies (`Finish`). The five verifiers differ in the
files they look at and how. `Damage` is a file lost or altered afterwards, and
`VerifyCommand` the command that looks for it.

Abstractions. A file holds the content of one capture; which fields a file has
is data. A version that verifies and one that does not differ by the presence
and origin of their files.

### CollectionDiscovery

`loop` is one of four: the list of Suno workspaces, the tracks of a SoundCloud
account, the pages of a Suno project, the discovery of DistroKid. `payload` is
the last response; `Request` asks, `SunoCollect` and its like take in what is
new, `SunoAdvance` and its like decide on the next page, `BuildResult` computes
`discovery_complete`, `Finalize` what the run makes of it. A provider is honest
(its pages partition `catalogue`, from which `Remove` takes sources meanwhile)
or answers anything: pages that repeat, are empty, name a cursor again, or go on
for ever with another cursor or page number each time (`Another`, which the sets
of what was seen need not remember, since it never comes back).

`BuildResult` stands for `_build_result` in the two collection loops, and in the
capture of a project, which has no such function, for the decision at its end
(archive/service.py:413): the number of clips alone, however the pages ended. A
project's workspace response, asked of the same address before its pages, is
taken for the first of them. The clips of `list_workspace_clips`, one more
response that is asked for when the pages have ended, are left to `SunoCapture`
(`LegacyDone`).

### SunoClient and SunoCapture

`stored` is the auth file, `memory` the client's copy, `call` the request under
way: `EnsureJwt` (auth.py:127), `RefreshSession`, `RefreshJwt`, `Send`, which
on a 401 refreshes once and sends again. `Expire`, `EndSession` and `Renew` (the
user stores another cookie) happen meanwhile. `SunoCapture` asks for the
workspace with its alternative paths (`route`), the pages, and for each clip the
details, lyrics and alignment, then downloads each asset (`StartDownload`,
`Redirect`, `Body`, `DownloadFails`) and ends with `Store`. `fetch.left` says
that a request of this download went to another origin.

### SoundCloudCapture

`Resolve` finds a single source, `Profile` an account; `Page` takes one page of
its tracks or playlists, and ends the listing at a link seen before or at the
cap; `Retry` and `RequestFails` are the client's; `RetryAfterDate` is a
`Retry-After` header that holds a date, for which `float()` raises.

### BrowserSession

`stage` is where each command stands, `owner` the Chrome that has the profile,
`portFile` the Chrome whose port `DevToolsActivePort` holds. Chromes are numbered
by their launch: `known[s]` are those launched before command `s` looked, and
`endpoint[s]` the one it talks to. A Chrome that finds the profile taken hands
over and exits (`TakeProfile`); one that has it publishes its port when it likes
(`Publish`). Chromes crash, are quit by the user, and commands are killed.

### BookmarksSnapshot

A file is two halves, `held` the inode an open descriptor keeps. `Look`,
`ReadFirst` and `ReadRest` read a file between two `stat` calls; `BackupRead`,
`Attempt` and `Fallback` decide. Chrome replaces a file by rename or rewrites it
in place. The clock resolves two writes: a write changes the time.

### ConversationGraph and ImportBatch

The mapping is any `parent` and `children` on the nodes, the lists of children
following the parents but for `MaxFaults` entries. A node is its key: graph.py:107
and normalizer.py:425 read an `id` that may differ from it, which no mapping of
the tests and fixtures has (section 6).
`Leave`, `Enter` and `Meet` are the turns of the depth-first search's loop
(graph.py:145), `Report` the conjunction of its findings, `Walk` one turn of the
loop that finds branches (normalizer.py:125).

`ImportBatch` walks any export of up to two files: entries that are
conversations, that have no identifier, that are no objects, files that cannot
be read. `Persist` archives a conversation or finds it unchanged, `PersistFails`
records it as failed; the manifest and the index follow the last entry. An
error may come before a version is renamed into place, between that and its
pointer, or from the verification after it; between rename and pointer it
leaves the version `stranded`, as a kill does (`KillStrands`), and then every
import of new content of that conversation is refused (`Refuse`). An import is
killed at any step and repeated, with and without `--conversation-id`.

## 3. Runs

| run | bounds | shows |
|---|---|---|
| `vault_exclusive` | 2 writers, 1 recovery, 3 bundles (two of one identity), 2 objects of sizes 2 and 1 with target 2, 4 packs, 2 generations, 2 faults; no ingestion outlives its lock | `TypeOK`, `CatalogsClosed`, `WriterExclusion`, `PlansAccepted`, `ReceiptsDurable`, `ObjectsStoredOnce`, `SealedCatalogsImmutable`, and `LedgerSpec`: the vault implements `VaultLedger` |
| `vault_overwrite` | the same, no faults; ingestions may outlive their locks | violated: `SealedCatalogsImmutable` |
| `vault_leakedlock` | one fault: a kill before the lock file has contents | violated: `AbandonedLocksRecovered` |
| `sync_batch` | 2 sources, 1 retry, one error of any kind, one signal, one kill, dry or not | `FinishedRunsAccounted`, `CapturesArchived`, `ExitStatusRecorded`, `StateFileReadable` |
| `sync_graceful` | one signal | violated: `SignalsAreGraceful` |
| `sync_lostsources` | one kill | violated: `DiscoveredAccounted` |
| `runlock_race` | 2 processes acquiring at the same time | violated: `MutualExclusion` |
| `archive_clash` | one capture at a time, two assets of one path | violated: `PassedVerification` |
| `archive_versions` | `ArchiveStore`: 2 captures (overlapping in the filesystem store only), 3 attempts, 2 kills or errors, 1 damaged file; `ConversationGraph`: every parent of 3 nodes and an unknown one, 1 wrong child; `ImportBatch`: every export of 2 entries in up to 2 files, 2 imports, 1 fault; `SyncPlan`: 2 sources, 2 descriptors, 2 changes; `VaultRestore`: 2 processes one after the other, 3 files, 3 restores, 2 kills | `LatestSealed`, `HistoryComplete`, `PassedVerification`, `EvidenceVerified` and `LedgerSpec` (the store implements `ArchiveLedger`); `CyclesFound`, `CompleteMeansForest`, `BranchesPartition`; `ManifestAccounts`, `ReimportIdempotent`; `SkipMeansUnchanged`; `NamesHoldWhole`, `ReceiptMeansRestored` |
| `captures_requests` | `SunoCapture`: 2 clips of one asset, 2 cookies, 1 expiry, 1 session that ends, 1 error, 3 hops; `SoundCloudCapture`: 4 pages with a cap of 3, 3 failures, 3 attempts; `BrowserSession`: 2 commands, 2 kills or exits; `CollectionDiscovery`: 4 loops, 4 items in pages of 2, 3 pages at most, 1 removal, 2 failures; `BookmarksSnapshot`: 3 attempts, 3 writes | `CredentialsScoped`, `CompleteMeansArchived`, `SurvivesExpiry`; `ExitZeroMeansAll`; `EndpointFresh`, `ChromeReaped`; `CompleteMeansAll`, `DiscoveryEnds`; `SnapshotConsistent` |
| `discovery_endless` | `CollectionDiscovery`: the pages of a Suno project, from any provider | violated: `ProjectPagesEnd` |
| `commands_repeat` | `RunLock`: 3 processes, 4 kills, acquisitions one after the other, no PID in the file given again; `SyncCommand`: 2 commands, 2 configurations, 2 runs, 2 interruptions; `SyncRun`: 2 sources, 1 retry, 1 error, 1 kill; `Vault`: 2 writers, 2 bundles, 2 faults, kills anywhere but before the lock is written | `MutualExclusion`, `LocksAcquirable`; `ResumeUnambiguous`, `ResumeFinishes`; `EventuallyFinished`; `EventuallyImported` |

Why the bounds are enough. Two writers give every pairwise race on the lock,
the generation number and the packs. Two generations let one be replaced while
another is published; an object as large as the target, and one that fits
beside nothing, reach rotation and an oversized pack; three bundles with a
shared identity reach the unique constraint. Two faults are a failure and the
failure of its repair. In `SyncRun` two sources separate *this one failed* from
*that one was never tried*, one retry has a first and a last attempt, and one
fault of each sort gives all their orders. In `ArchiveStore` three attempts are
a version, a second one that a kill leaves half done, and the capture that
finds it. Three nodes hold a cycle beside a tree, a node with two parents and
one nobody leads to. Three hops leave an origin and return to it. Four pages
pass a cap of three; two pages of two items let a removal shift one past the
page boundary. Three restores are one that is killed, one that refuses what it
left, one that overwrites. Three writes are one per look at the file.

Symmetry: writers, run-lock processes, synced sources and captures are
interchangeable in the runs that check no liveness; so are the contents of
`archive_versions`, where no two assets share a path and code only compares them.

The proofs of section 5 need none of these bounds. `MaxAttempts`, which also
bounds the versions of an archive, never bites in the run: every version takes
an attempt. `CHECK_DEADLOCK FALSE` stands where the program may stop: at the
bounds, behind a lock left empty, and with a run.json nobody can read.

Environment assumptions are constants. `LongIngests`: may an ingestion last
longer than `stale_lock_timeout`, six hours? `Recoverers`: how many processes
recover locks. `CrashPhases`: where kills may strike. `Overlap` and `ReusePids`:
may two processes acquire a run lock, or look for a run, at once; may the PID in
the lock file come back. `Overlapping`: in which stores may two captures of a
source, or two restores, run at the same time. The others bound what goes wrong.

What the antecedents leave out. `CompleteMeansAll` says nothing of a collection
without a count that shrinks while it is listed: there the code calls a listing
complete with a source missing. It says nothing of a project without a
`clip_count` either: the code asks only for the number of clips, and a 404 or an
empty page ends the pages as well as the last one does. `DiscoveryEnds` is about
the collections, whatever the provider answers, and about projects whose pages
are those that were asked for; that other project pages need not end is
`ProjectPagesEnd` and its run: `get_project_pages` has no cap.
`ExitZeroMeansAll` excepts the pages after SoundCloud's cap. `CompleteMeansArchived`
needs a workspace that tells its count and clip details that do not hide media.
`ReimportIdempotent` needs an export without duplicates: with two contents under
one identifier each import archives both again.

Fairness. `Vault`: a running ingestion runs on (WF of `Work`), the user runs it
again (WF of `Acquire`) and again and again on the whole source (SF of
`LoadCatalog` with all bundles), time passes, and stale locks are recovered.
`SyncRun`: a running process runs on, and the user resumes an unfinished run.
`SyncCommand`: a running command runs on, and the user resumes again and again
(SF: the action is not enabled while another command looks for its run).
`RunLock`: processes end, and the next one is launched. `CollectionDiscovery`: a
request is answered or fails, for the clients have timeouts. `MCCommands`
repeats these for each part, `MCCaptures` that of discovery; the other modules
state none, and no liveness. No fairness is assumed of errors, signals and
kills.

## 4. What the runs show of the code

Seven statements of the repository's documentation do not hold; each is the
`expect: violation` of a run, with a trace:

1. *Catalog generations are immutable* (docs/vault-architecture.md): a lock's
   age is that of its creation and is never renewed, so the lock of an
   ingestion longer than six hours is recovered while it runs, and the next
   ingestion replaces the sealed generation it publishes, or goes on writing
   its file; units of one ingestion are lost.
2. *Stale locks require explicit recovery*: the lock of a writer killed between
   creating and filling it is never recovered, and blocks the vault for good.
3. *Unstarted items can be captured on resume*: a run killed between saving its
   discovery and saving its plan resumes with no sources and reports success.
4. *Ctrl+C is handled gracefully*: the handler saves through the temporary file
   of the save it interrupts; that save then raises, and the run is *failed*.
5. *The lock prevents two concurrent processes*: it is read, then written.
6. *Integrity PASS checks the files that were actually saved* (README.md): a
   bundle is published before it is verified. A Suno bundle with two assets of
   one path fails, stays the latest version, and the next capture finds it
   unchanged and says it passed without looking.
7. *Repeated pages are detected to prevent infinite loops* (client.py:335): a
   project that repeats clips below its `clip_count`, on pages without a number
   or with ever new ones, is asked for ever.

Behaviour met while modelling, for which no run is kept because it follows from
a variation of a constant or from one reading of the action:

* under the constants of `vault_overwrite`, `CatalogsClosed` is violated too: of
  two ingestions that overlap, one copies to the temporary name the other is
  about to rename and seal (service.py:485-492, `OpenCopy` and `CopyCatalog`).
  What is sealed is then a catalog nobody validated, or half of one, though
  docs/vault-architecture.md:27 says that each ingestion validates its catalog
  and then publishes it; readers take it for the latest and raise;
* an event that cannot be appended after a capture (runner.py:515,
  `Fault("end-event")` in `EventFails`) is charged to an item that is already
  complete; its transition raises, and the run fails with the other sources
  untried, though runner.py:9 says that failures are isolated;
* of two processes that recover one stale vault lock the slower unlinks the
  lock of the writer that came between (`Recoverers` of two);
* a pack or catalog interrupted between its move and its seal stays outside
  `incomplete/`, unseen by `list_incomplete_artifacts`;
* restores that overlap share their temporaries, and a final name may hold half
  a file (`VaultRestore` with `Overlapping`), though each object is to be verified
  before its file is committed (docs/vault-architecture.md:85);
* two captures of one source by a plugin share one staging directory
  (`ArchiveStore` with a plugin in `Overlapping`), and a kill between rename and
  pointer leaves a version that every later capture takes for an error
  (`BundleExists`);
* a second Ctrl-C in the last save can leave run.json unreadable (`Signal`'s last
  disjunct); a dead run's lock is overwritten without asking, though locks.py
  says a stale lock is never deleted; a resumed run drops the attempt records of
  the earlier execution (`Plan`);
* two `--resume` that look at once may both start a run (`SyncCommand` with
  `Overlap`), after which every `--resume` is ambiguous;
* nothing is ever skipped today: the plugins record no remote revision
  (`EvaluateCache`);
* the DistroKid discovery fails before it pages, and the run is complete
  (`DistroKidFails`);
* SoundCloud's page cap ends a listing without a warning; a 5xx is not tried
  again; a `Retry-After` date raises and drops the pages fetched so far;
* a Suno cookie stored over another one keeps the old session (`Renew`,
  `RefreshSession`); details with empty media hide the URLs the page gave;
* of two commands that launch a Chrome at once one loses its capture; a killed
  command leaves its Chrome running (`Kill` of `BrowserSession`);
* the warning of the bookmarks' fallback says *invalid* where the file merely
  kept changing (`Fallback`).

## 5. Proofs

Checked by TLAPS for every value of the constants that satisfies the named
assumptions of the modules, which the runs evaluate. Every invariant and action
property of a passing run has a theorem; only liveness has none.

| theorem | statement | inductive invariant |
|---|---|---|
| `VaultProofs!TypeCorrect` | `Spec => []TypeOK` | `TypeInv`: a writer that seals has a pack open; one that publishes writes one of the generations; the catalog it started from exists |
| `VaultProofs!MutualExclusion` | one recoverer and no long ingestion: `Spec => []WriterExclusion` | `LockInv` |
| `VaultLedgerProofs!SealedStayUnchanged`, `ReceiptsStayTrue`, `VaultImplementsLedger` | the same: `Spec => SealedCatalogsImmutable`, `[]ReceiptsDurable`, `LedgerSpec` | `LedgerInv` |
| `VaultLedgerProofs!EachObjectStoredOnce`, `CatalogsAlwaysClosed`, `PlansAlwaysAccepted` | the same: `Spec => []ObjectsStoredOnce`, `[]CatalogsClosed`, `[]PlansAccepted` | `StoreInv` |
| `SyncProofs!TypeCorrect` | `Spec => []TypeOK` | `TypeInv`: the current source is known |
| `SyncProofs!FinishedAccounted` | `Spec => []FinishedRunsAccounted` | `AccountInv` |
| `SyncProofs!CapturesAlwaysArchived` | `Spec => []CapturesArchived` | `ArchiveInv` |
| `SyncProofs!StateFileAlwaysReadable` | `Spec => []StateFileReadable` | the property itself |
| `SyncProofs!ExitStatusAlwaysRecorded` | `Spec => []ExitStatusRecorded` | `ExitInv` |
| `ArchiveProofs!TypeCorrect` | `Spec => []TypeOK` | `TypeInv` |
| `ArchiveProofs!LatestAlwaysSealed`, `StoreImplementsLedger`, `VerifyMeansEvidence` | no plugin's captures overlap: `Spec => []LatestSealed`, `LedgerSpec`, `EvidenceVerified` | `ArchiveInv` |
| `ArchiveProofs!HistoryAlwaysComplete` | the same: `Spec => []HistoryComplete` | `RecordInv` |
| `ArchiveProofs!ResultsVerify` | the same, and no two assets share a path: `Spec => []PassedVerification` | `ResultInv` |
| `CommandProofs!LockExcludes`, `LockNamesHolder` | `~Overlap`: `Spec => []MutualExclusion`, `[]HolderNamed` | `LockInv` |
| `CommandProofs!ResumesUnambiguous` | `MCSpec => []ResumeUnambiguous` | `CommandInv` |
| `CaptureProofs!EndpointsFresh`, `ChromesReaped` | `Spec => []EndpointFresh`, `[]ChromeReaped` | `BrowserInv` |
| `CaptureProofs!SuccessMeansAllPages` | `Spec => []ExitZeroMeansAll` | `SoundInv` |
| `CaptureProofs!SnapshotsConsistent` | `Spec => SnapshotConsistent` | `SnapshotInv` |
| `CaptureProofs!CredentialsStayScoped`, `CompleteCapturesArchive`, `CapturesSurviveExpiry` | `Spec => []CredentialsScoped`, `[]CompleteMeansArchived`, `[]SurvivesExpiry` | `SunoInv` |
| `CaptureProofs!CompleteDiscoveriesFindAll` | `Spec => []CompleteMeansAll` | `DiscoveryInv` |
| `SourceProofs!NamesAlwaysHoldWhole`, `ReceiptsMeanRestored` | `MCSpec => []NamesHoldWhole`, `[]ReceiptMeansRestored` | `RestoreInv` |
| `SourceProofs!ManifestsAccount` | `MCSpec => []ManifestAccounts` | `AccountInv` |
| `SourceProofs!ReimportsIdempotent` | `MCSpec => []ReimportIdempotent` | `SingleInv` |
| `SourceProofs!SkipsAreUnchanged` | `MCSpec => SkipMeansUnchanged` | `PlanInv` |
| `GraphProofs!CyclesAlwaysFound`, `CompleteReportsMeanForest` | `MCSpec => []CyclesFound`, `[]CompleteMeansForest` | `SearchInv` |
| `GraphProofs!BranchesAlwaysPartition` | `MCSpec => []BranchesPartition` | `BranchInv` |

Assumptions. Those on bounds say that they are numbers. `UnreadableAssumption`,
`NoneAssumption`, `GraphAssumption`, `ImportAssumption` and part of
`CommandsAssumption` say that a value that stands for *none* or *unreadable* is
none of the others: the code has `None` or an exception for it. A mapping, the
kinds of assets and the run directories are finite. The hypotheses of the
theorems (*one recoverer*, *no long ingestion*, `~Overlap`, *no two assets share
a path*) are about the environment, and for each of the vault's, the run lock's
and the archive's a run of section 3 or a remark of section 4 shows what happens
without it.

### The vault

*MutualExclusion* rests on three facts: a writer at work owns the lock file; a
recovery about to unlink still faces the stale lock it read; a stale lock's
owner is gone. So no unlink hits another writer's lock. Each of the two
assumptions is needed: `vault_overwrite` drops one.

*CatalogsAlwaysClosed* holds for failures and kills at every step, a copy left half
written included, but only while ingestions exclude one another: writers that
overlap may publish one file that both have written. `CatalogsClosed` alone is
not inductive, since a catalog is published from a staged database through a
temporary copy. `ClosedInv` states closedness of all three, that the seals a
writer collected while planning are those of packs still sealed, and that a
pack being written is unsealed and belongs to one writer, so that a sealed pack
never changes. A catalog stays closed as packs are added (`ClosedStable`), the
packs only grow (`SealedPacksStable`), and what `Stage` builds is closed
(`StagedClosed`). `LedgerInv` adds that a writer whose copy is finished has
what it staged under the temporary name, and no other.

*VaultImplementsLedger* builds on that. With one writer at work, what it read is
still the latest generation when it publishes (`WriterInv`), and the file it
writes over has no seal: a seal is always that of the catalog beside it, so a
generation above the latest valid one was left behind unsealed
(`NextUnsealed`). Renaming the copy therefore changes nothing for readers
(`ReplaceStep`), and the seal makes the next generation, which extends the
latest by the plan, the latest (`SealStep`). All other steps are quiet.

*EachObjectStoredOnce* and *PlansAlwaysAccepted* need to know what a writer
remembers while it fills packs (`PackingInv`). What it has still to write is in
no sealed pack, nor is what its open pack holds; every object of its plan is to
be written or located; and a location that the base catalog does not know is a
pack whose seal the writer keeps, or the one it is writing. So sealing a pack
keeps the packs disjoint, and staging finds a record for every location.

### The batch run and its commands

*FinishedAccounted* holds the property for all three copies of the state
(memory, temporary file, run.json), and adds that while sources are captured
the status does not say the run is over and only the current source is being
captured. The second conjunct is what makes Finalize right: with nothing
waiting and nothing under way, every source has ended.

*ExitStatusAlwaysRecorded* follows one error or one signal from where it strikes
to the process's end. `ExitInv` says that before capturing the status is not
final (`Opening`), that a run fails or saves once more only because of the one
trouble it had (`WayOut`), that what a save carries reaches run.json unless the
handler changed the state behind it (`Carried`), and what is on the disk once
the process is gone (`Ended`). *StateFileAlwaysReadable* needs no
help: only the signal handler opens a temporary that another save has open.

*LockExcludes* needs that a process which has passed the check is the only one;
otherwise nobody could say whose file it writes. It does not need
`ReusePids = FALSE`, unlike liveness. `HolderNamed` (a lock file that can be
read names its holder) is proved and not checked by a run.

*ResumesUnambiguous* counts. The unfinished runs of a configuration are to be at
most the plain commands that were given for it, and one more; a command between
its look and its start has not written anything yet, so that what the count
leaves for it must be kept: without the run it has chosen there is still room
for one (`RoomForChosen`). One command chooses at a time (`OneChooses`), and a
run being executed is locked by whoever executes it.

### Archives

*LatestAlwaysSealed* and *StoreImplementsLedger* share `ArchiveInv`: the
published versions are 1 to n for some n, each holds one content in all of its
files, the pointer names one of them with its content, and a capture that has
published faces its own version while one that has not stages only files of
its own content. In a plugin's store that needs `Alone`: of the captures only
one is at work, since they share the staging directory and the number they
choose. In the filesystem store captures may overlap: there a capture renames
its own staging, and a number that another capture has taken makes the rename
fail. Kills may strike at every step.

*HistoryAlwaysComplete* adds how far the pointer and the history lag behind: by
the last version at most (`PointerInv`, `HistoryInv`). One capture at most is
recording, and it is that of the last version: once a version is published that
the pointer does not name, every later capture chooses its number and fails.

*ResultsVerify*: a result that says *passed* is of a version that is whole and
holds the result's content (`Kept`), which no capture changes. Bundles of clashing
paths are the exception `archive_clash` shows. *VerifyMeansEvidence* is about the
step that writes the report: what it looks at then is whole.

### Captures

*CompleteDiscoveriesFindAll* has two arguments. With a count (`CountKnown`) there
is always a set, no larger than the count, that holds what has been seen, what
the last page holds and what is listed; once as many have been seen as were
counted, it is the set of those seen. Without one (`Covered`) the pages before
the cursor have been seen as long as nothing was removed, and the loop ends for
lack of pages only where they are all; a project needs the count.

*SuccessMeansAllPages*: while nothing has been warned of, the pages had are those
before the cursor, in order, and the links seen are theirs (`InOrder`), but for
the one case that the first page's link leads to itself (`FirstAgain`).

*CredentialsStayScoped*, *CompleteCapturesArchive* and *CapturesSurviveExpiry*
share `SunoInv`: credentials are kept only for an origin that was not left; a
request that failed has a reason other than an expired token, since one that is
sent a second time carries a token just issued; the jobs are the kinds of assets
of the clips found.

*EndpointsFresh*: the profile was free when the command looked, so that whatever
takes it later is younger, and an older port in the file is the one that the
command saw before it launched (`RunningYounger`, `OldPortSeen`). *ChromesReaped*
adds that a Chrome shut down does not come back.

*SnapshotsConsistent*: where the modification time equals the one read first,
nothing was written since, the descriptor's file is still the one under the name
and the bytes read so far are its bytes (`ReadUndisturbed`).

### Restorations, imports, plans

*NamesAlwaysHoldWhole*: one restorer at a time, the files it has passed are whole,
and the temporary that it is about to rename is.

*ManifestsAccount*: an import has told, once each, of exactly the entries before
its cursor (`Told(Passed)`), and the archive has what it said to be imported or
unchanged. *ReimportsIdempotent*: in an export without duplicates a conversation
has at most one version, whose content is that of its entry, or one that is
stranded, and not both.

*SkipsAreUnchanged*: a revision recorded with an archive is that of its content,
and one in a listing that of what was listed; the last version of the archive is
read in the step that skips, so that nothing can come between.

### The conversation graph

*CyclesAlwaysFound*: `SearchInv` says of the search by colours that the grey nodes
are those the stack has still to leave, each leads to everything above it, and a
child of a black node is black or reported. Black nodes therefore form no cycle
without a reported one (`BlackAcyclic`, stated of every set of black nodes, since
the prover has no induction on paths); in the end every node is black.

*BranchesAlwaysPartition*: `BranchInv` says that each visited node is in one
branch or the walk under way, at one place, and that its children are visited or
to come; so what is visited in the end is closed under children, and `ReachIs`
says that what the roots lead to is the least such set.

*CompleteReportsMeanForest* needs of the search only that it leaves the mapping
alone: a node that is no root is listed by another (`ConsistentForest`), or the
roots would not lead to it; the path of a node in the k-th layer has those of the
layers below before it (`PathLeads`).

The prover has no induction over data. Where a number is counted up, the proofs
look at the least number for which a claim fails (`LeastNumber`, from the
library's theorem on well-founded orders, which takes a set where induction takes
an operator). `ReachIn`, `ClosureIn` and `PathFrom` are shown to exist by
iterating a function on sets, or on functions, as often as there are nodes
(`Iterates`, `Growth`).

### Model-checked only

The liveness properties: `DiscoveryEnds`, `LocksAcquirable`, `ResumeFinishes`,
`EventuallyFinished`, `EventuallyImported`. They rest on fairness, and so on
`ENABLED`, which is out of this prover's reach. The seven violations of section 4
are what TLC found on the instances of their runs.

## 6. Not modelled, and what could follow

* **vault adapters** turn an archive directory into the records an ingestion
  reads; `Vault` takes any set of bundles instead.
* **artifact store backends**: nothing calls `FilesystemArtifactStore`, so
  nothing says which of its calls overlap; the Google Drive store, like the
  integration, raises on every call.
* **core and contracts**: value objects, hashing, progress output; no state
  between calls.
* **normalizers and renderers** are functions on provider data whose
  correctness is their output format; of them only the conversation graph is
  modelled, which has loops of its own.
* **conversation graph**: a node whose `id` differs from its key. The report and
  the roots go by the `id`, the selected path and the branches by the key, so
  that with such a node neither `CompleteMeansForest` nor `BranchesPartition`
  can be expected.
* **command line and facade**: what parses, prints and constructs objects.
  Exit statuses and the choice of a run are in the modules that need them.
* Of the plugins: ChatGPT's live capture of one conversation and DistroKid's
  reading of its pages are single passes over a page, whose data is the
  provider's; what surrounds them is `BrowserSession`.

What could follow: that `SyncRun` under its lock is what `SyncCommand` takes for
a run (a refinement of `Enter` to `Finish`), and `SyncCommand` with discovery;
`SyncRun` with the items `SyncPlan` decides to skip, once plugins record
revisions; the safety part of the liveness properties, that a step which is
needed stays possible, as invariants of their own.
