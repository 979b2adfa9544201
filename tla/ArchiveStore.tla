---------------------------- MODULE ArchiveStore ----------------------------
(***************************************************************************)
(* The versioned archive of one source: persist of the five storage        *)
(* strategies (src/mindcap/storage/filesystem.py and archive/storage.py of *)
(* the plugins).  A capture reads the latest pointer, stages the files of  *)
(* the next version, renames the staging directory to v{N}, appends to the *)
(* version history, replaces the pointer, and only then verifies what it   *)
(* published.  No lock is taken; a capture may be killed at every step.    *)
(* Published files may later be lost or altered; verify looks for that.    *)
(***************************************************************************)
EXTENDS Naturals, Sequences, FiniteSets

CONSTANTS
  Captures,      \* processes that capture the source
  Contents,      \* what the provider may return, told apart by content hash
  Clashing,      \* contents two of whose assets have one relative path
  Stores,        \* the storage strategies
  Overlapping,   \* strategies whose captures of one source may overlap
  MaxAttempts,   \* bound: captures begun
  MaxFaults,     \* bound: kills and I/O errors
  MaxDamage,     \* bound: files lost or altered on the disk
  Missing,       \* there is no such file
  Torn           \* a file emptied and not yet written again

Lost == "lost"
Altered == "altered"

(* What distinguishes the strategies: the order in which a version's files *)
(* are staged, whether the pointers are replaced atomically (and a capture *)
(* has a staging directory of its own), and whether a capture can be       *)
(* forced to make a new version.                                           *)
FilesystemStore ==
  [name |-> "filesystem", atomic |-> TRUE, forceable |-> FALSE,
   files |-> <<"raw", "raw-index", "normalized", "readme", "manifest", "report">>]

SunoStore ==
  [name |-> "suno", atomic |-> FALSE, forceable |-> TRUE,
   files |-> <<"raw", "raw-index", "normalized", "readme", "report", "clips",
               "assets", "checksums", "manifest">>]

DistroKidStore ==
  [name |-> "distrokid", atomic |-> FALSE, forceable |-> TRUE,
   files |-> <<"raw", "raw-index", "normalized", "readme", "indexes", "report",
               "manifest", "checksums">>]

SoundCloudStore ==
  [name |-> "soundcloud", atomic |-> FALSE, forceable |-> TRUE,
   files |-> <<"raw", "raw-index", "normalized", "readme", "report", "checksums",
               "manifest">>]

ChromeBookmarksStore ==
  [name |-> "chrome-bookmarks", atomic |-> FALSE, forceable |-> TRUE,
   files |-> <<"raw", "raw-index", "normalized", "readme", "report", "checksums",
               "manifest">>]

Strategies ==
  {FilesystemStore, SunoStore, DistroKidStore, SoundCloudStore, ChromeBookmarksStore}

ASSUME ConstantsAssumption ==
  /\ Stores \subseteq {s.name : s \in Strategies}
  /\ Overlapping \subseteq Stores
  /\ Clashing \subseteq Contents
  /\ MaxAttempts \in Nat /\ MaxFaults \in Nat /\ MaxDamage \in Nat
  /\ Missing \notin Contents /\ Missing # Torn

(* A file that is missing or torn is not one that can be read. *)
ASSUME UnreadableAssumption ==
  \A nothing \in {Missing, Torn} :
    nothing \notin Seq(Nat) /\ nothing \notin [version: Nat, content: Contents]

Versions == 1 .. MaxAttempts

FilesOf(s) == {s.files[i] : i \in DOMAIN s.files}

Files == UNION {FilesOf(s) : s \in Strategies}

(* What a verifier demands to be there, what it compares with a checksum,  *)
(* and what it parses.  checksums.json lists the files staged before it.   *)
FilesystemVerifier ==
  [required |-> {"manifest", "raw-index", "normalized", "readme"},
   compared |-> {"raw", "normalized"},
   parsed |-> {"manifest", "raw-index"}]

Summed(s) ==
  {s.files[i] : i \in {j \in DOMAIN s.files :
     \E k \in DOMAIN s.files : j < k /\ s.files[k] = "checksums"}}

SunoVerifier ==
  [required |-> {"manifest", "checksums", "readme", "report", "normalized"},
   compared |-> Summed(SunoStore),
   parsed |-> {"manifest", "checksums"}]

DistroKidVerifier ==
  [required |-> {"manifest", "checksums", "readme", "report", "raw-index", "normalized"},
   compared |-> Summed(DistroKidStore),
   parsed |-> {"manifest", "checksums"}]

SoundCloudVerifier ==
  [required |-> {"manifest", "checksums", "readme", "report", "normalized"},
   compared |-> Summed(SoundCloudStore),
   parsed |-> {"manifest", "checksums"}]

ChromeBookmarksVerifier ==
  [required |-> {"manifest", "checksums", "readme", "report", "normalized", "raw-index"},
   compared |-> Summed(ChromeBookmarksStore),
   parsed |-> {"manifest", "checksums"}]

VerifierOf(s) ==
  CASE s.name = "filesystem" -> FilesystemVerifier
    [] s.name = "suno" -> SunoVerifier
    [] s.name = "distrokid" -> DistroKidVerifier
    [] s.name = "soundcloud" -> SoundCloudVerifier
    [] OTHER -> ChromeBookmarksVerifier

Empty == [f \in Files |-> Missing]

VARIABLES
  store,      \* the strategy; it does not change
  bundles,    \* v{N}: the content each file was made from
  staging,    \* .staging-v{N}, or .staging-{uuid} of a capture
  latest,     \* latest.json: version and canonical_content_hash
  history,    \* version-history.json: the versions it lists
  pc,
  job,        \* what a capture has in memory
  result,     \* CaptureResult of the last capture of a process
  damage,     \* files of published versions that are no longer what was written
  report,     \* VerificationResult of the last verify
  attempts, faults

disk == <<bundles, staging, latest, history>>
bounds == <<attempts, faults>>
vars == <<store, disk, pc, job, result, damage, report, bounds>>

NoJob ==
  [content |-> Missing, force |-> FALSE, version |-> 0, staged |-> 0, history |-> <<>>]

Jobs ==
  [content: Contents \cup {Missing}, force: BOOLEAN, version: 0 .. MaxAttempts,
   staged: Nat, history: Seq(Nat)]

Staged == Versions \cup Captures

Stages == {"off", "reading", "checking", "staging", "history", "history-open",
           "history-fill", "latest-open", "latest-fill", "verify"}

(* CaptureResult: verification_passed follows from the status alone. *)
Result(status, version, content) ==
  [status |-> status, version |-> version, content |-> content,
   verification_passed |-> status \in {"complete", "unchanged"}]

NoResult == Result("none", 0, Missing)
NoReport == [version |-> 0, status |-> "none"]

Init ==
  /\ store \in {s \in Strategies : s.name \in Stores}
  /\ bundles = [v \in Versions |-> Empty]
  /\ staging = [s \in Staged |-> Empty]
  /\ latest = Missing /\ history = Missing
  /\ pc = [c \in Captures |-> "off"]
  /\ job = [c \in Captures |-> NoJob]
  /\ result = [c \in Captures |-> NoResult]
  /\ damage = {} /\ report = NoReport
  /\ attempts = 0 /\ faults = 0

Staging(c) == IF store.atomic THEN c ELSE job[c].version

Pointer == latest \notin {Missing, Torn}

Published(v) == bundles[v] # Empty

To(c, stage) == pc' = [pc EXCEPT ![c] = stage]

End(c, status, version, content) ==
  /\ To(c, "off")
  /\ result' = [result EXCEPT ![c] = Result(status, version, content)]
  /\ job' = [job EXCEPT ![c] = NoJob]

Fail(c) == End(c, "failed", 0, Missing)

Begin(c) ==
  /\ pc[c] = "off" /\ attempts < MaxAttempts
  /\ store.name \in Overlapping \/ \A d \in Captures : pc[d] = "off"
  /\ \E x \in Contents, force \in BOOLEAN :
       /\ force => store.forceable
       /\ job' = [job EXCEPT ![c] = [NoJob EXCEPT !.content = x, !.force = force]]
  /\ attempts' = attempts + 1
  /\ To(c, "reading")
  /\ UNCHANGED <<store, disk, result, damage, report, faults>>

(* Mutant: the version is compared, not the hash. *)
SameVersion(c) == Pointer /\ ~job[c].force

Same(c) == Pointer /\ latest.content = job[c].content /\ ~job[c].force

(* The pointer is not looked behind: neither the bundle's files nor even   *)
(* its existence count.                                                    *)
Unchanged(c) ==
  /\ pc[c] = "reading" /\ Same(c)
  /\ End(c, "unchanged", latest.version, job[c].content)
  /\ UNCHANGED <<store, disk, damage, report, bounds>>

(* json.loads raises on a pointer that is being written. *)
LatestUnreadable(c) ==
  /\ pc[c] = "reading" /\ latest = Torn
  /\ Fail(c)
  /\ UNCHANGED <<store, disk, damage, report, bounds>>

NextVersion == IF Pointer THEN latest.version + 1 ELSE 1

(* Every version takes an attempt: MaxAttempts bounds the versions too.    *)
ChooseVersion(c) ==
  /\ pc[c] = "reading" /\ latest # Torn /\ ~Same(c)
  /\ NextVersion \in Versions
  /\ job' = [job EXCEPT ![c].version = NextVersion]
  /\ To(c, "checking")
  /\ UNCHANGED <<store, disk, result, damage, report, bounds>>

BundleExists(c) ==
  /\ pc[c] = "checking" /\ Published(job[c].version)
  /\ Fail(c)
  /\ UNCHANGED <<store, disk, damage, report, bounds>>

(* Mutant: the pointer is replaced before the version is published. *)
PointFirst(c) ==
  /\ pc[c] = "checking" /\ ~Published(job[c].version)
  /\ staging' = [staging EXCEPT ![Staging(c)] = Empty]
  /\ latest' = [version |-> job[c].version, content |-> job[c].content]
  /\ To(c, "staging")
  /\ UNCHANGED <<store, bundles, history, job, result, damage, report, bounds>>

(* A shared staging directory that is there is removed, whoever fills it. *)
Prepare(c) ==
  /\ pc[c] = "checking" /\ ~Published(job[c].version)
  /\ staging' = [staging EXCEPT ![Staging(c)] = Empty]
  /\ To(c, "staging")
  /\ UNCHANGED <<store, bundles, latest, history, job, result, damage, report, bounds>>

AllStaged(c) == job[c].staged = Len(store.files)

StageFile(c) ==
  /\ pc[c] = "staging" /\ ~AllStaged(c)
  /\ staging' = [staging EXCEPT
       ![Staging(c)][store.files[job[c].staged + 1]] = job[c].content]
  /\ job' = [job EXCEPT ![c].staged = @ + 1]
  /\ UNCHANGED <<store, bundles, latest, history, pc, result, damage, report, bounds>>

(* Mutant: what was published under the number is replaced. *)
PublishOver(c) ==
  /\ pc[c] = "staging" /\ AllStaged(c)
  /\ staging[Staging(c)] # Empty
  /\ bundles' = [bundles EXCEPT ![job[c].version] = staging[Staging(c)]]
  /\ staging' = [staging EXCEPT ![Staging(c)] = Empty]
  /\ To(c, "history")
  /\ UNCHANGED <<store, latest, history, job, result, damage, report, bounds>>

(* os.replace of a directory that has gone, or onto one that is not empty, *)
(* raises.                                                                 *)
CanRename(c) == staging[Staging(c)] # Empty /\ ~Published(job[c].version)

Publish(c) ==
  /\ pc[c] = "staging" /\ AllStaged(c) /\ CanRename(c)
  /\ bundles' = [bundles EXCEPT ![job[c].version] = staging[Staging(c)]]
  /\ staging' = [staging EXCEPT ![Staging(c)] = Empty]
  /\ To(c, "history")
  /\ UNCHANGED <<store, latest, history, job, result, damage, report, bounds>>

(* A write or the rename raises: the except clause removes the staging     *)
(* directory.                                                              *)
StagingFails(c) ==
  /\ pc[c] = "staging"
  /\ \/ AllStaged(c) /\ ~CanRename(c) /\ UNCHANGED faults
     \/ faults < MaxFaults /\ faults' = faults + 1
  /\ staging' = [staging EXCEPT ![Staging(c)] = Empty]
  /\ Fail(c)
  /\ UNCHANGED <<store, bundles, latest, history, damage, report, attempts>>

(* Mutant: a history is begun anew for every capture. *)
ReadHistoryAnew(c) ==
  /\ pc[c] = "history" /\ history # Torn
  /\ job' = [job EXCEPT ![c].history = <<job[c].version>>]
  /\ To(c, "history-open")
  /\ UNCHANGED <<store, disk, result, damage, report, bounds>>

ReadHistory(c) ==
  /\ pc[c] = "history" /\ history # Torn
  /\ job' = [job EXCEPT ![c].history =
       Append(IF history = Missing THEN <<>> ELSE history, job[c].version)]
  /\ To(c, "history-open")
  /\ UNCHANGED <<store, disk, result, damage, report, bounds>>

(* write_text empties the file before it writes; _atomic_text does not. *)
OpenHistory(c) ==
  /\ pc[c] = "history-open" /\ ~store.atomic
  /\ history' = Torn
  /\ To(c, "history-fill")
  /\ UNCHANGED <<store, bundles, staging, latest, job, result, damage, report, bounds>>

FillHistory(c) ==
  /\ pc[c] = IF store.atomic THEN "history-open" ELSE "history-fill"
  /\ history' = job[c].history
  /\ To(c, "latest-open")
  /\ UNCHANGED <<store, bundles, staging, latest, job, result, damage, report, bounds>>

OpenLatest(c) ==
  /\ pc[c] = "latest-open" /\ ~store.atomic
  /\ latest' = Torn
  /\ To(c, "latest-fill")
  /\ UNCHANGED <<store, bundles, staging, history, job, result, damage, report, bounds>>

FillLatest(c) ==
  /\ pc[c] = IF store.atomic THEN "latest-open" ELSE "latest-fill"
  /\ latest' = [version |-> job[c].version, content |-> job[c].content]
  /\ To(c, "verify")
  /\ UNCHANGED <<store, bundles, staging, history, job, result, damage, report, bounds>>

(* Two assets with one path: the second overwrites the first, checksums.json *)
(* lists both.                                                             *)
Clashes(v) == store.name = "suno" /\ bundles[v]["assets"] \in Clashing

(* Mutant: a verifier that asks for the files and compares no checksum. *)
VerifiesPresence(v) ==
  /\ \A f \in VerifierOf(store).required :
       bundles[v][f] # Missing /\ <<v, f, Lost>> \notin damage
  /\ ~Clashes(v)

(* Every file a verifier asks for is there, and every file it compares has *)
(* the bytes of the capture that staged the checksums.                     *)
Verifies(v) ==
  LET n == VerifierOf(store) IN
  /\ \A f \in n.required \cup n.compared :
       bundles[v][f] # Missing /\ <<v, f, Lost>> \notin damage
  /\ \A f, g \in n.compared : bundles[v][f] = bundles[v][g]
  /\ \A f \in n.compared : <<v, f, Altered>> \notin damage
  /\ ~Clashes(v)

Finish(c) ==
  /\ pc[c] = "verify"
  /\ IF Verifies(job[c].version)
       THEN End(c, "complete", job[c].version, job[c].content) ELSE Fail(c)
  /\ UNCHANGED <<store, disk, damage, report, bounds>>

(* The process is killed, or an I/O error raises outside the try. *)
Kill(c) ==
  /\ pc[c] # "off" /\ faults < MaxFaults
  /\ faults' = faults + 1
  /\ Fail(c)
  /\ UNCHANGED <<store, disk, damage, report, attempts>>

Persist(c) ==
  \/ Unchanged(c) \/ LatestUnreadable(c) \/ ChooseVersion(c)
  \/ BundleExists(c) \/ Prepare(c) \/ StageFile(c) \/ Publish(c) \/ StagingFails(c)
  \/ ReadHistory(c) \/ OpenHistory(c) \/ FillHistory(c)
  \/ OpenLatest(c) \/ FillLatest(c) \/ Finish(c)

Idle == \A c \in Captures : pc[c] = "off"

(* The disk loses or alters a published file; bounded to the time after    *)
(* the last capture.                                                       *)
Damage ==
  /\ Idle /\ attempts = MaxAttempts
  /\ Cardinality(damage) < MaxDamage
  /\ \E v \in Versions, f \in FilesOf(store), kind \in {Lost, Altered} :
       /\ Published(v)
       /\ damage' = damage \cup {<<v, f, kind>>}
  /\ UNCHANGED <<store, disk, pc, job, result, report, bounds>>

(* A parser's error is a ValueError (or a YAMLError), which verify does    *)
(* not catch.                                                              *)
Unparsable(v) ==
  \E f \in VerifierOf(store).parsed : <<v, f, Altered>> \in damage

VerifyCommand ==
  /\ Idle /\ attempts = MaxAttempts
  /\ \E v \in Versions, status \in {"pass", "fail", "raised"} :
       /\ Published(v)
       /\ status = "raised" => Unparsable(v)
       /\ status = "pass" => Verifies(v)
       /\ status = "fail" => ~Verifies(v)
       /\ report' = [version |-> v, status |-> status]
  /\ UNCHANGED <<store, disk, pc, job, result, damage, bounds>>

Next ==
  \/ \E c \in Captures : Begin(c) \/ Persist(c) \/ Kill(c)
  \/ Damage \/ VerifyCommand

Spec == Init /\ [][Next]_vars
-----------------------------------------------------------------------------
TypeOK ==
  /\ store \in Strategies
  /\ bundles \in [Versions -> [Files -> Contents \cup {Missing}]]
  /\ staging \in [Staged -> [Files -> Contents \cup {Missing}]]
  /\ latest \in [version: Versions, content: Contents] \cup {Missing, Torn}
  /\ history \in Seq(Nat) \cup {Missing, Torn}
  /\ pc \in [Captures -> Stages]
  /\ job \in [Captures -> Jobs]
  /\ result \in [Captures -> [status: {"none", "failed", "complete", "unchanged"},
                              version: 0 .. MaxAttempts, content: Contents \cup {Missing},
                              verification_passed: BOOLEAN]]
  /\ damage \subseteq Versions \X Files \X {Lost, Altered}
  /\ report \in [version: 0 .. MaxAttempts, status: {"none", "pass", "fail", "raised"}]
  /\ attempts \in 0 .. MaxAttempts /\ faults \in 0 .. MaxFaults

(* latest.json never names a version that is not there, half written or    *)
(* of another content than the hash it records, whenever the captures were *)
(* killed.                                                                 *)
LatestSealed ==
  Pointer => \A f \in FilesOf(store) : bundles[latest.version][f] = latest.content

(* The history lists every version once, in order, up to the latest: no    *)
(* entry is lost between two captures that read and rewrite it, and no     *)
(* capture that has published reads a history that is being written.       *)
HistoryComplete ==
  /\ \A c \in Captures : pc[c] = "history" => history # Torn
  /\ history \notin {Missing, Torn} =>
       /\ history = [v \in 1 .. Len(history) |-> v]
       /\ Pointer => latest.version \in {Len(history), Len(history) - 1}

(* A capture that says it passed verification points to a bundle that      *)
(* passes it, and that holds what this capture read from the provider,     *)
(* while the disk keeps what was written.                                  *)
PassedVerification ==
  \A c \in Captures :
    pc[c] = "off" /\ result[c].verification_passed /\ damage = {} =>
      /\ Verifies(result[c].version)
      /\ bundles[result[c].version]["manifest"] = result[c].content

(* What a verify command passes is the evidence that was captured: the raw *)
(* responses, the normalized source, and in a Suno bundle the clips and    *)
(* the media, as long as nothing was damaged after the command.            *)
Evidence == {"raw", "normalized", "clips", "assets"} \cap FilesOf(store)

EvidenceVerified ==
  [][report' # report /\ report'.status = "pass" =>
       \A f \in Evidence :
         /\ bundles[report'.version][f] = bundles[report'.version]["manifest"]
         /\ \A kind \in {Lost, Altered} : <<report'.version, f, kind>> \notin damage
    ]_vars

(* What an archive promises ("Immutable version directories"): see         *)
(* ArchiveLedger.  The versions published so far are v1 .. vN.             *)
Ledger == INSTANCE ArchiveLedger WITH
  archive <- [v \in {w \in Versions : Published(w)} |-> bundles[v]["manifest"]]

LedgerSpec == Ledger!Spec
=============================================================================
