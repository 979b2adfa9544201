---------------------------- MODULE ImportBatch ----------------------------
(***************************************************************************)
(* The import of an official ChatGPT export, app._capture_export and       *)
(* strategies/export.py: the conversation files are read one after the     *)
(* other and every conversation is archived as it comes, before the next   *)
(* one is looked at; the manifest of the import is written at the end.     *)
(* An import may be killed anywhere, and run again.                        *)
(*                                                                         *)
(* An archive is the sequence of the contents its pointer has gone         *)
(* through. A version that is renamed into place and whose pointer is not  *)
(* written, after an error or a kill in between, is stranded: the next one *)
(* of that conversation takes its number, finds it and is refused. The     *)
(* history and overlapping captures are the business of ArchiveStore.      *)
(***************************************************************************)
EXTENDS Naturals, SequencesExt

CONSTANTS
  Ids,         \* conversation identifiers
  Contents,    \* what a conversation may hold
  NoFilter,    \* no --conversation-id
  MaxFiles,    \* bound: files of the export
  MaxItems,    \* bound: entries of the conversation files, together
  MaxImports,  \* bound: imports of the export
  MaxFaults    \* bound: conversations that cannot be archived, and kills

VARIABLES
  export,    \* the files of the export
  filter,    \* --conversation-id
  phase,     \* what the running import does, or how it ended
  file,      \* file being read
  item,      \* entry of that file
  archive,   \* contents of the versions of every conversation
  stranded,  \* conversations with a version that no pointer leads to
  imported, unchanged, failed,  \* positions of the records, by what became of them
  records,   \* what import_root holds: manifest, index
  imports,
  faults

importVars == <<export, filter, phase, file, item, archive, stranded, imported, unchanged,
                failed, records, imports, faults>>

Conversations == [id : Ids, content : Contents]

(* An entry of a conversation file: a conversation, something that is not  *)
(* an object, or an object without a valid identifier.                     *)
Entries == Conversations \cup {[id |-> "junk"], [id |-> "unidentified"]}

(* A file: its entries, whether its name is that of a conversation file,   *)
(* and whether it can be read and parsed.                                  *)
Files ==
  [entries : UNION {[1 .. n -> Entries] : n \in 0 .. MaxItems},
   readable : {TRUE}, partition : {TRUE}]
  \cup {[entries |-> <<>>, readable |-> FALSE, partition |-> p] : p \in BOOLEAN}

Size(x) == FoldFunction(LAMBDA f, n : Len(f.entries) + n, 0, x)

Exports == {x \in UNION {[1 .. n -> Files] : n \in 1 .. MaxFiles} : Size(x) <= MaxItems}

Init ==
  /\ export \in Exports
  /\ filter = NoFilter
  /\ phase = "idle"
  /\ file = 0 /\ item = 0
  /\ archive = [c \in Ids |-> <<>>] /\ stranded = {}
  /\ imported = {} /\ unchanged = {} /\ failed = {}
  /\ records = {}
  /\ imports = 0 /\ faults = 0

Entry(p) == export[p[1]].entries[p[2]]
Here == <<file, item>>
Selected(c) == filter \in {NoFilter, c}

(* The conversations an import is to archive. *)
Wanted ==
  {p \in UNION {{f} \X DOMAIN export[f].entries : f \in DOMAIN export} :
     Entry(p) \in Conversations /\ Selected(Entry(p).id)}

Discover ==
  /\ phase \in {"idle", "exit 0", "exit 1", "exit 2", "killed"}
  /\ imports < MaxImports
  /\ imports' = imports + 1
  /\ phase' = "files" /\ file' = 1 /\ item' = 0
  /\ imported' = {} /\ unchanged' = {} /\ failed' = {}
  /\ records' = {}
  /\ filter' \in Ids \cup {NoFilter}
  /\ UNCHANGED <<export, archive, stranded, faults>>

kept ==
  <<export, filter, archive, stranded, imported, unchanged, failed, records, imports, faults>>

(* The next file: one of another name is passed over, one that cannot be   *)
(* read or parsed ends the import, without a manifest.                     *)
OpenFile ==
  /\ phase = "files" /\ file \in DOMAIN export
  /\ \/ /\ ~export[file].partition
        /\ file' = file + 1 /\ UNCHANGED <<phase, item>>
     \/ /\ export[file].partition /\ ~export[file].readable
        /\ phase' = "exit 1" /\ UNCHANGED <<file, item>>
     \/ /\ export[file].partition /\ export[file].readable
        /\ phase' = "entries" /\ item' = 1 /\ UNCHANGED file
  /\ UNCHANGED kept

CloseFile ==
  /\ phase = "entries" /\ item > Len(export[file].entries)
  /\ phase' = "files" /\ file' = file + 1
  /\ UNCHANGED item /\ UNCHANGED kept

AtEntry == phase = "entries" /\ item <= Len(export[file].entries)

(* What is not an object, and a conversation that was not asked for. *)
PassOver ==
  /\ AtEntry
  /\ \/ Entry(Here).id = "junk"
     \/ Entry(Here) \in Conversations /\ ~Selected(Entry(Here).id)
  /\ item' = item + 1
  /\ UNCHANGED <<phase, file>> /\ UNCHANGED kept

(* MissingConversationIdError, raised by the iterator, ends the import. *)
Unidentified ==
  /\ AtEntry /\ Entry(Here).id = "unidentified"
  /\ phase' = "exit 1"
  /\ UNCHANGED <<file, item>> /\ UNCHANGED kept

AtConversation == AtEntry /\ Entry(Here) \in Conversations /\ Selected(Entry(Here).id)

(* The pointer leads to a version with this content. *)
IsLatest(c, content) == archive[c] # <<>> /\ archive[c][Len(archive[c])] = content

Current == IsLatest(Entry(Here).id, Entry(Here).content)

(* The name of the next version is free. *)
Free == Entry(Here).id \notin stranded

Archived == [archive EXCEPT ![Entry(Here).id] = Append(@, Entry(Here).content)]

(* Mutant: a version is written whatever the latest one holds. *)
PersistAlways ==
  /\ AtConversation /\ Free
  /\ archive' = Archived
  /\ imported' = imported \cup {Here} /\ UNCHANGED unchanged
  /\ item' = item + 1
  /\ UNCHANGED <<phase, file, export, filter, stranded, failed, records, imports, faults>>

(* normalize, render and persist of one conversation, without an error. *)
Persist ==
  /\ AtConversation
  /\ \/ /\ Current
        /\ unchanged' = unchanged \cup {Here} /\ UNCHANGED <<archive, imported>>
     \/ /\ ~Current /\ Free
        /\ archive' = Archived
        /\ imported' = imported \cup {Here} /\ UNCHANGED unchanged
  /\ item' = item + 1
  /\ UNCHANGED <<phase, file, export, filter, stranded, failed, records, imports, faults>>

(* Mutant: the failure is told but not counted. *)
PersistFailsQuietly ==
  /\ AtConversation /\ faults < MaxFaults /\ faults' = faults + 1
  /\ item' = item + 1
  /\ UNCHANGED <<phase, file, export, filter, archive, stranded, imported, unchanged, failed,
                 records, imports>>

(* An error of this conversation: the import goes on with the next one. It *)
(* may come before the version is renamed into place, between that and the *)
(* pointer, or from the verification, when the pointer is written.         *)
PersistFails ==
  /\ AtConversation /\ faults < MaxFaults /\ faults' = faults + 1
  /\ \/ UNCHANGED <<archive, stranded>>
     \/ ~Current /\ Free /\ stranded' = stranded \cup {Entry(Here).id} /\ UNCHANGED archive
     \/ ~Current /\ Free /\ archive' = Archived /\ UNCHANGED stranded
  /\ failed' = failed \cup {Here}
  /\ item' = item + 1
  /\ UNCHANGED <<phase, file, export, filter, imported, unchanged, records, imports>>

(* The bundle of the next version exists already: a VerificationError. *)
Refuse ==
  /\ AtConversation /\ ~Current /\ ~Free
  /\ failed' = failed \cup {Here}
  /\ item' = item + 1
  /\ UNCHANGED <<phase, file, export, filter, archive, stranded, imported, unchanged, records,
                 imports, faults>>

(* The process dies between the rename of a version and its pointer. *)
KillStrands ==
  /\ AtConversation /\ ~Current /\ Free
  /\ faults < MaxFaults /\ faults' = faults + 1
  /\ stranded' = stranded \cup {Entry(Here).id} /\ phase' = "killed"
  /\ UNCHANGED <<file, item, export, filter, archive, imported, unchanged, failed, records,
                 imports>>

(* The three files of the import, and its exit code. *)
WriteManifest ==
  /\ phase = "files" /\ file \notin DOMAIN export
  /\ records' = {"manifest"} /\ phase' = "manifest"
  /\ UNCHANGED <<file, item, export, filter, archive, stranded, imported, unchanged, failed,
                 imports, faults>>

WriteIndex ==
  /\ phase = "manifest"
  /\ records' = records \cup {"index"}
  /\ phase' = IF failed # {} THEN "exit 2" ELSE "exit 0"
  /\ UNCHANGED <<file, item, export, filter, archive, stranded, imported, unchanged, failed,
                 imports, faults>>

(* The process dies, or normalize raises what nothing catches (a KeyError, *)
(* a TypeError): the conversations archived so far stay.                   *)
Kill ==
  /\ phase \in {"files", "entries", "manifest"}
  /\ faults < MaxFaults /\ faults' = faults + 1
  /\ phase' = "killed"
  /\ UNCHANGED <<file, item, export, filter, archive, stranded, imported, unchanged, failed,
                 records, imports>>

Process ==
  \/ OpenFile \/ CloseFile \/ PassOver \/ Unidentified \/ Persist \/ PersistFails
  \/ Refuse \/ WriteManifest \/ WriteIndex

Next == Discover \/ Process \/ KillStrands \/ Kill

Spec == Init /\ [][Next]_importVars
-----------------------------------------------------------------------------

TypeOK ==
  /\ phase \in {"idle", "files", "entries", "manifest", "exit 0", "exit 1", "exit 2", "killed"}
  /\ archive \in [Ids -> Seq(Contents)] /\ stranded \subseteq Ids
  /\ records \subseteq {"manifest", "index"}

(* The manifest of an import accounts for every conversation asked for,    *)
(* exactly once, and what it calls imported or unchanged is in the         *)
(* archive, whatever failed and whatever import was killed before.         *)
ManifestAccounts ==
  "manifest" \in records =>
    /\ imported \cup unchanged \cup failed = Wanted
    /\ imported \cap (unchanged \cup failed) = {} /\ unchanged \cap failed = {}
    /\ \A p \in imported \cup unchanged :
         \E v \in DOMAIN archive[Entry(p).id] : archive[Entry(p).id][v] = Entry(p).content

(* No conversation is in the export twice. *)
NoDuplicates ==
  \A p, q \in UNION {{f} \X DOMAIN export[f].entries : f \in DOMAIN export} :
    Entry(p) \in Conversations /\ Entry(q) \in Conversations /\ Entry(p).id = Entry(q).id => p = q

(* Importing an export again, also after imports that were killed, failed  *)
(* or selected one conversation, writes no second version of anything,     *)
(* neither one a pointer leads to nor one that is stranded.                *)
ReimportIdempotent ==
  NoDuplicates =>
    \A c \in Ids : Len(archive[c]) <= 1 /\ (c \in stranded => archive[c] = <<>>)
=============================================================================
