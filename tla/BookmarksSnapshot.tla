-------------------------- MODULE BookmarksSnapshot --------------------------
(***************************************************************************)
(* The snapshot of Chrome's bookmarks, plugins/chrome_bookmarks/           *)
(* snapshot.py, taken without a lock while Chrome writes: a file is looked *)
(* at, read and looked at again; Bookmarks.bak is read first, Bookmarks is *)
(* tried up to three times, and the backup serves where that fails.  A     *)
(* file has two halves, each of the version that wrote it.                 *)
(***************************************************************************)
EXTENDS Naturals

CONSTANTS
  Retries,    \* attempts on Bookmarks
  MaxWrites,  \* bound: what Chrome writes
  Cut,        \* the second half of a file that is being written
  NoBytes     \* nothing was read

VARIABLES
  files,     \* what is under the two names
  mtime,     \* modified_ns: no two writes get the same
  held,      \* what an open file holds when another was renamed over it
  step,      \* where _stable_read is
  attempt,   \* 0: the backup; then the attempts; then the fallback
  before,    \* the metadata read first
  payload,   \* the bytes read so far
  backup,    \* backup_bytes
  selected,  \* selected_bytes of the result
  writes

snapshotVars ==
  <<files, mtime, held, step, attempt, before, payload, backup, selected, writes>>

Names == {"Bookmarks", "Bookmarks.bak"}

Whole(bytes) == bytes[1] = bytes[2]

(* A decoder rejects a file that stops half way; two halves of different   *)
(* versions may happen to fit.                                             *)
Parses(bytes) == bytes[2] # Cut

Init ==
  /\ files \in [Names -> {<<0, 0>>, <<0, Cut>>}]
  /\ mtime = [n \in Names |-> 0]
  /\ held = NoBytes /\ before = NoBytes /\ payload = NoBytes
  /\ backup = NoBytes /\ selected = NoBytes
  /\ step = "look" /\ attempt = 0
  /\ writes = 0

Name == IF attempt = 0 THEN "Bookmarks.bak" ELSE "Bookmarks"

Size(bytes) == IF bytes[2] = Cut THEN 1 ELSE 2

Metadata == [size |-> Size(files[Name]), modified |-> mtime[Name]]

(* What the open file holds, whether it still has its name or not. *)
Inode == IF held = NoBytes THEN files[Name] ELSE held

Chrome == <<files, mtime, writes>>

Look ==
  /\ step = "look"
  /\ before' = Metadata
  /\ step' = "open"
  /\ UNCHANGED <<Chrome, held, attempt, payload, backup, selected>>

ReadFirst ==
  /\ step = "open"
  /\ payload' = <<files[Name][1], Cut>>
  /\ step' = "read"
  /\ UNCHANGED <<Chrome, held, attempt, before, backup, selected>>

ReadRest ==
  /\ step = "read"
  /\ payload' = [payload EXCEPT ![2] = Inode[2]]
  /\ held' = NoBytes
  /\ step' = "compare"
  /\ UNCHANGED <<Chrome, attempt, before, backup, selected>>

(* Mutant: only the number of bytes is compared. *)
StableLength == Size(payload) = before.size

Stable == before = Metadata /\ Size(payload) = before.size

(* The next attempt, or the fallback where there is a backup. *)
Again ==
  IF attempt < Retries \/ (attempt = Retries /\ backup # NoBytes /\ Parses(backup))
    THEN step' = "look" /\ attempt' = attempt + 1
    ELSE step' = "failed" /\ UNCHANGED attempt

BackupRead ==
  /\ step = "compare" /\ attempt = 0
  /\ backup' = IF Stable THEN payload ELSE NoBytes
  /\ step' = "look" /\ attempt' = 1
  /\ UNCHANGED <<Chrome, held, before, payload, selected>>

Attempt ==
  /\ step = "compare" /\ attempt \in 1 .. Retries
  /\ IF Stable /\ Parses(payload)
       THEN selected' = payload /\ step' = "done" /\ UNCHANGED attempt
       ELSE Again /\ UNCHANGED selected
  /\ UNCHANGED <<Chrome, held, before, payload, backup>>

(* Bookmarks is read once more, stable or not at all, and not parsed. *)
Fallback ==
  /\ step = "compare" /\ attempt > Retries
  /\ IF Stable THEN selected' = backup /\ step' = "done" ELSE step' = "failed" /\ UNCHANGED selected
  /\ UNCHANGED <<Chrome, held, attempt, before, payload, backup>>

Snapshot == Look \/ ReadFirst \/ ReadRest \/ BackupRead \/ Attempt \/ Fallback
-----------------------------------------------------------------------------
(* Chrome *)

Writes(n, bytes) ==
  /\ writes < MaxWrites /\ writes' = writes + 1
  /\ files' = [files EXCEPT ![n] = bytes]
  /\ mtime' = [mtime EXCEPT ![n] = writes']
  /\ UNCHANGED <<step, attempt, before, payload, backup, selected>>

(* A file of its own renamed over the old, which an open descriptor keeps. *)
Replace(n) ==
  /\ Writes(n, <<writes', writes'>>)
  /\ held' = IF step = "read" /\ Name = n /\ held = NoBytes THEN files[n] ELSE held

(* The file is emptied and written again in its place, half after half. *)
Rewrite(n) == Writes(n, <<writes', Cut>>) /\ UNCHANGED held

RewriteRest(n) ==
  /\ files[n][2] = Cut
  /\ Writes(n, <<files[n][1], files[n][1]>>)
  /\ UNCHANGED held

Next == Snapshot \/ \E n \in Names : Replace(n) \/ Rewrite(n) \/ RewriteRest(n)

Spec == Init /\ [][Next]_snapshotVars
-----------------------------------------------------------------------------

(* The bytes of a snapshot are one whole version, never the halves of two: *)
(* of Bookmarks the version it holds at that moment, otherwise of the      *)
(* backup, while Bookmarks at least does not change.                       *)
SnapshotConsistent ==
  [][selected' # selected =>
       /\ Whole(selected')
       /\ attempt <= Retries => selected' = files["Bookmarks"]]_snapshotVars
=============================================================================
