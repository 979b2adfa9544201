---------------------------- MODULE VaultRestore ----------------------------
(***************************************************************************)
(* The restoration of an archive unit, vault/restore.py: file after file,  *)
(* each extracted to a temporary next to its destination, verified and     *)
(* renamed.  Restores of the same unit to the same directory follow one    *)
(* another, or overlap; a restore may be killed at any step.               *)
(***************************************************************************)
EXTENDS Naturals, FiniteSets

CONSTANTS
  Restorers,    \* processes
  NFiles,       \* files of the unit, restored in the order of their names
  Overlapping,  \* whether two restores may run at once
  MaxRestores,  \* bound: restores
  MaxKills      \* bound: kills

VARIABLES
  pack,      \* the files whose object in the packs is what the catalog says
  target,    \* what is under the final name of every file
  temp,      \* the temporary of every file
  stage,     \* what each process does
  at,        \* the file it is at
  overwrite, \* --overwrite
  handle,    \* the file its open descriptor belongs to: temporary or target
  receipts,  \* a restore receipt was written since a process last touched files
  original,  \* what was in the directory before
  restores, kills

restoreVars == <<pack, target, temp, stage, at, overwrite, handle, receipts, original,
                 restores, kills>>

FileIds == 1 .. NFiles

(* Under a name: nothing, somebody else's file, half of the object, the    *)
(* object, or an object that is not what the catalog says.                 *)
Held == {"nothing", "foreign", "half", "whole", "wrong"}

Init ==
  /\ pack \in SUBSET FileIds
  /\ original \in [FileIds -> {"nothing", "foreign"}]
  /\ target = original
  /\ temp = [f \in FileIds |-> "nothing"]
  /\ stage = [r \in Restorers |-> "off"]
  /\ at = [r \in Restorers |-> 1]
  /\ overwrite = [r \in Restorers |-> FALSE]
  /\ handle = [r \in Restorers |-> "closed"]
  /\ receipts = FALSE
  /\ restores = 0 /\ kills = 0

Running == {r \in Restorers : stage[r] # "off"}

To(r, s) == stage' = [stage EXCEPT ![r] = s]

Begin(r) ==
  /\ stage[r] = "off" /\ restores < MaxRestores
  /\ Overlapping \/ Running = {}
  /\ restores' = restores + 1
  /\ To(r, "check")
  /\ at' = [at EXCEPT ![r] = 1]
  /\ \E o \in BOOLEAN : overwrite' = [overwrite EXCEPT ![r] = o]
  /\ receipts' = FALSE
  /\ UNCHANGED <<pack, target, temp, handle, original, kills>>

(* Mutant: without --overwrite a file that exists is passed over. *)
CheckSkipping(r) ==
  /\ stage[r] = "check" /\ at[r] <= NFiles
  /\ IF target[at[r]] # "nothing" /\ ~overwrite[r]
       THEN at' = [at EXCEPT ![r] = @ + 1] /\ UNCHANGED stage
       ELSE To(r, "open") /\ UNCHANGED at
  /\ UNCHANGED <<pack, target, temp, overwrite, handle, receipts, original, restores, kills>>

(* Without --overwrite a file that exists ends the restore. *)
Check(r) ==
  /\ stage[r] = "check" /\ at[r] <= NFiles
  /\ To(r, IF target[at[r]] # "nothing" /\ ~overwrite[r] THEN "off" ELSE "open")
  /\ UNCHANGED <<pack, target, temp, at, overwrite, handle, receipts, original, restores, kills>>

(* open("wb") empties the temporary. *)
Open(r) ==
  /\ stage[r] = "open"
  /\ temp' = [temp EXCEPT ![at[r]] = "half"]
  /\ handle' = [handle EXCEPT ![r] = "temp"]
  /\ To(r, "extract")
  /\ UNCHANGED <<pack, target, at, overwrite, receipts, original, restores, kills>>

Object(f) == IF f \in pack THEN "whole" ELSE "wrong"

(* Mutant: the object is written under the final name and then verified. *)
ExtractInPlace(r) ==
  /\ stage[r] = "extract"
  /\ target' = [target EXCEPT ![at[r]] = Object(at[r])]
  /\ temp' = [temp EXCEPT ![at[r]] = Object(at[r])]
  /\ To(r, IF at[r] \in pack THEN "replace" ELSE "off")
  /\ handle' = [handle EXCEPT ![r] = "closed"]
  /\ UNCHANGED <<pack, at, overwrite, receipts, original, restores, kills>>

(* The object is written through the open descriptor, wherever its file is *)
(* by now, and its digest taken of what is read from the pack.             *)
Extract(r) ==
  /\ stage[r] = "extract"
  /\ \/ handle[r] = "temp" /\ temp' = [temp EXCEPT ![at[r]] = Object(at[r])] /\ UNCHANGED target
     \/ handle[r] = "target" /\ target' = [target EXCEPT ![at[r]] = Object(at[r])] /\ UNCHANGED temp
  /\ To(r, IF at[r] \in pack THEN "replace" ELSE "off")
  /\ handle' = [handle EXCEPT ![r] = "closed"]
  /\ UNCHANGED <<pack, at, overwrite, receipts, original, restores, kills>>

(* The rename; another restore may have renamed the temporary away.  What  *)
(* others have open under the temporary's name moves along.                *)
Replace(r) ==
  /\ stage[r] = "replace"
  /\ LET f == at[r] IN
     \/ /\ temp[f] # "nothing"
        /\ target' = [target EXCEPT ![f] = temp[f]] /\ temp' = [temp EXCEPT ![f] = "nothing"]
        /\ handle' = [q \in Restorers |->
                        IF handle[q] = "temp" /\ at[q] = f THEN "target" ELSE handle[q]]
        /\ at' = [at EXCEPT ![r] = f + 1] /\ To(r, "check")
     \/ temp[f] = "nothing" /\ To(r, "off") /\ UNCHANGED <<target, temp, handle, at>>
  /\ UNCHANGED <<pack, overwrite, receipts, original, restores, kills>>

Receipt(r) ==
  /\ stage[r] = "check" /\ at[r] > NFiles
  /\ receipts' = TRUE
  /\ To(r, "off")
  /\ UNCHANGED <<pack, target, temp, at, overwrite, handle, original, restores, kills>>

Kill(r) ==
  /\ stage[r] # "off" /\ kills < MaxKills
  /\ kills' = kills + 1
  /\ To(r, "off") /\ handle' = [handle EXCEPT ![r] = "closed"]
  /\ UNCHANGED <<pack, target, temp, at, overwrite, receipts, original, restores>>

Step(r) == Check(r) \/ Open(r) \/ Extract(r) \/ Replace(r) \/ Receipt(r)

Next == \E r \in Restorers : Begin(r) \/ Step(r) \/ Kill(r)

Spec == Init /\ [][Next]_restoreVars
-----------------------------------------------------------------------------

TypeOK ==
  /\ target \in [FileIds -> Held] /\ temp \in [FileIds -> Held]
  /\ handle \in [Restorers -> {"closed", "temp", "target"}]
  /\ at \in [Restorers -> 1 .. NFiles + 1]

(* A final name never holds half an object or one that was not verified,   *)
(* whatever restore is killed, and however damaged the packs are.          *)
NamesHoldWhole == \A f \in FileIds : target[f] \in {original[f], "whole"}

(* After a restore receipt the whole unit is in the directory. *)
ReceiptMeansRestored == receipts => \A f \in FileIds : target[f] = "whole"
=============================================================================
