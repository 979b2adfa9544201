----------------------------- MODULE MCArchives -----------------------------
(***************************************************************************)
(* What happens to a source from its export to its restoration, part by    *)
(* part: the parts share no state, and an execution explores one of them.  *)
(***************************************************************************)
EXTENDS MCArchiveStore

CONSTANTS
  Parts,
  Nodes, Unknown, NoNode, MaxWrong,                                     \* ConversationGraph
  ConversationIds, NoFilter, MaxFiles, MaxItems, MaxImports, MaxImportFaults,       \* ImportBatch
  Sources, Positions, MaxListed, MaxChanges, MaxPlans,                  \* SyncPlan
  Restorers, NFiles, MaxRestores, MaxKills                              \* VaultRestore

ASSUME GraphAssumption ==
  IsFiniteSet(Nodes) /\ Unknown \notin Nodes /\ NoNode \notin Nodes \cup {Unknown}
ASSUME RestoreAssumption == NFiles \in Nat
ASSUME ImportAssumption == "junk" \notin ConversationIds

VARIABLES
  part,
  parent, children, pass, colour, stack, cycles, visited, segment, walks, branches,
  export, filter, importPhase, file, item, versions, stranded, imported, unchanged, failed,
  records, imports, importFaults,
  remote, archive, listing, options, cursor, plan, phase, changes, plans,
  pack, target, temp, stage, at, overwrite, handle, receipts, original, restores, kills

Graph == INSTANCE ConversationGraph WITH MaxFaults <- MaxWrong

Import == INSTANCE ImportBatch WITH
  Ids <- ConversationIds, phase <- importPhase, archive <- versions, faults <- importFaults,
  MaxFaults <- MaxImportFaults

Planning == INSTANCE SyncPlan WITH Verifiers <- BOOLEAN

Restore == INSTANCE VaultRestore WITH Overlapping <- FALSE

graphVars == <<parent, children, pass, colour, stack, cycles, visited, segment, walks, branches>>
importVars == <<export, filter, importPhase, file, item, versions, stranded, imported, unchanged,
                failed, records, imports, importFaults>>
planVars == <<remote, archive, listing, options, cursor, plan, phase, changes, plans>>
restoreVars == <<pack, target, temp, stage, at, overwrite, handle, receipts, original, restores,
                 kills>>
all == <<part, vars, graphVars, importVars, planVars, restoreVars>>

(* The parts that are not explored have one initial state, or none. *)
MCInit ==
  /\ part \in Parts
  /\ Init /\ (part # "store" => store = SunoStore)
  /\ IF part = "graph" THEN Graph!Init ELSE
       /\ parent = 0 /\ children = 0 /\ pass = 0 /\ colour = 0 /\ stack = 0 /\ cycles = 0
       /\ visited = 0 /\ segment = 0 /\ walks = 0 /\ branches = 0
  /\ IF part = "import" THEN Import!Init ELSE
       /\ export = 0 /\ filter = 0 /\ importPhase = 0 /\ file = 0 /\ item = 0 /\ versions = 0
       /\ stranded = 0 /\ imported = 0 /\ unchanged = 0 /\ failed = 0 /\ records = 0 /\ imports = 0
       /\ importFaults = 0
  /\ Planning!Init
  /\ Restore!Init
  /\ part # "restore" => pack = {} /\ \A f \in Restore!FileIds : original[f] = "nothing"

MCNext ==
  \/ /\ part = "store" /\ Next
     /\ UNCHANGED <<part, graphVars, importVars, planVars, restoreVars>>
  \/ /\ part = "graph" /\ Graph!Next
     /\ UNCHANGED <<part, vars, importVars, planVars, restoreVars>>
  \/ /\ part = "import" /\ Import!Next
     /\ UNCHANGED <<part, vars, graphVars, planVars, restoreVars>>
  \/ /\ part = "plan" /\ Planning!Next
     /\ UNCHANGED <<part, vars, graphVars, importVars, restoreVars>>
  \/ /\ part = "restore" /\ Restore!Next
     /\ UNCHANGED <<part, vars, graphVars, importVars, planVars>>

MCSpec == MCInit /\ [][MCNext]_all

(* Where no two assets share a path, nothing tells contents apart. *)
Symmetry == MCSymmetry \cup Permutations(Contents)
-----------------------------------------------------------------------------
(* CyclesFound of ConversationGraph: a cycle of the mapping is reported,   *)
(* and nothing else is (graph.py's search by colours).                     *)
CyclesFound == part = "graph" => Graph!CyclesFound

(* CompleteMeansForest: a report that calls the mapping complete has seen  *)
(* a forest, in which the selected path leads from a root to its node.     *)
CompleteMeansForest == part = "graph" => Graph!CompleteMeansForest

(* BranchesPartition: every message a root leads to is in one branch.      *)
BranchesPartition == part = "graph" => Graph!BranchesPartition

(* ManifestAccounts of ImportBatch: the manifest of an import tells of     *)
(* every conversation that was asked for what became of it.                *)
ManifestAccounts == part = "import" => Import!ManifestAccounts

(* ReimportIdempotent: importing again archives nothing twice.             *)
ReimportIdempotent == part = "import" => Import!ReimportIdempotent

(* SkipMeansUnchanged: only what is archived whole, as listed, is skipped. *)
SkipMeansUnchanged == Planning!SkipMeansUnchanged

(* NamesHoldWhole of VaultRestore: half a file, or one that failed its     *)
(* verification, is never under its final name.                            *)
NamesHoldWhole == Restore!NamesHoldWhole

(* ReceiptMeansRestored: a receipt is written of whole units only.         *)
ReceiptMeansRestored == Restore!ReceiptMeansRestored
=============================================================================
