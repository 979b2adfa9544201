----------------------------- MODULE MCCommands -----------------------------
(***************************************************************************)
(* What a user who repeats a command can count on: the lock of a run, the  *)
(* commands that resume runs, one run and its resumptions, and a vault's   *)
(* ingestions.  They share no state here, and an execution explores one of *)
(* them.                                                                   *)
(***************************************************************************)
EXTENDS RunLock, FiniteSets

CONSTANTS
  Parts, None,
  Commands, Runs, Configs, MaxPlain, MaxInterrupts,                     \* SyncCommand
  Sources, MaxRetries, FaultKinds, MaxFaults, MaxSignals, MaxRunKills,  \* SyncRun
  Unreadable,
  Writers, Recoverers, MaxPacks, MaxGen, MaxWriterFaults, CrashPhases   \* Vault

(* A directory of runs is finite, and "no run" is neither a command nor    *)
(* what run.json says of one.                                              *)
ASSUME CommandsAssumption ==
  /\ IsFiniteSet(Runs)
  /\ None \notin Commands /\ None \notin {"running", "interrupted", "complete", "failed"}

VARIABLES
  part,
  runs, locks, stages, config, chosen, prior, plain, interrupts,
  run, archived, state, temp, step, io, descriptors, found, interrupted, dry, faults, signals,
  runKills,
  meta, writerLock, packStage, packHolds, partial, cat, seal, receipts, phase, plan, base, where,
  packSeals, todo, cur, fill, staged, file, mixed, recovering,
  writerFaults

Command == INSTANCE SyncCommand WITH
  run <- runs, lock <- locks, stage <- stages, NoRun <- None, Overlap <- FALSE

Batch == INSTANCE SyncRun WITH
  cur <- found, kills <- runKills, MaxKills <- MaxRunKills, DryRuns <- {FALSE}, NoSource <- None,
  NoRun <- None

(* The second bundle shares an object with the first. *)
Ingest == INSTANCE Vault WITH
  lock <- writerLock, seals <- packSeals, faults <- writerFaults, MaxFaults <- MaxWriterFaults,
  Bundles <- {"b1", "b2"}, Objects <- {"x", "y"}, Identity <- [b \in {"b1", "b2"} |-> b],
  Content <- [b \in {"b1", "b2"} |-> IF b = "b1" THEN {"x"} ELSE {"x", "y"}],
  Size <- [o \in {"x", "y"} |-> IF o = "x" THEN 2 ELSE 1], PackTarget <- 2,
  LongIngests <- FALSE, NoCatalog <- None, Tears <- {Torn}

commandVars == <<runs, locks, stages, config, chosen, prior, plain, interrupts>>
runVars == <<run, archived, state, temp, step, io, descriptors, found, interrupted, dry, faults,
             signals, runKills>>
vaultVars == <<meta, writerLock, packStage, packHolds, partial, cat, seal, receipts, phase, plan,
               base, where, packSeals, todo, cur, fill, staged, file, mixed, recovering,
               writerFaults>>
all == <<part, vars, commandVars, runVars, vaultVars>>

MCInit == part \in Parts /\ Init /\ Command!Init /\ Batch!Init /\ Ingest!Init

MCNext ==
  \/ part = "lock" /\ Next /\ UNCHANGED <<part, commandVars, runVars, vaultVars>>
  \/ part = "command" /\ Command!Next /\ UNCHANGED <<part, vars, runVars, vaultVars>>
  \/ part = "run" /\ Batch!Next /\ UNCHANGED <<part, vars, commandVars, vaultVars>>
  \/ part = "vault" /\ Ingest!Next /\ UNCHANGED <<part, vars, commandVars, runVars>>

(* The fairness each part states for itself. *)
MCSpec ==
  /\ MCInit /\ [][MCNext]_all
  /\ \A p \in Pids :
       WF_vars(part = "lock" /\ Step(p)) /\ WF_vars(part = "lock" /\ Launch(p))
  /\ \A c \in Commands : WF_commandVars(part = "command" /\ Command!Step(c))
  /\ \A f \in Configs :
       SF_commandVars(part = "command" /\ \E c \in Commands : Command!StartResume(c, f))
  /\ WF_runVars(part = "run" /\ Batch!Work)
  /\ WF_runVars(part = "run" /\ Batch!Start /\ Batch!Unfinished)
  /\ \A w \in Writers :
       /\ WF_vaultVars(part = "vault" /\ Ingest!Work(w))
       /\ WF_vaultVars(part = "vault" /\ Ingest!Acquire(w))
  /\ SF_vaultVars(part = "vault" /\ \E w \in Writers : Ingest!LoadCatalog(w, {"b1", "b2"}))
  /\ WF_vaultVars(part = "vault" /\ Ingest!LockGrowsStale)
  /\ \A r \in Recoverers : WF_vaultVars(part = "vault" /\ Ingest!Recover(r))
-----------------------------------------------------------------------------
(* RunsAcquirable of RunLock: a killed process keeps nobody out of a run.  *)
LocksAcquirable == part = "lock" => RunsAcquirable

(* ResumeUnambiguous of SyncCommand: --resume makes no second run.         *)
ResumeUnambiguous == Command!ResumeUnambiguous

(* ResumeFinishes: resuming, the user gets a run to its end.               *)
ResumeFinishes == part = "command" => Command!ResumeFinishes

(* EventuallyFinished of SyncRun: a run that is resumed after finitely     *)
(* many errors and kills finishes.                                         *)
EventuallyFinished == part = "run" => Batch!EventuallyFinished

(* EventuallyImported of Vault: an ingestion that is run again imports its *)
(* whole source, whatever an earlier one left behind.                      *)
EventuallyImported == part = "vault" => Ingest!EventuallyImported
=============================================================================
