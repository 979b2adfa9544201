------------------------------- MODULE SyncRun -------------------------------
(***************************************************************************)
(* One batch run of `mindcap sync` (src/mindcap/sync): the runner that     *)
(* discovers a collection, plans its sources and captures them one after   *)
(* the other, and run.json, from which a killed or interrupted run is      *)
(* resumed.  One process executes the run at a time.                       *)
(*                                                                         *)
(* A save writes a temporary file, renames it onto run.json and then       *)
(* writes the files that follow (checkpoint, report).  The process may be  *)
(* killed between any two of these steps, and so may the SIGINT handler    *)
(* run, which saves through the same temporary names.                      *)
(***************************************************************************)
EXTENDS Naturals

CONSTANTS
  Sources,      \* canonical identifiers a collection may hold
  MaxRetries,   \* CaptureItemRecord.max_retries
  DryRuns,      \* the values --dry-run may have
  FaultKinds,   \* calls that may raise: "discovery", "save" and the appending
                \* of the "start-event" or the "end-event" of an attempt
  MaxFaults,    \* bound: exceptions of these calls
  MaxSignals,   \* bound: SIGINT and SIGTERM
  MaxKills,     \* bound: kills of the process
  NoSource, NoRun, Unreadable

ItemStatus == {"absent", "planned", "capturing", "complete", "unchanged",
               "failed-terminal"}

(* CaptureItemRecord *)
Item == [status : ItemStatus, retries : 0 .. MaxRetries]

RunStatus == {"planning", "discovering", "running", "interrupted", "complete",
              "complete-with-failures", "failed"}

(* The statuses the finally of run leaves alone. *)
Final == {"complete", "complete-with-failures", "failed"}

(* BatchRunState: found are the sources discovery_result counted, complete *)
(* is its discovery_complete.                                              *)
RunState == [status   : RunStatus,
             found    : SUBSET Sources,
             complete : BOOLEAN,
             items    : [Sources -> Item]]

(* What the runner does once the save in progress has ended. *)
Steps == {"off", "discover", "discovering", "plan", "dry", "capture",
          "announce", "attempt", "record", "returned", "failed", "exit"}

(* writing: of the temporary file; following: run.json is in place;        *)
(* broken: the save is about to raise.                                     *)
Io == {"none", "writing", "following", "broken"}

ASSUME ConstantsAssumption ==
  /\ MaxRetries \in Nat
  /\ DryRuns \subseteq BOOLEAN
  /\ MaxFaults \in Nat /\ MaxSignals \in Nat /\ MaxKills \in Nat
  /\ NoSource \notin Sources
  /\ NoRun \notin RunState
  /\ Unreadable \notin RunState
  /\ NoRun # Unreadable

VARIABLES
  run,          \* run.json
  archived,     \* the sources with a published archive
  state,        \* the BatchRunState in memory
  temp,         \* what the save in progress encoded
  step, io,
  descriptors,  \* the sources to plan
  cur,          \* the source being captured
  interrupted,  \* SyncRunner._interrupted
  dry,          \* config.dry_run
  faults, signals, kills

disk == <<run, archived>>
locals == <<descriptors, cur, interrupted, dry>>
budget == <<faults, signals, kills>>
vars == <<disk, state, temp, step, io, locals, budget>>

Unplanned == [status |-> "absent", retries |-> 0]
Planned == [Unplanned EXCEPT !.status = "planned"]

InitialState == [status |-> "planning", found |-> {}, complete |-> FALSE,
                 items |-> [s \in Sources |-> Unplanned]]

(* No process is executing the run: its memory is gone. *)
Gone ==
  /\ state' = InitialState
  /\ temp' = InitialState
  /\ step' = "off"
  /\ io' = "none"
  /\ descriptors' = {}
  /\ cur' = NoSource
  /\ interrupted' = FALSE
  /\ dry' = FALSE

Init ==
  /\ run = NoRun
  /\ archived = {}
  /\ state = InitialState
  /\ temp = InitialState
  /\ step = "off"
  /\ io = "none"
  /\ descriptors = {}
  /\ cur = NoSource
  /\ interrupted = FALSE
  /\ dry = FALSE
  /\ faults = 0 /\ signals = 0 /\ kills = 0

Settled(x) == {s \in Sources : x.items[s].status \in {"complete", "unchanged"}}
Failed(x) == {s \in Sources : x.items[s].status = "failed-terminal"}
Waiting(x) == {s \in Sources : x.items[s].status = "planned"}

Records == {s \in Sources : state.items[s].status # "absent"}
-----------------------------------------------------------------------------
(* save_state *)

(* Mutant: run.json itself is opened for writing. *)
SaveInPlace(x, next) ==
  /\ state' = x
  /\ temp' = x
  /\ io' = "writing"
  /\ step' = next
  /\ run' = Unreadable

(* x becomes the state and its save begins; next comes after the save. *)
Save(x, next) ==
  /\ state' = x
  /\ temp' = x
  /\ io' = "writing"
  /\ step' = next
  /\ UNCHANGED run

At(st) == step = st /\ io = "none"

Replace ==
  /\ io = "writing"
  /\ run' = temp
  /\ io' = "following"
  /\ UNCHANGED <<archived, state, temp, step, locals, budget>>

Saved ==
  /\ io = "following"
  /\ io' = "none"
  /\ UNCHANGED <<disk, state, temp, step, locals, budget>>

(* run's except clause: the run has failed, and that is saved too. *)
Raise == Save([state EXCEPT !.status = "failed"], "failed")

(* A save raises: within the try block that fails the run; in its except   *)
(* clause the finally is next; in the finally the process ends.            *)
SaveRaises ==
  /\ io = "broken"
  /\ \/ step \notin {"failed", "exit"} /\ Raise /\ UNCHANGED locals
     \/ /\ step = "failed"
        /\ io' = "none"
        /\ UNCHANGED <<run, state, temp, step, locals>>
     \/ step = "exit" /\ Gone /\ UNCHANGED run
  /\ UNCHANGED <<archived, budget>>
-----------------------------------------------------------------------------
(* run and _run_body, up to the plan *)

(* A new run, or one resumed with --run-id from whatever run.json holds.   *)
Start ==
  /\ step = "off"
  /\ run # Unreadable
  /\ IF run = NoRun
       THEN Save(InitialState, "discover")
       ELSE Save([run EXCEPT !.status = "running"], "discover")
  /\ dry' \in DryRuns
  /\ UNCHANGED <<archived, descriptors, cur, interrupted, budget>>

(* With a complete discovery result there is nothing to discover: the      *)
(* descriptors are those of the items.                                     *)
Discover ==
  /\ At("discover")
  /\ IF state.complete
       THEN /\ step' = "plan"
            /\ descriptors' = Records
            /\ UNCHANGED <<run, state, temp, io>>
       ELSE /\ Save([state EXCEPT !.status = "discovering"], "discovering")
            /\ UNCHANGED descriptors
  /\ UNCHANGED <<archived, cur, interrupted, dry, budget>>

(* The discovery strategy returns descriptors for D and says whether it    *)
(* reached the end of the collection.                                      *)
Discovered(D, complete) ==
  /\ At("discovering")
  /\ Save([state EXCEPT !.found = D, !.complete = complete], "plan")
  /\ descriptors' = D
  /\ UNCHANGED <<archived, cur, interrupted, dry, budget>>

(* _InterruptedError *)
InterruptedBeforePlan ==
  /\ At("plan")
  /\ interrupted
  /\ step' = "returned"
  /\ UNCHANGED <<disk, state, temp, io, locals, budget>>

(* build_plan makes a new record for every descriptor, resumed or not. *)
Plan ==
  /\ At("plan")
  /\ ~interrupted
  /\ Save([state EXCEPT !.status = "running",
                        !.items = [s \in Sources |->
                                     IF s \in descriptors THEN Planned ELSE Unplanned]],
          IF dry THEN "dry" ELSE "capture")
  /\ UNCHANGED <<archived, locals, budget>>

DryRunComplete ==
  /\ At("dry")
  /\ Save([state EXCEPT !.status = "complete"], "returned")
  /\ UNCHANGED <<archived, locals, budget>>
-----------------------------------------------------------------------------
(* The capture loop and _capture_item *)

SetItem(item) == state' = [state EXCEPT !.items[cur] = item]

(* Mutant: the loop does not look at _interrupted. *)
FinalizeUninterrupted ==
  /\ At("capture")
  /\ interrupted \/ Waiting(state) = {}
  /\ Save([state EXCEPT !.status = IF Failed(state) # {}
                                     THEN "complete-with-failures"
                                     ELSE "complete"], "returned")
  /\ UNCHANGED <<archived, locals, budget>>

(* Sources are planned in the order of the collection; any order here. *)
StartItem(s) ==
  /\ At("capture")
  /\ ~interrupted
  /\ s \in Waiting(state)
  /\ state' = [state EXCEPT !.items[s].status = "capturing"]
  /\ cur' = s
  /\ step' = "announce"
  /\ UNCHANGED <<disk, temp, io, descriptors, interrupted, dry, budget>>

(* The item-started event of an attempt. *)
Announce ==
  /\ At("announce")
  /\ step' = "attempt"
  /\ UNCHANGED <<disk, state, temp, io, locals, budget>>

(* Mutant: the archive is persisted after the item is recorded. *)
CaptureRecordedFirst(st) ==
  /\ At("attempt")
  /\ st = "unchanged" => cur \in archived
  /\ SetItem([state.items[cur] EXCEPT !.status = st])
  /\ step' = "record"
  /\ UNCHANGED <<disk, temp, io, locals, budget>>

(* capture, normalize, render, persist; the archive store answers          *)
(* unchanged when the latest archive holds the same content.               *)
CaptureSucceeds(st) ==
  /\ At("attempt")
  /\ st = "unchanged" => cur \in archived
  /\ archived' = archived \cup {cur}
  /\ SetItem([state.items[cur] EXCEPT !.status = st])
  /\ step' = "record"
  /\ UNCHANGED <<run, temp, io, locals, budget>>

(* An authentication error, an error that is not retryable, the last of    *)
(* the retries, or an archive that is only partial: it is kept, as is one  *)
(* whose verification fails after its publication.                         *)
CaptureFails ==
  /\ At("attempt")
  /\ archived' \in {archived, archived \cup {cur}}
  /\ SetItem([state.items[cur] EXCEPT !.status = "failed-terminal"])
  /\ step' = "record"
  /\ UNCHANGED <<run, temp, io, locals, budget>>

(* Mutant: retries are not counted. *)
CaptureRetriedForever ==
  /\ At("attempt")
  /\ state.items[cur].retries < MaxRetries
  /\ archived' \in {archived, archived \cup {cur}}
  /\ UNCHANGED state
  /\ step' = "record"
  /\ UNCHANGED <<run, temp, io, locals, budget>>

(* A retryable error, whether or not the run has been interrupted. *)
CaptureRetried ==
  /\ At("attempt")
  /\ state.items[cur].retries < MaxRetries
  /\ archived' \in {archived, archived \cup {cur}}
  /\ SetItem([state.items[cur] EXCEPT !.retries = @ + 1])
  /\ step' = "record"
  /\ UNCHANGED <<run, temp, io, locals, budget>>

(* The event that ends an attempt, and the save that ends an item. *)
Record ==
  /\ At("record")
  /\ IF state.items[cur].status = "capturing"
       THEN /\ step' = "announce"
            /\ UNCHANGED <<run, state, temp, io, cur>>
       ELSE /\ Save(state, "capture")
            /\ cur' = NoSource
  /\ UNCHANGED <<archived, descriptors, interrupted, dry, budget>>

Finalize ==
  /\ At("capture")
  /\ interrupted \/ Waiting(state) = {}
  /\ Save([state EXCEPT !.status = IF interrupted THEN "interrupted"
                                   ELSE IF Failed(state) # {}
                                     THEN "complete-with-failures"
                                     ELSE "complete"], "returned")
  /\ UNCHANGED <<archived, locals, budget>>

(* Mutant: only a run that completed is saved on the way out. *)
LeaveUnsaved ==
  /\ io = "none"
  /\ step \in {"returned", "failed"}
  /\ Gone
  /\ UNCHANGED <<disk, budget>>

(* The finally of run, and the end of the process. *)
Leave ==
  /\ io = "none"
  /\ step \in {"returned", "failed"}
  /\ IF state.status \in Final
       THEN Gone /\ UNCHANGED run
       ELSE /\ Save(IF interrupted THEN [state EXCEPT !.status = "interrupted"]
                                   ELSE state, "exit")
            /\ UNCHANGED locals
  /\ UNCHANGED <<archived, budget>>

Exit ==
  /\ At("exit")
  /\ Gone
  /\ UNCHANGED <<disk, budget>>
-----------------------------------------------------------------------------
(* Faults *)

Fault(kind) ==
  /\ kind \in FaultKinds
  /\ faults < MaxFaults
  /\ faults' = faults + 1
  /\ UNCHANGED <<signals, kills>>

DiscoveryFails ==
  /\ At("discovering")
  /\ Raise
  /\ Fault("discovery")
  /\ UNCHANGED <<archived, locals>>

(* An item event cannot be appended.  The item-started event is outside    *)
(* the try block of _capture_item; once the item is complete the except    *)
(* clause raises anew, for complete has no transition to failed.           *)
EventFails ==
  /\ \/ At("announce") /\ Fault("start-event")
     \/ At("record") /\ Fault("end-event")
  /\ Raise
  /\ UNCHANGED <<archived, locals>>

SaveFails ==
  /\ io \in {"writing", "following"}
  /\ io' = "broken"
  /\ Fault("save")
  /\ UNCHANGED <<disk, state, temp, step, locals>>

(* The handler marks the run interrupted and saves it, through the         *)
(* temporary files of the save it may interrupt.  If these were open, that *)
(* save finds its file renamed away and raises; what it had buffered may   *)
(* by then have been written over what the handler put in run.json.        *)
Signal ==
  LET x == [state EXCEPT !.status = "interrupted"] IN
  /\ step # "off"
  /\ signals < MaxSignals
  /\ signals' = signals + 1
  /\ interrupted' = TRUE
  /\ state' = x
  /\ \/ run' = x /\ io' = io
     \/ io \in {"writing", "following"} /\ run' = x /\ io' = "broken"
     \/ io = "writing" /\ run' = Unreadable /\ io' = "broken"
  /\ UNCHANGED <<archived, temp, step, descriptors, cur, dry, faults, kills>>

Kill ==
  /\ step # "off"
  /\ kills < MaxKills
  /\ kills' = kills + 1
  /\ Gone
  /\ UNCHANGED <<disk, faults, signals>>
-----------------------------------------------------------------------------
Attempt ==
  \/ \E st \in {"complete", "unchanged"} : CaptureSucceeds(st)
  \/ CaptureFails
  \/ CaptureRetried

Work ==
  \/ Replace \/ Saved \/ SaveRaises
  \/ Discover
  \/ \E D \in SUBSET Sources, complete \in BOOLEAN : Discovered(D, complete)
  \/ InterruptedBeforePlan \/ Plan \/ DryRunComplete
  \/ \E s \in Sources : StartItem(s)
  \/ Announce \/ Attempt \/ Record
  \/ Finalize \/ Leave \/ Exit

Next ==
  \/ Start \/ Work
  \/ DiscoveryFails \/ EventFails \/ SaveFails
  \/ Signal \/ Kill

Spec == Init /\ [][Next]_vars

(* A running process keeps running, and the user resumes a run that has    *)
(* not finished.                                                           *)
Unfinished == run \in {NoRun, Unreadable} \/ run.status \notin {"complete", "complete-with-failures"}

FairSpec == Spec /\ WF_vars(Work) /\ WF_vars(Start /\ Unfinished)
-----------------------------------------------------------------------------
(* Properties *)

TypeOK ==
  /\ run \in RunState \cup {NoRun, Unreadable}
  /\ archived \subseteq Sources
  /\ state \in RunState
  /\ temp \in RunState
  /\ step \in Steps
  /\ io \in Io
  /\ descriptors \subseteq Sources
  /\ cur \in Sources \cup {NoSource}
  /\ interrupted \in BOOLEAN
  /\ dry \in BOOLEAN
  /\ faults \in 0 .. MaxFaults
  /\ signals \in 0 .. MaxSignals
  /\ kills \in 0 .. MaxKills

Readable == run \in RunState

(* A state that says the run is over leaves no source behind: each is      *)
(* captured, or failed and the status says so; or it was a dry run, which  *)
(* captures none.                                                          *)
Accounted(x) ==
  /\ x.status = "complete" =>
       \/ \A s \in Sources : x.items[s].status \in {"absent", "complete", "unchanged"}
       \/ \A s \in Sources : x.items[s].status \in {"absent", "planned"}
  /\ x.status = "complete-with-failures" =>
       /\ Failed(x) # {}
       /\ \A s \in Sources : x.items[s].status \notin {"planned", "capturing"}

(* What --resume no longer offers (find_resumable) has nothing to resume,  *)
(* whatever signals, kills and errors came on the way.                     *)
FinishedRunsAccounted == Readable => Accounted(run)

(* run.json never reports a source captured that has no archive. *)
CapturesArchived == Readable => Settled(run) \subseteq archived

(* One error or one signal never leaves a run that still claims to be      *)
(* under way (run's except clause and its finally).                        *)
ExitStatusRecorded ==
  step = "off" /\ run # NoRun /\ kills = 0 /\ faults + signals <= 1 =>
    Readable /\ run.status \in Final \cup {"interrupted"}

(* Kills and errors, in any save, leave run.json a document that can be    *)
(* read (save_state, _atomic_json).                                        *)
StateFileReadable == signals = 0 => run # Unreadable

(* "Handles Ctrl+C (SIGINT) and SIGTERM gracefully": a signal does not     *)
(* turn a run in which nothing went wrong into a failed one.               *)
SignalsAreGraceful == faults = 0 => state.status # "failed"

(* A run that reports success accounts for every source discovered; after  *)
(* an interruption, "unstarted items remain planned and can be captured on *)
(* resume".                                                                *)
DiscoveredAccounted ==
  Readable /\ run.status = "complete" =>
    \A s \in run.found : run.items[s].status # "absent"

(* Resumed after finitely many faults, a run finishes. *)
EventuallyFinished == <>(~Unfinished /\ step = "off")
=============================================================================
