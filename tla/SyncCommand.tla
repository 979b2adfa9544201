---------------------------- MODULE SyncCommand ----------------------------
(***************************************************************************)
(* `mindcap sync`: which run a command executes, app._run_sync,            *)
(* facade.sync and RunStorage.find_resumable.  A command looks for the     *)
(* run to resume and loads its run.json before it has the run's lock; a    *)
(* run is executed under its lock, and any command may be killed.          *)
(*                                                                         *)
(* What an execution does is the business of SyncRun; here it records that *)
(* it runs and, in the end, how it ended.                                  *)
(***************************************************************************)
EXTENDS Naturals, FiniteSets

CONSTANTS
  Commands,      \* processes
  Runs,          \* run ids
  Configs,       \* fingerprints of configurations
  NoRun,         \* no run: no --run-id, no prior state
  Overlap,       \* whether a command may look for a run while another does
  MaxPlain,      \* bound: commands that do not resume an unfinished run
  MaxInterrupts  \* bound: kills, interruptions, and executions that fail

VARIABLES
  run,         \* run.json of every run: its status and fingerprint
  lock,        \* the process that holds the lock of a run
  stage,       \* what each command does
  config,      \* the configuration it was given
  chosen,      \* the run it is to execute
  prior,       \* status of the prior state it loaded
  plain,       \* commands that do not resume an unfinished run, by configuration
  interrupts

commandVars == <<run, lock, stage, config, chosen, prior, plain, interrupts>>

Statuses == {"running", "interrupted", "complete", "failed"}

(* What find_resumable offers. *)
ResumableStatus == {"running", "interrupted"}

Absent == [status |-> "absent", config |-> NoRun]

Init ==
  /\ run = [r \in Runs |-> Absent]
  /\ lock = [r \in Runs |-> NoRun]
  /\ stage = [c \in Commands |-> "off"]
  /\ config = [c \in Commands |-> NoRun]
  /\ chosen = [c \in Commands |-> NoRun]
  /\ prior = [c \in Commands |-> NoRun]
  /\ plain = [f \in Configs |-> 0]
  /\ interrupts = 0

Unfinished(f) == {r \in Runs : run[r].config = f /\ run[r].status \in {"running", "interrupted"}}

Choosing == {c \in Commands : stage[c] \notin {"off", "executing"}}

Free == {r \in Runs : run[r] = Absent /\ \A c \in Commands : chosen[c] # r}

Off(c) ==
  /\ stage' = [stage EXCEPT ![c] = "off"]
  /\ chosen' = [chosen EXCEPT ![c] = NoRun]
  /\ prior' = [prior EXCEPT ![c] = NoRun]
  /\ config' = [config EXCEPT ![c] = NoRun]

Becomes(c, st, r, p) ==
  /\ stage' = [stage EXCEPT ![c] = st]
  /\ chosen' = [chosen EXCEPT ![c] = r]
  /\ prior' = [prior EXCEPT ![c] = p]

(* A command without --resume and --run-id executes a run of its own. *)
StartPlain(c, f) ==
  /\ stage[c] = "off" /\ (Overlap \/ Choosing = {})
  /\ plain[f] < MaxPlain /\ plain' = [plain EXCEPT ![f] = @ + 1]
  /\ config' = [config EXCEPT ![c] = f]
  /\ \E r \in Free : Becomes(c, "entering", r, NoRun)
  /\ UNCHANGED <<run, lock, interrupts>>

StartResume(c, f) ==
  /\ stage[c] = "off" /\ (Overlap \/ Choosing = {})
  /\ Unfinished(f) # {} \/ Free # {}
  /\ config' = [config EXCEPT ![c] = f]
  /\ Becomes(c, "scanning", NoRun, NoRun)
  /\ UNCHANGED <<run, lock, plain, interrupts>>

(* --run-id names the run, whatever its configuration and however it ended. *)
StartNamed(c, f, r) ==
  /\ stage[c] = "off" /\ (Overlap \/ Choosing = {})
  /\ run[r] # Absent
  /\ IF run[r].status \in ResumableStatus
       THEN UNCHANGED plain
       ELSE /\ plain[run[r].config] < MaxPlain
            /\ plain' = [plain EXCEPT ![run[r].config] = @ + 1]
  /\ config' = [config EXCEPT ![c] = f]
  /\ Becomes(c, "entering", r, run[r].status)
  /\ UNCHANGED <<run, lock, interrupts>>

(* Mutant: runs whose process was killed, still "running", are not offered. *)
CandidatesInterrupted(f) == {r \in Runs : run[r].config = f /\ run[r].status = "interrupted"}

Candidates(f) == {r \in Runs : run[r].config = f /\ run[r].status \in ResumableStatus}

(* find_resumable: one candidate is resumed, none is a new run, more are   *)
(* refused.                                                                *)
Scan(c) ==
  /\ stage[c] = "scanning"
  /\ LET found == Candidates(config[c]) IN
     \/ found = {} /\ (\E r \in Free : Becomes(c, "entering", r, NoRun)) /\ UNCHANGED config
     \/ Cardinality(found) = 1 /\ (\E r \in found : Becomes(c, "loading", r, NoRun)) /\ UNCHANGED config
     \/ Cardinality(found) > 1 /\ Off(c)
     \/ found = {} /\ Free = {} /\ Off(c)   \* bound: no run id is left
  /\ UNCHANGED <<run, lock, plain, interrupts>>

(* run.json of the candidate is read a second time. *)
Load(c) ==
  /\ stage[c] = "loading"
  /\ Becomes(c, "entering", chosen[c], run[chosen[c]].status)
  /\ UNCHANGED <<run, lock, config, plain, interrupts>>

(* RunLock: refused while its holder lives, otherwise the run is entered   *)
(* and its prior state saved as running.                                   *)
Enter(c) ==
  /\ stage[c] = "entering"
  /\ LET r == chosen[c] IN
     IF lock[r] # NoRun
       THEN Off(c) /\ UNCHANGED <<run, lock>>
       ELSE /\ lock' = [lock EXCEPT ![r] = c]
            /\ run' = [run EXCEPT ![r] = [status |-> "running",
                         config |-> IF prior[c] = NoRun THEN config[c] ELSE @.config]]
            /\ stage' = [stage EXCEPT ![c] = "executing"]
            /\ UNCHANGED <<config, chosen, prior>>
  /\ UNCHANGED <<plain, interrupts>>

Ends(c, status) ==
  /\ stage[c] = "executing"
  /\ run' = [run EXCEPT ![chosen[c]].status = status]
  /\ lock' = [lock EXCEPT ![chosen[c]] = NoRun]
  /\ Off(c)
  /\ UNCHANGED plain

Finish(c) == Ends(c, "complete") /\ UNCHANGED interrupts

Interrupted == interrupts < MaxInterrupts /\ interrupts' = interrupts + 1

(* Ctrl-C, and an error that fails the run. *)
Fail(c) == Interrupted /\ \E s \in {"interrupted", "failed"} : Ends(c, s)

(* The lock of a dead process is stale; run.json says what it said. *)
Kill(c) ==
  /\ stage[c] # "off" /\ Interrupted
  /\ lock' = [r \in Runs |-> IF lock[r] = c THEN NoRun ELSE lock[r]]
  /\ Off(c)
  /\ UNCHANGED <<run, plain>>

Step(c) == Scan(c) \/ Load(c) \/ Enter(c) \/ Finish(c)

Next ==
  \E c \in Commands :
    \/ \E f \in Configs : StartPlain(c, f) \/ StartResume(c, f)
    \/ \E f \in Configs, r \in Runs : StartNamed(c, f, r)
    \/ Step(c) \/ Fail(c) \/ Kill(c)

(* Commands in progress go on, and the user resumes. *)
Spec ==
  /\ Init /\ [][Next]_commandVars
  /\ \A c \in Commands : WF_commandVars(Step(c))
  /\ \A f \in Configs : SF_commandVars(\E c \in Commands : StartResume(c, f))
-----------------------------------------------------------------------------

TypeOK ==
  /\ run \in [Runs -> [status : Statuses \cup {"absent"}, config : Configs \cup {NoRun}]]
  /\ lock \in [Runs -> Commands \cup {NoRun}]
  /\ stage \in [Commands -> {"off", "scanning", "loading", "entering", "executing"}]

(* --resume never adds a second unfinished run of one configuration, which *)
(* would make every later --resume ambiguous: only a command without it,   *)
(* or one that names a run that had ended, does.                           *)
ResumeUnambiguous == \A f \in Configs : Cardinality(Unfinished(f)) <= plain[f] + 1

(* However executions are interrupted and killed, resuming finishes the    *)
(* run, unless there are two of them, among which the user has to choose.  *)
ResumeFinishes ==
  \A f \in Configs : [](Cardinality(Unfinished(f)) <= 1) => []<>(Unfinished(f) = {})
=============================================================================
