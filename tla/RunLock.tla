------------------------------- MODULE RunLock -------------------------------
(***************************************************************************)
(* The lock file of a sync run directory (src/mindcap/sync/locks.py).  A   *)
(* process reads the file, decides, and writes it anew: three steps that   *)
(* other processes may come between.  A process is known by its PID, which *)
(* the system may give again after a process has ended.                    *)
(***************************************************************************)
EXTENDS Naturals

CONSTANTS
  Pids,
  Overlap,     \* may two processes acquire at the same time?
  ReusePids,   \* may a PID be given again while the lock file holds it?
  MaxKills,    \* bound: kills of processes
  NoLock,      \* there is no lock file
  Torn         \* the lock file holds no JSON document

Stages == {"off", "reading", "opening", "writing", "held"}

ASSUME ConstantsAssumption ==
  /\ Overlap \in BOOLEAN
  /\ ReusePids \in BOOLEAN
  /\ MaxKills \in Nat
  /\ NoLock \notin Pids /\ Torn \notin Pids /\ NoLock # Torn

VARIABLES
  lock,    \* run.lock: the pid it holds
  stage,   \* off: no process has this PID
  kills

vars == <<lock, stage, kills>>

Init ==
  /\ lock = NoLock
  /\ stage = [p \in Pids |-> "off"]
  /\ kills = 0

To(p, st) == stage' = [stage EXCEPT ![p] = st]

(* _is_process_alive: of any process with that PID, the caller included. *)
Alive(p) == stage[p] # "off"

Acquiring(p) == stage[p] \in {"reading", "opening", "writing"}

Launch(p) ==
  /\ ~Alive(p)
  /\ Overlap \/ \A q \in Pids : ~Acquiring(q)
  /\ ReusePids \/ lock # p
  /\ To(p, "reading")
  /\ UNCHANGED <<lock, kills>>

(* Mutant: a lock file that cannot be parsed is an error. *)
RefuseTorn(p) ==
  /\ stage[p] = "reading"
  /\ lock = Torn \/ (lock \in Pids /\ Alive(lock))
  /\ To(p, "off")
  /\ UNCHANGED <<lock, kills>>

(* LockConflictError: the file names a living process. *)
Refuse(p) ==
  /\ stage[p] = "reading"
  /\ lock \in Pids /\ Alive(lock)
  /\ To(p, "off")
  /\ UNCHANGED <<lock, kills>>

(* Mutant: the owner of the lock is not looked at. *)
DecideAnyway(p) ==
  /\ stage[p] = "reading"
  /\ To(p, "opening")
  /\ UNCHANGED <<lock, kills>>

(* No lock, one that cannot be parsed, or one of a dead process. *)
Decide(p) ==
  /\ stage[p] = "reading"
  /\ lock \in Pids => ~Alive(lock)
  /\ To(p, "opening")
  /\ UNCHANGED <<lock, kills>>

(* write_text opens the file, which empties it, *)
Open(p) ==
  /\ stage[p] = "opening"
  /\ lock' = Torn
  /\ To(p, "writing")
  /\ UNCHANGED kills

(* and writes into it, even if it has been unlinked meanwhile. *)
Write(p) ==
  /\ stage[p] = "writing"
  /\ lock' = IF lock = NoLock THEN NoLock ELSE p
  /\ To(p, "held")
  /\ UNCHANGED kills

(* The file is unlinked whoever wrote it last. *)
Release(p) ==
  /\ stage[p] = "held"
  /\ lock' = NoLock
  /\ To(p, "off")
  /\ UNCHANGED kills

Kill(p) ==
  /\ Alive(p)
  /\ kills < MaxKills
  /\ kills' = kills + 1
  /\ To(p, "off")
  /\ UNCHANGED lock

Step(p) == Refuse(p) \/ Decide(p) \/ Open(p) \/ Write(p) \/ Release(p)

Next == \E p \in Pids : Launch(p) \/ Step(p) \/ Kill(p)

Spec == Init /\ [][Next]_vars

(* Processes run to their end, and one that is refused is launched again.  *)
FairSpec ==
  Spec /\ \A p \in Pids : WF_vars(Step(p)) /\ WF_vars(Launch(p))
-----------------------------------------------------------------------------
TypeOK ==
  /\ lock \in Pids \cup {NoLock, Torn}
  /\ stage \in [Pids -> Stages]
  /\ kills \in 0 .. MaxKills

(* No two processes work on one run ("prevents two concurrent processes    *)
(* from mutating the same run").                                           *)
MutualExclusion ==
  \A p, q \in Pids : stage[p] = "held" /\ stage[q] = "held" => p = q

(* While a process holds the lock the file says so: whoever comes next is  *)
(* refused, and is told the right owner.                                   *)
HolderNamed == \A p \in Pids : stage[p] = "held" => lock = p

(* "A lock is stale when the owning process no longer exists": the lock of *)
(* a killed process keeps nobody out for ever.                             *)
RunsAcquirable == []<>(\E p \in Pids : stage[p] = "held")
=============================================================================
